---------------------------- MODULE EventsProofs ----------------------------
(***************************************************************************)
(* The event pipeline and its reader implement the log of module EventLog, *)
(* proved for every set of users, every number of events and every batch   *)
(* size: whatever fails, and whenever the MudSystem goes away.             *)
(*                                                                         *)
(* And MockStorage answers as RedisStorage does after any calls, from      *)
(* anybody, in which no key is used for two types: the tests of the MUD,   *)
(* which run on the one, say something of the MUD, which runs on the other.*)
(***************************************************************************)
EXTENDS Events, Storage, SharedLemmas

Mail == Event \cup {Exit}

(***************************************************************************)
(* The parts of the inductive invariant.                                   *)
(***************************************************************************)
\* Before the destructor runs there is a user of the MudSystem, both actors are up
\* and nobody has been told to exit.
WhileHeld ==
  destructor = "waiting" =>
    /\ holders # {}
    /\ recorder = "up" /\ storage = "up"
    /\ sbox \in Seq(Event) /\ rbox \in Seq(Event)

\* Place k of a mailbox is where it is told to exit, the only one.
ExitAt(s, k) ==
  /\ k \in DOMAIN s /\ s[k] = Exit
  /\ \A j \in DOMAIN s : s[j] = Exit => j = k

\* Afterwards nobody records, and the storage has one exit message, until it is down.
Afterwards ==
  destructor # "waiting" =>
    /\ holders = {}
    /\ storage = "up" => \E k \in DOMAIN sbox : ExitAt(sbox, k)
    /\ storage = "down" => sbox = <<>>

\* The reader has read the stream up to its position.
ReadSoFar == seen = SubSeq(stream, 1, position)

EventsInv == WhileHeld /\ Afterwards /\ ReadSoFar
-----------------------------------------------------------------------------
(***************************************************************************)
(* The messages in front of the exit.                                      *)
(***************************************************************************)
\* The message that ends an actor is none of the events.
LEMMA ExitIsNoEvent == Exit \notin Event
BY DEF Exit, Event, Kinds

\* The part of a mailbox that will be handled.
LEMMA BeforeAt ==
  ASSUME NEW s \in Seq(Mail), NEW k, ExitAt(s, k)
  PROVE  /\ k \in 1..Len(s) /\ Len(s) \in Nat
         /\ BeforeExit(s) = SubSeq(s, 1, k - 1)
         /\ BeforeExit(s) \in Seq(Event) /\ Len(BeforeExit(s)) = k - 1
         /\ \A i \in 1..(k - 1) : BeforeExit(s)[i] = s[i]
<1>1. k \in 1..Len(s) /\ Len(s) \in Nat /\ DOMAIN s = 1..Len(s)
  BY LenProperties DEF ExitAt
<1>2. (CHOOSE j \in DOMAIN s : s[j] = Exit) = k
  BY DEF ExitAt
<1>3. BeforeExit(s) = SubSeq(s, 1, k - 1)
  BY <1>2 DEF BeforeExit, ExitAt
<1>4. \A i \in 1..(k - 1) : s[i] \in Event
  <2> TAKE i \in 1..(k - 1)
  <2>1. i \in DOMAIN s /\ s[i] \in Mail
    BY <1>1, ElementOfSeq
  <2> QED
    BY <1>1, <2>1 DEF ExitAt, Mail
<1>5. /\ SubSeq(s, 1, k - 1) \in Seq(Event)
      /\ Len(SubSeq(s, 1, k - 1)) = IF 1 <= k - 1 THEN (k - 1) - 1 + 1 ELSE 0
      /\ \A i \in 1..((k - 1) - 1 + 1) : SubSeq(s, 1, k - 1)[i] = s[1 + i - 1]
  <2>1. 1 \in Int /\ k - 1 \in Int
    BY <1>1
  <2> QED
    BY <1>4, <2>1, SubSeqProperties
<1> QED
  BY <1>1, <1>3, <1>5

\* The storage takes a message that is not its exit.
LEMMA BeforeTaken ==
  ASSUME NEW s \in Seq(Mail), NEW k, ExitAt(s, k), s # <<>>, Head(s) # Exit
  PROVE  /\ ExitAt(Tail(s), k - 1)
         /\ BeforeExit(s) # <<>> /\ Head(BeforeExit(s)) = Head(s)
         /\ BeforeExit(Tail(s)) = Tail(BeforeExit(s))
<1>1. /\ Tail(s) \in Seq(Mail) /\ Head(s) = s[1] /\ Len(s) \in Nat
      /\ DOMAIN s = 1..Len(s) /\ DOMAIN Tail(s) = 1..(Len(s) - 1)
      /\ \A i \in DOMAIN Tail(s) : i + 1 \in DOMAIN s /\ Tail(s)[i] = s[i + 1]
      /\ \A i \in DOMAIN s : i # 1 => i - 1 \in DOMAIN Tail(s) /\ Tail(s)[i - 1] = s[i]
  BY TailIndices
<1>2. k \in 1..Len(s) /\ k # 1
  BY <1>1 DEF ExitAt
<1>3. ExitAt(Tail(s), k - 1)
  BY <1>1, <1>2 DEF ExitAt
<1>4. /\ BeforeExit(s) \in Seq(Event) /\ Len(BeforeExit(s)) = k - 1
      /\ \A i \in 1..(k - 1) : BeforeExit(s)[i] = s[i]
  BY BeforeAt
<1>5. BeforeExit(s) # <<>> /\ Head(BeforeExit(s)) = Head(s)
  BY <1>1, <1>2, <1>4
<1>6. /\ BeforeExit(Tail(s)) \in Seq(Event) /\ Len(BeforeExit(Tail(s))) = k - 1 - 1
      /\ \A i \in 1..(k - 1 - 1) : BeforeExit(Tail(s))[i] = Tail(s)[i]
  BY <1>1, <1>3, BeforeAt
<1>7. /\ Tail(BeforeExit(s)) \in Seq(Event) /\ Len(Tail(BeforeExit(s))) = k - 1 - 1
      /\ \A i \in 1..(k - 1 - 1) : Tail(BeforeExit(s))[i] = BeforeExit(s)[i + 1]
  BY <1>4, <1>5, HeadTailProperties
<1>8. \A i \in 1..(k - 1 - 1) : BeforeExit(Tail(s))[i] = Tail(BeforeExit(s))[i]
  BY <1>1, <1>2, <1>4, <1>6, <1>7
<1>9. BeforeExit(Tail(s)) = Tail(BeforeExit(s))
  BY <1>6, <1>7, <1>8, SeqEqual
<1> QED
  BY <1>3, <1>5, <1>9

\* The storage is sent an event behind its exit.
LEMMA BeforeSent ==
  ASSUME NEW s \in Seq(Mail), NEW k, ExitAt(s, k), NEW e \in Mail, e # Exit
  PROVE  ExitAt(Append(s, e), k) /\ BeforeExit(Append(s, e)) = BeforeExit(s)
<1>1. k \in 1..Len(s) /\ Len(s) \in Nat /\ DOMAIN s = 1..Len(s)
  BY LenProperties DEF ExitAt
<1>2. /\ Append(s, e) \in Seq(Mail) /\ Len(Append(s, e)) = Len(s) + 1
      /\ DOMAIN Append(s, e) = 1..(Len(s) + 1)
      /\ \A i \in 1..Len(s) : Append(s, e)[i] = s[i]
      /\ Append(s, e)[Len(s) + 1] = e
  BY AppendProperties, LenProperties
<1>3. ExitAt(Append(s, e), k)
  BY <1>1, <1>2 DEF ExitAt
<1>4. /\ BeforeExit(s) \in Seq(Event) /\ Len(BeforeExit(s)) = k - 1
      /\ \A i \in 1..(k - 1) : BeforeExit(s)[i] = s[i]
  BY BeforeAt
<1>5. /\ BeforeExit(Append(s, e)) \in Seq(Event) /\ Len(BeforeExit(Append(s, e))) = k - 1
      /\ \A i \in 1..(k - 1) : BeforeExit(Append(s, e))[i] = Append(s, e)[i]
  BY <1>2, <1>3, BeforeAt
<1>6. \A i \in 1..(k - 1) : BeforeExit(Append(s, e))[i] = BeforeExit(s)[i]
  BY <1>1, <1>2, <1>4, <1>5
<1> QED
  BY <1>3, <1>4, <1>5, <1>6, SeqEqual

\* The storage is told to exit.
LEMMA BeforeTold ==
  ASSUME NEW s \in Seq(Event)
  PROVE  ExitAt(Append(s, Exit), Len(s) + 1) /\ BeforeExit(Append(s, Exit)) = s
<1>1. s \in Seq(Mail)
  BY SeqMonotonic DEF Mail
<1>2. Len(s) \in Nat /\ \A i \in 1..Len(s) : s[i] \in Event
  BY LenProperties, ElementOfSeq
<1>3. /\ Append(s, Exit) \in Seq(Mail) /\ Len(Append(s, Exit)) = Len(s) + 1
      /\ DOMAIN Append(s, Exit) = 1..(Len(s) + 1)
      /\ \A i \in 1..Len(s) : Append(s, Exit)[i] = s[i]
      /\ Append(s, Exit)[Len(s) + 1] = Exit
  BY <1>1, AppendProperties, LenProperties DEF Mail
<1>4. ExitAt(Append(s, Exit), Len(s) + 1)
  BY <1>2, <1>3, ExitIsNoEvent DEF ExitAt
<1>5. PICK k : k = Len(s) + 1
  OBVIOUS
<1>6. /\ BeforeExit(Append(s, Exit)) \in Seq(Event)
      /\ Len(BeforeExit(Append(s, Exit))) = k - 1
      /\ \A i \in 1..(k - 1) : BeforeExit(Append(s, Exit))[i] = Append(s, Exit)[i]
  BY <1>3, <1>4, <1>5, BeforeAt
<1>7. Len(BeforeExit(Append(s, Exit))) = Len(s)
      /\ \A i \in 1..Len(s) : BeforeExit(Append(s, Exit))[i] = s[i]
  BY <1>2, <1>3, <1>5, <1>6
<1>8. BeforeExit(Append(s, Exit)) = s
  BY <1>6, <1>7, SeqEqual
<1> QED
  BY <1>4, <1>8
-----------------------------------------------------------------------------
(***************************************************************************)
(* The reader.                                                             *)
(***************************************************************************)
\* XREAD returns the entries behind the position, a batch of them at most.
LEMMA Batched ==
  ASSUME stream \in Seq(Event), position \in 0..Len(stream), position < Len(stream), ReadSoFar
  PROVE  \E n \in (position + 1)..Len(stream) :
           /\ position + Len(Xread(position)) = n
           /\ seen \o Xread(position) = SubSeq(stream, 1, n)
<1>1. Len(stream) \in Nat /\ Batch \in Nat \ {0} /\ position \in Nat
  BY LenProperties, BatchAssumption
<1>2. PICK n \in (position + 1)..Len(stream) : Xread(position) = SubSeq(stream, position + 1, n)
  <2>1. CASE position + Batch < Len(stream)
    <3>1. /\ position + Batch \in (position + 1)..Len(stream)
          /\ Xread(position) = SubSeq(stream, position + 1, position + Batch)
      BY <1>1, <2>1 DEF Xread
    <3> QED
      BY <3>1
  <2>2. CASE ~(position + Batch < Len(stream))
    <3>1. /\ Len(stream) \in (position + 1)..Len(stream)
          /\ Xread(position) = SubSeq(stream, position + 1, Len(stream))
      BY <1>1, <2>2 DEF Xread
    <3> QED
      BY <3>1
  <2> QED
    BY <2>1, <2>2
<1>3. Len(SubSeq(stream, position + 1, n)) = n - (position + 1) + 1
  <2>1. \A i \in (position + 1)..n : stream[i] \in Event
    BY <1>1, ElementOfSeq
  <2>2. position + 1 \in Int /\ n \in Int /\ position + 1 <= n
    BY <1>1
  <2> QED
    BY <2>1, <2>2, SubSeqProperties
<1>4. SubSeq(stream, 1, position) \o SubSeq(stream, position + 1, n) = SubSeq(stream, 1, n)
  <2>1. 1 \in 1..(Len(stream) + 1) /\ position \in (1 - 1)..Len(stream) /\ n \in position..Len(stream)
    BY <1>1
  <2> QED
    BY <2>1, ConcatAdjacentSubSeq
<1>5. position + Len(Xread(position)) = n /\ seen \o Xread(position) = SubSeq(stream, 1, n)
  BY <1>1, <1>2, <1>3, <1>4 DEF ReadSoFar
<1> QED
  BY <1>5

\* What has been read stays a beginning of the stream when the stream grows.
LEMMA StreamGrows ==
  ASSUME stream \in Seq(Event), position \in 0..Len(stream), ReadSoFar,
         NEW e \in Event, stream' = Append(stream, e), UNCHANGED <<position, seen>>
  PROVE  stream' \in Seq(Event) /\ position' \in 0..Len(stream') /\ ReadSoFar'
<1>1. /\ Append(stream, e) \in Seq(Event) /\ Len(Append(stream, e)) = Len(stream) + 1
      /\ Append(stream, e) = stream \o <<e>> /\ <<e>> \in Seq(Event) /\ Len(stream) \in Nat
  BY AppendProperties, AppendIsConcat, LenProperties
<1>2. SubSeq(stream \o <<e>>, 1, position) = SubSeq(stream, 1, position)
  <2>1. CASE position = 0
    BY <2>1, SubSeqEmpty
  <2>2. CASE position # 0
    <3>1. 1 \in 1..Len(stream) /\ position \in 1..Len(stream)
      BY <1>1, <2>2
    <3> QED
      BY <1>1, <3>1, SubSeqOfConcat1
  <2> QED
    BY <2>1, <2>2
<1> QED
  BY <1>1, <1>2 DEF ReadSoFar
-----------------------------------------------------------------------------
(***************************************************************************)
(* Every action keeps the invariant.                                       *)
(***************************************************************************)
\* What Head and Tail of a mailbox are.
LEMMA TakenFrom ==
  ASSUME NEW box \in Seq(Mail), box # <<>>
  PROVE  /\ Head(box) \in Mail /\ Tail(box) \in Seq(Mail)
         /\ Head(box) # Exit => Head(box) \in Event
         /\ box \in Seq(Event) => Head(box) \in Event /\ Tail(box) \in Seq(Event)
<1>1. Head(box) \in Mail /\ Tail(box) \in Seq(Mail)
  BY HeadTailProperties
<1>2. box \in Seq(Event) => Head(box) \in Event /\ Tail(box) \in Seq(Event)
  BY HeadTailProperties
<1> QED
  BY <1>1, <1>2 DEF Mail

\* What the storage does with an event, as far as its mailbox and the stream go.
Worked ==
  /\ storage = "up" /\ sbox # <<>> /\ Head(sbox) # Exit
  /\ sbox' = Tail(sbox)
  /\ stream' \in {stream, Append(stream, Head(sbox))}
  /\ link' \in {link, "broken"} /\ faults' \in {faults, TRUE}
  /\ UNCHANGED <<holders, destructor, recorder, rbox, storage, recorded, outVars>>

\* Whatever becomes of an event in the storage, it is Worked through.
LEMMA StorageWorks ==
  ASSUME EventStored \/ EventRefused \/ EventUnanswered \/ EventNotSent
  PROVE  Worked
BY DEF EventStored, EventRefused, EventUnanswered, EventNotSent, StorageTakes, Worked

\* No step leaves the types or the inductive invariant.
LEMMA EventsStep ==
  ASSUME TypeOK, EventsInv, [Next]_vars
  PROVE  TypeOK' /\ EventsInv'
<1> USE DEF outVars
<1>t. /\ rbox \in Seq(Mail) /\ sbox \in Seq(Mail) /\ Seq(Mail) = Seq(Event \cup {Exit})
      /\ stream \in Seq(Event) /\ recorded \in Seq(Event) /\ Exit \in Mail /\ Event \subseteq Mail
      /\ <<>> \in Seq(Event \cup {Exit})
  BY EmptySeq DEF TypeOK, Mail
<1>1. ASSUME NEW u \in Users, NEW k \in Kinds, Record(u, k)
      PROVE  TypeOK' /\ EventsInv'
  <2>1. /\ destructor = "waiting" /\ recorder = "up" /\ rbox \in Seq(Event)
    BY <1>1 DEF Record, EventsInv, WhileHeld, Afterwards
  <2>2. PICK e \in Event : recorded' = Append(recorded, e) /\ rbox' = Append(rbox, e)
    <3>1. Len(recorded) \in Nat /\ Len(recorded) < MaxEvents /\ MaxEvents \in Nat
      BY <1>1, <1>t, LenProperties, MaxEventsAssumption DEF Record
    <3>2. Len(recorded) + 1 \in 1..MaxEvents
      BY <3>1
    <3>3. [event |-> k, username |-> u, n |-> Len(recorded) + 1] \in Event
      BY <3>2 DEF Event
    <3> QED
      BY <1>1, <2>1, <3>3 DEF Record
  <2>3. rbox' \in Seq(Event) /\ rbox' \in Seq(Mail) /\ recorded' \in Seq(Event)
    BY <1>t, <2>1, <2>2, AppendProperties
  <2>4. UNCHANGED <<holders, destructor, recorder, storage, sbox, link, stream, faults, outVars>>
    BY <1>1 DEF Record
  <2>5. TypeOK'
    BY <1>t, <2>3, <2>4 DEF TypeOK
  <2>6. EventsInv'
    BY <2>1, <2>3, <2>4 DEF EventsInv, WhileHeld, Afterwards, ReadSoFar
  <2> QED
    BY <2>5, <2>6
<1>2. ASSUME NEW h \in Users \cup {Main}, Release(h)
      PROVE  TypeOK' /\ EventsInv'
  <2>1. /\ h \in holders /\ holders' = holders \ {h} /\ destructor = "waiting"
        /\ sbox \in Seq(Event) /\ recorder = "up" /\ storage = "up" /\ rbox \in Seq(Event)
        /\ UNCHANGED <<recorder, rbox, storage, link, stream, recorded, faults, outVars>>
    BY <1>2 DEF Release, EventsInv, WhileHeld, Afterwards
  <2>2. CASE holders = {h}
    <3>1. destructor' = "storage told" /\ sbox' = Append(sbox, Exit) /\ holders' = {}
      BY <1>2, <2>2 DEF Release
    <3>2. sbox' \in Seq(Mail)
      BY <1>t, <3>1, AppendProperties
    <3>3. ExitAt(sbox', Len(sbox) + 1)
      BY <2>1, <3>1, BeforeTold
    <3>4. \E k \in DOMAIN sbox' : ExitAt(sbox', k)
      BY <3>3 DEF ExitAt
    <3>5. TypeOK'
      BY <1>t, <2>1, <3>1, <3>2 DEF TypeOK
    <3>6. EventsInv'
      BY <2>1, <3>1, <3>4 DEF EventsInv, WhileHeld, Afterwards, ReadSoFar
    <3> QED
      BY <3>5, <3>6
  <2>3. CASE holders # {h}
    <3>1. UNCHANGED <<destructor, sbox>> /\ holders' # {}
      BY <1>2, <2>1, <2>3 DEF Release
    <3>2. TypeOK'
      BY <2>1, <3>1 DEF TypeOK
    <3>3. EventsInv'
      BY <2>1, <3>1 DEF EventsInv, WhileHeld, Afterwards, ReadSoFar
    <3> QED
      BY <3>2, <3>3
  <2> QED
    BY <2>2, <2>3
<1>3. CASE TellRecorder
  <2>1. rbox' \in Seq(Mail)
    BY <1>t, <1>3, AppendProperties DEF TellRecorder
  <2>2. TypeOK'
    BY <1>t, <1>3, <2>1 DEF TellRecorder, TypeOK
  <2>3. EventsInv'
    BY <1>3 DEF TellRecorder, EventsInv, WhileHeld, Afterwards, ReadSoFar
  <2> QED
    BY <2>2, <2>3
<1>4. CASE RecorderForwards
  <2>1. /\ rbox # <<>> /\ Head(rbox) # Exit /\ rbox' = Tail(rbox)
        /\ sbox' = IF storage = "up" THEN Append(sbox, Head(rbox)) ELSE sbox
        /\ UNCHANGED <<holders, destructor, recorder, storage, link, stream, recorded, faults,
                       outVars>>
    BY <1>4 DEF RecorderForwards
  <2>2. /\ Head(rbox) \in Mail /\ Head(rbox) \in Event /\ Tail(rbox) \in Seq(Mail)
        /\ rbox \in Seq(Event) => Tail(rbox) \in Seq(Event)
    BY <1>t, <2>1, TakenFrom
  <2>3. /\ Append(sbox, Head(rbox)) \in Seq(Mail)
        /\ sbox \in Seq(Event) => Append(sbox, Head(rbox)) \in Seq(Event)
    BY <1>t, <2>2, AppendProperties
  <2>4. TypeOK'
    BY <1>t, <2>1, <2>2, <2>3 DEF TypeOK
  <2>5. WhileHeld'
    BY <2>1, <2>2, <2>3 DEF EventsInv, WhileHeld
  <2>6. ASSUME NEW k \in DOMAIN sbox, ExitAt(sbox, k), storage = "up"
        PROVE  \E j \in DOMAIN sbox' : ExitAt(sbox', j)
    <3>1. ExitAt(sbox', k)
      BY <1>t, <2>1, <2>2, <2>6, BeforeSent
    <3> QED
      BY <3>1 DEF ExitAt
  <2>7. Afterwards'
    BY <2>1, <2>6 DEF EventsInv, Afterwards
  <2> QED
    BY <2>1, <2>4, <2>5, <2>7 DEF EventsInv, ReadSoFar
<1>5. CASE RecorderExit
  <2>1. destructor # "waiting"
    <3> SUFFICES ASSUME destructor = "waiting"
                 PROVE  FALSE
      OBVIOUS
    <3>1. rbox \in Seq(Event) /\ rbox # <<>> /\ Head(rbox) = Exit
      BY <1>5 DEF RecorderExit, EventsInv, WhileHeld
    <3>2. Head(rbox) \in Event
      BY <3>1, HeadTailProperties
    <3> QED
      BY <3>1, <3>2, ExitIsNoEvent
  <2>2. TypeOK'
    BY <1>t, <1>5 DEF RecorderExit, TypeOK
  <2> QED
    BY <1>5, <2>1, <2>2 DEF RecorderExit, EventsInv, WhileHeld, Afterwards, ReadSoFar
<1>6. CASE EventStored \/ EventRefused \/ EventUnanswered \/ EventNotSent
  <2>1. Worked
    BY <1>6, StorageWorks
  <2>2. /\ Head(sbox) \in Event /\ Tail(sbox) \in Seq(Mail)
        /\ sbox \in Seq(Event) => Tail(sbox) \in Seq(Event)
    BY <1>t, <2>1, TakenFrom DEF Worked
  <2>3. stream' \in Seq(Event) /\ position' \in 0..Len(stream') /\ ReadSoFar'
    <3>1. position \in 0..Len(stream) /\ ReadSoFar /\ UNCHANGED <<position, seen>>
      BY <2>1 DEF Worked, TypeOK, EventsInv
    <3>2. CASE stream' = stream
      BY <1>t, <3>1, <3>2 DEF ReadSoFar
    <3>3. CASE stream' = Append(stream, Head(sbox))
      BY <1>t, <2>2, <3>1, <3>3, StreamGrows
    <3> QED
      BY <2>1, <3>2, <3>3 DEF Worked
  <2>4. TypeOK'
    BY <1>t, <2>1, <2>2, <2>3 DEF Worked, TypeOK
  <2>5. WhileHeld'
    BY <2>1, <2>2 DEF Worked, EventsInv, WhileHeld
  <2>6. ASSUME NEW k \in DOMAIN sbox, ExitAt(sbox, k)
        PROVE  \E j \in DOMAIN sbox' : ExitAt(sbox', j)
    <3>1. ExitAt(sbox', k - 1)
      BY <1>t, <2>1, <2>6, BeforeTaken DEF Worked
    <3> QED
      BY <3>1 DEF ExitAt
  <2>7. Afterwards'
    BY <2>1, <2>6 DEF Worked, EventsInv, Afterwards
  <2> QED
    BY <2>3, <2>4, <2>5, <2>7 DEF EventsInv
<1>7. CASE StorageExit
  <2>1. destructor # "waiting"
    <3> SUFFICES ASSUME destructor = "waiting"
                 PROVE  FALSE
      OBVIOUS
    <3>1. sbox \in Seq(Event) /\ sbox # <<>> /\ Head(sbox) = Exit
      BY <1>7 DEF StorageExit, EventsInv, WhileHeld
    <3>2. Head(sbox) \in Event
      BY <3>1, HeadTailProperties
    <3> QED
      BY <3>1, <3>2, ExitIsNoEvent
  <2>2. TypeOK'
    BY <1>t, <1>7 DEF StorageExit, TypeOK
  <2> QED
    BY <1>7, <2>1, <2>2 DEF StorageExit, EventsInv, WhileHeld, Afterwards, ReadSoFar
<1>8. CASE ReadBatch
  <2>1. /\ position < Len(stream) /\ seen' = seen \o Xread(position)
        /\ position' = position + Len(Xread(position)) /\ UNCHANGED <<outLink, pipeline>>
    BY <1>8 DEF ReadBatch
  <2>2. position \in 0..Len(stream) /\ ReadSoFar /\ Len(stream) \in Nat
    BY <1>t, LenProperties DEF TypeOK, EventsInv
  <2>3. PICK n \in (position + 1)..Len(stream) : position' = n /\ seen' = SubSeq(stream, 1, n)
    BY <1>t, <2>1, <2>2, Batched
  <2>4. seen' \in Seq(Event)
    <3>1. \A i \in 1..n : stream[i] \in Event
      BY <1>t, <2>2, <2>3, ElementOfSeq
    <3>2. 1 \in Int /\ n \in Int
      BY <2>2, <2>3
    <3> QED
      BY <2>3, <3>1, <3>2, SubSeqProperties
  <2>5. position' \in 0..Len(stream) /\ stream' = stream
    BY <2>1, <2>2, <2>3 DEF pipeline
  <2>6. TypeOK'
    BY <2>1, <2>4, <2>5 DEF TypeOK, pipeline
  <2>7. EventsInv'
    BY <2>1, <2>3 DEF EventsInv, WhileHeld, Afterwards, ReadSoFar, pipeline
  <2> QED
    BY <2>6, <2>7
<1>9. CASE ReadFails \/ UNCHANGED vars
  <2>1. UNCHANGED <<pipeline, position, seen>> /\ outLink' \in {outLink, "broken"}
    BY <1>9 DEF ReadFails, vars, pipeline
  <2> QED
    BY <2>1 DEF TypeOK, EventsInv, WhileHeld, Afterwards, ReadSoFar, pipeline
<1> QED
  BY <1>1, <1>2, <1>3, <1>4, <1>5, <1>6, <1>7, <1>8, <1>9 DEF Next, Recorder, Storage
-----------------------------------------------------------------------------
(***************************************************************************)
(* The theorems.                                                           *)
(***************************************************************************)
\* The invariant holds at the beginning, and every step of a session, of the
\* destructor, of the two actors, of Redis and of the reader keeps it.
THEOREM EventsInvariant == Spec => [](TypeOK /\ EventsInv)
<1>1. Init => TypeOK /\ EventsInv
  <2> SUFFICES ASSUME Init
               PROVE  TypeOK /\ EventsInv
    OBVIOUS
  <2>1. /\ <<>> \in Seq(Event) /\ <<>> \in Seq(Event \cup {Exit})
        /\ Len(<<>>) = 0 /\ SubSeq(<<>>, 1, 0) = <<>>
    BY EmptySeq, SubSeqEmpty
  <2>2. 0 \in 0..Len(<<>>)
    BY <2>1
  <2>3. TypeOK
    BY <2>1, <2>2 DEF Init, TypeOK
  <2>4. EventsInv
    BY <2>1 DEF Init, EventsInv, WhileHeld, Afterwards, ReadSoFar
  <2> QED
    BY <2>3, <2>4
<1>2. TypeOK /\ EventsInv /\ [Next]_vars => (TypeOK /\ EventsInv)'
  BY EventsStep
<1> QED
  BY <1>1, <1>2, PTL DEF Spec

\* Every variable of the pipeline keeps its type: what is in the stream are the
\* events as they were recorded, and the reader's position is within the stream.
THEOREM EventsTypes == Spec => []TypeOK
BY EventsInvariant, PTL

\* What will be stored are events.
LEMMA ToStoreType ==
  ASSUME TypeOK, EventsInv
  PROVE  ToStore \in Seq(Event)
<1>1. CASE destructor = "waiting"
  BY <1>1, ConcatProperties DEF ToStore, EventsInv, WhileHeld
<1>2. CASE destructor # "waiting" /\ storage = "up"
  <2>1. PICK k \in DOMAIN sbox : ExitAt(sbox, k)
    BY <1>2 DEF EventsInv, Afterwards
  <2>2. sbox \in Seq(Mail)
    BY DEF TypeOK, Mail
  <2>3. BeforeExit(sbox) \in Seq(Event)
    BY <2>1, <2>2, BeforeAt
  <2> QED
    BY <1>2, <2>3 DEF ToStore
<1>3. CASE destructor # "waiting" /\ storage = "down"
  <2>1. sbox = <<>>
    BY <1>3 DEF EventsInv, Afterwards
  <2>2. BeforeExit(<<>>) = <<>> /\ <<>> \in Seq(Event)
    BY DEF BeforeExit
  <2> QED
    BY <1>3, <2>1, <2>2 DEF ToStore
<1> QED
  BY <1>1, <1>2, <1>3 DEF TypeOK

\* What the storage takes was the next event to be stored.
LEMMA WorkedOn ==
  ASSUME TypeOK, EventsInv, Worked
  PROVE  /\ ToStore \in Seq(Event) /\ ToStore # <<>>
         /\ Head(ToStore) = Head(sbox) /\ ToStore' = Tail(ToStore)
<1>t. sbox \in Seq(Mail)
  BY DEF TypeOK, Mail
<1>1. CASE destructor = "waiting"
  <2>1. sbox \in Seq(Event) /\ rbox \in Seq(Event)
    BY <1>1 DEF EventsInv, WhileHeld
  <2>2. /\ sbox \o rbox \in Seq(Event) /\ sbox \o rbox # <<>>
        /\ Head(sbox \o rbox) = Head(sbox)
        /\ Tail(sbox \o rbox) = Tail(sbox) \o rbox
    BY <2>1, ConcatHeadTail DEF Worked
  <2> QED
    BY <1>1, <2>2 DEF Worked, ToStore
<1>2. CASE destructor # "waiting"
  <2>1. PICK k \in DOMAIN sbox : ExitAt(sbox, k)
    BY <1>2 DEF Worked, EventsInv, Afterwards
  <2>2. /\ BeforeExit(sbox) # <<>> /\ Head(BeforeExit(sbox)) = Head(sbox)
        /\ BeforeExit(Tail(sbox)) = Tail(BeforeExit(sbox))
    BY <1>t, <2>1, BeforeTaken DEF Worked
  <2>3. BeforeExit(sbox) \in Seq(Event)
    BY <1>t, <2>1, BeforeAt
  <2> QED
    BY <1>2, <2>2, <2>3 DEF Worked, ToStore
<1> QED
  BY <1>1, <1>2
\* The other steps leave alone what will be stored: passing an event on, or dropping it
\* when that has been settled before.
LEMMA StillToStore ==
  ASSUME TypeOK, EventsInv,
         TellRecorder \/ RecorderForwards \/ RecorderExit \/ StorageExit \/ ReadBatch
           \/ ReadFails \/ UNCHANGED vars
  PROVE  ToStore' = ToStore
<1> USE DEF outVars
<1>t. rbox \in Seq(Mail) /\ sbox \in Seq(Mail)
  BY DEF TypeOK, Mail
<1>3. CASE TellRecorder
  <2>1. destructor # "waiting" /\ destructor' # "waiting" /\ UNCHANGED <<sbox, stream, seen>>
    BY <1>3 DEF TellRecorder
  <2> QED
    BY <2>1 DEF ToStore
<1>4. CASE RecorderForwards
  <2>1. /\ rbox # <<>> /\ Head(rbox) # Exit /\ rbox' = Tail(rbox)
        /\ sbox' = IF storage = "up" THEN Append(sbox, Head(rbox)) ELSE sbox
        /\ UNCHANGED <<destructor, stream, seen>>
    BY <1>4 DEF RecorderForwards
  <2>2. CASE destructor = "waiting"
    <3>1. storage = "up" /\ sbox \in Seq(Event) /\ rbox \in Seq(Event)
      BY <2>2 DEF EventsInv, WhileHeld
    <3>2. Append(sbox, Head(rbox)) \o Tail(rbox) = sbox \o rbox
      BY <2>1, <3>1, Forwarded
    <3> QED
      BY <2>1, <2>2, <3>1, <3>2 DEF ToStore
  <2>3. CASE destructor # "waiting" /\ storage = "up"
    <3>1. PICK k \in DOMAIN sbox : ExitAt(sbox, k)
      BY <2>3 DEF EventsInv, Afterwards
    <3>2. Head(rbox) \in Mail
      BY <1>t, <2>1, TakenFrom
    <3>3. BeforeExit(Append(sbox, Head(rbox))) = BeforeExit(sbox)
      BY <1>t, <2>1, <3>1, <3>2, BeforeSent
    <3> QED
      BY <2>1, <2>3, <3>3 DEF ToStore
  <2>4. CASE destructor # "waiting" /\ storage # "up"
    BY <2>1, <2>4 DEF ToStore
  <2> QED
    BY <2>2, <2>3, <2>4
<1>5. CASE RecorderExit
  <2>1. rbox # <<>> /\ Head(rbox) = Exit /\ UNCHANGED <<destructor, sbox, stream, seen>>
    BY <1>5 DEF RecorderExit
  <2>2. destructor # "waiting"
    <3>1. rbox \in Seq(Event) => Head(rbox) \in Event
      BY <1>t, <2>1, TakenFrom
    <3> QED
      BY <2>1, <3>1, ExitIsNoEvent DEF EventsInv, WhileHeld
  <2> QED
    BY <2>1, <2>2 DEF ToStore
<1>7. CASE StorageExit
  <2>1. /\ storage = "up" /\ sbox # <<>> /\ Head(sbox) = Exit /\ sbox' = <<>>
        /\ UNCHANGED <<destructor, stream, seen>>
    BY <1>7 DEF StorageExit
  <2>2. destructor # "waiting"
    <3>1. sbox \in Seq(Event) => Head(sbox) \in Event
      BY <1>t, <2>1, TakenFrom
    <3> QED
      BY <2>1, <3>1, ExitIsNoEvent DEF EventsInv, WhileHeld
  <2>3. PICK k \in DOMAIN sbox : ExitAt(sbox, k)
    BY <2>1, <2>2 DEF EventsInv, Afterwards
  <2>4. k = 1
    BY <1>t, <2>1, <2>3, TailIndices DEF ExitAt
  <2>5. BeforeExit(sbox) = <<>>
    <3>1. BeforeExit(sbox) = SubSeq(sbox, 1, k - 1) /\ k - 1 < 1
      BY <1>t, <2>3, <2>4, BeforeAt
    <3> QED
      BY <2>4, <3>1, SubSeqEmpty
  <2>6. BeforeExit(<<>>) = <<>>
    BY DEF BeforeExit
  <2> QED
    BY <2>1, <2>2, <2>5, <2>6 DEF ToStore
<1>8. CASE ReadBatch \/ ReadFails \/ UNCHANGED vars
  BY <1>8 DEF ReadBatch, ReadFails, vars, pipeline, ToStore
<1> QED
  BY <1>3, <1>4, <1>5, <1>7, <1>8

\* A step of the log: an event that is at the front is lost.
LEMMA LoseFirst ==
  ASSUME ToStore \in Seq(Event), ToStore # <<>>, ToStore' = Tail(ToStore),
         UNCHANGED <<stream, seen>>
  PROVE  Log!Lose
<1>1. Len(ToStore) \in Nat \ {0}
  BY EmptySeq
<1>2. 0 \in 0..Len(ToStore) /\ 1 \in 0..Len(ToStore) /\ 0 < 1
  BY <1>1
<1>3. SubSeq(ToStore, 1, 0) \o SubSeq(ToStore, 1 + 1, Len(ToStore)) = Tail(ToStore)
  BY CutOut
<1> HIDE DEF ToStore
<1> QED
  BY <1>2, <1>3 DEF Log!Lose

\* Whatever the pipeline and its reader do is a step of the log, or none.
LEMMA LogStep ==
  ASSUME TypeOK, EventsInv, [Next]_vars
  PROVE  [Log!Next]_<<ToStore, stream, seen>>
<1> USE DEF outVars
<1>t. rbox \in Seq(Mail) /\ sbox \in Seq(Mail) /\ stream \in Seq(Event)
  BY DEF TypeOK, Mail
<1>1. ASSUME NEW u \in Users, NEW k \in Kinds, Record(u, k)
      PROVE  Log!Record
  <2>1. /\ destructor = "waiting" /\ recorder = "up" /\ rbox \in Seq(Event) /\ sbox \in Seq(Event)
    BY <1>1 DEF Record, EventsInv, WhileHeld, Afterwards
  <2>2. PICK e \in Event : rbox' = Append(rbox, e)
    <3>1. Len(recorded) \in Nat /\ Len(recorded) < MaxEvents /\ MaxEvents \in Nat
      BY <1>1, LenProperties, MaxEventsAssumption DEF Record, TypeOK
    <3>2. Len(recorded) + 1 \in 1..MaxEvents
      BY <3>1
    <3>3. [event |-> k, username |-> u, n |-> Len(recorded) + 1] \in Event
      BY <3>2 DEF Event
    <3> QED
      BY <1>1, <2>1, <3>3 DEF Record
  <2>3. UNCHANGED <<destructor, sbox, stream, seen>>
    BY <1>1 DEF Record
  <2>4. ToStore' = Append(ToStore, e)
    <3>1. sbox \o Append(rbox, e) = Append(sbox \o rbox, e)
      BY <2>1, AppendedBehind
    <3> QED
      BY <2>1, <2>2, <2>3, <3>1 DEF ToStore
  <2> QED
    BY <2>3, <2>4 DEF Log!Record
<1>2. ASSUME NEW h \in Users \cup {Main}, Release(h)
      PROVE  [Log!Next]_<<ToStore, stream, seen>>
  <2>1. /\ destructor = "waiting" /\ sbox \in Seq(Event) /\ rbox \in Seq(Event)
        /\ UNCHANGED <<rbox, stream, seen>>
    BY <1>2 DEF Release, EventsInv, WhileHeld, Afterwards
  <2>2. CASE holders # {h}
    <3>1. UNCHANGED <<destructor, sbox>>
      BY <1>2, <2>2 DEF Release
    <3> QED
      BY <2>1, <3>1 DEF ToStore
  <2>3. CASE holders = {h}
    <3>1. destructor' = "storage told" /\ sbox' = Append(sbox, Exit)
      BY <1>2, <2>3 DEF Release
    <3>2. ToStore = sbox \o rbox /\ ToStore' = sbox
      BY <2>1, <3>1, BeforeTold DEF ToStore
    <3>3. CASE rbox = <<>>
      BY <2>1, <3>2, <3>3, ConcatEmptySeq
    <3>4. CASE rbox # <<>>
      <4>1. /\ Len(sbox) \in 0..Len(sbox \o rbox) /\ Len(sbox \o rbox) \in 0..Len(sbox \o rbox)
            /\ Len(sbox) < Len(sbox \o rbox)
        <5>1. Len(sbox) \in Nat /\ Len(rbox) \in Nat \ {0}
          BY <2>1, <3>4, LenProperties, EmptySeq
        <5>2. Len(sbox \o rbox) = Len(sbox) + Len(rbox)
          BY <2>1, ConcatProperties
        <5> QED
          BY <5>1, <5>2
      <4>2. SubSeq(sbox \o rbox, 1, Len(sbox))
              \o SubSeq(sbox \o rbox, Len(sbox \o rbox) + 1, Len(sbox \o rbox)) = sbox
        BY <2>1, CutOut
      <4>3. Log!Lose
        <5> HIDE DEF ToStore
        <5> QED
          BY <2>1, <3>2, <4>1, <4>2 DEF Log!Lose
      <4> QED
        BY <4>3 DEF Log!Next
    <3> QED
      BY <3>3, <3>4
  <2> QED
    BY <2>2, <2>3
<1>3. CASE TellRecorder \/ RecorderForwards \/ RecorderExit \/ StorageExit
  <2>1. UNCHANGED <<ToStore, stream, seen>>
    BY <1>3, StillToStore DEF TellRecorder, RecorderForwards, RecorderExit, StorageExit
  <2> QED
    BY <2>1
<1>6. CASE EventStored \/ EventRefused \/ EventUnanswered \/ EventNotSent
  <2>1. Worked
    BY <1>6, StorageWorks
  <2>2. /\ ToStore \in Seq(Event) /\ ToStore # <<>>
        /\ Head(ToStore) = Head(sbox) /\ ToStore' = Tail(ToStore)
    BY <2>1, WorkedOn
  <2>3. CASE stream' = stream
    <3>1. Log!Lose
      BY <2>1, <2>2, <2>3, LoseFirst DEF Worked
    <3> QED
      BY <3>1 DEF Log!Next
  <2>4. CASE stream' = Append(stream, Head(sbox))
    <3>1. UNCHANGED seen
      BY <2>1 DEF Worked
    <3>2. Log!Persist
      BY <2>2, <2>4, <3>1 DEF Log!Persist
    <3> QED
      BY <3>2 DEF Log!Next
  <2> QED
    BY <2>1, <2>3, <2>4 DEF Worked
<1>8. CASE ReadBatch
  <2>1. /\ position < Len(stream) /\ seen' = seen \o Xread(position) /\ UNCHANGED pipeline
    BY <1>8 DEF ReadBatch
  <2>2. position \in 0..Len(stream) /\ ReadSoFar /\ Len(stream) \in Nat
    BY <1>t, LenProperties DEF TypeOK, EventsInv
  <2>3. PICK n \in (position + 1)..Len(stream) : seen' = SubSeq(stream, 1, n)
    BY <1>t, <2>1, <2>2, Batched
  <2>4. Len(seen) = position
    <3>1. \A i \in 1..position : stream[i] \in Event
      BY <1>t, <2>2, ElementOfSeq
    <3>2. 1 \in Int /\ position \in Int
      BY <2>2
    <3>3. Len(SubSeq(stream, 1, position)) = IF 1 <= position THEN position - 1 + 1 ELSE 0
      BY <3>1, <3>2, SubSeqProperties
    <3> QED
      BY <2>2, <3>3 DEF ReadSoFar
  <2>5. Log!Read
    BY <2>1, <2>3, <2>4 DEF Log!Read, ToStore, pipeline
  <2> QED
    BY <2>5 DEF Log!Next
<1>9. CASE ReadFails \/ UNCHANGED vars
  BY <1>9 DEF ReadFails, vars, pipeline, ToStore
<1> QED
  BY <1>1, <1>2, <1>3, <1>6, <1>8, <1>9 DEF Next, Recorder, Storage, Log!Next

\* The pipeline and its reader implement the log: EventRecorderActor, StorageActor and
\* event_store keep the order of the events and store each at most once and unchanged,
\* whatever fails; redis-stream-out reads them without a gap and without a repetition.
THEOREM ImplementsLog == Spec => LogSpec
<1>1. Init => Log!Init
  <2> SUFFICES ASSUME Init
               PROVE  Log!Init
    OBVIOUS
  <2>1. <<>> \o <<>> = <<>>
    BY EmptySeq, ConcatEmptySeq
  <2> QED
    BY <2>1 DEF Init, Log!Init, ToStore
<1>2. TypeOK /\ EventsInv /\ [Next]_vars => [Log!Next]_<<ToStore, stream, seen>>
  BY LogStep
<1> QED
  BY <1>1, <1>2, EventsInvariant, PTL DEF Spec, LogSpec, Log!Spec
-----------------------------------------------------------------------------
(***************************************************************************)
(* What a shutdown costs.                                                  *)
(***************************************************************************)
\* Unless Redis has failed, what has been recorded is what is stored, then what will
\* be, then what has been lost; nothing is lost before the destructor runs.
NoGap ==
  ~faults =>
    /\ link = "ok"
    /\ \E lost \in Seq(Event) : /\ recorded = stream \o (ToStore \o lost)
                                /\ destructor = "waiting" => lost = <<>>

\* Every step keeps the order of stored, to be stored and lost.
LEMMA NoGapStep ==
  ASSUME TypeOK, EventsInv, NoGap, [Next]_vars
  PROVE  NoGap'
<1> USE DEF outVars
<1> SUFFICES ASSUME ~faults'
             PROVE  /\ link' = "ok"
                    /\ \E lost \in Seq(Event) : /\ recorded' = stream' \o (ToStore' \o lost)
                                                /\ destructor' = "waiting" => lost = <<>>
  BY DEF NoGap
<1>t. stream \in Seq(Event) /\ recorded \in Seq(Event)
  BY DEF TypeOK
<1>f. ~faults
  BY DEF Next, Record, Release, TellRecorder, Recorder, RecorderForwards, RecorderExit, Storage,
     EventStored, EventRefused, EventUnanswered, EventNotSent, StorageTakes, StorageExit,
     ReadBatch, ReadFails, pipeline, vars
<1>1. link = "ok"
  BY <1>f DEF NoGap
<1>2. PICK lost \in Seq(Event) : /\ recorded = stream \o (ToStore \o lost)
                                 /\ destructor = "waiting" => lost = <<>>
  BY <1>f DEF NoGap
<1>3. ASSUME NEW u \in Users, NEW k \in Kinds, Record(u, k)
      PROVE  /\ link' = "ok"
             /\ recorded' = stream' \o (ToStore' \o <<>>)
  <2>1. /\ destructor = "waiting" /\ recorder = "up" /\ rbox \in Seq(Event) /\ sbox \in Seq(Event)
    BY <1>3 DEF Record, EventsInv, WhileHeld, Afterwards
  <2>2. PICK e \in Event : rbox' = Append(rbox, e) /\ recorded' = Append(recorded, e)
    <3>1. Len(recorded) \in Nat /\ Len(recorded) < MaxEvents /\ MaxEvents \in Nat
      BY <1>3, LenProperties, MaxEventsAssumption DEF Record, TypeOK
    <3>2. Len(recorded) + 1 \in 1..MaxEvents
      BY <3>1
    <3>3. [event |-> k, username |-> u, n |-> Len(recorded) + 1] \in Event
      BY <3>2 DEF Event
    <3> QED
      BY <1>3, <2>1, <3>3 DEF Record
  <2>3. UNCHANGED <<destructor, sbox, stream, link>>
    BY <1>3 DEF Record
  <2>4. PICK T \in Seq(Event) : T = sbox \o rbox
    BY <2>1, ConcatProperties
  <2>5. ToStore = T /\ ToStore' = Append(T, e) /\ Append(T, e) \in Seq(Event)
    <3>1. sbox \o Append(rbox, e) = Append(sbox \o rbox, e)
      BY <2>1, AppendedBehind
    <3> QED
      BY <2>1, <2>2, <2>3, <2>4, <3>1, AppendProperties DEF ToStore
  <2>6. recorded = stream \o T
    BY <1>2, <2>1, <2>5, ConcatEmptySeq
  <2>7. stream \o Append(T, e) = Append(stream \o T, e)
    <3>1. stream \in Seq(Event) /\ T \in Seq(Event) /\ e \in Event
      BY <1>t
    <3> QED
      BY <3>1, AppendedBehind
  <2> QED
    BY <1>1, <2>2, <2>3, <2>5, <2>6, <2>7, ConcatEmptySeq
<1>4. ASSUME NEW h \in Users \cup {Main}, Release(h)
      PROVE  /\ link' = "ok"
             /\ \E l \in Seq(Event) : /\ recorded' = stream' \o (ToStore' \o l)
                                      /\ destructor' = "waiting" => l = <<>>
  <2>1. /\ destructor = "waiting" /\ sbox \in Seq(Event) /\ rbox \in Seq(Event)
        /\ UNCHANGED <<rbox, stream, recorded, link>>
    BY <1>4 DEF Release, EventsInv, WhileHeld, Afterwards
  <2>2. CASE holders # {h}
    <3>1. UNCHANGED <<destructor, sbox>>
      BY <1>4, <2>2 DEF Release
    <3>2. ToStore' = ToStore
      BY <2>1, <3>1 DEF ToStore
    <3> QED
      BY <1>1, <1>2, <2>1, <3>1, <3>2
  <2>3. CASE holders = {h}
    <3>1. destructor' = "storage told" /\ sbox' = Append(sbox, Exit)
      BY <1>4, <2>3 DEF Release
    <3>2. ToStore = sbox \o rbox /\ ToStore' = sbox
      BY <2>1, <3>1, BeforeTold DEF ToStore
    <3>3. recorded = stream \o (sbox \o rbox)
      <4>1. sbox \o rbox \in Seq(Event)
        BY <2>1, ConcatProperties
      <4> QED
        BY <1>2, <2>1, <3>2, <4>1, ConcatEmptySeq
    <3> QED
      BY <1>1, <2>1, <3>1, <3>2, <3>3
  <2> QED
    BY <2>2, <2>3
<1>5. CASE TellRecorder \/ RecorderForwards \/ RecorderExit \/ StorageExit \/ ReadBatch
             \/ ReadFails \/ UNCHANGED vars
  <2>1. ToStore' = ToStore
    BY <1>5, StillToStore
  <2>2. /\ UNCHANGED <<stream, recorded, link>>
        /\ destructor' = "waiting" => destructor = "waiting"
    BY <1>5 DEF TellRecorder, RecorderForwards, RecorderExit, StorageExit, ReadBatch, ReadFails,
       vars, pipeline
  <2> QED
    BY <1>1, <1>2, <2>1, <2>2
<1>6. CASE EventStored \/ EventRefused \/ EventUnanswered \/ EventNotSent
  <2>1. Worked
    BY <1>6, StorageWorks
  <2>2. PICK T \in Seq(Event) : /\ T = ToStore /\ T # <<>>
                                /\ Head(T) = Head(sbox) /\ ToStore' = Tail(T)
    BY <2>1, WorkedOn
  <2>3. stream' = Append(stream, Head(sbox)) /\ link' = "ok"
    BY <1>1, <1>6 DEF EventStored, EventRefused, EventUnanswered, EventNotSent
  <2>4. /\ T \o lost \in Seq(Event) /\ T \o lost # <<>>
        /\ Head(T \o lost) = Head(T) /\ Tail(T \o lost) = Tail(T) \o lost
    BY <2>2, ConcatHeadTail
  <2>5. Append(stream, Head(T \o lost)) \o Tail(T \o lost) = stream \o (T \o lost)
    BY <1>t, <2>4, Forwarded
  <2>6. recorded' = stream' \o (ToStore' \o lost)
    BY <1>2, <2>1, <2>2, <2>3, <2>4, <2>5 DEF Worked
  <2> QED
    BY <1>2, <2>1, <2>3, <2>6 DEF Worked
<1>7. ASSUME NEW u \in Users, NEW k \in Kinds, Record(u, k)
      PROVE  /\ link' = "ok"
             /\ \E l \in Seq(Event) : /\ recorded' = stream' \o (ToStore' \o l)
                                      /\ destructor' = "waiting" => l = <<>>
  BY <1>3, <1>7, EmptySeq
<1> HIDE DEF ToStore
<1> QED
  BY <1>4, <1>5, <1>6, <1>7 DEF Next, Recorder, Storage

\* Unless Redis fails, the stream is what was recorded up to some point: the
\* destructor of the MudSystem, which ends the storage before the recorder, costs the
\* last events and never one in between.
THEOREM OnlyTheLastLostAlways == Spec => []OnlyTheLastLost
<1>1. Init => NoGap
  <2> SUFFICES ASSUME Init
               PROVE  /\ link = "ok" /\ <<>> \in Seq(Event)
                      /\ recorded = stream \o (ToStore \o <<>>)
    BY DEF NoGap
  <2>1. <<>> \o <<>> = <<>> /\ <<>> \in Seq(Event)
    BY EmptySeq, ConcatEmptySeq
  <2> QED
    BY <2>1 DEF Init, ToStore
<1>2. (TypeOK /\ EventsInv) /\ NoGap /\ [Next]_vars => NoGap'
  BY NoGapStep
<1>3. TypeOK /\ EventsInv /\ NoGap => OnlyTheLastLost
  <2> SUFFICES ASSUME TypeOK, EventsInv, NoGap, ~faults
               PROVE  Len(stream) <= Len(recorded) /\ stream = SubSeq(recorded, 1, Len(stream))
    BY DEF OnlyTheLastLost
  <2>1. stream \in Seq(Event) /\ ToStore \in Seq(Event)
    BY ToStoreType DEF TypeOK
  <2>2. PICK lost \in Seq(Event) : recorded = stream \o (ToStore \o lost)
    BY DEF NoGap
  <2>3. PICK rest \in Seq(Event) : recorded = stream \o rest
    BY <2>1, <2>2, ConcatProperties
  <2>4. Len(stream) \in Nat /\ Len(rest) \in Nat /\ Len(recorded) = Len(stream) + Len(rest)
    BY <2>1, <2>3, LenProperties, ConcatProperties
  <2>5. SubSeq(stream \o rest, 1, Len(stream)) = stream
    <3>1. SubSeq(stream, 1, Len(stream)) = stream
      BY <2>1, SubSeqFull
    <3>2. CASE Len(stream) = 0
      <4>1. stream = <<>>
        BY <2>1, <3>2, EmptySeq
      <4> QED
        BY <3>2, <4>1, SubSeqEmpty
    <3>3. CASE Len(stream) # 0
      <4>1. 1 \in 1..Len(stream) /\ Len(stream) \in 1..Len(stream)
        BY <2>4, <3>3
      <4> QED
        BY <2>1, <3>1, <4>1, SubSeqOfConcat1
    <3> QED
      BY <3>2, <3>3
  <2> QED
    BY <2>3, <2>4, <2>5
<1> QED
  BY <1>1, <1>2, <1>3, EventsInvariant, PTL DEF Spec
-----------------------------------------------------------------------------
(***************************************************************************)
(* The two storages.                                                       *)
(***************************************************************************)
\* What the mock holds under k is what Redis holds: nothing in any table, or the
\* value in the table of its type and nothing in the others.
Mirrored(k) ==
  \/ /\ db[k] = nullopt
     /\ k \notin DOMAIN m_kv /\ k \notin DOMAIN m_map
     /\ k \notin DOMAIN m_list /\ k \notin DOMAIN m_set
  \/ /\ k \in DOMAIN m_kv /\ db[k] = String(m_kv[k])
     /\ k \notin DOMAIN m_map /\ k \notin DOMAIN m_list /\ k \notin DOMAIN m_set
  \/ /\ k \in DOMAIN m_map /\ db[k] = Hash(m_map[k])
     /\ k \notin DOMAIN m_kv /\ k \notin DOMAIN m_list /\ k \notin DOMAIN m_set
  \/ /\ k \in DOMAIN m_list /\ db[k] = List(m_list[k])
     /\ k \notin DOMAIN m_kv /\ k \notin DOMAIN m_map /\ k \notin DOMAIN m_set
  \/ /\ k \in DOMAIN m_set /\ db[k] = Set(m_set[k])
     /\ k \notin DOMAIN m_kv /\ k \notin DOMAIN m_map /\ k \notin DOMAIN m_list

\* The inductive invariant: MockFaithful compares answers only, and an answer
\* does not tell in which tables a key is.
StorageInv ==
  /\ mixed \in BOOLEAN
  /\ db = [k \in Keys |-> db[k]]
  /\ ~mixed => \A k \in Keys : Mirrored(k)

\* The invariant holds of the empty stores.
LEMMA EmptyStores == StorageInit => StorageInv
  BY DEF StorageInit, StorageInv, Mirrored, EmptyMap

\* A store of a string keeps it.
LEMMA ValueStoreStep ==
  ASSUME StorageInv, NEW key \in Keys, NEW value, value_store(key, value)
  PROVE  StorageInv'
<1> USE DEF value_store, RedisValueStore, MockValueStore, Uses
<1>1. mixed' \in BOOLEAN /\ db' = [k \in Keys |-> db'[k]]
  BY DEF StorageInv
<1>2. ASSUME ~mixed', NEW k \in Keys PROVE Mirrored(k)'
  <2>1. Mirrored(k) /\ Mirrored(key) /\ db[key].kind \in {"none", "string"}
    BY <1>2 DEF StorageInv, Accepts
  <2>2. CASE k = key
    BY <2>1, <2>2 DEF StorageInv, Mirrored, With, nullopt, String, Hash, List, Set
  <2>3. CASE k # key
    BY <2>1, <2>3 DEF StorageInv, Mirrored, With
  <2> QED BY <2>2, <2>3
<1> QED BY <1>1, <1>2 DEF StorageInv

\* A store into a map keeps it.
LEMMA MapStoreStep ==
  ASSUME StorageInv, NEW key \in Keys, NEW field, NEW value, map_store(key, field, value)
  PROVE  StorageInv'
<1> USE DEF map_store, RedisMapStore, MockMapStore, Uses
<1>1. mixed' \in BOOLEAN /\ db' = [k \in Keys |-> db'[k]]
  BY DEF StorageInv
<1>2. ASSUME ~mixed', NEW k \in Keys PROVE Mirrored(k)'
  <2>1. Mirrored(k) /\ Mirrored(key) /\ Accepts(db, key, "hash")
    BY <1>2 DEF StorageInv
  <2>2. CASE k = key
    <3>1. Held(db, key, "hash") = In(m_map, key, EmptyMap)
      BY <2>1 DEF Mirrored, Accepts, Held, In, Empty, nullopt, String, Hash, List, Set
    <3>2. /\ m_map'[key] = With(Held(db, key, "hash"), field, value)
          /\ key \in DOMAIN m_map'
      BY <3>1 DEF With
    <3>3. db'[key] = Hash(m_map'[key])
      BY <2>1, <3>2 DEF StorageInv
    <3>4. key \notin DOMAIN m_kv /\ key \notin DOMAIN m_list /\ key \notin DOMAIN m_set
      BY <2>1 DEF Mirrored, Accepts, nullopt, String, Hash, List, Set
    <3> QED BY <2>2, <3>2, <3>3, <3>4 DEF Mirrored
  <2>3. CASE k # key
    BY <2>1, <2>3 DEF StorageInv, Mirrored, With
  <2> QED BY <2>2, <2>3
<1> QED BY <1>1, <1>2 DEF StorageInv

\* A store into a list keeps it.
LEMMA ListStoreStep ==
  ASSUME StorageInv, NEW key \in Keys, NEW value, list_store(key, value)
  PROVE  StorageInv'
<1> USE DEF list_store, RedisListStore, MockListStore, Uses
<1>1. mixed' \in BOOLEAN /\ db' = [k \in Keys |-> db'[k]]
  BY DEF StorageInv
<1>2. ASSUME ~mixed', NEW k \in Keys PROVE Mirrored(k)'
  <2>1. Mirrored(k) /\ Mirrored(key) /\ Accepts(db, key, "list")
    BY <1>2 DEF StorageInv
  <2>2. CASE k = key
    <3>1. Held(db, key, "list") = In(m_list, key, <<>>)
      BY <2>1 DEF Mirrored, Accepts, Held, In, Empty, nullopt, String, Hash, List, Set
    <3>2. /\ m_list'[key] = Append(Held(db, key, "list"), value)
          /\ key \in DOMAIN m_list'
      BY <3>1 DEF With
    <3>3. db'[key] = List(m_list'[key])
      BY <2>1, <3>2 DEF StorageInv
    <3>4. key \notin DOMAIN m_kv /\ key \notin DOMAIN m_map /\ key \notin DOMAIN m_set
      BY <2>1 DEF Mirrored, Accepts, nullopt, String, Hash, List, Set
    <3> QED BY <2>2, <3>2, <3>3, <3>4 DEF Mirrored
  <2>3. CASE k # key
    BY <2>1, <2>3 DEF StorageInv, Mirrored, With
  <2> QED BY <2>2, <2>3
<1> QED BY <1>1, <1>2 DEF StorageInv

\* A store into a set keeps it.
LEMMA SetStoreStep ==
  ASSUME StorageInv, NEW key \in Keys, NEW value, set_store(key, value)
  PROVE  StorageInv'
<1> USE DEF set_store, RedisSetStore, MockSetStore, Uses
<1>1. mixed' \in BOOLEAN /\ db' = [k \in Keys |-> db'[k]]
  BY DEF StorageInv
<1>2. ASSUME ~mixed', NEW k \in Keys PROVE Mirrored(k)'
  <2>1. Mirrored(k) /\ Mirrored(key) /\ Accepts(db, key, "set")
    BY <1>2 DEF StorageInv
  <2>2. CASE k = key
    <3>1. Held(db, key, "set") = In(m_set, key, {})
      BY <2>1 DEF Mirrored, Accepts, Held, In, Empty, nullopt, String, Hash, List, Set
    <3>2. /\ m_set'[key] = Held(db, key, "set") \cup {value}
          /\ key \in DOMAIN m_set'
      BY <3>1 DEF With
    <3>3. db'[key] = Set(m_set'[key])
      BY <2>1, <3>2 DEF StorageInv
    <3>4. key \notin DOMAIN m_kv /\ key \notin DOMAIN m_map /\ key \notin DOMAIN m_list
      BY <2>1 DEF Mirrored, Accepts, nullopt, String, Hash, List, Set
    <3> QED BY <2>2, <3>2, <3>3, <3>4 DEF Mirrored
  <2>3. CASE k # key
    BY <2>1, <2>3 DEF StorageInv, Mirrored, With
  <2> QED BY <2>2, <2>3
<1> QED BY <1>1, <1>2 DEF StorageInv

\* A deletion keeps it: the mock clears one table only, and it is the one.
LEMMA DelKeyStep ==
  ASSUME StorageInv, NEW key \in Keys, del_key(key)
  PROVE  StorageInv'
<1> USE DEF del_key, RedisDel, MockDel
<1>1. mixed' \in BOOLEAN /\ db' = [k \in Keys |-> db'[k]]
  BY DEF StorageInv
<1>2. ASSUME ~mixed', NEW k \in Keys PROVE Mirrored(k)'
  <2>1. Mirrored(k) /\ Mirrored(key)
    BY <1>2 DEF StorageInv
  <2>2. CASE k = key
    <3>1. db'[k] = nullopt
      BY <2>2 DEF StorageInv
    <3>2. /\ k \notin DOMAIN m_kv' /\ k \notin DOMAIN m_map'
          /\ k \notin DOMAIN m_list' /\ k \notin DOMAIN m_set'
      BY <2>1, <2>2 DEF Mirrored, Without
    <3> QED BY <3>1, <3>2 DEF Mirrored
  <2>3. CASE k # key
    BY <2>1, <2>3 DEF StorageInv, Mirrored, Without
  <2> QED BY <2>2, <2>3
<1> QED BY <1>1, <1>2 DEF StorageInv

\* The answers agree in every state of the invariant.
LEMMA MirroredAnswers == StorageInv => MockFaithful
<1> SUFFICES ASSUME StorageInv, ~mixed, NEW k \in Keys,
                    NEW kind \in {"string", "hash", "list", "set"}
             PROVE  \/ RedisGet(k, kind) = MockGet(k, kind)
                    \/ Missing(RedisGet(k, kind)) /\ Missing(MockGet(k, kind))
  BY DEF MockFaithful
<1>1. Mirrored(k)
  BY DEF StorageInv
<1> USE DEF RedisGet, MockGet, Missing, nullopt, String, Hash, List, Set
<1>2. CASE db[k] = nullopt
  <2>1. MockGet(k, kind) = nullopt
    BY <1>1, <1>2 DEF Mirrored
  <2>2. Missing(RedisGet(k, kind))
    BY <1>2
  <2> QED BY <2>1, <2>2
<1>3. CASE db[k] # nullopt
  BY <1>1, <1>3 DEF Mirrored
<1> QED BY <1>2, <1>3

\* Without a mixed key, Redis and the mock hold the same under every key, in one
\* table of the mock at most.
THEOREM StoresMirrored == StorageSpec => []StorageInv
<1>1. StorageInit => StorageInv
  BY EmptyStores
<1>2. StorageInv /\ [StorageCall]_storageVars => StorageInv'
  <2> SUFFICES ASSUME StorageInv, [StorageCall]_storageVars PROVE StorageInv'
    OBVIOUS
  <2>1. CASE StorageActor
    <3> PICK key \in Keys, value \in Values :
              \/ value_store(key, value)
              \/ \E field \in Fields : map_store(key, field, value)
              \/ list_store(key, value)
              \/ set_store(key, value)
      BY <2>1 DEF StorageActor
    <3> QED BY ValueStoreStep, MapStoreStep, ListStoreStep, SetStoreStep
  <2>2. CASE \E key \in Keys : del_key(key)
    BY <2>2, DelKeyStep
  <2>3. CASE UNCHANGED storageVars
    BY <2>3 DEF storageVars, mockVars, StorageInv, Mirrored
  <2> QED BY <2>1, <2>2, <2>3 DEF StorageCall
<1> QED BY <1>1, <1>2, PTL DEF StorageSpec

\* What a getter of MockStorage returns is what RedisStorage's would, after any
\* calls of the interface in which no key is used for two types, but for the
\* form of a missing container.
THEOREM MockFaithfulAlways == StorageSpec => []MockFaithful
  BY StoresMirrored, MirroredAnswers, PTL
=============================================================================
