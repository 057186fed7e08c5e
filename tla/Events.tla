------------------------------- MODULE Events -------------------------------
(***************************************************************************)
(* The event pipeline: sessions record events with the EventRecorderClient,*)
(* the EventRecorderActor names them and sends them on, the StorageActor   *)
(* has RedisStorage call the Redis function that appends them to the       *)
(* stream "events".  The destructor of the MudSystem ends the two actors.  *)
(* The program redis-stream-out reads the stream from another process.     *)
(*                                                                         *)
(* External: CAF mailboxes (as in module Session); hiredis, whose context  *)
(* refuses every command after an I/O error; Redis, which answers a        *)
(* command it cannot execute with an error reply, and gives the entries of *)
(* a stream ids that increase: here their positions.                       *)
(***************************************************************************)
EXTENDS Naturals, Sequences

CONSTANTS
  Users,      \* sessions that may record events
  MaxEvents,  \* bound: events recorded
  Batch       \* batch_size of redis-stream-out

ASSUME BatchAssumption == Batch \in Nat \ {0}
ASSUME MaxEventsAssumption == MaxEvents \in Nat

Kinds == {"EventUserCreate", "EventUserLogin", "EventUserLogout"}

\* An event; n stands for the rest of its fields.
Event == [event : Kinds, username : Users, n : 1..MaxEvents]

Exit == [event |-> "exit"]

Main == "main"
ASSUME MainAssumption == Main \notin Users

VARIABLES
  holders,     \* who has a reference to the MudSystem: main and sessions
  destructor,  \* ~MudSystem: "waiting", "storage told", "done"
  recorder,    \* EventRecorderActor: "up" or "down"
  rbox,        \* its mailbox
  storage,     \* StorageActor: "up" or "down"
  sbox,        \* its mailbox
  link,        \* the hiredis context: "ok" or "broken"
  stream,      \* the Redis stream
  recorded,    \* history: events recorded, in the order they were sent
  faults,      \* history: a Redis command has failed
  outLink,     \* the hiredis context of redis-stream-out
  position,    \* the id of the last record it has read, 0 at first
  seen         \* history: the records it has read

outVars == <<outLink, position, seen>>

vars == <<holders, destructor, recorder, rbox, storage, sbox, link, stream,
          recorded, faults, outVars>>
-----------------------------------------------------------------------------
Record(u, k) ==
  /\ u \in holders
  /\ Len(recorded) < MaxEvents
  /\ LET e == [event |-> k, username |-> u, n |-> Len(recorded) + 1]
     IN  /\ recorded' = Append(recorded, e)
         /\ rbox' = IF recorder = "up" THEN Append(rbox, e) ELSE rbox
  /\ UNCHANGED <<holders, destructor, recorder, storage, sbox, link, stream, faults, outVars>>

\* Mutant of Release: the exit overtakes the events in the storage's mailbox.
ReleaseOvertakes(h) ==
  /\ h \in holders
  /\ holders' = holders \ {h}
  /\ IF holders = {h}
       THEN destructor' = "storage told" /\ sbox' = <<Exit>> \o sbox
       ELSE UNCHANGED <<destructor, sbox>>
  /\ UNCHANGED <<recorder, rbox, storage, link, stream, recorded, faults, outVars>>

\* The last reference runs the destructor, which tells the storage first ...
Release(h) ==
  /\ h \in holders
  /\ holders' = holders \ {h}
  /\ IF holders = {h}
       THEN destructor' = "storage told" /\ sbox' = Append(sbox, Exit)
       ELSE UNCHANGED <<destructor, sbox>>
  /\ UNCHANGED <<recorder, rbox, storage, link, stream, recorded, faults, outVars>>

\* ... and then the recorder.
TellRecorder ==
  /\ destructor = "storage told"
  /\ destructor' = "done"
  /\ rbox' = Append(rbox, Exit)
  /\ UNCHANGED <<holders, recorder, storage, sbox, link, stream, recorded, faults, outVars>>
-----------------------------------------------------------------------------
(***************************************************************************)
(* EventRecorderActor.                                                     *)
(***************************************************************************)
\* Mutant of RecorderForwards: the logout handler forwards nothing.
RecorderForwardsSome ==
  /\ recorder = "up"
  /\ rbox # <<>>
  /\ Head(rbox) # Exit
  /\ rbox' = Tail(rbox)
  /\ sbox' = IF storage = "up" /\ Head(rbox).event # "EventUserLogout"
               THEN Append(sbox, Head(rbox)) ELSE sbox
  /\ UNCHANGED <<holders, destructor, recorder, storage, link, stream, recorded, faults, outVars>>

\* Mutant of RecorderForwards: the login handler uses the name doc/events.md gives.
RecorderMisnames ==
  /\ recorder = "up"
  /\ rbox # <<>>
  /\ Head(rbox) # Exit
  /\ rbox' = Tail(rbox)
  /\ sbox' = IF storage = "up"
               THEN Append(sbox, IF Head(rbox).event = "EventUserLogin"
                                   THEN [Head(rbox) EXCEPT !.event = "eventUserLogin"]
                                   ELSE Head(rbox))
               ELSE sbox
  /\ UNCHANGED <<holders, destructor, recorder, storage, link, stream, recorded, faults, outVars>>

\* The event's name and fields go to the storage, which may be gone.
RecorderForwards ==
  /\ recorder = "up"
  /\ rbox # <<>>
  /\ Head(rbox) # Exit
  /\ rbox' = Tail(rbox)
  /\ sbox' = IF storage = "up" THEN Append(sbox, Head(rbox)) ELSE sbox
  /\ UNCHANGED <<holders, destructor, recorder, storage, link, stream, recorded, faults, outVars>>

RecorderExit ==
  /\ recorder = "up"
  /\ rbox # <<>>
  /\ Head(rbox) = Exit
  /\ recorder' = "down"
  /\ rbox' = <<>>
  /\ UNCHANGED <<holders, destructor, storage, sbox, link, stream, recorded, faults, outVars>>
-----------------------------------------------------------------------------
(***************************************************************************)
(* StorageActor and RedisStorage::event_store.  The result of event_store  *)
(* is ignored: nothing is tried again and nobody is told.                  *)
(***************************************************************************)
StorageTakes ==
  /\ storage = "up"
  /\ sbox # <<>>
  /\ Head(sbox) # Exit
  /\ sbox' = Tail(sbox)
  /\ UNCHANGED <<holders, destructor, recorder, rbox, storage, recorded, outVars>>

\* The function appends the entry.
EventStored ==
  /\ StorageTakes
  /\ link = "ok"
  /\ stream' = Append(stream, Head(sbox))
  /\ UNCHANGED <<link, faults>>

\* Redis answers with an error; event_store returns true all the same.
EventRefused ==
  /\ StorageTakes
  /\ link = "ok"
  /\ faults' = TRUE
  /\ UNCHANGED <<link, stream>>

\* Mutant of EventUnanswered: a command without reply is sent again over a
\* new connection, whether it was executed or not.
EventTriedAgain ==
  /\ storage = "up"
  /\ sbox # <<>>
  /\ Head(sbox) # Exit
  /\ link = "ok"
  /\ faults' = TRUE
  /\ stream' \in {stream, Append(stream, Head(sbox))}
  /\ Len(stream') <= MaxEvents
  /\ UNCHANGED <<sbox, link, holders, destructor, recorder, rbox, storage, recorded, outVars>>

\* The connection fails before or after Redis has executed the command.
EventUnanswered ==
  /\ StorageTakes
  /\ link = "ok"
  /\ link' = "broken"
  /\ faults' = TRUE
  /\ stream' \in {stream, Append(stream, Head(sbox))}

\* The context is in its error state and is never connected again.
EventNotSent ==
  /\ StorageTakes
  /\ link = "broken"
  /\ UNCHANGED <<link, stream, faults>>

StorageExit ==
  /\ storage = "up"
  /\ sbox # <<>>
  /\ Head(sbox) = Exit
  /\ storage' = "down"
  /\ sbox' = <<>>
  /\ UNCHANGED <<holders, destructor, recorder, rbox, link, stream, recorded, faults, outVars>>
-----------------------------------------------------------------------------
(***************************************************************************)
(* redis-stream-out.                                                       *)
(***************************************************************************)
pipeline == <<holders, destructor, recorder, rbox, storage, sbox, link, stream,
              recorded, faults>>

\* The reply to XREAD BLOCK 0 COUNT Batch: the entries behind a position.
Xread(from) ==
  SubSeq(stream, from + 1, IF from + Batch < Len(stream) THEN from + Batch ELSE Len(stream))

\* The command waits until there is something to read; every record moves the
\* position.
ReadBatch ==
  /\ outLink = "ok"
  /\ position < Len(stream)
  /\ seen' = seen \o Xread(position)
  /\ position' = position + Len(Xread(position))
  /\ UNCHANGED <<outLink, pipeline>>

\* No reply: there are no records, and none to any later command.
ReadFails ==
  /\ outLink = "ok"
  /\ outLink' = "broken"
  /\ UNCHANGED <<position, seen, pipeline>>
-----------------------------------------------------------------------------
Init ==
  /\ holders = Users \cup {Main}
  /\ destructor = "waiting"
  /\ recorder = "up" /\ rbox = <<>>
  /\ storage = "up" /\ sbox = <<>>
  /\ link = "ok"
  /\ stream = <<>>
  /\ recorded = <<>>
  /\ faults = FALSE
  /\ outLink = "ok" /\ position = 0 /\ seen = <<>>

Recorder == RecorderForwards \/ RecorderExit

Storage ==
  EventStored \/ EventRefused \/ EventUnanswered \/ EventNotSent \/ StorageExit

Next ==
  \/ \E u \in Users, k \in Kinds : Record(u, k)
  \/ \E h \in Users \cup {Main} : Release(h)
  \/ TellRecorder
  \/ Recorder
  \/ Storage
  \/ ReadBatch \/ ReadFails

Spec == Init /\ [][Next]_vars

\* The two actors run when they have mail, the destructor returns, and Redis
\* answers the reader when there are records.
FairSpec ==
  /\ Spec
  /\ WF_vars(Recorder) /\ WF_vars(Storage) /\ WF_vars(TellRecorder) /\ WF_vars(ReadBatch)
-----------------------------------------------------------------------------
(***************************************************************************)
(* Properties.                                                             *)
(***************************************************************************)
\* Every variable has its type.
TypeOK ==
  /\ holders \subseteq Users \cup {Main}
  /\ destructor \in {"waiting", "storage told", "done"}
  /\ recorder \in {"up", "down"} /\ storage \in {"up", "down"}
  /\ rbox \in Seq(Event \cup {Exit}) /\ sbox \in Seq(Event \cup {Exit})
  /\ link \in {"ok", "broken"}
  /\ stream \in Seq(Event) /\ recorded \in Seq(Event)
  /\ faults \in BOOLEAN
  /\ outLink \in {"ok", "broken"} /\ position \in 0..Len(stream) /\ seen \in Seq(Event)

\* The pipeline and its reader implement the log of module EventLog: whatever
\* fails, events are stored in the order they were recorded, unchanged and once,
\* and are read in that order, in batches, without a gap or a repetition.
\* An event behind the storage's exit message, or still with the recorder when the
\* storage has been told to exit, will not be stored and counts as lost.
BeforeExit(box) ==
  IF \E k \in DOMAIN box : box[k] = Exit
    THEN SubSeq(box, 1, (CHOOSE k \in DOMAIN box : box[k] = Exit) - 1) ELSE <<>>
ToStore == IF destructor = "waiting" THEN sbox \o rbox ELSE BeforeExit(sbox)
Log == INSTANCE EventLog WITH
         Events <- Event,
         pending <- ToStore,
         log <- stream,
         read <- seen
LogSpec == Log!Spec

Stored(n) == \E i \in DOMAIN stream : stream[i].n = n

Read(n) == \E i \in DOMAIN seen : seen[i].n = n

\* As long as Redis executes what it is sent and main runs, every event a
\* session records is in the stream in the end, whatever the session does next,
\* and is read unless the reader has lost its connection.
EventsArrive ==
  [](~faults /\ Main \in holders) =>
    \A n \in 1..MaxEvents :
      Len(recorded) >= n ~> Stored(n) /\ (Read(n) \/ outLink = "broken")

\* What the destructor may cost, which tells the storage to exit before the recorder:
\* the events the recorder forwards after that are lost.  They are the last ones
\* recorded: unless Redis fails, what is stored has no gap.
OnlyTheLastLost ==
  ~faults => Len(stream) <= Len(recorded) /\ stream = SubSeq(recorded, 1, Len(stream))

\* Event n is in the storage's mailbox, ahead of any exit.
Queued(n) ==
  \E i \in DOMAIN sbox : sbox[i] # Exit /\ sbox[i].n = n /\ \A j \in 1..(i - 1) : sbox[j] # Exit

\* And only those are lost: an event that reached the storage ahead of its exit is
\* stored in the end, also when all references to the MudSystem are gone.
QueuedArrives == [](~faults) => \A n \in 1..MaxEvents : Queued(n) ~> Stored(n)
=============================================================================
