------------------------------ MODULE EventLog ------------------------------
(***************************************************************************)
(* What the event pipeline promises: events enter the log in the order     *)
(* they were recorded, unchanged and at most once each.  It may lose       *)
(* events on the way, a whole run of them at a time.  A reader is given    *)
(* the log from its beginning, without gaps or repetitions.                *)
(***************************************************************************)
EXTENDS Naturals, Sequences

CONSTANT Events

VARIABLES
  pending,  \* events recorded and neither stored nor lost, oldest first
  log,      \* the events stored
  read      \* the events the reader has been given

Record ==
  /\ \E e \in Events : pending' = Append(pending, e)
  /\ UNCHANGED <<log, read>>

Persist ==
  /\ pending # <<>>
  /\ log' = Append(log, Head(pending))
  /\ pending' = Tail(pending)
  /\ UNCHANGED read

Lose ==
  /\ \E i \in 0..Len(pending), j \in 0..Len(pending) :
       /\ i < j
       /\ pending' = SubSeq(pending, 1, i) \o SubSeq(pending, j + 1, Len(pending))
  /\ UNCHANGED <<log, read>>

Read ==
  /\ \E n \in (Len(read) + 1)..Len(log) : read' = SubSeq(log, 1, n)
  /\ UNCHANGED <<pending, log>>

Init == pending = <<>> /\ log = <<>> /\ read = <<>>

Next == Record \/ Persist \/ Lose \/ Read

Spec == Init /\ [][Next]_<<pending, log, read>>
=============================================================================
