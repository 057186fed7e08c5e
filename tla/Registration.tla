---------------------------- MODULE Registration ----------------------------
(***************************************************************************)
(* What a session promises about accounts, seen from outside: the visitor  *)
(* chooses a passphrase, registers, then plays, then leaves.  The account  *)
(* has a name and the passphrase chosen, neither empty, and nobody plays   *)
(* before it has been handed to the event recorder.  It may still be       *)
(* created while the connection closes.                                    *)
(*                                                                         *)
(* That there is only one is not promised: the same name may be registered *)
(* again, at any time, but with what the passphrase was overwritten with.  *)
(***************************************************************************)
EXTENDS Naturals, Sequences

CONSTANTS
  Names, Passphrases,
  None,    \* no passphrase
  Scrub    \* what a passphrase is overwritten with

VARIABLES
  accounts,  \* the accounts created, in order
  chosen,    \* the passphrase
  stage      \* "registering", "playing" or "gone"

Choose ==
  /\ accounts = <<>>
  /\ chosen = None
  /\ chosen' \in Passphrases
  /\ UNCHANGED <<accounts, stage>>

Register ==
  /\ accounts = <<>>
  /\ chosen # None
  /\ stage # "playing"
  /\ \E u \in Names : accounts' = <<[username |-> u, passphrase |-> chosen]>>
  /\ chosen' = Scrub
  /\ UNCHANGED stage

RegisterAgain ==
  /\ accounts # <<>>
  /\ accounts' = Append(accounts, [username |-> accounts[1].username, passphrase |-> Scrub])
  /\ UNCHANGED <<chosen, stage>>

Play ==
  /\ stage = "registering"
  /\ accounts # <<>>
  /\ stage' = "playing"
  /\ UNCHANGED <<accounts, chosen>>

Leave ==
  /\ stage # "gone"
  /\ stage' = "gone"
  /\ UNCHANGED <<accounts, chosen>>

Init == accounts = <<>> /\ chosen = None /\ stage = "registering"

Next == Choose \/ Register \/ RegisterAgain \/ Play \/ Leave

Spec == Init /\ [][Next]_<<accounts, chosen, stage>>
=============================================================================
