-------------------------- MODULE NotificationLedger --------------------------
(***************************************************************************)
(* What the watcher promises about the transitions of one session.         *)
(*                                                                         *)
(* A transition is recorded once and for ever.  Each is announced at most  *)
(* once, and only after it was recorded.  Within one progress epoch the    *)
(* critical stage and the recovery both answer a recorded suspicion.       *)
(***************************************************************************)
EXTENDS Naturals, Sequences

CONSTANT Transition    \* the transitions that can be recorded

VARIABLES
  recorded,     \* the transitions recorded so far
  announced     \* the transitions announced so far, in order

vars == <<recorded, announced>>

Suspicion(t) == [code |-> "silence", epoch |-> t.epoch]

Init ==
  /\ recorded = {}
  /\ announced = <<>>

Record(t) ==
  /\ t \notin recorded
  /\ t.code \in {"critical", "recovered"} => Suspicion(t) \in recorded
  /\ recorded' = recorded \cup {t}
  /\ UNCHANGED announced

Announce(t) ==
  /\ t \in recorded
  /\ \A i \in DOMAIN announced : announced[i] # t
  /\ announced' = Append(announced, t)
  /\ UNCHANGED recorded

Next == \E t \in Transition : Record(t) \/ Announce(t)

Spec == Init /\ [][Next]_vars
===============================================================================
