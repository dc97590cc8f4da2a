---------------------------- MODULE ActivationFence ----------------------------
(***************************************************************************)
(* What scripts/activation_fence.py reads in a rollout about one turn: the *)
(* fence that holds a session's handoff back until the turn its user       *)
(* activated it in has ended.  The rollout is the sequence of the main     *)
(* thread's turn events; records of other kinds, of subagents, a partial   *)
(* last line and the size limits of the scan are left out.                 *)
(***************************************************************************)
EXTENDS Integers, Sequences, FiniteSetsExt

CONSTANT MaxTurn        \* turns of the session

ASSUME TurnAssumption == MaxTurn \in Nat \ {0}

None == 0
Turn == 1..MaxTurn

TurnEvent == [kind : {"started", "completed", "aborted"}, turn : Turn]

\* The turn a fence waits for and how much of the rollout it has read.
Fence == [turn : Turn, cursor : Nat]
NoFence == [turn |-> None, cursor |-> 0]

Has(events, kinds, t) == \E i \in DOMAIN events : events[i].kind \in kinds /\ events[i].turn = t

Begun(events, t) == Has(events, {"started"}, t)
EndedIn(events, t) == Has(events, {"completed", "aborted"}, t)
OpenTurns(events) == {t \in Turn : Begun(events, t) /\ ~EndedIn(events, t)}

\* The rollout was read to its end.
Read(events, t) == [turn |-> t, cursor |-> Len(events)]

(* capture_activation_fence: the sole open turn.                           *)
MayCapture(events, t) == OpenTurns(events) = {t}

(* ActivationFence.poll: the first event past the cursor that says the     *)
(* turn is over, its end or another turn's start.                          *)
Decides(event, t) == IF event.kind = "started" THEN event.turn # t ELSE event.turn = t

Verdict(event) == IF event.kind = "started" THEN "superseded" ELSE event.kind

Polled(events, fence) ==
    LET found == {i \in (fence.cursor + 1)..Len(events) : Decides(events[i], fence.turn)}
    IN  IF found = {} THEN "pending" ELSE Verdict(events[Min(found)])

\* Fault: only a completed turn has ended.
RecoveredFaultAborted(events, t) ==
    IF ~Begun(events, t) THEN "missing"
    ELSE IF Has(events, {"completed"}, t) THEN "completed" ELSE "pending"

(* recover_activation_fence: the whole tail is read, and the turn's own    *)
(* end counts whatever came before it.                                     *)
Recovered(events, t) ==
    LET later == {i \in DOMAIN events : \E j \in 1..(i - 1) :
                     events[j] = [kind |-> "started", turn |-> t]}
    IN  CASE ~Begun(events, t) -> "missing"
          [] Begun(events, t) /\ Has(events, {"completed"}, t) -> "completed"
          [] Begun(events, t) /\ Has(events, {"aborted"}, t) -> "aborted"
          [] Begun(events, t) /\ ~EndedIn(events, t) ->
                IF \E i \in later : events[i].kind = "started" THEN "superseded" ELSE "pending"
=============================================================================
