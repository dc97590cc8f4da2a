---------------------------- MODULE KeyedDeadlines ----------------------------
(***************************************************************************)
(* What a keyed deadline timer promises to the daemon that uses it.        *)
(*                                                                         *)
(* Each key holds at most one armed deadline.  Arming a key again replaces *)
(* the deadline, disarming it removes the deadline.  Deadlines fire one at *)
(* a time, earliest first, never before their time, and a deadline that    *)
(* fired, was replaced or was disarmed never fires again.  A timer that    *)
(* was shut holds nothing and fires nothing.                               *)
(*                                                                         *)
(* DeadlineScheduler.tla implements this specification.                    *)
(***************************************************************************)
EXTENDS Naturals

CONSTANTS
  Keys,       \* the keys a deadline can be armed under
  Deadlines   \* the instants a deadline can be armed for

VARIABLES
  armed,     \* the armed deadlines, records [key, deadline, sequence]
  running,   \* the fired deadline whose callback is executing, if any
  issued,    \* how many deadlines were ever armed
  open,      \* FALSE once the timer was shut
  now        \* the clock

vars == <<armed, running, issued, open, now>>

Init ==
  /\ armed = {}
  /\ running = {}
  /\ issued = 0
  /\ open = TRUE
  /\ now = 0

(***************************************************************************)
(* Arming a key gives it a new deadline and forgets the previous one.      *)
(***************************************************************************)
Arm ==
  /\ open
  /\ issued' = issued + 1
  /\ \E k \in Keys, d \in Deadlines :
       armed' = {e \in armed : e.key # k}
                  \cup {[key |-> k, deadline |-> d, sequence |-> issued + 1]}
  /\ UNCHANGED <<running, open, now>>

Disarm ==
  /\ \E k \in Keys : armed' = {e \in armed : e.key # k}
  /\ UNCHANGED <<running, issued, open, now>>

(***************************************************************************)
(* The earliest armed deadline fires once it is due.                       *)
(***************************************************************************)
Fire ==
  /\ open
  /\ running = {}
  /\ \E e \in armed :
       /\ e.deadline <= now
       /\ \A f \in armed : e.deadline <= f.deadline
       /\ armed' = armed \ {e}
       /\ running' = {e}
  /\ UNCHANGED <<issued, open, now>>

(***************************************************************************)
(* The callback returns.  The timer may be found broken at that moment.    *)
(***************************************************************************)
Finish ==
  /\ running # {}
  /\ running' = {}
  /\ \/ UNCHANGED <<armed, open>>
     \/ armed' = {} /\ open' = FALSE
  /\ UNCHANGED <<issued, now>>

Shut ==
  /\ open' = FALSE
  /\ armed' = {}
  /\ UNCHANGED <<running, issued, now>>

Tick ==
  /\ now' \in Nat
  /\ now' > now
  /\ UNCHANGED <<armed, running, issued, open>>

Next == Arm \/ Disarm \/ Fire \/ Finish \/ Shut \/ Tick

Spec == Init /\ [][Next]_vars
===============================================================================
