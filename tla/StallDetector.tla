---------------------------- MODULE StallDetector ----------------------------
(***************************************************************************)
(* The two-stage silence detector of one monitored target                  *)
(* (scripts/stall_detector.py), as operators over its state.  The detector *)
(* keeps one silence interval: since when no progress was seen, and        *)
(* whether the interval's warning and critical diagnostics were emitted.   *)
(***************************************************************************)
EXTENDS Integers

CONSTANTS
  Warning,    \* silence after which a warning is due
  Critical    \* silence after which a critical diagnostic is due

ASSUME ThresholdAssumption ==
  /\ Warning \in Nat /\ Critical \in Nat
  /\ Warning > 0
  /\ Critical > Warning

Phases == {"healthy", "paused", "silent_warned", "critical", "terminal"}

(* WaitState: nothing known, a confirmed wait, or a finished target. *)
Waits == {"none", "paused", "terminal"}

SilenceState ==
  [phase : Phases, since : Int, waits : Waits, warned : BOOLEAN,
   critical : BOOLEAN]

InitialState(at) ==
  [phase |-> "healthy", since |-> at, waits |-> "none", warned |-> FALSE,
   critical |-> FALSE]

(* A finished target and a clock that went backwards hide the progress. *)
AcceptsProgress(s, at) == s.waits # "terminal" /\ at >= s.since

RecordProgress(s, at) ==
  IF AcceptsProgress(s, at)
    THEN [s EXCEPT !.since = at, !.warned = FALSE, !.critical = FALSE,
                   !.phase = IF s.waits = "paused" THEN "paused" ELSE "healthy"]
    ELSE s

(* Resuming from a wait does not restart the silence interval. *)
SetWaits(s, waits) ==
  [s EXCEPT !.waits = waits,
            !.phase = CASE waits = "terminal" -> "terminal"
                        [] waits = "paused" -> "paused"
                        [] OTHER -> IF s.waits = "paused" THEN "healthy"
                                                          ELSE s.phase]

(* The diagnostic an evaluation emits, if any. *)
ActionAt(s, now) ==
  LET elapsed == now - s.since IN
  IF s.waits = "terminal" THEN "stop"
  ELSE IF s.waits = "paused" \/ elapsed < Warning THEN "none"
  ELSE IF ~s.warned THEN "silence"
  ELSE IF elapsed >= Critical /\ ~s.critical THEN "critical" ELSE "none"

(* The state an evaluation leaves behind. *)
Evaluate(s, now) ==
  LET elapsed == now - s.since
      action == ActionAt(s, now)
  IN [s EXCEPT
        !.warned = @ \/ action = "silence",
        !.critical = @ \/ action = "critical",
        !.phase = IF s.waits # "none" THEN s.waits
                  ELSE IF elapsed < Warning THEN "healthy"
                  ELSE IF action = "critical" THEN "critical"
                  ELSE IF action = "silence" \/ elapsed < Critical THEN "silent_warned"
                  ELSE @]

(* watcher_recovery.py: rebuild the detector of a restarted process. *)
RecoveredState(startedAt) == InitialState(startedAt)

RestoreSuspected(s) == [s EXCEPT !.phase = "silent_warned", !.warned = TRUE]
===============================================================================
