------------------------ MODULE MCNotificationWatcher ------------------------
(***************************************************************************)
(* Instances of NotificationWatcher for TLC; the bounds are in the .cfg    *)
(* files and, for two daemons on one state root, here.                     *)
(***************************************************************************)
EXTENDS NotificationWatcher, TLC

CONSTANTS d1, d2, c1, c2

\* a pair of daemons, whose rollout begins with a call opened before them
IsPair == rollout # <<>> /\ rollout[1].call = c2

Symmetry == Permutations({d1, d2})

\* What a pair does not get of the bounds counts as spent: it creates one
\* session, does not crash and has a log that does not fail.
PairInit ==
  /\ Untouched
  /\ rollout = <<[kind |-> "start", call |-> c2, at |-> 0]>>
  /\ pc = [d \in Daemons |-> "idle"]
  /\ spent = [activations |-> MaxActivations - 1, stops |-> MaxStops, failures |-> MaxFailures]
             @@ ("log failures" :> MaxLogFailures)

\* one daemon, the other not there
AgainInit ==
  /\ Untouched
  /\ rollout = <<>>
  /\ \E down \in Daemons : pc = [d \in Daemons |-> IF d = down THEN "down" ELSE "idle"]
  /\ spent = [b \in Bounds |-> 0]

AgainOrPairSpec == (AgainInit \/ PairInit) /\ [][Next]_vars

\* One daemon after the other and one crash or failed access to the log, or
\* a pair that meets messages only.
OneAtATime ==
  IF IsPair THEN ~ Wrote("start", c1)
  ELSE /\ \E d \in Daemons : pc[d] = "down"
       /\ spent["stops"] + spent["log failures"] <= 1

(* The batch that two daemons have read from the same cursor counts as      *)
(* progress once, and the cursor they share is never ahead of the anchor    *)
(* (commit_new_progress).                                                   *)
SharedProgressCountsOnce == IsPair => ProgressCountedOnce /\ AnchorCoversCursor

(* The only daemon polls an unfinished session whatever raised, failed or   *)
(* restarted (the other daemon of a pair may not know of it: run, close).   *)
OnlyDaemonPolls == ~IsPair => MonitorIsDriven
===============================================================================
