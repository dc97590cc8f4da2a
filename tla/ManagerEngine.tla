---------------------------- MODULE ManagerEngine ----------------------------
(***************************************************************************)
(* One tick of a resident manager (scripts/manager_engine.py,              *)
(* manager_decision.py, manager_interrupt.py, manager_outcome.py,          *)
(* manager_shutdown.py).  A tick loads the runtime file once and acts on   *)
(* that snapshot; each locked update of the file, each request to the      *)
(* app-server and each wait for a notification is a step of its own, and   *)
(* hooks, the user and the app-server act in between.  A tick ends at      *)
(* "rest", "stopping" (it returned False) or "failing".                    *)
(***************************************************************************)
EXTENDS ManagerTurns

VARIABLES
    file,       \* the runtime file
    unread,     \* the rollout holds activity past the watcher's cursor
    pc,         \* per process, where it is
    snap,       \* per process, the runtime file as its tick loaded it
    turn        \* per process, the turn its step is about

engineVars == <<file, unread, pc, snap, turn>>

InTick ==
    {"act", "expire", "record", "wait_start", "recover", "recheck", "send", "wait_end",
     "stop_wait"}

TickStates == InTick \cup {"rest", "disable", "stopping", "failing"}

Goto(p, place) == pc' = [pc EXCEPT ![p] = place]

(* What a step is about; one that ends the tick forgets what it loaded.    *)
KeepTurn(p, t) ==
    /\ snap' = [snap EXCEPT ![p] = IF pc'[p] \in InTick THEN @ ELSE NothingLoaded]
    /\ turn' = [turn EXCEPT ![p] = IF pc'[p] \in InTick THEN t ELSE None]

Keep(p) == KeepTurn(p, turn[p])

(* A locked update whose callable never raises.                            *)
Update(new) == file' = IF file = NoFile THEN file ELSE new

(* One that raises unless ok: nothing is written and the manager fails.    *)
Checked(p, ok, new, next) ==
    IF file = NoFile \/ ok
    THEN Update(new) /\ Goto(p, next)
    ELSE UNCHANGED file /\ Goto(p, "failing")

Load(p) ==
    /\ pc[p] = "rest"
    /\ IF file = NoFile
       THEN Goto(p, "stopping") /\ UNCHANGED snap
       ELSE Goto(p, "act") /\ snap' = [snap EXCEPT ![p] = Loaded(file)]
    /\ UNCHANGED <<file, unread, turn, turnVars>>

(***************************************************************************)
(* The order of _tick_runtime: a server request no one answers, a pending  *)
(* turn, the outcome of the owned turn, a shutdown, and only then the      *)
(* decision.                                                               *)
(***************************************************************************)
InPending(p) == pc[p] = "act" /\ snap[p].pending # None
InOutcome(p) ==
    /\ pc[p] = "act" /\ snap[p].pending = None
    /\ Outcome(p, snap[p].managed) # "unknown"
InShutdown(p) ==
    /\ pc[p] = "act" /\ snap[p].pending = None
    /\ Outcome(p, snap[p].managed) = "unknown"
    /\ snap[p].shutdown
\* Fault: a shutdown on record does not hold up the decision.
InDecisionFaultShutdown(p) ==
    /\ pc[p] = "act" /\ snap[p].pending = None
    /\ Outcome(p, snap[p].managed) = "unknown"

InDecision(p) ==
    /\ pc[p] = "act" /\ snap[p].pending = None
    /\ Outcome(p, snap[p].managed) = "unknown"
    /\ ~snap[p].shutdown

ServerAsks(p) ==
    /\ pc[p] = "act" /\ child[p] /\ \E t \in Turn : owner[t] = p /\ status[t] = "running"
    /\ Goto(p, "failing")
    /\ Keep(p) /\ UNCHANGED <<file, unread, turnVars>>

(* _reconcile_pending_turn *)
Reconcile(p) ==
    LET t == snap[p].pending IN
    /\ InPending(p)
    /\ IF snap[p].waited = "late"
       THEN IF file # NoFile /\ file.pending = t
            THEN file' = WithoutPending(file) /\ Goto(p, "expire")
            ELSE UNCHANGED file /\ Goto(p, "failing")
       ELSE IF active[p] = t \/ Outcome(p, t) # "unknown"
            THEN Checked(p, MayStart(file, t), Started(file, t), "rest")
            ELSE UNCHANGED file /\ Goto(p, "rest")
    /\ KeepTurn(p, t)
    /\ UNCHANGED <<unread, turnVars>>

(* A request whose child is gone raises.                                   *)
RequestInterrupt(p, t, next) ==
    \/ child[p] /\ AskInterrupt(t) /\ Goto(p, next)
    \/ UNCHANGED asked /\ Goto(p, "failing")

\* expire_pending, after its claim.
Expire(p) ==
    /\ pc[p] = "expire"
    /\ RequestInterrupt(p, turn[p], "failing")
    /\ Keep(p) /\ UNCHANGED <<file, unread, status, owner, seen, active, child>>

(* resolve_turn_outcome, of a session without a goal companion.            *)
Resolve(p) ==
    LET t == snap[p].managed
        claim == IF Outcome(p, t) = "interrupted" THEN InterruptClaim(snap[p], t)
                                                  ELSE Outcome(p, t) IN
    /\ InOutcome(p)
    /\ \/ /\ claim \in {"failed", "expired", "mismatch"}
          /\ UNCHANGED file /\ Goto(p, "failing")
       \/ /\ claim \in {"completed", "unclaimed"}
          /\ IF snap[p].shutdown THEN UNCHANGED file /\ Goto(p, "disable")
             ELSE Checked(p, file.managed = t, Finished(file), "rest")
       \/ /\ claim = "matched"
          /\ Checked(p, MayCountRestart(file, t), Restarted(file), "rest")
    /\ Keep(p) /\ UNCHANGED <<unread, turnVars>>

(* handle_shutdown *)
Shutdown(p) ==
    LET t == snap[p].managed IN
    /\ InShutdown(p)
    /\ \/ t = None /\ Goto(p, "disable") /\ UNCHANGED asked
       \/ t # None /\ ~snap[p].interrupt /\ Goto(p, "rest") /\ UNCHANGED asked
       \/ /\ t # None /\ snap[p].interrupt
          /\ IF active[p] # t THEN Goto(p, "failing") /\ UNCHANGED asked
             ELSE RequestInterrupt(p, t, "stop_wait")
    /\ KeepTurn(p, t)
    /\ UNCHANGED <<file, unread, status, owner, seen, active, child>>

\* Waits end with what they wait for, in a timeout, or when the child is gone.
ShutdownWait(p) ==
    /\ pc[p] = "stop_wait"
    /\ \/ WasCompleted(p, turn[p]) /\ Goto(p, "disable")
       \/ ~WasCompleted(p, turn[p]) /\ Goto(p, "failing")
    /\ Keep(p) /\ UNCHANGED <<file, unread, turnVars>>

\* disable_session, by the manager.
Disable(p) ==
    /\ pc[p] = "disable"
    /\ file' = NoFile
    /\ Goto(p, "stopping")
    /\ Keep(p) /\ UNCHANGED <<unread, turnVars>>

(***************************************************************************)
(* decide_manager_action.                                                  *)
(***************************************************************************)
Decision(f, act) ==
    IF f.request.turn # None
    THEN IF f.request.turn # f.managed \/ act \notin {None, f.managed} THEN "fail"
         ELSE IF act = None THEN "wait" ELSE "interrupt"
    ELSE IF f.handoff /\ f.managed = None /\ act = None THEN "start" ELSE "wait"

Decide(p) ==
    /\ InDecision(p)
    /\ Decision(snap[p], active[p]) \in {"fail", "wait"}
    /\ Goto(p, IF Decision(snap[p], active[p]) = "fail" THEN "failing" ELSE "rest")
    /\ Keep(p) /\ UNCHANGED <<file, unread, turnVars>>

(* _start_turn: the request is refused, answered, or accepted and the      *)
(* answer lost.                                                            *)
Start(p) ==
    /\ InDecision(p) /\ Decision(snap[p], active[p]) = "start"
    /\ \/ Goto(p, "failing") /\ Keep(p) /\ UNCHANGED turnVars
       \/ \E t \in Turn :
            /\ Accept(p, t)
            /\ Goto(p, "record") \/ Goto(p, "failing")
            /\ KeepTurn(p, t)
    /\ UNCHANGED <<file, unread>>

(* _persist_accepted_turn *)
Record(p) ==
    /\ pc[p] = "record"
    /\ IF file = NoFile \/ MayPend(file)
       THEN Update(Pending(file, turn[p])) /\ Goto(p, "wait_start")
       ELSE UNCHANGED file /\ Goto(p, "recover")
    /\ Keep(p) /\ UNCHANGED <<unread, turnVars>>

(* _recover_accepted_turn: the turn is interrupted unless the file owns it.*)
Recover(p) ==
    /\ pc[p] = "recover"
    /\ IF file # NoFile /\ turn[p] \in {file.pending, file.managed}
       THEN Goto(p, "failing") /\ UNCHANGED asked
       ELSE RequestInterrupt(p, turn[p], "failing")
    /\ Keep(p) /\ UNCHANGED <<file, unread, status, owner, seen, active, child>>

(* wait_turn_started: started, timed out, or the child is gone.            *)
WaitStart(p) ==
    LET t == turn[p] IN
    /\ pc[p] = "wait_start"
    /\ \/ /\ WasStarted(p, t)
          /\ Bind(p, t)
          /\ Checked(p, MayStart(file, t), Started(file, t), "rest")
       \/ /\ ~WasStarted(p, t) /\ child[p]
          /\ Checked(p, file.pending = t, TimedOut(file), "rest")
          /\ UNCHANGED active
       \/ /\ ~WasStarted(p, t) /\ ~child[p]
          /\ Goto(p, "failing") /\ UNCHANGED <<file, active>>
    /\ Keep(p) /\ UNCHANGED <<unread, status, owner, seen, child, asked>>

(***************************************************************************)
(* InterruptController.execute                                             *)
(***************************************************************************)
(* claim_restart_request *)
Claim(p) ==
    LET r == snap[p].request IN
    /\ InDecision(p) /\ Decision(snap[p], active[p]) = "interrupt"
    /\ IF snap[p].claimed # "never" \/ file = NoFile
       THEN UNCHANGED file /\ Goto(p, "rest")
       ELSE IF file.claimed = "never" /\ Fresh(file, r, unread)
            THEN file' = [file EXCEPT !.claimed = "recent"] /\ Goto(p, "recheck")
            ELSE /\ file' = IF file.claimed = "never"
                            THEN ClearedIfStale(file, r, unread) ELSE file
                 /\ Goto(p, "rest")
    /\ KeepTurn(p, snap[p].managed)
    /\ UNCHANGED <<unread, turnVars>>

(* restart_request_is_fresh, and _cancel when it is not.                   *)
Cancelled(p, f) ==
    IF WasCompleted(p, turn[p])
    THEN /\ \/ f = NoFile /\ file' = f /\ Goto(p, "rest")
            \/ f # NoFile /\ f.managed = turn[p] /\ file' = Finished(f) /\ Goto(p, "rest")
            \/ f # NoFile /\ f.managed # turn[p] /\ file' = f /\ Goto(p, "failing")
    ELSE /\ file' = IF f = NoFile THEN f ELSE ClearedIfSame(f, snap[p].request)
         /\ Goto(p, "rest")

Recheck(p) ==
    LET r == snap[p].request IN
    /\ pc[p] = "recheck"
    /\ IF file # NoFile /\ Fresh(file, r, unread)
       THEN UNCHANGED file /\ Goto(p, "send")
       ELSE Cancelled(p, IF file = NoFile THEN file ELSE ClearedIfStale(file, r, unread))
    /\ Keep(p) /\ UNCHANGED <<unread, turnVars>>

SendInterrupt(p) ==
    /\ pc[p] = "send"
    /\ IF active[p] = None THEN Cancelled(p, file) /\ UNCHANGED asked
       ELSE IF active[p] # turn[p] THEN Goto(p, "failing") /\ UNCHANGED <<file, asked>>
       ELSE RequestInterrupt(p, turn[p], "wait_end") /\ UNCHANGED file
    /\ Keep(p) /\ UNCHANGED <<unread, status, owner, seen, active, child>>

\* Fault: a wait that times out leaves the turn for the next tick.
WaitEndFaultPatient(p) ==
    LET t == turn[p] IN
    /\ pc[p] = "wait_end"
    /\ \/ Outcome(p, t) \in {"unknown", "completed"} /\ Goto(p, "rest") /\ UNCHANGED file
       \/ Outcome(p, t) = "failed" /\ Goto(p, "failing") /\ UNCHANGED file
       \/ /\ Outcome(p, t) = "interrupted"
          /\ Checked(p, MayCountRestart(file, t), Restarted(file), "rest")
    /\ Keep(p) /\ UNCHANGED <<unread, turnVars>>

(* wait_turn_completed and _finish_interrupt.                              *)
WaitEnd(p) ==
    LET t == turn[p] IN
    /\ pc[p] = "wait_end"
    /\ \/ Outcome(p, t) \in {"unknown", "failed"} /\ Goto(p, "failing") /\ UNCHANGED file
       \/ Outcome(p, t) = "completed" /\ Goto(p, "rest") /\ UNCHANGED file
       \/ /\ Outcome(p, t) = "interrupted"
          /\ Checked(p, MayCountRestart(file, t), Restarted(file), "rest")
    /\ Keep(p) /\ UNCHANGED <<unread, turnVars>>

Tick(p) ==
    \/ Load(p) \/ ServerAsks(p) \/ Reconcile(p) \/ Expire(p) \/ Resolve(p)
    \/ Shutdown(p) \/ ShutdownWait(p) \/ Disable(p) \/ Decide(p)
    \/ Start(p) \/ Record(p) \/ Recover(p) \/ WaitStart(p)
    \/ Claim(p) \/ Recheck(p) \/ SendInterrupt(p) \/ WaitEnd(p)
=============================================================================
