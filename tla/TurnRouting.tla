------------------------------ MODULE TurnRouting ------------------------------
(***************************************************************************)
(* Routing the app-server's turns to the tasks that own them, and          *)
(* interrupting a started turn that nobody owns exactly once               *)
(* (DaemonRegistry.selected and what it calls, scripts/daemon_registry.py).*)
(* The registry allows any number of callers; the daemon's worker is one.  *)
(* A caller takes the registry's lock for each of its two looks at the     *)
(* runtime files, and the engines, the user and the hooks write those      *)
(* files without it.                                                       *)
(***************************************************************************)
EXTENDS Integers, FiniteSets

CONSTANTS
    Session,    \* sessions, which are also the app-server's threads
    Turn,       \* turns
    Router,     \* callers of selected
    None,       \* no session, no turn, nobody
    Capacity    \* turn correlations kept at most

VARIABLES
    tasks,          \* sessions in the registry, managed ones
    file,           \* per session, its runtime file
    fence,          \* per session, the turn its activation waits for
    interrupted,    \* per turn, when its interruption was accepted
    attempt,        \* per turn, the caller that is interrupting it
    lock,           \* the caller inside the registry's lock
    pc, job         \* per caller, where it is and what it is about

vars == <<tasks, file, fence, interrupted, attempt, lock, pc, job>>

NoFile == [handoff |-> FALSE, managed |-> None, pending |-> "no file"]

\* handoff_requested of a session that may be handed off (enabled, without a
\* goal companion or a shutdown request), managed_turn_id, pending_turn_id and
\* how long ago its start has timed out.
RuntimeFile ==
    [handoff : BOOLEAN, managed : Turn \cup {None}, pending : Turn \cup {None},
     waited : {"never", "recent", "late"}]

NewFile == [handoff |-> FALSE, managed |-> None, pending |-> None, waited |-> "never"]

Idle == [turn |-> None, session |-> None, file |-> NoFile]

Init ==
    /\ tasks = {}
    /\ file = [s \in Session |-> NoFile]
    /\ fence = [s \in Session |-> None]
    /\ interrupted = [t \in Turn |-> "never"]
    /\ attempt = [t \in Turn |-> None]
    /\ lock = None
    /\ pc = [r \in Router |-> "idle"]
    /\ job = [r \in Router |-> Idle]

Goto(r, place) == pc' = [pc EXCEPT ![r] = place]
Set(r, new) == job' = [job EXCEPT ![r] = new]

\* Return to the caller: routed to a session, to none, or an error.
Return(r, s) == Goto(r, "returned") /\ Set(r, [job[r] EXCEPT !.session = s, !.file = NoFile])
Raise(r) == Goto(r, "idle") /\ Set(r, Idle)

(***************************************************************************)
(* _refresh_turn_owners: what the files of the registry's tasks say.  A    *)
(* turn two sessions name has no owner, and is not unowned either.         *)
(***************************************************************************)
Names(f, t) == f # NoFile /\ t \in {f.managed, f.pending}
Claimants(t) == {s \in tasks : Names(file[s], t)}
Owned(t) == Claimants(t) # {}
Owner(t) == IF \E s \in Session : Claimants(t) = {s}
            THEN CHOOSE s \in Session : Claimants(t) = {s} ELSE None
Correlations == Cardinality({t \in Turn : Owned(t)})

Interrupt(r, t) ==
    /\ Goto(r, "unowned")
    /\ Set(r, [job[r] EXCEPT !.turn = t, !.session = None, !.file = NoFile])
    /\ lock' = None

RouteTo(r, t, s) ==
    /\ Goto(r, "returned")
    /\ Set(r, [job[r] EXCEPT !.turn = t, !.session = s, !.file = NoFile])
    /\ lock' = None

\* The registry is given the start of turn t on a thread, or on none.
Selected(r, thread, t) ==
    LET s == IF thread = None THEN Owner(t) ELSE IF thread \in tasks THEN thread ELSE None IN
    /\ pc[r] = "idle" /\ lock = None /\ Correlations <= Capacity
    /\ CASE s = None \/ (s # None /\ file[s] = NoFile) -> Interrupt(r, t)
         [] s # None /\ file[s] # NoFile /\ t \in {file[s].managed, fence[s]} -> RouteTo(r, t, s)
         [] s # None /\ file[s] # NoFile /\ t \notin {file[s].managed, fence[s]} ->
                /\ Set(r, [turn |-> t, session |-> s, file |-> file[s]])
                /\ Goto(r, "claiming")
                /\ lock' = r
    /\ UNCHANGED <<tasks, file, fence, interrupted, attempt>>

(***************************************************************************)
(* _claim_started, from the file as it was read: adopt the user's turn,    *)
(* record the pending turn's start, or give up one that came too late.     *)
(***************************************************************************)
Adoptable(f) == f.handoff /\ f.pending = None

MayAdopt(f) == f # NoFile /\ f.handoff /\ f.managed = None /\ f.pending = None

Adopted(r) ==
    LET s == job[r].session  t == job[r].turn IN
    /\ pc[r] = "claiming" /\ Adoptable(job[r].file)
    /\ IF MayAdopt(file[s])
       THEN /\ file' = [file EXCEPT ![s].handoff = FALSE]
            /\ fence' = [fence EXCEPT ![s] = t]
            /\ RouteTo(r, t, s)
       ELSE Interrupt(r, t) /\ UNCHANGED <<file, fence>>
    /\ UNCHANGED <<tasks, interrupted, attempt>>

ClaimRefused(r) ==
    /\ pc[r] = "claiming" /\ ~Adoptable(job[r].file) /\ job[r].file.pending # job[r].turn
    /\ Interrupt(r, job[r].turn)
    /\ UNCHANGED <<tasks, file, fence, interrupted, attempt>>

\* record_turn_started raises when the file has changed.
StartRecorded(r) ==
    LET s == job[r].session  t == job[r].turn  f == file[s] IN
    /\ pc[r] = "claiming" /\ job[r].file.pending = t /\ job[r].file.waited # "late"
    /\ IF f = NoFile THEN RouteTo(r, t, s) /\ UNCHANGED file
       ELSE IF f.handoff /\ f.managed = None /\ f.pending \in {None, t}
            THEN /\ file' = [file EXCEPT ![s] = [NewFile EXCEPT !.managed = t]]
                 /\ RouteTo(r, t, s)
            ELSE Raise(r) /\ lock' = None /\ UNCHANGED file
    /\ UNCHANGED <<tasks, fence, interrupted, attempt>>

\* _expire_pending_turn
Expired(r) ==
    LET s == job[r].session  t == job[r].turn  f == file[s] IN
    /\ pc[r] = "claiming" /\ job[r].file.pending = t /\ job[r].file.waited = "late"
    /\ IF f # NoFile /\ f.pending = t
       THEN /\ file' = [file EXCEPT ![s].pending = None, ![s].waited = "never"]
            /\ Interrupt(r, t)
       ELSE /\ IF Owned(t) THEN RouteTo(r, t, Owner(t)) ELSE Interrupt(r, t)
            /\ UNCHANGED file
    /\ UNCHANGED <<tasks, fence, interrupted, attempt>>

(***************************************************************************)
(* _interrupt_once                                                         *)
(***************************************************************************)
Fresh == {t \in Turn : interrupted[t] = "recent"}
Attempted == {t \in Turn : attempt[t] # None}

\* Whoever comes later waits for the attempt in progress.
Attempting(r) ==
    LET t == job[r].turn IN
    /\ pc[r] = "unowned" /\ lock = None /\ Correlations <= Capacity
    /\ IF Owned(t) THEN Return(r, Owner(t)) /\ UNCHANGED <<interrupted, attempt>>
       ELSE /\ interrupted' = [u \in Turn |-> IF u \in Fresh THEN "recent" ELSE "never"]
            /\ CASE t \in Fresh -> Return(r, None) /\ UNCHANGED attempt
                 [] t \notin Fresh /\ t \in Attempted ->
                        Goto(r, "waiting") /\ UNCHANGED <<attempt, job>>
                 [] t \notin Fresh \cup Attempted ->
                        IF Cardinality(Fresh) + Cardinality(Attempted) >= Capacity
                        THEN Raise(r) /\ UNCHANGED attempt
                        ELSE /\ attempt' = [attempt EXCEPT ![t] = r]
                             /\ Goto(r, "asking") /\ UNCHANGED job
    /\ UNCHANGED <<tasks, file, fence, lock>>

Woken(r) ==
    /\ pc[r] = "waiting" /\ attempt[job[r].turn] = None
    /\ Goto(r, "unowned")
    /\ UNCHANGED <<tasks, file, fence, interrupted, attempt, lock, job>>

\* turn/interrupt was accepted.
Accepted(r) ==
    LET t == job[r].turn IN
    /\ pc[r] = "asking" /\ lock = None
    /\ interrupted' = [interrupted EXCEPT ![t] = "recent"]
    /\ attempt' = [attempt EXCEPT ![t] = None]
    /\ Goto(r, "recheck")
    /\ UNCHANGED <<tasks, file, fence, lock, job>>

\* Fault: the error of a request that fails is swallowed.
AskFailedFaultSilent(r) ==
    /\ pc[r] = "asking" /\ lock = None
    /\ attempt' = [attempt EXCEPT ![job[r].turn] = None]
    /\ Return(r, None)
    /\ UNCHANGED <<tasks, file, fence, interrupted, lock>>

\* It failed, or timed out.
AskFailed(r) ==
    /\ pc[r] = "asking" /\ lock = None
    /\ attempt' = [attempt EXCEPT ![job[r].turn] = None]
    /\ Raise(r)
    /\ UNCHANGED <<tasks, file, fence, interrupted, lock>>

Rechecked(r) ==
    /\ pc[r] = "recheck" /\ lock = None /\ Correlations <= Capacity
    /\ Return(r, Owner(job[r].turn))
    /\ UNCHANGED <<tasks, file, fence, interrupted, attempt, lock>>

\* _refresh_turn_owners raises when the files name too many turns.
OverCapacity(r) ==
    /\ pc[r] \in {"unowned", "recheck"} /\ lock = None /\ Correlations > Capacity
    /\ Raise(r)
    /\ UNCHANGED <<tasks, file, fence, interrupted, attempt, lock>>

Delivered(r) ==
    /\ pc[r] = "returned"
    /\ Raise(r)
    /\ UNCHANGED <<tasks, file, fence, interrupted, attempt, lock>>

-----------------------------------------------------------------------------
(* Others write the files: start and stop, and the session's engine.       *)

Write(s, f) == file' = [file EXCEPT ![s] = f] /\ UNCHANGED <<tasks, fence, interrupted, attempt,
                                                             lock, pc, job>>

TaskStarted(s) ==
    /\ s \notin tasks /\ file[s] = NoFile /\ lock = None
    /\ tasks' = tasks \cup {s}
    /\ file' = [file EXCEPT ![s] = [NewFile EXCEPT !.handoff = TRUE]]
    /\ UNCHANGED <<fence, interrupted, attempt, lock, pc, job>>

TaskDetached(s) ==
    /\ s \in tasks /\ lock = None
    /\ tasks' = tasks \ {s}
    /\ fence' = [fence EXCEPT ![s] = None]
    /\ UNCHANGED <<file, interrupted, attempt, lock, pc, job>>

FenceCompleted(s) ==
    /\ fence[s] # None /\ file[s] # NoFile
    /\ fence' = [fence EXCEPT ![s] = None]
    /\ file' = [file EXCEPT ![s].handoff = file[s].managed = None]
    /\ UNCHANGED <<tasks, interrupted, attempt, lock, pc, job>>

FileRemoved(s) == file[s] # NoFile /\ Write(s, NoFile)

TurnPending(s, t) ==
    /\ s \in tasks /\ MayAdopt(file[s])
    /\ \A u \in Session : ~Names(file[u], t)
    /\ Write(s, [file[s] EXCEPT !.pending = t])

StartTimedOut(s) ==
    /\ file[s] # NoFile /\ file[s].pending # None /\ file[s].waited # "late"
    /\ Write(s, [file[s] EXCEPT !.waited = IF @ = "never" THEN "recent" ELSE "late"])

TurnRecorded(s) ==
    /\ file[s] # NoFile /\ file[s].pending # None /\ file[s].waited # "late"
    /\ Write(s, [NewFile EXCEPT !.managed = file[s].pending])

TurnOver(s) ==
    /\ file[s] # NoFile /\ file[s].managed # None
    /\ Write(s, [NewFile EXCEPT !.handoff = TRUE])

\* Ten minutes have passed since the interruption; the caller has rechecked.
Lapsed(t) ==
    /\ interrupted[t] = "recent" /\ \A r \in Router : pc[r] = "recheck" => job[r].turn # t
    /\ interrupted' = [interrupted EXCEPT ![t] = "late"]
    /\ UNCHANGED <<tasks, file, fence, attempt, lock, pc, job>>

-----------------------------------------------------------------------------

Step(r) ==
    \/ Adopted(r) \/ ClaimRefused(r) \/ StartRecorded(r) \/ Expired(r)
    \/ Attempting(r) \/ Woken(r) \/ Rechecked(r) \/ OverCapacity(r) \/ Delivered(r)
    \/ Accepted(r) \/ AskFailed(r)

Next ==
    \/ \E r \in Router :
          Step(r) \/ \E t \in Turn, thread \in Session \cup {None} : Selected(r, thread, t)
    \/ \E s \in Session :
          \/ TaskStarted(s) \/ TaskDetached(s) \/ FenceCompleted(s) \/ FileRemoved(s)
          \/ StartTimedOut(s) \/ TurnRecorded(s) \/ TurnOver(s)
          \/ \E t \in Turn : TurnPending(s, t)
    \/ \E t \in Turn : Lapsed(t)

Spec == Init /\ [][Next]_vars

-----------------------------------------------------------------------------

TypeOK ==
    /\ tasks \subseteq Session
    /\ file \in [Session -> RuntimeFile \cup {NoFile}]
    /\ fence \in [Session -> Turn \cup {None}]
    /\ interrupted \in [Turn -> {"never", "recent", "late"}]
    /\ attempt \in [Turn -> Router \cup {None}]
    /\ lock \in Router \cup {None}
    /\ pc \in [Router -> {"idle", "claiming", "unowned", "waiting", "asking", "recheck", "returned"}]
    /\ job \in [Router -> [turn : Turn \cup {None}, session : Session \cup {None},
                           file : RuntimeFile \cup {NoFile}]]

(* Two callers never interrupt the same turn, nor one that was interrupted *)
(* in the last ten minutes.                                                *)
OneInterruption ==
    /\ \A t \in Turn : Cardinality({r \in Router : pc[r] = "asking" /\ job[r].turn = t}) <= 1
    /\ Fresh \cap Attempted = {}

(* Whoever is told that a turn it announced has no owner, and is given no  *)
(* error, can rely on its having been interrupted, or on two sessions      *)
(* having claimed it.                                                      *)
UnownedIsInterrupted ==
    [][\A r \in Router :
          pc[r] # "returned" /\ pc'[r] = "returned" /\ job'[r].session = None =>
             job'[r].turn \in Fresh' \/ Cardinality(Claimants(job'[r].turn)) > 1]_vars

(* A turn is interrupted only while no file of the registry's tasks names  *)
(* it: one whose owner has recorded it is left alone.                      *)
OwnedIsLeftAlone ==
    [][\A t \in Turn : attempt[t] = None /\ attempt'[t] # None => ~Owned(t)]_vars

(* Nobody waits for an attempt that nobody makes any more: whoever holds a *)
(* turn's attempt is asking for its interruption, and wakes the others     *)
(* when that fails, too.                                                   *)
AttemptIsMade ==
    \A t \in Turn : attempt[t] # None => pc[attempt[t]] = "asking" /\ job[attempt[t]].turn = t

(* Every announced turn is settled: one without an owner is interrupted,   *)
(* once, by one caller, while no file names it, and nobody is left waiting *)
(* for the attempt (selected, _interrupt_once, _claim_interrupt_attempt).  *)
AnnouncedTurnsAreSettled ==
    UnownedIsInterrupted /\ OwnedIsLeftAlone /\ [](TypeOK /\ OneInterruption /\ AttemptIsMade)
=============================================================================
