----------------------------- MODULE WatcherLease -----------------------------
(***************************************************************************)
(* The standalone watcher (scripts/watcher.py, watcher_launch.py): a       *)
(* process of its own around the engine of NotificationWatcher, for all    *)
(* sessions of one state root.  A hook or the setup records that a session *)
(* has something to watch and then launches a watcher; only the holder of  *)
(* the lock beside watcher.lease watches, a launched process waits HandOff *)
(* seconds for it and gives up, and the holder leaves when a tick has      *)
(* found nothing to watch.  What counts is therefore whether the holder    *)
(* sees what was recorded before the launch that found it holding.         *)
(***************************************************************************)
EXTENDS Naturals

CONSTANTS
    Session, Process, None,
    HandOff,    \* _LEASE_HANDOFF_SECONDS
    TickLimit   \* bound on the seconds a tick takes: the code sets none

Visit == [session : Session, current : BOOLEAN]

WatcherLeaseTyping ==
    /\ HandOff \in Nat /\ TickLimit \in Nat
    /\ None \notin Process \cup Nat \cup Visit

VARIABLES
    active,       \* sessions with a monitor that is not terminal
    launching,    \* sessions whose hook or setup is about to launch a watcher
    waiting,      \* per process, the seconds it has waited for the lease, or None
    holder,       \* the process that holds the lease, or None
    phase,        \* of the holder: "tick", "sleep" or "leave"
    todo,         \* sessions this tick has discovered and not visited
    at,           \* None, or the session visited and whether its snapshot is current
    found,        \* whether this tick has found something to watch
    spent,        \* seconds this tick has taken
    quarantined,  \* _failed_sessions of the holder
    excused       \* history: active sessions whose watching ended in a failure,
                  \* or that a tick had passed by which outlasted the hand-off

vars == <<active, launching, waiting, holder, phase, todo, at, found, spent,
          quarantined, excused>>
tickVars == <<phase, todo, at, found, spent>>

Init ==
    /\ active = {} /\ launching = {} /\ excused = {}
    /\ waiting = [p \in Process |-> None] /\ holder = None
    /\ phase = "leave" /\ todo = {} /\ at = None /\ found = FALSE /\ spent = 0
    /\ quarantined = {}

\* Whatever writes the runtime file of t makes a snapshot of it stale.
Outdates(t) ==
    at' = IF at # None /\ at.session = t THEN [at EXCEPT !.current = FALSE] ELSE at

(***************************************************************************)
(* Hooks, setup and managers, other processes all of them.                 *)
(***************************************************************************)
(* process_hook for a new turn or child, enable_session and               *)
(* record_turn_started; the holder's quarantine outlasts the turn.         *)
Begin(t) ==
    /\ t \notin launching
    /\ active' = active \cup {t}
    /\ launching' = launching \cup {t}
    /\ excused' = (excused \ {t}) \cup ({t} \cap quarantined)
    /\ Outdates(t)
    /\ UNCHANGED <<waiting, holder, phase, todo, found, spent, quarantined>>

\* Every other event of a session under way: nothing is launched for it.
Touch(t) ==
    /\ t \in active
    /\ Outdates(t)
    /\ UNCHANGED <<active, launching, waiting, holder, phase, todo, found, spent,
                   quarantined, excused>>

\* Its turn ends, or it is disabled.
Ends(t) ==
    /\ t \in active
    /\ active' = active \ {t} /\ excused' = excused \ {t}
    /\ Outdates(t)
    /\ UNCHANGED <<launching, waiting, holder, phase, todo, found, spent, quarantined>>

Launch(t) ==
    /\ t \in launching
    /\ launching' = launching \ {t}
    /\ \E p \in Process \ {holder} :
          waiting[p] = None /\ waiting' = [waiting EXCEPT ![p] = 0]
    /\ UNCHANGED <<active, holder, tickVars, quarantined, excused>>

\* Popen fails or the hook dies first; the setup disables the session again.
LaunchFails(t) ==
    /\ t \in launching
    /\ launching' = launching \ {t}
    /\ \/ excused' = excused \cup ({t} \cap active) /\ UNCHANGED <<active, at>>
       \/ active' = active \ {t} /\ excused' = excused \ {t} /\ Outdates(t)
    /\ UNCHANGED <<waiting, holder, phase, todo, found, spent, quarantined>>

(***************************************************************************)
(* acquire_watcher_lease, and the loop of _main.                           *)
(***************************************************************************)
(* RuntimeFileMonitor.tick lists the runtime files once: of the sessions   *)
(* that are not active now, those that have one.                           *)
BeginTick ==
    /\ phase' = "tick" /\ found' = FALSE /\ spent' = 0 /\ at' = None
    /\ \E inactive \in SUBSET (Session \ active) : todo' = active \cup inactive

Acquire(p) ==
    /\ waiting[p] # None /\ holder = None
    /\ waiting' = [waiting EXCEPT ![p] = None]
    /\ holder' = p
    /\ BeginTick
    /\ UNCHANGED <<active, launching, quarantined, excused>>

(* The lock was tried once more at the deadline.  A tick that has taken as  *)
(* long as that may have passed by the session the process was launched for.*)
GiveUp(p) ==
    /\ waiting[p] = HandOff /\ holder # None
    /\ waiting' = [waiting EXCEPT ![p] = None]
    /\ excused' = IF phase # "sleep" /\ spent >= HandOff
                  THEN excused \cup (active \ todo) ELSE excused
    /\ UNCHANGED <<active, launching, holder, tickVars, quarantined>>

\* The locked read of one runtime file.
Snapshot(t) ==
    /\ phase = "tick" /\ at = None /\ t \in todo
    /\ todo' = todo \ {t}
    /\ at' = IF t \in active \ quarantined THEN [session |-> t, current |-> TRUE] ELSE None
    /\ UNCHANGED <<active, launching, waiting, holder, phase, found, spent, quarantined,
                   excused>>

(* Fault: a newer revision counts as nothing to watch.                     *)
CommitFaultIgnoresNewer ==
    /\ phase = "tick" /\ at # None
    /\ at' = None
    /\ \/ /\ found' = (found \/ at.current)
          /\ excused' = excused \ {at.session}
          /\ UNCHANGED active
       \/ /\ at.current
          /\ active' = active \ {at.session} /\ excused' = excused \ {at.session}
          /\ UNCHANGED found
    /\ UNCHANGED <<launching, waiting, holder, phase, todo, spent, quarantined>>

(* commit_runtime_snapshot: the target is evaluated if its snapshot is     *)
(* still the present revision, which may show that its turn is over; a     *)
(* newer revision is not evaluated but still says whether it is active.    *)
Commit ==
    /\ phase = "tick" /\ at # None
    /\ at' = None
    /\ \/ /\ found' = (found \/ at.session \in active)
          /\ excused' = excused \ {at.session}
          /\ UNCHANGED active
       \/ /\ at.current
          /\ active' = active \ {at.session} /\ excused' = excused \ {at.session}
          /\ UNCHANGED found
    /\ UNCHANGED <<launching, waiting, holder, phase, todo, spent, quarantined>>

(* record_rollout_failure: an unreadable rollout quarantines its session   *)
(* in this process; if a hook was faster nothing is recorded, and the tick *)
(* does not count the session all the same.                                *)
ReadFails ==
    /\ phase = "tick" /\ at # None
    /\ at' = None
    /\ quarantined' = IF at.current THEN quarantined \cup {at.session} ELSE quarantined
    /\ excused' = excused \cup ({at.session} \cap active)
    /\ UNCHANGED <<active, launching, waiting, holder, phase, todo, found, spent>>

\* refresh_watcher_lease and the sleep, or the loop ends.
EndTick ==
    /\ phase = "tick" /\ at = None /\ todo = {}
    /\ phase' = IF found THEN "sleep" ELSE "leave"
    /\ UNCHANGED <<active, launching, waiting, holder, todo, at, found, spent,
                   quarantined, excused>>

Wake ==
    /\ phase = "sleep"
    /\ BeginTick
    /\ UNCHANGED <<active, launching, waiting, holder, quarantined, excused>>

(* An OSError, StateError or ValueError of one session or of the refresh   *)
(* ends the process, whatever else it watched.                             *)
TickRaises ==
    /\ phase = "tick"
    /\ phase' = "leave" /\ at' = None /\ todo' = {}
    /\ excused' = active
    /\ UNCHANGED <<active, launching, waiting, holder, found, spent, quarantined>>

Freed ==
    /\ holder' = None
    /\ phase' = "leave" /\ todo' = {} /\ at' = None /\ found' = FALSE /\ spent' = 0
    /\ quarantined' = {}

\* release_watcher_lease; a failing unlink ends the process and frees the lock too.
Release ==
    /\ holder # None /\ phase = "leave"
    /\ Freed
    /\ UNCHANGED <<active, launching, waiting, excused>>

\* A process dies; the system frees its lock.
Crash(p) ==
    /\ \/ p = holder /\ Freed /\ UNCHANGED waiting
       \/ /\ waiting[p] # None
          /\ waiting' = [waiting EXCEPT ![p] = None]
          /\ UNCHANGED <<holder, tickVars, quarantined>>
    /\ excused' = active
    /\ UNCHANGED <<active, launching>>

(* Time passes while somebody waits: no further than to the end of a wait  *)
(* or of the tick, and a free lock is taken within the second.             *)
Second ==
    /\ holder # None /\ \A p \in Process : waiting[p] # HandOff
    /\ phase # "sleep" => spent < TickLimit
    /\ \E p \in Process : waiting[p] # None
    /\ waiting' = [p \in Process |-> IF waiting[p] = None THEN None ELSE waiting[p] + 1]
    /\ spent' = IF phase = "sleep" THEN spent ELSE spent + 1
    /\ UNCHANGED <<active, launching, holder, phase, todo, at, found, quarantined,
                   excused>>

Next ==
    \/ \E t \in Session :
          Begin(t) \/ Touch(t) \/ Ends(t) \/ Launch(t) \/ LaunchFails(t) \/ Snapshot(t)
    \/ \E p \in Process : Acquire(p) \/ GiveUp(p) \/ Crash(p)
    \/ Commit \/ ReadFails \/ EndTick \/ Wake \/ TickRaises \/ Release \/ Second

Spec == Init /\ [][Next]_vars

-----------------------------------------------------------------------------
(* A launch that finds the lease taken is harmless: when no watcher runs,  *)
(* waits or is about to be launched, no session is left with something to  *)
(* watch, except by a failure since its last launch, or because a tick of  *)
(* the holder had passed it by and lasted as long as the whole hand-off    *)
(* wait, which nothing in the code rules out (the hand-off wait of         *)
(* acquire_watcher_lease, and the activity commit_runtime_snapshot reports *)
(* of a newer revision).                                                   *)
LaunchIsWatched ==
    holder = None /\ launching = {} /\ (\A p \in Process : waiting[p] = None)
        => active \subseteq excused
===============================================================================
