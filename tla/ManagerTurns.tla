----------------------------- MODULE ManagerTurns -----------------------------
(***************************************************************************)
(* Turns on a manager's own connection: what the app-server does with them *)
(* (external) and what the connection has observed of them                 *)
(* (scripts/app_server_client.py, app_server_activity.py and               *)
(* app_server_protocol.py).  Every manager has a connection, an app-server *)
(* child of its own; notifications arrive in the order they were sent and  *)
(* only at the connection that started the turn.                           *)
(***************************************************************************)
EXTENDS ManagerRuntime

VARIABLES
    status,     \* per turn, what the app-server makes of it
    owner,      \* per turn, the manager whose connection started it
    seen,       \* per turn, the last notification its connection recorded
    active,     \* per manager, the turn its connection holds active
    child,      \* per manager, whether its app-server child runs
    asked       \* history: per turn, how often its interruption was requested

turnVars == <<status, owner, seen, active, child, asked>>

Ended == {"completed", "interrupted", "failed"}
Live(t) == status[t] = "running"

TurnTypeOK ==
    /\ status \in [Turn -> {"none", "running", "gone"} \cup Ended]
    /\ owner \in [Turn -> Process \cup {None}]
    /\ seen \in [Turn -> {"nothing", "start", "end"}]
    /\ active \in [Process -> Turn \cup {None}]
    /\ child \in [Process -> BOOLEAN]
    /\ asked \in [Turn -> Nat]

TurnInit ==
    /\ status = [t \in Turn |-> "none"]
    /\ owner = [t \in Turn |-> None]
    /\ seen = [t \in Turn |-> "nothing"]
    /\ active = [p \in Process |-> None]
    /\ child = [p \in Process |-> FALSE]
    /\ asked = [t \in Turn |-> 0]

\* ResidentAppServer.start
Spawn(p) ==
    /\ child' = [child EXCEPT ![p] = TRUE]
    /\ UNCHANGED <<status, owner, seen, active, asked>>

(* The child ends by itself, and its turns with it; what the connection    *)
(* has observed stays.                                                     *)
ChildEnds(p) ==
    /\ child' = [child EXCEPT ![p] = FALSE]
    /\ status' = [t \in Turn |->
                     IF owner[t] = p /\ status[t] # "none" /\ seen[t] # "end"
                     THEN "gone" ELSE status[t]]
    /\ UNCHANGED <<owner, seen, active, asked>>

(* close(), or the death of the manager, whose pipes close.  Nobody looks  *)
(* at this connection again.                                               *)
Close(p) ==
    LET Its(t) == owner[t] = p IN
    /\ child' = [child EXCEPT ![p] = FALSE]
    /\ active' = [active EXCEPT ![p] = None]
    /\ status' = [t \in Turn |-> IF Its(t) THEN "gone" ELSE status[t]]
    /\ seen' = [t \in Turn |-> IF Its(t) THEN "nothing" ELSE seen[t]]
    /\ owner' = [t \in Turn |-> IF Its(t) THEN None ELSE owner[t]]
    /\ UNCHANGED asked

(* turn/start: a child that is gone is spawned anew, with nothing observed *)
(* yet; the server accepts the turn, whether or not p hears of it.         *)
Accept(p, t) ==
    /\ status[t] = "none" /\ \A u \in Turn : u < t => status[u] # "none"
    /\ status' = [status EXCEPT ![t] = "running"]
    /\ owner' = [owner EXCEPT ![t] = p]
    /\ child' = [child EXCEPT ![p] = TRUE]
    /\ active' = [active EXCEPT ![p] = IF child[p] THEN @ ELSE None]
    /\ UNCHANGED <<seen, asked>>

\* turn/interrupt
AskInterrupt(t) == asked' = [asked EXCEPT ![t] = @ + 1]

(* What p's connection knows: was_started, turn_completed, turn_outcome.   *)
WasStarted(p, t) == owner[t] = p /\ seen[t] # "nothing"

WasCompleted(p, t) == t # None /\ owner[t] = p /\ seen[t] = "end"

Outcome(p, t) == IF WasCompleted(p, t) THEN status[t] ELSE "unknown"

\* bind_started_turn, of a start whose notification named no thread.
Bind(p, t) ==
    active' = [active EXCEPT ![p] = IF seen[t] = "start" THEN t ELSE @]

(***************************************************************************)
(* The app-server, and AppServerEventState.record of what it says.         *)
(***************************************************************************)
\* By itself, or, interrupted, by the user's hand or the manager's request.
Ends(t) ==
    /\ status[t] = "running"
    /\ \E e \in Ended : status' = [status EXCEPT ![t] = e]
    /\ UNCHANGED <<owner, seen, active, child, asked>>

(* turn/started, with its thread's id or without.                          *)
ObserveStart(t) ==
    /\ child[owner[t]] /\ seen[t] = "nothing"
    /\ status[t] \in {"running"} \cup Ended
    /\ seen' = [seen EXCEPT ![t] = "start"]
    /\ \/ active' = [active EXCEPT ![owner[t]] = t]
       \/ UNCHANGED active
    /\ UNCHANGED <<status, owner, child, asked>>

\* turn/completed, with the status it carries.
ObserveEnd(t) ==
    /\ child[owner[t]] /\ seen[t] = "start" /\ status[t] \in Ended
    /\ seen' = [seen EXCEPT ![t] = "end"]
    /\ active' = [active EXCEPT ![owner[t]] = IF @ = t THEN None ELSE @]
    /\ UNCHANGED <<status, owner, child, asked>>

Observes(t) == owner[t] # None /\ (ObserveStart(t) \/ ObserveEnd(t))
=============================================================================
