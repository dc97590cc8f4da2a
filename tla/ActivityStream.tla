---------------------------- MODULE ActivityStream ----------------------------
(***************************************************************************)
(* What one app-server client knows of the turns on its connection         *)
(* (scripts/app_server_activity.py, app_server_protocol.py), with the      *)
(* threads that share it: callers that start turns and wait for them       *)
(* (app_server_client.py), and a reader for each child the client had,     *)
(* which reads what that child wrote until it ends.  Every action is a     *)
(* section under the stream's condition.                                   *)
(***************************************************************************)
EXTENDS Naturals, Sequences, FiniteSets

CONSTANTS
    Caller,         \* threads that start turns
    Turn,           \* turns, each with an identifier of its own
    Thread,         \* conversations
    Nothing,        \* no thread, no turn, no correlation
    MaxOutcomes,    \* _MAX_RETAINED_TURN_OUTCOMES
    MaxCorrelations,\* _MAX_TURN_CORRELATIONS
    Expiry,         \* _CORRELATION_EXPIRY_SECONDS
    MaxChildren,    \* bound on the children, one after the other
    MaxNow          \* bound on the clock

VARIABLES
    now,        \* the monotonic clock
    home,       \* per turn, the thread it runs in
    state,      \* per turn, what its child makes of it
    child,      \* per turn, the child it belongs to
    unanswered, \* turns whose turn/start the child has not answered
    generation, \* children started so far
    running,    \* whether the last of them runs
    lines,      \* per child, what it wrote and its reader has not read
    reader,     \* per child, where its reader is
    lost,       \* per child, how often its loss was published
    closed,     \* whether the stream holds a reason for the loss
    events,     \* AppServerEventState, replaced with every child
    pc,         \* per caller, where its turn/start is
    job         \* per caller, the turn it asked for

server == <<home, state, child, unanswered>>
connection == <<generation, running, reader, lost, closed>>
callers == <<pc, job>>
vars == <<now, server, connection, lines, events, callers>>

Children == 1..MaxChildren

NoEvents ==
    [responses |-> {}, started |-> {}, outcomes |-> <<>>,
     active |-> [h \in Thread |-> Nothing],
     correlations |-> [t \in Turn |-> Nothing]]

Messages == [kind : {"response", "started", "completed"}, turn : Turn,
             thread : Thread \cup {Nothing}]

TypeOK ==
    /\ now \in 0..MaxNow
    /\ home \in [Turn -> Thread \cup {Nothing}]
    /\ state \in [Turn -> {"none", "asked", "running", "over"}]
    /\ child \in [Turn -> 0..generation]
    /\ unanswered \subseteq Turn
    /\ generation \in 0..MaxChildren /\ running \in BOOLEAN
    /\ lines \in [Children -> Seq(Messages)]
    /\ reader \in [Children -> {"none", "reading", "failed", "ended"}]
    /\ lost \in [Children -> Nat] /\ closed \in BOOLEAN
    /\ events.responses \subseteq Turn /\ events.started \subseteq Turn
    /\ events.outcomes \in Seq(Turn) /\ Len(events.outcomes) <= MaxOutcomes
    /\ events.active \in [Thread -> Turn \cup {Nothing}]
    /\ events.correlations \in
          [Turn -> [thread : Thread, at : 0..MaxNow, live : BOOLEAN] \cup {Nothing}]
    /\ Cardinality({t \in Turn : events.correlations[t] # Nothing}) <= MaxCorrelations
    /\ pc \in [Caller -> {"idle", "sent", "waiting", "bind", "owner"}]
    /\ job \in [Caller -> Turn \cup {Nothing}]

Init ==
    /\ now = 0
    /\ home = [t \in Turn |-> Nothing]
    /\ state = [t \in Turn |-> "none"]
    /\ child = [t \in Turn |-> 0]
    /\ unanswered = {}
    /\ generation = 0 /\ running = FALSE
    /\ lines = [g \in Children |-> <<>>]
    /\ reader = [g \in Children |-> "none"]
    /\ lost = [g \in Children |-> 0] /\ closed = FALSE
    /\ events = NoEvents
    /\ pc = [c \in Caller |-> "idle"]
    /\ job = [c \in Caller |-> Nothing]

Tick ==
    /\ now < MaxNow /\ now' = now + 1
    /\ UNCHANGED <<server, connection, lines, events, callers>>

----------------------------------------------------------------------------
(* AppServerEventState.                                                    *)

Ended(e) == {e.outcomes[i] : i \in DOMAIN e.outcomes}

\* _expire_correlations
Expired(e) ==
    LET old == {t \in Turn : /\ e.correlations[t] # Nothing
                             /\ ~e.correlations[t].live
                             /\ now - e.correlations[t].at > Expiry}
    IN [e EXCEPT !.correlations = [t \in Turn |-> IF t \in old THEN Nothing ELSE @[t]],
                 !.started = @ \ old]

\* correlate_turn, of what _expire_correlations left, raises at capacity.
AtCapacity(e, t) ==
    /\ e.correlations[t] = Nothing
    /\ Cardinality({u \in Turn : e.correlations[u] # Nothing}) >= MaxCorrelations

Correlated(e, h, t) ==
    IF AtCapacity(e, t) THEN e
    ELSE [e EXCEPT !.correlations[t] = [thread |-> h, at |-> now, live |-> TRUE]]

\* thread_for_turn
ThreadFor(t) ==
    IF Expired(events).correlations[t] = Nothing THEN Nothing
    ELSE Expired(events).correlations[t].thread

\* A started turn; at capacity the exception ends the reader.
RecordStart(m) ==
    LET seen == [events EXCEPT !.started = @ \cup {m.turn}]
        kept == Correlated(Expired(seen), m.thread, m.turn)
    IN IF m.thread = Nothing THEN seen
       ELSE IF AtCapacity(Expired(seen), m.turn) THEN Expired(seen)
       ELSE [kept EXCEPT !.active[m.thread] = m.turn]

StartRaises(m) ==
    /\ m.kind = "started" /\ m.thread # Nothing
    /\ AtCapacity(Expired([events EXCEPT !.started = @ \cup {m.turn}]), m.turn)

\* _remember_outcome
RememberOutcome(e, t) ==
    IF t \in Ended(e) THEN e
    ELSE LET all == Append(e.outcomes, t) full == Len(all) > MaxOutcomes
         IN [e EXCEPT !.outcomes = IF full THEN Tail(all) ELSE all,
                      !.started = IF full THEN @ \ {Head(all)} ELSE @]

\* A completed turn is active nowhere, or no longer in the thread it names.
RecordEnd(m) ==
    LET over == [events EXCEPT
                    !.active = [h \in Thread |->
                       IF @[h] = m.turn /\ m.thread \in {h, Nothing} THEN Nothing ELSE @[h]],
                    !.correlations[m.turn] =
                       IF @ = Nothing THEN @ ELSE [@ EXCEPT !.at = now, !.live = FALSE]]
    IN RememberOutcome(over, m.turn)

Recorded(m) ==
    CASE m.kind = "response" -> [events EXCEPT !.responses = @ \cup {m.turn}]
      [] m.kind = "started" -> RecordStart(m)
      [] m.kind = "completed" -> RecordEnd(m)

----------------------------------------------------------------------------
(* The child, external: it answers a turn/start and tells of every turn    *)
(* that starts and ends, with its thread or without.                       *)

Says(kind, t, h) ==
    lines' = [lines EXCEPT ![generation] = Append(@, [kind |-> kind, turn |-> t, thread |-> h])]

\* The answer to a turn/start, before or after the turn's start, and maybe
\* when nobody waits for it any more.
Responds(t) ==
    /\ running /\ child[t] = generation /\ t \in unanswered
    /\ unanswered' = unanswered \ {t}
    /\ Says("response", t, Nothing)
    /\ UNCHANGED <<now, home, state, child, connection, events, callers>>

\* A turn starts, one at a time in a thread, that a caller or a user asked for.
TurnStarts(t, h) ==
    /\ running
    /\ \/ state[t] = "asked" /\ child[t] = generation /\ home[t] = h
       \/ state[t] = "none"
    /\ \A u \in Turn : state[u] = "running" /\ child[u] = generation => home[u] # h
    /\ state' = [state EXCEPT ![t] = "running"]
    /\ child' = [child EXCEPT ![t] = generation]
    /\ home' = [home EXCEPT ![t] = h]
    /\ \E told \in {h, Nothing} : Says("started", t, told)
    /\ UNCHANGED <<now, unanswered, connection, events, callers>>

TurnEnds(t) ==
    /\ running /\ state[t] = "running" /\ child[t] = generation
    /\ state' = [state EXCEPT ![t] = "over"]
    /\ \E told \in {home[t], Nothing} : Says("completed", t, told)
    /\ UNCHANGED <<now, home, child, unanswered, connection, events, callers>>

ChildDies ==
    /\ running /\ running' = FALSE
    /\ UNCHANGED <<now, server, generation, reader, lost, closed, lines, events, callers>>

----------------------------------------------------------------------------
(* The readers.                                                            *)

\* A message of an older child is dropped.
Read(g) ==
    /\ reader[g] = "reading" /\ lines[g] # <<>>
    /\ ~(g = generation /\ StartRaises(Head(lines[g])))
    /\ lines' = [lines EXCEPT ![g] = Tail(@)]
    /\ events' = IF g = generation THEN Recorded(Head(lines[g])) ELSE events
    /\ UNCHANGED <<now, server, connection, callers>>

\* The reader's thread ends with the exception; nobody publishes a loss.
ReaderFails(g) ==
    /\ reader[g] = "reading" /\ lines[g] # <<>> /\ g = generation /\ StartRaises(Head(lines[g]))
    /\ reader' = [reader EXCEPT ![g] = "failed"]
    /\ lines' = [lines EXCEPT ![g] = <<>>]
    /\ events' = Recorded(Head(lines[g]))
    /\ UNCHANGED <<now, server, generation, running, lost, closed, callers>>

\* mark_closed, once and only for the present child.
MarkClosed(g) ==
    LET first == g = generation /\ ~closed IN
    /\ closed' = (closed \/ first)
    /\ lost' = IF first THEN [lost EXCEPT ![g] = @ + 1] ELSE lost

\* The end of the output.
ReaderEnds(g) ==
    /\ reader[g] = "reading" /\ lines[g] = <<>> /\ (g < generation \/ ~running)
    /\ reader' = [reader EXCEPT ![g] = "ended"]
    /\ MarkClosed(g)
    /\ UNCHANGED <<now, server, generation, running, lines, events, callers>>

----------------------------------------------------------------------------
(* The callers.                                                            *)

\* start: another child when none runs, and an empty state (reset).
Spawn ==
    /\ ~running /\ generation < MaxChildren
    /\ generation' = generation + 1 /\ running' = TRUE
    /\ reader' = [reader EXCEPT ![generation + 1] = "reading"]
    /\ closed' = FALSE /\ events' = NoEvents
    /\ UNCHANGED <<now, server, lost, lines, callers>>

\* close ends the child and says so before its reader does.
Close ==
    /\ generation > 0 /\ running
    /\ running' = FALSE /\ MarkClosed(generation)
    /\ UNCHANGED <<now, server, generation, reader, lines, events, callers>>

\* turn/start, one request at a time.
Ask(c, t, h) ==
    /\ running /\ pc[c] = "idle" /\ state[t] = "none"
    /\ \A d \in Caller : pc[d] # "sent"
    /\ pc' = [pc EXCEPT ![c] = "sent"] /\ job' = [job EXCEPT ![c] = t]
    /\ state' = [state EXCEPT ![t] = "asked"] /\ unanswered' = unanswered \cup {t}
    /\ child' = [child EXCEPT ![t] = generation] /\ home' = [home EXCEPT ![t] = h]
    /\ UNCHANGED <<now, connection, lines, events>>

\* The response is taken and its turn correlated; at capacity the turn is
\* interrupted instead.
TakeResponse(c) ==
    LET t == job[c] e == [Expired(events) EXCEPT !.responses = @ \ {t}] IN
    /\ pc[c] = "sent" /\ t \in events.responses
    /\ events' = Correlated(e, home[t], t)
    /\ IF AtCapacity(e, t)
       THEN pc' = [pc EXCEPT ![c] = "idle"] /\ job' = [job EXCEPT ![c] = Nothing]
       ELSE pc' = [pc EXCEPT ![c] = "waiting"] /\ UNCHANGED job
    /\ UNCHANGED <<now, server, connection, lines>>

\* wait_turn_started: what it waits for has come, and the condition is left.
SeesStart(c) ==
    /\ pc[c] = "waiting" /\ job[c] \in events.started \cup Ended(events)
    /\ pc' = [pc EXCEPT ![c] = "bind"]
    /\ UNCHANGED <<now, server, connection, lines, events, job>>

\* Fault: a turn that is over is bound like any other.
BindAnyTurn(c) ==
    LET t == job[c] e == Expired(events) IN
    /\ pc[c] = "bind" /\ ~AtCapacity(e, t)
    /\ pc' = [pc EXCEPT ![c] = "owner"]
    /\ events' = [Correlated(e, home[t], t) EXCEPT !.active[home[t]] = t]
    /\ UNCHANGED <<now, server, connection, lines, job>>

\* bind_started_turn, in a section of its own.
Bind(c) ==
    LET t == job[c] e == Expired(events) IN
    /\ pc[c] = "bind" /\ ~AtCapacity(e, t)
    /\ IF t \in e.started \cup Ended(e)
       THEN pc' = [pc EXCEPT ![c] = "owner"] /\ UNCHANGED job
       ELSE pc' = [pc EXCEPT ![c] = "idle"] /\ job' = [job EXCEPT ![c] = Nothing]
    /\ events' = IF t \in e.started \ Ended(e)
                 THEN [Correlated(e, home[t], t) EXCEPT !.active[home[t]] = t]
                 ELSE Correlated(e, home[t], t)
    /\ UNCHANGED <<now, server, connection, lines>>

\* The wait timed out or met the loss, the binding met the capacity, or the
\* turn is done with.
Leaves(c) ==
    /\ \/ pc[c] \in {"sent", "waiting", "owner"}
       \/ pc[c] = "bind" /\ AtCapacity(Expired(events), job[c])
    /\ pc' = [pc EXCEPT ![c] = "idle"] /\ job' = [job EXCEPT ![c] = Nothing]
    /\ events' = IF pc[c] = "bind" THEN Expired(events) ELSE events
    /\ UNCHANGED <<now, server, connection, lines>>

Next ==
    \/ Tick \/ ChildDies \/ Spawn \/ Close
    \/ \E t \in Turn : Responds(t) \/ TurnEnds(t)
    \/ \E t \in Turn, h \in Thread :
          TurnStarts(t, h) \/ \E c \in Caller : Ask(c, t, h)
    \/ \E g \in Children : Read(g) \/ ReaderFails(g) \/ ReaderEnds(g)
    \/ \E c \in Caller : TakeResponse(c) \/ SeesStart(c) \/ Bind(c) \/ Leaves(c)

Spec == Init /\ [][Next]_vars

----------------------------------------------------------------------------
\* Whether the end of a turn is still to be read.
Unread(t) ==
    \E i \in DOMAIN lines[generation] :
        lines[generation][i].turn = t /\ lines[generation][i].kind = "completed"

\* A turn that a caller owns on this connection is told apart until its end
\* was read, also by notifications that name no thread and however many
\* other turns are correlated (correlate_turn: "Retain one live exact turn
\* owner without evicting another live owner").
OwnedTurnIsRouted ==
    \A c \in Caller : LET t == job[c] IN
        /\ pc[c] \in {"waiting", "bind", "owner"} /\ child[t] = generation
        /\ state[t] = "running" \/ Unread(t)
        => ThreadFor(t) = home[t]

\* No turn is active after its end was read, though its start, its response
\* and its binding may come later, and outcomes and correlations are
\* forgotten in between (bind_started_turn, _remember_outcome); a reader
\* that failed at capacity reads no end.
ActiveIsNotOver ==
    \A h \in Thread : LET t == events.active[h] IN
        t # Nothing =>
            /\ child[t] = generation /\ home[t] = h
            /\ state[t] = "running" \/ Unread(t) \/ reader[generation] = "failed"

\* A loss is published once for a child, and never while it runs: the reader
\* of an older child does not speak for the present one (mark_closed).
LossIsReal ==
    /\ \A g \in Children : lost[g] <= 1
    /\ running => ~closed /\ lost[generation] = 0

(* What the client says of turns is true of its present child: a live turn *)
(* is routed to its owner, none is active after its end, and the loss is   *)
(* published once, when the child is gone.                                 *)
TurnsAreTracked == TypeOK /\ OwnedTurnIsRouted /\ ActiveIsNotOver /\ LossIsReal
=============================================================================
