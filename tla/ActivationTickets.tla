-------------------------- MODULE ActivationTickets --------------------------
(***************************************************************************)
(* One-time activation tickets (scripts/work_on_activation.py and          *)
(* work_on_activation_record.py), issued by the UserPromptSubmit hook      *)
(* (work_on_hook.py) and spent by the cmw.work_on tool (mcp_dispatch.py).  *)
(* A session has one ticket file; issue and consume hold its write lock    *)
(* over their whole read, test and write, so each is one step.  The hook   *)
(* loads the key before it takes the lock; the tool spends the ticket      *)
(* before it asks the service to start.  Wall-clock seconds are `now`,     *)
(* which an operator or a time service may also set back.                  *)
(***************************************************************************)
EXTENDS ControlKey

CONSTANTS Ttl, MaxTime, MaxTurn

Turn == 1..MaxTurn
Caller == Server \X {"stdio", "endpoint"}
Ticket == [key : 1..MaxKeys, turn : Turn, issued : 0..MaxTime, consumed : BOOLEAN]
PendingStart == [session : Session, turn : Turn]

ASSUME TicketAssumption ==
    /\ Ttl \in Nat /\ MaxTime \in Nat /\ MaxTurn \in Nat \ {0}
    /\ None \notin Ticket \cup PendingStart

VARIABLES
    ticket,    \* per session, None or the record in its ticket file
    turn,      \* per session, the turn the user is in
    hook,      \* per session, the key the running hook has loaded (0: no hook)
    pending,   \* per caller, None or the activation it has spent and not started
    now,       \* wall-clock seconds
    \* history
    offered,   \* per session, when the turn of its ticket was first offered one
    starts     \* per session and turn, how often a service was started

ticketVars == <<ticket, turn, hook, pending, now, offered, starts>>

TicketTypeOK ==
    /\ ticket \in [Session -> {None} \cup Ticket]
    /\ turn \in [Session -> Turn]
    /\ hook \in [Session -> 0..MaxKeys]
    /\ pending \in [Caller -> {None} \cup PendingStart]
    /\ now \in 0..MaxTime
    /\ offered \in [Session -> 0..MaxTime]
    /\ starts \in [Session -> [Turn -> Nat]]

TicketInit ==
    /\ ticket = [t \in Session |-> None]
    /\ turn = [t \in Session |-> 1]
    /\ hook = [t \in Session |-> 0]
    /\ pending = [c \in Caller |-> None]
    /\ now = 0
    /\ offered = [t \in Session |-> 0]
    /\ starts = [t \in Session |-> [n \in Turn |-> 0]]

(* read_activation_record authenticates the whole record with the reader's *)
(* key; the capability binding of the record is made with the same key.    *)
Authentic(record, key) == record.key = key

\* ActivationTicketRecord as issue writes it, under the MAC of the hook's key.
NewTicket(key, n) == [key |-> key, turn |-> n, issued |-> now, consumed |-> FALSE]

\* _expired: too old, or issued in what is now the future.
Expired(record) == record.issued > now \/ now - record.issued > Ttl

(***************************************************************************)
(* The hook: process_user_prompt_submit for the turn the user is in.  The  *)
(* host may run it again for the same turn, never for an older one.        *)
(***************************************************************************)
HookLoadsKey(t) ==
    /\ hook[t] = 0
    /\ KeyReadable
    /\ hook' = [hook EXCEPT ![t] = keyFile.ino]
    /\ UNCHANGED <<ticket, turn, pending, now, offered, starts>>

(* Fault: the hook renews an expired ticket of the same turn.              *)
IssueFaultRenews(t) ==
    LET prior == ticket[t] IN
    /\ hook[t] # 0
    /\ hook' = [hook EXCEPT ![t] = 0]
    /\ IF prior # None
          /\ (~Authentic(prior, hook[t]) \/ (prior.turn = turn[t] /\ ~Expired(prior)))
       THEN UNCHANGED <<ticket, offered>>
       ELSE /\ ticket' = [ticket EXCEPT ![t] =
                            NewTicket(hook[t], turn[t])]
            /\ offered' = [offered EXCEPT ![t] =
                   IF prior # None /\ prior.turn = turn[t] THEN @ ELSE now]
    /\ UNCHANGED <<turn, pending, now, starts>>

(* A live unused ticket of this very turn is left as it is, a spent or an  *)
(* expired one too (the hook then says nothing), a record of another key   *)
(* is an error, and any other turn's ticket is replaced.                   *)
Issue(t) ==
    LET prior == ticket[t] IN
    /\ hook[t] # 0
    /\ hook' = [hook EXCEPT ![t] = 0]
    /\ IF prior # None /\ (~Authentic(prior, hook[t]) \/ prior.turn = turn[t])
       THEN UNCHANGED <<ticket, offered>>
       ELSE /\ ticket' = [ticket EXCEPT ![t] =
                            NewTicket(hook[t], turn[t])]
            /\ offered' = [offered EXCEPT ![t] =
                   IF prior # None /\ prior.turn = turn[t] THEN @ ELSE now]
    /\ UNCHANGED <<turn, pending, now, starts>>

(***************************************************************************)
(* The tool: consume, then start.  s is the server, thread the one of its  *)
(* two threads that serves the call, n the turn the caller names.          *)
(***************************************************************************)
(* Fault: a ticket that was spent before is taken again.                   *)
AcceptableFaultSpent(record, s, n) ==
    /\ record # None
    /\ Authentic(record, held[s])
    /\ ~Expired(record)
    /\ record.turn = n

Acceptable(record, s, n) ==
    /\ record # None
    /\ Authentic(record, held[s])
    /\ ~record.consumed
    /\ ~Expired(record)
    /\ record.turn = n

Consume(s, thread, t, n) ==
    /\ pending[<<s, thread>>] = None
    /\ Acceptable(ticket[t], s, n)
    /\ ticket' = [ticket EXCEPT ![t].consumed = TRUE]
    /\ pending' = [pending EXCEPT ![<<s, thread>>] = [session |-> t, turn |-> n]]
    /\ UNCHANGED <<turn, hook, now, offered, starts>>

(* service.start succeeds and the runtime file exists, or it fails and the *)
(* ticket stays spent.                                                     *)
StartService(s, thread) ==
    LET p == pending[<<s, thread>>] IN
    /\ p # None
    /\ pending' = [pending EXCEPT ![<<s, thread>>] = None]
    /\ \/ /\ runtime' = runtime \cup {p.session}
          /\ starts' = [starts EXCEPT ![p.session][p.turn] = @ + 1]
       \/ UNCHANGED <<runtime, starts>>
    /\ UNCHANGED <<ticket, turn, hook, now, offered>>

(* External: the user's next prompt, the clock.                            *)
NextTurn(t) ==
    /\ turn[t] < MaxTurn
    /\ hook[t] = 0
    /\ turn' = [turn EXCEPT ![t] = @ + 1]
    /\ UNCHANGED <<ticket, hook, pending, now, offered, starts>>

ClockMoves ==
    /\ now' \in {now + 1, now - 1} \cap (0..MaxTime)
    /\ UNCHANGED <<ticket, turn, hook, pending, offered, starts>>
=============================================================================
