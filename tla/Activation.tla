------------------------------ MODULE Activation ------------------------------
(***************************************************************************)
(* MCP servers of one installation (scripts/mcp_server.py, mcp_dispatch.py *)
(* and daemon_control_endpoint_connection.py): each process provisions the *)
(* control key, opens its control endpoint, serves its own stdio session   *)
(* and the endpoint's clients, and leaves at end of input or in a crash.   *)
(* The processes share the key file, the locator file, the ticket files    *)
(* and the runtime directory, and nothing else.                            *)
(***************************************************************************)
EXTENDS ActivationTickets, ControlEndpoint

VARIABLES
    mcp        \* per server, whether its stdio session has shaken hands

vars == <<keyVars, runtime, ticketVars, epVars, mcp>>

ServerStates == KeyStates \cup {"keyed", "bound", "serving", "leaving"}

TypeOK ==
    /\ KeyTypeOK /\ TicketTypeOK /\ EndpointTypeOK
    /\ pc \in [Server -> ServerStates]
    /\ mcp \in [Server -> BOOLEAN]

Init ==
    /\ KeyInit /\ TicketInit /\ EndpointInit
    /\ mcp = [s \in Server |-> FALSE]

Provision(s) ==
    /\ ProvisionStep(s)
    /\ UNCHANGED <<ticketVars, epVars, mcp>>

Launch(s) ==
    /\ pc[s] = "down" /\ gens < MaxGen
    /\ Goto(s, "read")
    /\ UNCHANGED <<keyFile, keys, held, invalid, runtime, ticketVars, epVars, mcp>>

(* ControlEndpoint.start: a failure between the bind and the publication   *)
(* closes what was opened (_rollback_start).                               *)
StartEndpoint(s) ==
    /\ \/ pc[s] = "keyed" /\ Bind(s) /\ Goto(s, "bound")
       \/ pc[s] = "bound" /\ Publish(s) /\ Goto(s, "serving")
       \/ pc[s] = "bound" /\ BeginClose(s, "stdio") /\ Goto(s, "leaving")
    /\ UNCHANGED <<keyFile, keys, held, invalid, runtime, ticketVars, mcp>>

(* McpServer._dispatch: initialize, answered once, then the initialized     *)
(* notification; before them every tool call is refused.                   *)
Initialize(s) ==
    /\ pc[s] = "serving" /\ ~mcp[s]
    /\ mcp' = [mcp EXCEPT ![s] = TRUE]
    /\ UNCHANGED <<keyVars, runtime, ticketVars, epVars>>

(* Which threads of a server can be in a tool call: the main thread once   *)
(* its session is ready, the worker while it dispatches; the endpoint's    *)
(* session is made and initialized inside the dispatch.                    *)
InToolCall(s, by) ==
    \/ by = "stdio" /\ pc[s] = "serving" /\ mcp[s]
    \/ by = "endpoint" /\ thread[s] = "dispatch"

WorkOn(s, by) ==
    /\ InToolCall(s, by)
    /\ \/ (\E t \in Session, n \in Turn : Consume(s, by, t, n)) /\ UNCHANGED runtime
       \/ StartService(s, by)
    /\ UNCHANGED <<keyVars, epVars, mcp>>

\* cmw.stop and cmw.complete remove the session's runtime file.
EndSession(s, by, t) ==
    /\ InToolCall(s, by) /\ pending[<<s, by>>] = None
    /\ t \in runtime
    /\ runtime' = runtime \ {t}
    /\ UNCHANGED <<keyVars, ticketVars, epVars, mcp>>

(* parse_client_hello: the pid, creation time and port a client names are  *)
(* those of the generation this endpoint published and still owns.         *)
AnswersHello(s) == gen[s] # None /\ gen[s] = lastGen[s]

(* A client that read a locator, at any time since it was published,       *)
(* connects and names its generation; the server of that generation proves *)
(* itself and reads one request.  Any other server, or none, drops the     *)
(* client, and nothing happens.                                            *)
ClientServed(s) ==
    /\ thread[s] = "accept"
    /\ AnswersHello(s)
    /\ thread' = [thread EXCEPT ![s] = "dispatch"]
    /\ UNCHANGED <<keyVars, runtime, ticketVars, locator, gens, gen, closing, lastGen,
                   taken, mcp>>

(* The worker: accept fails, a call is answered, or an exception ends it   *)
(* and it closes the endpoint itself.                                      *)
Worker(s) ==
    /\ \/ AcceptFails(s)
       \/ pending[<<s, "endpoint">>] = None /\ Answer(s)
       \/ /\ thread[s] = "dispatch" /\ pending[<<s, "endpoint">>] = None
          /\ BeginClose(s, "endpoint")
    /\ UNCHANGED <<keyVars, runtime, ticketVars, mcp>>

RemoveLocator(s, by) ==
    /\ CompareLocator(s, by) \/ UnlinkLocator(s, by)
    /\ UNCHANGED <<keyVars, runtime, ticketVars, mcp>>

EndOfInput(s) ==
    /\ pc[s] = "serving" /\ pending[<<s, "stdio">>] = None
    /\ BeginClose(s, "stdio")
    /\ Goto(s, "leaving")
    /\ UNCHANGED <<keyFile, keys, held, invalid, runtime, ticketVars, mcp>>

(* The process is gone, and with it its threads and all it holds in        *)
(* memory: after main's close has returned, or at any moment in a crash.   *)
ProcessEnds(s) ==
    /\ pc' = [pc EXCEPT ![s] = "down"]
    /\ held' = [held EXCEPT ![s] = 0]
    /\ invalid' = [invalid EXCEPT ![s] = 0]
    /\ pending' = [c \in Caller |-> IF c[1] = s THEN None ELSE pending[c]]
    /\ gen' = [gen EXCEPT ![s] = None]
    /\ thread' = [thread EXCEPT ![s] = "none"]
    /\ closing' = [c \in Caller |-> IF c[1] = s THEN None ELSE closing[c]]
    /\ mcp' = [mcp EXCEPT ![s] = FALSE]
    /\ lastGen' = [lastGen EXCEPT ![s] = 0]
    /\ taken' = [taken EXCEPT ![s] = FALSE]
    /\ UNCHANGED <<keyFile, keys, runtime, ticket, turn, hook, now, offered, starts,
                   locator, gens>>

Exit(s) ==
    /\ pc[s] = "failed" \/ (pc[s] = "leaving" /\ closing[<<s, "stdio">>] = None)
    /\ ProcessEnds(s)

Crash(s) == pc[s] # "down" /\ ProcessEnds(s)

Host ==
    /\ \/ \E t \in Session : HookLoadsKey(t) \/ Issue(t) \/ NextTurn(t)
       \/ ClockMoves
    /\ UNCHANGED <<keyVars, runtime, epVars, mcp>>

Next ==
    \/ \E s \in Server :
          \/ Launch(s) \/ Provision(s) \/ StartEndpoint(s) \/ Initialize(s)
          \/ ClientServed(s) \/ Worker(s) \/ EndOfInput(s) \/ Exit(s) \/ Crash(s)
          \/ \E by \in Thread :
                \/ WorkOn(s, by) \/ RemoveLocator(s, by)
                \/ \E t \in Session : EndSession(s, by, t)
    \/ Host

Spec == Init /\ [][Next]_vars

-----------------------------------------------------------------------------
(* An activation turn starts monitoring at most once, whichever server and *)
(* thread takes the call, however often the hook runs again for the turn,  *)
(* and across crashes and key changes: consume() spends the ticket before  *)
(* service.start, and issue() keeps the spent ticket as a replay fence.    *)
OneStartPerTurn == \A t \in Session, n \in Turn : starts[t][n] <= 1

(* The time in which a turn can be activated is never extended: what is    *)
(* spent is spent within Ttl of the first ticket of that turn, also when   *)
(* the hook is run again or the clock is set back.                         *)
WindowNeverExtends ==
    [][\A t \in Session :
          ticket[t] # None /\ ~ticket[t].consumed /\ ticket'[t] = [ticket[t] EXCEPT !.consumed = TRUE]
          => offered[t] <= now /\ now <= offered[t] + Ttl]_vars

(* No process works with a key whose file is still being written: _read_key *)
(* takes 32 bytes or nothing, also in the middle of another's creation.    *)
NoPartialKey ==
    LET used == {held[s] : s \in Server} \cup {hook[t] : t \in Session} IN
    keyFile # None /\ keyFile.ino \in used => keyFile.full

(* A server that leaves in order takes its locator with it, unless its     *)
(* worker had begun that itself and died with the process: close()         *)
(* removes the locator of the generation it retires.                       *)
LeavingRemovesLocator ==
    [][\A s \in Server :
          pc[s] = "leaving" /\ pc'[s] = "down"
          /\ closing[<<s, "stdio">>] = None /\ lastGen[s] # 0 /\ ~taken[s]
          => locator' # lastGen[s]]_vars

(* A ticket starts monitoring once, and the key behind it is never used     *)
(* before it is written (issue, consume, provision_control_key).           *)
CredentialsWorkOnce == TypeOK /\ OneStartPerTurn /\ NoPartialKey

(* A ticket ends with its time, and a locator with its server (consume,     *)
(* ControlEndpoint.close).                                                  *)
TicketAndLocatorEnd == WindowNeverExtends /\ LeavingRemovesLocator
=============================================================================
