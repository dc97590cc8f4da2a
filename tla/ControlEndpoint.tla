--------------------------- MODULE ControlEndpoint ---------------------------
(***************************************************************************)
(* The loopback control endpoint of an MCP server                          *)
(* (scripts/daemon_control_endpoint.py): the listener, its worker thread   *)
(* and the locator file control-endpoint.json that all servers of one      *)
(* installation share and overwrite.  A generation is the pid, creation    *)
(* time and nonce of one start; each start draws a fresh number for it.    *)
(* ControlEndpoint.close runs on the main thread or, after a failed        *)
(* dispatch, on the worker; its removal of the locator is a read and an    *)
(* unlink, and another server may publish between the two.                 *)
(***************************************************************************)
EXTENDS ControlKey

CONSTANT MaxGen

Gen == 1..MaxGen
Removal == [gen : Gen, at : {"read", "unlink"}]

ASSUME EndpointAssumption == MaxGen \in Nat /\ None \notin Gen \cup Removal

VARIABLES
    locator,   \* None, or the generation the locator file names
    gens,      \* number of generations drawn
    gen,       \* per server, its self._locator (None: not started or closed)
    thread,    \* per server, its worker: "none", "accept", "dispatch", "gone"
    closing,   \* per server and thread, None or the removal in progress
    lastGen,   \* history: per server, the generation its process published (0: none)
    taken      \* history: per server, whether its worker began the removal

epVars == <<locator, gens, gen, thread, closing, lastGen, taken>>

Thread == {"stdio", "endpoint"}

EndpointTypeOK ==
    /\ locator \in {None} \cup Gen
    /\ gens \in 0..MaxGen
    /\ gen \in [Server -> {None} \cup Gen]
    /\ thread \in [Server -> {"none", "accept", "dispatch", "gone"}]
    /\ closing \in [Server \X Thread -> {None} \cup Removal]
    /\ lastGen \in [Server -> 0..MaxGen]
    /\ taken \in [Server -> BOOLEAN]

EndpointInit ==
    /\ locator = None
    /\ gens = 0
    /\ gen = [s \in Server |-> None]
    /\ thread = [s \in Server |-> "none"]
    /\ closing = [c \in Server \X Thread |-> None]
    /\ lastGen = [s \in Server |-> 0]
    /\ taken = [s \in Server |-> FALSE]

(* start: bind, take a generation, start the worker and wait until it is   *)
(* ready.  Nothing is published yet.                                       *)
Bind(s) ==
    /\ gen[s] = None /\ thread[s] = "none" /\ gens < MaxGen
    /\ gens' = gens + 1
    /\ gen' = [gen EXCEPT ![s] = gens + 1]
    /\ thread' = [thread EXCEPT ![s] = "accept"]
    /\ UNCHANGED <<locator, closing, lastGen, taken>>

(* _publish overwrites whatever generation the file names.                 *)
Publish(s) ==
    /\ gen[s] # None
    /\ lastGen[s] # gen[s]
    /\ locator' = gen[s]
    /\ lastGen' = [lastGen EXCEPT ![s] = gen[s]]
    /\ UNCHANGED <<gens, gen, thread, closing, taken>>

(* close: forget the generation, close the listener (the worker's next     *)
(* accept fails), wait for the worker unless it is the caller or a close   *)
(* already took it, and go on to remove the locator.                       *)
BeginClose(s, by) ==
    /\ closing[<<s, by>>] = None
    /\ gen' = [gen EXCEPT ![s] = None]
    /\ closing' = IF gen[s] = None THEN closing
                  ELSE [closing EXCEPT ![<<s, by>>] = [gen |-> gen[s], at |-> "read"]]
    /\ thread' = [thread EXCEPT ![s] = "gone"]
    /\ taken' = [taken EXCEPT ![s] = @ \/ (by = "endpoint" /\ gen[s] # None)]
    /\ UNCHANGED <<locator, gens, lastGen>>

(* _remove_locator reads the file and goes on only if it names this        *)
(* generation.                                                             *)
CompareLocator(s, by) ==
    LET c == closing[<<s, by>>] IN
    /\ c # None /\ c.at = "read"
    /\ closing' = [closing EXCEPT ![<<s, by>>] =
                     IF locator = c.gen THEN [c EXCEPT !.at = "unlink"] ELSE None]
    /\ UNCHANGED <<locator, gens, gen, thread, lastGen, taken>>

UnlinkLocator(s, by) ==
    LET c == closing[<<s, by>>] IN
    /\ c # None /\ c.at = "unlink"
    /\ locator' = None
    /\ closing' = [closing EXCEPT ![<<s, by>>] = None]
    /\ UNCHANGED <<gens, gen, thread, lastGen, taken>>

(* _serve: accept one connection at a time.  The worker leaves for good    *)
(* when accept fails with an OSError; the locator stays until close.       *)
AcceptFails(s) ==
    /\ thread[s] = "accept"
    /\ thread' = [thread EXCEPT ![s] = "gone"]
    /\ UNCHANGED <<locator, gens, gen, closing, lastGen, taken>>

(* A dispatch ends with a response, an unanswered client or a dropped      *)
(* connection; all three put the worker back to accept.                    *)
Answer(s) ==
    /\ thread[s] = "dispatch"
    /\ thread' = [thread EXCEPT ![s] = "accept"]
    /\ UNCHANGED <<locator, gens, gen, closing, lastGen, taken>>
=============================================================================
