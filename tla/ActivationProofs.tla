--------------------------- MODULE ActivationProofs ---------------------------
(***************************************************************************)
(* A ticket starts monitoring once, no key is used before it is written, a *)
(* server takes its locator with it, a setup page can be closed, and the   *)
(* suggestion is made once, for any number of servers, sessions, turns,    *)
(* keys, generations, pages and webhooks.                                  *)
(***************************************************************************)
EXTENDS MCRequests, FiniteSetTheorems, TLAPS

USE KeyAssumption, TicketAssumption, EndpointAssumption

PlacesOK == pc \in [Server -> ServerStates]

(* A key that can be read is a key file with its number.                   *)
LEMMA ReadableKey ==
    ASSUME KeyTypeOK, KeyReadable
    PROVE  keyFile \in KeyFile /\ keyFile.ino \in 1..MaxKeys
BY DEF KeyTypeOK, KeyReadable, KeyFile

(* A step of provision_control_key keeps the key's types.                  *)
LEMMA KeyStepType ==
    ASSUME KeyTypeOK, PlacesOK, NEW s \in Server, ProvisionStep(s)
    PROVE  KeyTypeOK' /\ PlacesOK'
<1> USE DEF PlacesOK, ServerStates, KeyStates, Goto
<1>1. CASE ReadKey(s)
  <2>1. KeyReadable => keyFile.ino \in 0..MaxKeys
    BY ReadableKey
  <2>2. keyFile # None => keyFile.ino \in 0..MaxKeys
    BY DEF KeyTypeOK, KeyFile
  <2> QED
    BY <1>1, <2>1, <2>2 DEF ReadKey, Keyed, KeyTypeOK
<1>2. CASE CheckActive(s)
  BY <1>2 DEF CheckActive, KeyTypeOK
<1>3. CASE UnlinkUnchanged(s)
  BY <1>3 DEF UnlinkUnchanged, KeyTypeOK
<1>4. CASE CreateKey(s)
  <2>1. keys < MaxKeys =>
          [ino |-> keys + 1, full |-> FALSE] \in KeyFile /\ keys + 1 \in 0..MaxKeys
    BY DEF KeyTypeOK, KeyFile
  <2> QED
    BY <1>4, <2>1 DEF CreateKey, KeyTypeOK
<1>5. CASE WriteKey(s)
  <2>1. keyFile # None => [keyFile EXCEPT !.full = TRUE] \in KeyFile
    BY DEF KeyTypeOK, KeyFile
  <2> QED
    BY <1>5, <2>1 DEF WriteKey, KeyTypeOK
<1>6. CASE VerifyKey(s) \/ RereadKey(s)
  BY <1>6, ReadableKey DEF VerifyKey, RereadKey, Keyed, KeyTypeOK
<1> QED
  BY <1>1, <1>2, <1>3, <1>4, <1>5, <1>6 DEF ProvisionStep

(* The hook, the user's turns and the clock keep the tickets' types.       *)
LEMMA HostType ==
    ASSUME KeyTypeOK, TicketTypeOK, Host
    PROVE  TicketTypeOK'
<1>1. ASSUME NEW t \in Session, HookLoadsKey(t) PROVE TicketTypeOK'
  BY <1>1, ReadableKey DEF HookLoadsKey, TicketTypeOK
<1>2. ASSUME NEW t \in Session, Issue(t) PROVE TicketTypeOK'
  <2>1. hook[t] # 0 => NewTicket(hook[t], turn[t]) \in Ticket
    BY DEF TicketTypeOK, NewTicket, Ticket
  <2> QED
    BY <1>2, <2>1 DEF Issue, TicketTypeOK
<1>3. ASSUME NEW t \in Session, NextTurn(t) PROVE TicketTypeOK'
  <2>1. turn[t] < MaxTurn => turn[t] + 1 \in Turn
    BY DEF TicketTypeOK, Turn
  <2> QED
    BY <1>3, <2>1 DEF NextTurn, TicketTypeOK
<1>4. CASE ClockMoves
  BY <1>4 DEF ClockMoves, TicketTypeOK
<1> QED
  BY <1>1, <1>2, <1>3, <1>4 DEF Host

(* A ticket that is marked as spent is a ticket.                           *)
LEMMA SpentTicket ==
    ASSUME NEW record \in Ticket
    PROVE  [record EXCEPT !.consumed = TRUE] \in Ticket
BY DEF Ticket

(* So do the tool's calls.                                                 *)
LEMMA CallType ==
    ASSUME TicketTypeOK, KeyTypeOK, NEW s \in Server, NEW by \in Thread, WorkOn(s, by)
    PROVE  TicketTypeOK' /\ KeyTypeOK'
<1>1. <<s, by>> \in Caller
  BY DEF Caller, Thread
<1>2. ASSUME NEW t \in Session, NEW n \in Turn, Consume(s, by, t, n)
      PROVE  TicketTypeOK'
  <2>1. [ticket[t] EXCEPT !.consumed = TRUE] \in Ticket
    BY <1>2, SpentTicket DEF Consume, Acceptable, TicketTypeOK
  <2>2. ticket' \in [Session -> {None} \cup Ticket]
    BY <1>2, <2>1 DEF Consume, TicketTypeOK
  <2>3. pending' \in [Caller -> {None} \cup PendingStart]
    BY <1>1, <1>2 DEF Consume, TicketTypeOK, PendingStart
  <2> QED
    BY <1>2, <2>2, <2>3 DEF Consume, TicketTypeOK
<1>3. CASE StartService(s, by)
  <2>1. pending[<<s, by>>] \in PendingStart
    BY <1>1, <1>3 DEF StartService, TicketTypeOK
  <2>2. pending[<<s, by>>].session \in Session /\ pending[<<s, by>>].turn \in Turn
    BY <2>1 DEF PendingStart
  <2>3. starts' \in [Session -> [Turn -> Nat]] /\ runtime' \subseteq Session
    <3>1. CASE UNCHANGED <<runtime, starts>>
      BY <3>1 DEF TicketTypeOK, KeyTypeOK
    <3>2. CASE /\ runtime' = runtime \cup {pending[<<s, by>>].session}
               /\ starts' = [starts EXCEPT ![pending[<<s, by>>].session]
                                             [pending[<<s, by>>].turn] = @ + 1]
      <4>1. PICK t \in Session, n \in Turn :
               /\ runtime' = runtime \cup {t}
               /\ starts' = [starts EXCEPT ![t] = [starts[t] EXCEPT ![n] = starts[t][n] + 1]]
        BY <2>2, <3>2
      <4>2. [starts[t] EXCEPT ![n] = starts[t][n] + 1] \in [Turn -> Nat]
        BY DEF TicketTypeOK
      <4> QED
        BY <4>1, <4>2 DEF TicketTypeOK, KeyTypeOK
    <3> QED
      BY <1>3, <3>1, <3>2 DEF StartService
  <2> QED
    BY <1>3, <2>3 DEF StartService, TicketTypeOK, WorkOn, keyVars, KeyTypeOK
<1> QED
  BY <1>2, <1>3 DEF WorkOn, keyVars, KeyTypeOK

(* The endpoint's removal of the locator keeps the endpoint's types.       *)
LEMMA RemovalType ==
    ASSUME EndpointTypeOK, NEW s \in Server, NEW by \in Thread,
           BeginClose(s, by) \/ CompareLocator(s, by) \/ UnlinkLocator(s, by)
    PROVE  EndpointTypeOK'
<1> USE DEF Removal
<1>1. <<s, by>> \in Server \X Thread
  OBVIOUS
<1>2. CASE BeginClose(s, by)
  <2>1. gen[s] # None => [gen |-> gen[s], at |-> "read"] \in Removal
    BY DEF EndpointTypeOK
  <2> QED
    BY <1>1, <1>2, <2>1 DEF BeginClose, EndpointTypeOK
<1>3. CASE CompareLocator(s, by)
  <2>1. \A c \in Removal : [c EXCEPT !.at = "unlink"] \in Removal
    OBVIOUS
  <2>2. closing[<<s, by>>] \in Removal
    BY <1>1, <1>3 DEF CompareLocator, EndpointTypeOK
  <2> QED
    BY <1>1, <1>3, <2>1, <2>2 DEF CompareLocator, EndpointTypeOK
<1>4. CASE UnlinkLocator(s, by)
  BY <1>1, <1>4 DEF UnlinkLocator, EndpointTypeOK
<1> QED
  BY <1>2, <1>3, <1>4

(* The endpoint's other steps keep them too.                               *)
LEMMA EndpointType ==
    ASSUME EndpointTypeOK, NEW s \in Server,
           Bind(s) \/ Publish(s) \/ AcceptFails(s) \/ Answer(s)
    PROVE  EndpointTypeOK'
<1>1. CASE Bind(s)
  <2>1. gens < MaxGen => gens + 1 \in Gen /\ gens + 1 \in 0..MaxGen
    BY DEF EndpointTypeOK, Gen
  <2> QED
    BY <1>1, <2>1 DEF Bind, EndpointTypeOK
<1>2. CASE Publish(s)
  BY <1>2 DEF Publish, EndpointTypeOK, Gen
<1>3. CASE AcceptFails(s) \/ Answer(s)
  BY <1>3 DEF AcceptFails, Answer, EndpointTypeOK
<1> QED
  BY <1>1, <1>2, <1>3

(* What a process leaves behind has its types.                             *)
LEMMA EndType ==
    ASSUME TypeOK, NEW s \in Server, ProcessEnds(s)
    PROVE  TypeOK'
<1>1. KeyTypeOK' /\ PlacesOK' /\ mcp' \in [Server -> BOOLEAN]
  BY DEF ProcessEnds, TypeOK, KeyTypeOK, PlacesOK, ServerStates, KeyStates
<1>2. TicketTypeOK'
  BY DEF ProcessEnds, TypeOK, TicketTypeOK
<1>3. EndpointTypeOK'
  <2>1. Caller = Server \X Thread
    BY DEF Caller, Thread
  <2> QED
    BY <2>1 DEF ProcessEnds, TypeOK, EndpointTypeOK
<1> QED
  BY <1>1, <1>2, <1>3 DEF TypeOK, PlacesOK

(* Every step keeps the types.                                             *)
LEMMA NextType == TypeOK /\ [Next]_vars => TypeOK'
<1> SUFFICES ASSUME TypeOK, [Next]_vars PROVE TypeOK'
  OBVIOUS
<1> USE DEF TypeOK
<1>1. ASSUME NEW s \in Server, Provision(s) PROVE TypeOK'
  BY <1>1, KeyStepType
  DEF Provision, PlacesOK, ticketVars, epVars, TicketTypeOK, EndpointTypeOK
<1>2. ASSUME NEW s \in Server, Launch(s) \/ Initialize(s) \/ ClientServed(s) PROVE TypeOK'
  BY <1>2
  DEF Launch, Initialize, ClientServed, Goto, ServerStates, KeyStates, keyVars, ticketVars,
      epVars, KeyTypeOK, TicketTypeOK, EndpointTypeOK
<1>3. ASSUME NEW s \in Server, StartEndpoint(s) \/ EndOfInput(s) PROVE TypeOK'
  <2>1. EndpointTypeOK' /\ pc' \in [Server -> ServerStates]
    BY <1>3, EndpointType, RemovalType
    DEF StartEndpoint, EndOfInput, Goto, ServerStates, KeyStates, Thread
  <2> QED
    BY <1>3, <2>1 DEF StartEndpoint, EndOfInput, ticketVars, KeyTypeOK, TicketTypeOK
<1>4. ASSUME NEW s \in Server, Worker(s) \/ \E by \in Thread : RemoveLocator(s, by)
      PROVE  TypeOK'
  <2>1. EndpointTypeOK'
    BY <1>4, EndpointType, RemovalType DEF Worker, RemoveLocator, Thread
  <2> QED
    BY <1>4, <2>1 DEF Worker, RemoveLocator, keyVars, ticketVars, KeyTypeOK, TicketTypeOK
<1>5. ASSUME NEW s \in Server, Exit(s) \/ Crash(s) PROVE TypeOK'
  BY <1>5, EndType DEF Exit, Crash
<1>6. ASSUME NEW s \in Server, NEW by \in Thread, WorkOn(s, by) PROVE TypeOK'
  BY <1>6, CallType DEF WorkOn, keyVars, epVars, EndpointTypeOK
<1>7. ASSUME NEW s \in Server, NEW by \in Thread, NEW t \in Session, EndSession(s, by, t)
      PROVE  TypeOK'
  BY <1>7 DEF EndSession, keyVars, ticketVars, epVars, KeyTypeOK, TicketTypeOK, EndpointTypeOK
<1>8. CASE Host
  BY <1>8, HostType DEF Host, keyVars, epVars, KeyTypeOK, EndpointTypeOK
<1>9. CASE UNCHANGED vars
  BY <1>9 DEF vars, keyVars, ticketVars, epVars, KeyTypeOK, TicketTypeOK, EndpointTypeOK
<1> QED
  BY <1>1, <1>2, <1>3, <1>4, <1>5, <1>6, <1>7, <1>8, <1>9 DEF Next

(* A key in use is not being written: its number is one of those drawn, a  *)
(* new file's is not, and only its creator's write changes a file.         *)
KeysAreWhole ==
    /\ keyFile # None => keyFile.ino <= keys
    /\ \A s \in Server : held[s] <= keys
    /\ \A t \in Session : hook[t] <= keys
    /\ keyFile # None =>
          /\ \A s \in Server : held[s] = keyFile.ino => keyFile.full
          /\ \A t \in Session : hook[t] = keyFile.ino => keyFile.full

(* What is whole is not partial.                                           *)
LEMMA WholeKeys == KeysAreWhole => NoPartialKey
BY DEF KeysAreWhole, NoPartialKey

(* Every step keeps the keys whole.                                        *)
LEMMA KeysStayWhole == TypeOK /\ KeysAreWhole /\ [Next]_vars => KeysAreWhole'
<1> SUFFICES ASSUME TypeOK, KeysAreWhole, [Next]_vars PROVE KeysAreWhole'
  OBVIOUS
<1> USE DEF TypeOK, KeysAreWhole
<1>1. /\ keys \in Nat
      /\ keyFile # None => keyFile.ino \in 1..MaxKeys
      /\ \A s \in Server : held[s] \in Nat
      /\ \A t \in Session : hook[t] \in Nat
  BY DEF KeyTypeOK, TicketTypeOK, KeyFile
<1>2. ASSUME UNCHANGED <<keyFile, keys, held, hook>> PROVE KeysAreWhole'
  BY <1>2
<1>3. ASSUME NEW s \in Server, Provision(s) PROVE KeysAreWhole'
  <2>1. hook' = hook
    BY <1>3 DEF Provision, ticketVars
  <2>2. CASE CheckActive(s)
    BY <2>1, <2>2 DEF CheckActive
  <2>3. CASE UnlinkUnchanged(s)
    BY <2>1, <2>3 DEF UnlinkUnchanged
  <2>4. CASE ReadKey(s) \/ VerifyKey(s) \/ RereadKey(s)
    <3>1. UNCHANGED <<keyFile, keys>>
      BY <2>4 DEF ReadKey, VerifyKey, RereadKey
    <3>2. held' = held \/ (KeyReadable /\ held' = [held EXCEPT ![s] = keyFile.ino])
      BY <2>4 DEF ReadKey, VerifyKey, RereadKey, Keyed
    <3> QED
      BY <1>1, <2>1, <3>1, <3>2 DEF KeyReadable, KeyTypeOK
  <2>5. CASE CreateKey(s)
    <3>1. held' = held
      BY <2>5 DEF CreateKey
    <3>2. CASE UNCHANGED <<keyFile, keys>>
      BY <2>1, <3>1, <3>2
    <3>3. CASE keys' = keys + 1 /\ keyFile' = [ino |-> keys + 1, full |-> FALSE]
      <4>1. keyFile'.ino = keys + 1 /\ keys' = keys + 1
        BY <3>3
      <4>2. \A t \in Session : hook'[t] <= keys /\ hook'[t] \in Nat
        BY <1>1, <2>1
      <4>3. \A z \in Server : held'[z] <= keys /\ held'[z] \in Nat
        BY <1>1, <3>1
      <4> HIDE DEF TypeOK
      <4> QED
        BY <1>1, <4>1, <4>2, <4>3
    <3> QED
      BY <2>5, <3>2, <3>3 DEF CreateKey
  <2>6. CASE WriteKey(s)
    <3>1. UNCHANGED <<keys, held>>
      BY <2>6 DEF WriteKey
    <3>2. keyFile' = keyFile
          \/ (keyFile \in KeyFile /\ keyFile'.ino = keyFile.ino /\ keyFile'.full)
      BY <2>6 DEF WriteKey, KeyTypeOK, KeyFile
    <3> QED
      BY <2>1, <3>1, <3>2
  <2> QED
    BY <1>3, <2>2, <2>3, <2>4, <2>5, <2>6 DEF Provision, ProvisionStep
<1>4. ASSUME NEW s \in Server, Exit(s) \/ Crash(s) PROVE KeysAreWhole'
  BY <1>1, <1>4 DEF Exit, Crash, ProcessEnds, KeyTypeOK
<1>5. CASE Host
  <2>1. UNCHANGED <<keyFile, keys, held>>
    BY <1>5 DEF Host, keyVars
  <2>2. ASSUME NEW t \in Session, HookLoadsKey(t) PROVE KeysAreWhole'
    BY <1>1, <2>1, <2>2 DEF HookLoadsKey, KeyReadable, TicketTypeOK
  <2>3. ASSUME NEW t \in Session, Issue(t) PROVE KeysAreWhole'
    <3>1. \A u \in Session : hook'[u] = hook[u] \/ hook'[u] = 0
      BY <2>3 DEF Issue, TicketTypeOK
    <3>2. keyFile # None => keyFile.ino # 0
      BY <1>1
    <3> HIDE DEF TypeOK
    <3> QED
      BY <1>1, <2>1, <3>1, <3>2
  <2> QED
    BY <1>2, <1>5, <2>1, <2>2, <2>3 DEF Host, NextTurn, ClockMoves
<1>6. ASSUME NEW s \in Server,
             \/ Launch(s) \/ StartEndpoint(s) \/ Initialize(s) \/ ClientServed(s)
             \/ Worker(s) \/ EndOfInput(s)
      PROVE  KeysAreWhole'
  BY <1>2, <1>6
  DEF Launch, StartEndpoint, Initialize, ClientServed, Worker, EndOfInput, keyVars, ticketVars
<1>7. ASSUME NEW s \in Server, NEW by \in Thread,
             \/ WorkOn(s, by) \/ RemoveLocator(s, by)
             \/ \E t \in Session : EndSession(s, by, t)
      PROVE  KeysAreWhole'
  BY <1>2, <1>7
  DEF WorkOn, Consume, StartService, RemoveLocator, EndSession, keyVars, ticketVars
<1>8. CASE UNCHANGED vars
  BY <1>2, <1>8 DEF vars, keyVars, ticketVars
<1> QED
  BY <1>3, <1>4, <1>5, <1>6, <1>7, <1>8 DEF Next

(* The turn n of a session has its ticket behind it: it is spent, or it was*)
(* replaced by the ticket of a later turn.                                 *)
Spent(t, n) ==
    /\ ticket[t] # None
    /\ n <= ticket[t].turn
    /\ n = ticket[t].turn => ticket[t].consumed

(* Whoever has started a turn, or is about to, has spent its ticket, and   *)
(* nobody else is about to; no ticket is ahead of the user; and the time   *)
(* of a ticket runs from the first offer of its turn.                      *)
TicketsStartOnce ==
    /\ \A t \in Session, n \in Turn : starts[t][n] <= 1
    /\ \A t \in Session, n \in Turn : starts[t][n] >= 1 => Spent(t, n)
    /\ \A c \in Caller : pending[c] # None =>
          /\ starts[pending[c].session][pending[c].turn] = 0
          /\ Spent(pending[c].session, pending[c].turn)
          /\ \A d \in Caller : pending[d] = pending[c] => d = c
    /\ \A t \in Session : ticket[t] # None =>
          ticket[t].turn <= turn[t] /\ ticket[t].issued = offered[t]

(* A new ticket is of a later turn than the one it replaces.               *)
LEMMA IssueStartsNothing ==
    ASSUME TicketTypeOK, TicketsStartOnce, NEW t \in Session, Issue(t)
    PROVE  TicketsStartOnce'
<1>1. UNCHANGED <<pending, starts, turn>>
  BY DEF Issue
<1>2. CASE UNCHANGED <<ticket, offered>>
  BY <1>1, <1>2 DEF TicketsStartOnce, Spent
<1>3. CASE /\ ~(ticket[t] # None /\ ticket[t].turn = turn[t])
           /\ ticket' = [ticket EXCEPT ![t] = NewTicket(hook[t], turn[t])]
           /\ offered' = [offered EXCEPT ![t] =
                IF ticket[t] # None /\ ticket[t].turn = turn[t] THEN @ ELSE now]
           /\ hook[t] # 0
  <2>1. /\ ticket'[t] \in Ticket /\ ticket'[t].turn = turn[t]
        /\ ticket'[t].issued = now /\ offered'[t] = now
    BY <1>3 DEF NewTicket, TicketTypeOK, Ticket
  <2>2. ticket'[t] # None
    BY <2>1
  <2>3. \A u \in Session : u # t => ticket'[u] = ticket[u] /\ offered'[u] = offered[u]
    BY <1>3 DEF TicketTypeOK
  <2>4. \A n \in Turn : Spent(t, n) => n < turn[t]
    <3>1. ticket[t] # None => ticket[t].turn \in Turn /\ ticket[t].turn < turn[t]
      BY <1>3 DEF TicketTypeOK, TicketsStartOnce, Ticket, Turn
    <3> QED
      BY <3>1 DEF Spent, TicketTypeOK, Turn
  <2>5. \A u \in Session, n \in Turn : Spent(u, n) => Spent(u, n)'
    <3>1. ASSUME NEW u \in Session, NEW n \in Turn, Spent(u, n), u # t PROVE Spent(u, n)'
      BY <2>3, <3>1 DEF Spent
    <3>2. ASSUME NEW n \in Turn, Spent(t, n) PROVE Spent(t, n)'
      BY <2>1, <2>2, <2>4, <3>2 DEF Spent, TicketTypeOK, Turn
    <3> QED
      BY <3>1, <3>2
  <2>6. \A c \in Caller : pending[c] # None =>
           pending[c].session \in Session /\ pending[c].turn \in Turn
    BY DEF TicketTypeOK, PendingStart
  <2>7. \A u \in Session : ticket'[u] # None =>
           ticket'[u].turn <= turn'[u] /\ ticket'[u].issued = offered'[u]
    <3>1. ASSUME NEW u \in Session, u # t, ticket'[u] # None
          PROVE  ticket'[u].turn <= turn'[u] /\ ticket'[u].issued = offered'[u]
      BY <1>1, <2>3, <3>1 DEF TicketsStartOnce
    <3>2. ticket'[t].turn <= turn'[t] /\ ticket'[t].issued = offered'[t]
      BY <1>1, <2>1 DEF TicketTypeOK, Turn
    <3> QED
      BY <3>1, <3>2
  <2> QED
    BY <1>1, <2>5, <2>6, <2>7 DEF TicketsStartOnce
<1> QED
  BY <1>2, <1>3 DEF Issue

(* Only an unspent ticket is taken, so its turn was never started, and the *)
(* taking spends it.                                                       *)
LEMMA ConsumeStartsOnce ==
    ASSUME TicketTypeOK, TicketsStartOnce,
           NEW s \in Server, NEW by \in Thread, NEW t \in Session, NEW n \in Turn,
           Consume(s, by, t, n)
    PROVE  TicketsStartOnce'
<1> DEFINE me == <<s, by>>
           mine == [session |-> t, turn |-> n]
<1>1. /\ me \in Caller /\ mine \in PendingStart /\ mine # None
      /\ mine.session = t /\ mine.turn = n
  BY DEF Caller, Thread, PendingStart
<1>2. /\ UNCHANGED <<starts, turn, offered>>
      /\ pending[me] = None
      /\ ticket[t] # None /\ ticket[t].turn = n /\ ~ticket[t].consumed
  BY DEF Consume, Acceptable
<1>3. ~Spent(t, n)
  BY <1>2 DEF Spent
<1>4. /\ ticket'[t] = [ticket[t] EXCEPT !.consumed = TRUE]
      /\ \A u \in Session : u # t => ticket'[u] = ticket[u]
  BY DEF Consume, TicketTypeOK
<1>5. ticket[t] \in Ticket
  BY <1>2 DEF TicketTypeOK
<1>6. /\ ticket'[t] \in Ticket /\ ticket'[t].turn = n /\ ticket'[t].consumed
      /\ ticket'[t].issued = ticket[t].issued
  BY <1>2, <1>4, <1>5 DEF Ticket
<1>7. ticket'[t] # None
  BY <1>6
<1>8. Spent(t, n)' /\ \A u \in Session, k \in Turn : Spent(u, k) => Spent(u, k)'
  <2>1. Spent(t, n)'
    BY <1>6, <1>7 DEF Spent, Turn, TicketAssumption
  <2>2. ASSUME NEW u \in Session, NEW k \in Turn, Spent(u, k), u # t PROVE Spent(u, k)'
    BY <1>4, <2>2 DEF Spent
  <2>3. ASSUME NEW k \in Turn, Spent(t, k) PROVE Spent(t, k)'
    BY <1>2, <1>6, <1>7, <2>3 DEF Spent
  <2> QED
    BY <2>1, <2>2, <2>3
<1>9. /\ pending'[me] = mine
      /\ \A c \in Caller : c # me => pending'[c] = pending[c]
  BY <1>1 DEF Consume, TicketTypeOK
<1>10. \A c \in Caller : pending[c] # mine
  BY <1>1, <1>3 DEF TicketsStartOnce
<1>11. \A c \in Caller : pending[c] # None =>
          pending[c].session \in Session /\ pending[c].turn \in Turn
  BY DEF TicketTypeOK, PendingStart
<1>12. starts[t][n] = 0
  BY <1>3 DEF TicketsStartOnce, TicketTypeOK
<1>13. \A c \in Caller : pending'[c] # None =>
          /\ starts'[pending'[c].session][pending'[c].turn] = 0
          /\ Spent(pending[c].session, pending[c].turn)'
          /\ \A d \in Caller : pending'[d] = pending'[c] => d = c
  <2> HIDE DEF me, mine
  <2>1. ASSUME NEW c \in Caller, c # me, pending[c] # None
        PROVE  /\ starts[pending[c].session][pending[c].turn] = 0
               /\ Spent(pending[c].session, pending[c].turn)'
               /\ \A d \in Caller : pending'[d] = pending'[c] => d = c
    BY <1>8, <1>9, <1>10, <1>11, <2>1 DEF TicketsStartOnce
  <2>2. /\ starts[mine.session][mine.turn] = 0
        /\ Spent(pending[me].session, pending[me].turn)'
        /\ \A d \in Caller : pending'[d] = mine => d = me
    BY <1>1, <1>8, <1>9, <1>10, <1>12
  <2> QED
    BY <1>1, <1>2, <1>9, <2>1, <2>2
<1>14. \A u \in Session : ticket'[u] # None =>
          ticket'[u].turn <= turn'[u] /\ ticket'[u].issued = offered'[u]
  <2>1. \A u \in Session : ticket[u] # None =>
           ticket[u].turn <= turn[u] /\ ticket[u].issued = offered[u]
    BY DEF TicketsStartOnce
  <2>2. ticket'[t].turn <= turn[t] /\ ticket'[t].issued = offered[t]
    BY <1>2, <1>6, <2>1
  <2> HIDE DEF me, mine
  <2> QED
    BY <1>2, <1>4, <2>1, <2>2
<1>15. \A u \in Session, k \in Turn :
          starts'[u][k] <= 1 /\ (starts'[u][k] >= 1 => Spent(u, k)')
  BY <1>2, <1>8 DEF TicketsStartOnce
<1> QED
  BY <1>13, <1>14, <1>15 DEF TicketsStartOnce

(* The start that was pending is the first of its turn, and nobody else's. *)
LEMMA ServiceStartsOnce ==
    ASSUME TicketTypeOK, TicketsStartOnce, NEW s \in Server, NEW by \in Thread,
           StartService(s, by)
    PROVE  TicketsStartOnce'
<1> DEFINE me == <<s, by>>
           t == pending[me].session
           n == pending[me].turn
<1>1. me \in Caller /\ pending[me] # None
  BY DEF Caller, Thread, StartService
<1>2. t \in Session /\ n \in Turn
  BY <1>1 DEF TicketTypeOK, PendingStart
<1>3. UNCHANGED <<ticket, turn, offered>>
  BY DEF StartService
<1>4. pending'[me] = None /\ \A c \in Caller : c # me => pending'[c] = pending[c]
  BY <1>1 DEF StartService, TicketTypeOK
<1>5. starts[t][n] = 0 /\ Spent(t, n)
  BY <1>1 DEF TicketsStartOnce
<1>6. \A u \in Session, k \in Turn :
         starts'[u][k] = starts[u][k] \/ (u = t /\ k = n /\ starts'[u][k] = 1)
  <2>1. CASE UNCHANGED starts
    BY <2>1
  <2>2. CASE starts' = [starts EXCEPT ![t] = [starts[t] EXCEPT ![n] = starts[t][n] + 1]]
    BY <1>2, <1>5, <2>2 DEF TicketTypeOK
  <2> QED
    BY <2>1, <2>2 DEF StartService
<1>7. \A u \in Session, k \in Turn : Spent(u, k)' = Spent(u, k)
  BY <1>3 DEF Spent
<1>8. \A c \in Caller : pending[c] # None =>
         pending[c].session \in Session /\ pending[c].turn \in Turn
  BY DEF TicketTypeOK, PendingStart
<1>9. \A c \in Caller : c # me /\ pending[c] # None =>
         pending[c].session # t \/ pending[c].turn # n
  <2>1. \A x, y \in PendingStart : x.session = y.session /\ x.turn = y.turn => x = y
    BY DEF PendingStart
  <2> QED
    BY <1>1, <2>1 DEF TicketsStartOnce, TicketTypeOK
<1> HIDE DEF me, t, n
<1>10. \A u \in Session, k \in Turn :
          starts'[u][k] <= 1 /\ (starts'[u][k] >= 1 => Spent(u, k)')
  BY <1>5, <1>6, <1>7 DEF TicketsStartOnce
<1>11. ASSUME NEW c \in Caller, pending'[c] # None
       PROVE  /\ starts'[pending'[c].session][pending'[c].turn] = 0
              /\ Spent(pending[c].session, pending[c].turn)'
              /\ \A d \in Caller : pending'[d] = pending'[c] => d = c
  <2>1. c # me /\ pending'[c] = pending[c] /\ pending[c] # None
    BY <1>4, <1>11
  <2>2. starts'[pending[c].session][pending[c].turn] = 0
    BY <1>6, <1>8, <1>9, <2>1 DEF TicketsStartOnce
  <2>3. Spent(pending[c].session, pending[c].turn)
    BY <2>1 DEF TicketsStartOnce
  <2>4. Spent(pending[c].session, pending[c].turn)'
    BY <1>7, <1>8, <2>1, <2>3
  <2>5. \A d \in Caller : pending'[d] = pending'[c] => d = c
    BY <1>4, <2>1 DEF TicketsStartOnce
  <2> QED
    BY <2>1, <2>2, <2>4, <2>5
<1> QED
  BY <1>3, <1>10, <1>11 DEF TicketsStartOnce

(* What a process had spent and not started when it ends is never started. *)
LEMMA EndStartsNothing ==
    ASSUME TicketTypeOK, TicketsStartOnce, NEW s \in Server, ProcessEnds(s)
    PROVE  TicketsStartOnce'
<1>1. UNCHANGED <<ticket, turn, starts, offered>>
  BY DEF ProcessEnds
<1>2. \A c \in Caller : pending'[c] = None \/ pending'[c] = pending[c]
  BY DEF ProcessEnds
<1>3. \A c \in Caller : pending'[c] # None => pending'[c] = pending[c]
  BY <1>2
<1>4. \A u, k : Spent(u, k)' = Spent(u, k)
  BY <1>1 DEF Spent
<1> QED
  BY <1>1, <1>3, <1>4 DEF TicketsStartOnce

(* Every step keeps that a ticket starts once.                             *)
LEMMA TicketsKeep == TypeOK /\ TicketsStartOnce /\ [Next]_vars => TicketsStartOnce'
<1> SUFFICES ASSUME TicketTypeOK, TicketsStartOnce, [Next]_vars PROVE TicketsStartOnce'
  BY DEF TypeOK
<1>1. ASSUME UNCHANGED <<ticket, turn, pending, offered, starts>>
      PROVE  TicketsStartOnce'
  BY <1>1 DEF TicketsStartOnce, Spent
<1>2. ASSUME NEW s \in Server, Exit(s) \/ Crash(s) PROVE TicketsStartOnce'
  BY <1>2, EndStartsNothing DEF Exit, Crash
<1>3. ASSUME NEW s \in Server, NEW by \in Thread, WorkOn(s, by) PROVE TicketsStartOnce'
  BY <1>3, ConsumeStartsOnce, ServiceStartsOnce DEF WorkOn
<1>4. CASE Host
  <2>1. ASSUME NEW t \in Session, Issue(t) PROVE TicketsStartOnce'
    BY <2>1, IssueStartsNothing
  <2>2. ASSUME NEW t \in Session, NextTurn(t) PROVE TicketsStartOnce'
    <3>1. UNCHANGED <<ticket, pending, offered, starts>>
      BY <2>2 DEF NextTurn
    <3>2. \A u \in Session : turn[u] \in Nat /\ turn'[u] \in Nat /\ turn[u] <= turn'[u]
      <4>1. turn \in [Session -> Nat] /\ turn' = [turn EXCEPT ![t] = turn[t] + 1]
        BY <2>2 DEF NextTurn, TicketTypeOK, Turn
      <4>2. \A u \in Session : turn'[u] = turn[u] \/ turn'[u] = turn[u] + 1
        BY <4>1
      <4> QED
        BY <4>1, <4>2
    <3>3. \A u \in Session : ticket[u] # None => ticket[u].turn \in Nat
      BY DEF TicketTypeOK, Ticket, Turn
    <3>4. \A u \in Session : ticket'[u] # None =>
             ticket'[u].turn <= turn'[u] /\ ticket'[u].issued = offered'[u]
      BY <3>1, <3>2, <3>3 DEF TicketsStartOnce
    <3>5. \A u, k : Spent(u, k)' = Spent(u, k)
      BY <3>1 DEF Spent
    <3> QED
      BY <3>1, <3>4, <3>5 DEF TicketsStartOnce
  <2> QED
    BY <1>1, <1>4, <2>1, <2>2 DEF Host, HookLoadsKey, ClockMoves
<1>5. ASSUME NEW s \in Server,
             \/ Launch(s) \/ Provision(s) \/ StartEndpoint(s) \/ Initialize(s)
             \/ ClientServed(s) \/ Worker(s) \/ EndOfInput(s)
      PROVE  TicketsStartOnce'
  BY <1>1, <1>5
  DEF Launch, Provision, StartEndpoint, Initialize, ClientServed, Worker, EndOfInput,
      ticketVars
<1>6. ASSUME NEW s \in Server, NEW by \in Thread,
             RemoveLocator(s, by) \/ \E t \in Session : EndSession(s, by, t)
      PROVE  TicketsStartOnce'
  BY <1>1, <1>6 DEF RemoveLocator, EndSession, ticketVars
<1>7. CASE UNCHANGED vars
  BY <1>1, <1>7 DEF vars, ticketVars
<1> QED
  BY <1>2, <1>3, <1>4, <1>5, <1>6, <1>7 DEF Next

(* The inductive invariant.                                                *)
Inductive == TypeOK /\ KeysAreWhole /\ TicketsStartOnce

(* It holds at first and every step keeps it.                              *)
LEMMA Induction ==
    /\ Init => Inductive
    /\ Inductive /\ [Next]_vars => Inductive'
<1>1. Init => TypeOK
  <2>1. KeyInit => KeyTypeOK /\ pc \in [Server -> ServerStates]
    BY DEF KeyInit, KeyTypeOK, ServerStates, KeyStates
  <2>2. TicketInit => TicketTypeOK
    BY DEF TicketInit, TicketTypeOK, Turn
  <2>3. EndpointInit => EndpointTypeOK
    BY DEF EndpointInit, EndpointTypeOK
  <2> QED
    BY <2>1, <2>2, <2>3 DEF Init, TypeOK
<1>2. Init => KeysAreWhole
  BY DEF Init, KeyInit, TicketInit, KeysAreWhole
<1>3. Init => TicketsStartOnce
  BY DEF Init, TicketInit, TicketsStartOnce
<1> QED
  BY <1>1, <1>2, <1>3, NextType, KeysStayWhole, TicketsKeep DEF Inductive

(* The invariant holds of every behaviour.                                 *)
LEMMA AlwaysInductive == Spec => []Inductive
<1> QED
  BY Induction, PTL DEF Spec

(* A ticket starts monitoring once, across hooks that run again, crashes of*)
(* servers, key changes and a clock set back, and no process works with a  *)
(* key whose file is still being written (issue, consume, StartService and *)
(* provision_control_key).                                                 *)
THEOREM CredentialsHold == Spec => []CredentialsWorkOnce
<1>1. Inductive => CredentialsWorkOnce
  BY WholeKeys DEF Inductive, TicketsStartOnce, CredentialsWorkOnce, OneStartPerTurn
<1> QED
  BY <1>1, AlwaysInductive, PTL

(* What is spent is spent within Ttl of the first ticket of its turn, also *)
(* when the hook runs again or the clock is set back (issue, _expired).    *)
THEOREM WindowHolds == Spec => WindowNeverExtends
<1> DEFINE Step == \A t \in Session :
      ticket[t] # None /\ ~ticket[t].consumed /\ ticket'[t] = [ticket[t] EXCEPT !.consumed = TRUE]
      => offered[t] <= now /\ now <= offered[t] + Ttl
<1>1. Inductive /\ [Next]_vars => [Step]_vars
  <2> SUFFICES ASSUME Inductive, Next,
                      NEW t \in Session, ticket[t] # None, ~ticket[t].consumed,
                      ticket'[t] = [ticket[t] EXCEPT !.consumed = TRUE]
               PROVE  offered[t] <= now /\ now <= offered[t] + Ttl
    OBVIOUS
  <2>1. /\ ticket[t] \in Ticket /\ now \in Nat /\ Ttl \in Nat
        /\ ticket[t].issued = offered[t] /\ offered[t] \in Nat
    BY DEF Inductive, TypeOK, TicketTypeOK, TicketsStartOnce
  <2>2. ticket'[t].consumed /\ ticket'[t] # ticket[t]
    BY <2>1 DEF Ticket
  <2>3. PICK s \in Server, by \in Thread, u \in Session, n \in Turn : Consume(s, by, u, n)
    <3>1. ASSUME NEW u \in Session, Issue(u) PROVE FALSE
      <4> DEFINE new == NewTicket(hook[u], turn[u])
      <4>1. ~new.consumed
        BY DEF NewTicket
      <4>2. DOMAIN ticket = Session
        BY DEF Inductive, TypeOK, TicketTypeOK
      <4>3. ticket' = ticket \/ ticket' = [ticket EXCEPT ![u] = new]
        BY <3>1 DEF Issue
      <4> HIDE DEF new
      <4>4. ticket'[t] = ticket[t] \/ ~ticket'[t].consumed
        BY <4>1, <4>2, <4>3
      <4> QED
        BY <2>2, <4>4
    <3>2. \A s \in Server : ~ProcessEnds(s)
      BY <2>2 DEF ProcessEnds
    <3>3. \A s \in Server :
            /\ ~Launch(s) /\ ~Provision(s) /\ ~StartEndpoint(s) /\ ~Initialize(s)
            /\ ~ClientServed(s) /\ ~Worker(s) /\ ~EndOfInput(s) /\ ~Exit(s) /\ ~Crash(s)
      BY <2>2, <3>2
      DEF Launch, Provision, StartEndpoint, Initialize, ClientServed, Worker, EndOfInput,
          Exit, Crash, ticketVars
    <3>4. \A s \in Server, by \in Thread :
            /\ ~RemoveLocator(s, by) /\ ~StartService(s, by)
            /\ \A u \in Session : ~EndSession(s, by, u)
      BY <2>2 DEF RemoveLocator, StartService, EndSession, ticketVars
    <3>5. \A u \in Session : ~HookLoadsKey(u) /\ ~NextTurn(u)
      BY <2>2 DEF HookLoadsKey, NextTurn
    <3>6. ~ClockMoves
      BY <2>2 DEF ClockMoves
    <3> QED
      BY <3>1, <3>3, <3>4, <3>5, <3>6 DEF Next, Host, WorkOn
  <2>4. u = t
    BY <2>2, <2>3 DEF Consume, Inductive, TypeOK, TicketTypeOK
  <2>5. ~Expired(ticket[t])
    BY <2>3, <2>4 DEF Consume, Acceptable
  <2> QED
    BY <2>1, <2>5 DEF Expired
<1>2. Spec => [][Step]_vars
  BY <1>1, AlwaysInductive, PTL DEF Spec
<1> QED
  BY <1>2 DEF WindowNeverExtends
-----------------------------------------------------------------------------
(* What is left of the locator when its server is gone.                    *)

(* Generations are never drawn twice.                                      *)
GenerationsDiffer ==
    /\ \A s \in Server : lastGen[s] <= gens /\ (gen[s] # None => gen[s] <= gens)
    /\ \A s, z \in Server : s # z =>
          /\ lastGen[s] # 0 => lastGen[s] # lastGen[z] /\ lastGen[s] # gen[z]
          /\ gen[s] # None => gen[s] # gen[z]

(* A server that has not bound its listener has published nothing; one that*)
(* serves owns what it published, unless its worker began the removal; one *)
(* that leaves is removing it, or the file names another generation.       *)
Follows(s) ==
    /\ pc[s] \notin {"serving", "leaving"} => lastGen[s] = 0
    /\ pc[s] = "serving" => taken[s] \/ (gen[s] # None /\ gen[s] = lastGen[s])
    /\ pc[s] = "leaving" =>
          /\ gen[s] = None
          /\ \/ lastGen[s] = 0 \/ taken[s]
             \/ closing[<<s, "stdio">>] # None /\ closing[<<s, "stdio">>].gen = lastGen[s]
             \/ locator # lastGen[s]

LocatorFollows == \A s \in Server : Follows(s)

EndpointInv == EndpointTypeOK /\ PlacesOK /\ GenerationsDiffer /\ LocatorFollows

(* Provisioning and tool calls leave the endpoint alone.                   *)
LEMMA EndpointUntouched ==
    ASSUME EndpointInv, UNCHANGED epVars, PlacesOK',
           \A s \in Server : pc'[s] = pc[s] \/ {pc[s], pc'[s]} \cap {"serving", "leaving"} = {}
    PROVE  EndpointInv'
BY DEF EndpointInv, EndpointTypeOK, GenerationsDiffer, LocatorFollows, Follows, epVars

(* What a close makes of one server's endpoint, and of the others'.        *)
Closes(s, by) ==
    /\ UNCHANGED <<locator, gens, lastGen>>
    /\ \A z \in Server \ {s} : gen'[z] = gen[z] /\ taken'[z] = taken[z]
    /\ \A z \in Server \ {s} : closing'[<<z, "stdio">>] = closing[<<z, "stdio">>]
    /\ gen'[s] = None /\ (taken[s] => taken'[s])
    /\ closing[<<s, "stdio">>] # None => closing'[<<s, "stdio">>] = closing[<<s, "stdio">>]
    /\ gen[s] # None =>
          IF by = "endpoint" THEN taken'[s]
          ELSE closing'[<<s, "stdio">>] # None /\ closing'[<<s, "stdio">>].gen = gen[s]

(* A close forgets the server's generation and keeps in mind what it is to *)
(* remove; it changes no other server's.                                   *)
LEMMA ClosingChanges ==
    ASSUME EndpointTypeOK, NEW s \in Server, NEW by \in Thread, BeginClose(s, by)
    PROVE  Closes(s, by)
<1> USE DEF EndpointTypeOK, BeginClose
<1>1. <<s, by>> \in Server \X Thread /\ \A z \in Server : <<z, "stdio">> \in Server \X Thread
  BY DEF Thread
<1>2. gen[s] # None => [gen |-> gen[s], at |-> "read"] \in Removal
  BY DEF Removal
<1>3. \/ closing' = closing /\ gen[s] = None
      \/ \E r \in Removal : r.gen = gen[s] /\ closing' = [closing EXCEPT ![<<s, by>>] = r]
  BY <1>2
<1>4. /\ \A z \in Server \ {s} : closing'[<<z, "stdio">>] = closing[<<z, "stdio">>]
      /\ closing[<<s, "stdio">>] # None => closing'[<<s, "stdio">>] = closing[<<s, "stdio">>]
      /\ by = "stdio" /\ gen[s] # None =>
            closing'[<<s, "stdio">>] # None /\ closing'[<<s, "stdio">>].gen = gen[s]
  BY <1>1, <1>3, EndpointAssumption
<1>5. taken'[s] = (taken[s] \/ (by = "endpoint" /\ gen[s] # None))
  BY Zenon
<1>6. \A z \in Server \ {s} : gen'[z] = gen[z] /\ taken'[z] = taken[z]
  BY Zenon
<1>7. gen'[s] = None /\ UNCHANGED <<locator, gens, lastGen>>
  OBVIOUS
<1> HIDE DEF BeginClose, EndpointTypeOK
<1> QED
  BY <1>4, <1>5, <1>6, <1>7 DEF Closes, Thread

(* A close draws nothing.                                                  *)
LEMMA ClosedDiffers ==
    ASSUME GenerationsDiffer, NEW s \in Server, NEW by \in Thread, Closes(s, by),
           \A z \in Server : lastGen[z] # 0 => lastGen[z] # None
    PROVE  GenerationsDiffer'
<1>1. /\ UNCHANGED <<gens, lastGen>> /\ gen'[s] = None
      /\ \A z \in Server : z # s => gen'[z] = gen[z]
  BY DEF Closes
<1>2. \A z \in Server : lastGen[z] <= gens /\ (gen'[z] # None => gen'[z] <= gens)
  BY <1>1 DEF GenerationsDiffer
<1>3. ASSUME NEW y \in Server, NEW z \in Server, y # z
      PROVE  /\ lastGen[y] # 0 => lastGen[y] # lastGen[z] /\ lastGen[y] # gen'[z]
             /\ gen'[y] # None => gen'[y] # gen'[z]
  BY <1>1, <1>3 DEF GenerationsDiffer
<1> QED
  BY <1>1, <1>2, <1>3 DEF GenerationsDiffer

(* A server that closes leaves with nothing published, its worker's removal *)
(* or one of its own.                                                      *)
LEMMA ClosedFollows ==
    ASSUME PlacesOK, LocatorFollows, NEW s \in Server, NEW by \in Thread, Closes(s, by),
           \/ by = "endpoint" /\ pc' = pc
           \/ by = "stdio" /\ pc[s] \in {"bound", "serving"}
              /\ pc' = [pc EXCEPT ![s] = "leaving"]
    PROVE  LocatorFollows'
<1> SUFFICES ASSUME NEW z \in Server PROVE Follows(z)'
  BY DEF LocatorFollows
<1>1. Follows(z)
  BY DEF LocatorFollows
<1>2. CASE z # s
  <2>1. /\ pc'[z] = pc[z] /\ lastGen'[z] = lastGen[z] /\ gen'[z] = gen[z] /\ locator' = locator
        /\ closing'[<<z, "stdio">>] = closing[<<z, "stdio">>]
    BY <1>2 DEF Closes, PlacesOK
  <2>2. taken'[z] = taken[z]
    BY <1>2 DEF Closes
  <2> QED
    BY <1>1, <2>1, <2>2, Zenon DEF Follows
<1>3. CASE z = s
  <2>1. /\ lastGen'[s] = lastGen[s] /\ gen'[s] = None /\ locator' = locator
        /\ taken[s] => taken'[s]
        /\ closing[<<s, "stdio">>] # None => closing'[<<s, "stdio">>] = closing[<<s, "stdio">>]
    BY DEF Closes
  <2>2. CASE by = "endpoint" /\ pc' = pc
    <3>1. gen[s] # None => taken'[s]
      BY <2>2 DEF Closes
    <3> QED
      BY <1>1, <1>3, <2>1, <2>2, <3>1 DEF Follows
  <2>3. CASE /\ by = "stdio" /\ pc[s] \in {"bound", "serving"}
             /\ pc' = [pc EXCEPT ![s] = "leaving"]
    <3>1. gen[s] # None =>
            closing'[<<s, "stdio">>] # None /\ closing'[<<s, "stdio">>].gen = gen[s]
      BY <2>3 DEF Closes
    <3>2. pc'[s] = "leaving"
      BY <2>3 DEF PlacesOK
    <3> QED
      BY <1>1, <1>3, <2>1, <2>3, <3>1, <3>2 DEF Follows
  <2> QED
    BY <2>2, <2>3
<1> QED
  BY <1>2, <1>3

(* A start draws a generation of its own and publishes it.                 *)
LEMMA StartFollows ==
    ASSUME EndpointInv, NEW s \in Server, StartEndpoint(s)
    PROVE  EndpointInv'
<1> USE EndpointAssumption DEF EndpointInv, EndpointTypeOK, PlacesOK, ServerStates, Goto
<1>1. EndpointTypeOK' /\ PlacesOK'
  BY EndpointType, RemovalType DEF StartEndpoint, Thread
<1>2. CASE pc[s] = "keyed" /\ Bind(s) /\ Goto(s, "bound")
  <2>1. GenerationsDiffer'
    BY <1>2 DEF Bind, GenerationsDiffer, Gen
  <2>2. LocatorFollows'
    BY <1>2 DEF Bind, LocatorFollows, Follows
  <2> QED
    BY <1>1, <2>1, <2>2
<1>3. CASE pc[s] = "bound" /\ Publish(s) /\ Goto(s, "serving")
  <2>1. GenerationsDiffer'
    BY <1>3 DEF Publish, GenerationsDiffer, Gen
  <2>2. LocatorFollows'
    <3> SUFFICES ASSUME NEW z \in Server PROVE Follows(z)'
      BY DEF LocatorFollows
    <3>1. Follows(z) /\ UNCHANGED <<gen, closing, taken>> /\ locator' = gen[s]
      BY <1>3 DEF Publish, LocatorFollows
    <3>2. CASE z = s
      BY <1>3, <3>1, <3>2 DEF Publish, Follows
    <3>3. CASE z # s
      <4>1. pc'[z] = pc[z] /\ lastGen'[z] = lastGen[z] /\ gen[s] # None
        BY <1>3, <3>3 DEF Publish
      <4>2. lastGen[z] # 0 => lastGen[z] # gen[s]
        BY <3>3 DEF GenerationsDiffer
      <4> HIDE DEF EndpointInv, EndpointTypeOK
      <4> QED
        BY <3>1, <4>1, <4>2 DEF Follows
    <3> QED
      BY <3>2, <3>3
  <2> QED
    BY <1>1, <2>1, <2>2
<1>4. CASE pc[s] = "bound" /\ BeginClose(s, "stdio") /\ Goto(s, "leaving")
  <2>1. Closes(s, "stdio")
    BY <1>4, ClosingChanges DEF Thread
  <2>2. \A z \in Server : lastGen[z] # 0 => lastGen[z] # None
    BY DEF Gen
  <2>3. GenerationsDiffer'
    BY <2>1, <2>2, ClosedDiffers DEF Thread
  <2>4. LocatorFollows'
    BY <1>4, <2>1, ClosedFollows DEF Thread
  <2> QED
    BY <1>1, <2>3, <2>4
<1> QED
  BY <1>2, <1>3, <1>4 DEF StartEndpoint

(* The endpoint's worker and the two steps of a removal keep it.           *)
LEMMA ServiceFollows ==
    ASSUME EndpointInv, NEW s \in Server,
           \/ ClientServed(s) \/ Worker(s) \/ EndOfInput(s)
           \/ \E by \in Thread : RemoveLocator(s, by)
    PROVE  EndpointInv'
<1> USE EndpointAssumption DEF EndpointInv, EndpointTypeOK, PlacesOK, ServerStates, Goto
<1>1. EndpointTypeOK'
  <2>1. CASE ClientServed(s)
    BY <2>1 DEF ClientServed
  <2>2. CASE Worker(s) \/ EndOfInput(s) \/ \E by \in Thread : RemoveLocator(s, by)
    BY <2>2, EndpointType, RemovalType DEF Worker, EndOfInput, RemoveLocator, Thread
  <2> QED
    BY <2>1, <2>2
<1>2. PlacesOK'
  BY DEF ClientServed, Worker, EndOfInput, RemoveLocator, keyVars
<1>3. ASSUME UNCHANGED <<locator, gens, gen, closing, lastGen, taken, pc>> PROVE EndpointInv'
  BY <1>1, <1>2, <1>3 DEF GenerationsDiffer, LocatorFollows, Follows
<1>4. CASE ClientServed(s) \/ (UNCHANGED pc /\ (AcceptFails(s) \/ Answer(s)))
  BY <1>3, <1>4 DEF ClientServed, AcceptFails, Answer, keyVars
<1>5. ASSUME NEW by \in Thread, BeginClose(s, by),
             \/ by = "endpoint" /\ pc' = pc
             \/ by = "stdio" /\ pc[s] = "serving" /\ pc' = [pc EXCEPT ![s] = "leaving"]
      PROVE  EndpointInv'
  <2>1. Closes(s, by)
    BY <1>5, ClosingChanges DEF Thread
  <2>2. \A z \in Server : lastGen[z] # 0 => lastGen[z] # None
    BY DEF Gen
  <2>3. GenerationsDiffer'
    BY <2>1, <2>2, ClosedDiffers DEF Thread
  <2>4. LocatorFollows'
    BY <1>5, <2>1, ClosedFollows
  <2> QED
    BY <1>1, <1>2, <2>3, <2>4
<1>6. ASSUME NEW by \in Thread, RemoveLocator(s, by) PROVE EndpointInv'
  <2>1. UNCHANGED <<gens, gen, lastGen, taken, pc>>
    BY <1>6 DEF RemoveLocator, CompareLocator, UnlinkLocator, keyVars
  <2>2. <<s, by>> \in Server \X Thread /\ \A z \in Server : <<z, "stdio">> \in Server \X Thread
    BY DEF Thread
  <2>3. \A z \in Server \ {s} : closing'[<<z, "stdio">>] = closing[<<z, "stdio">>]
    BY <1>6, <2>2 DEF RemoveLocator, CompareLocator, UnlinkLocator
  <2>4. locator' \in {locator, None} /\ \A z \in Server : lastGen[z] # 0 => lastGen[z] # None
    BY <1>6 DEF RemoveLocator, CompareLocator, UnlinkLocator, Gen
  <2> DEFINE mine == closing[<<s, "stdio">>]
  <2>5. ASSUME mine # None, mine.gen = lastGen[s], lastGen[s] # 0
        PROVE  \/ closing'[<<s, "stdio">>] # None /\ closing'[<<s, "stdio">>].gen = lastGen[s]
               \/ locator' # lastGen[s]
    <3>1. mine \in Removal
      BY <2>2, <2>5
    <3>2. CASE CompareLocator(s, by)
      <4>1. [mine EXCEPT !.at = "unlink"] \in Removal /\ [mine EXCEPT !.at = "unlink"].gen = mine.gen
        BY <3>1 DEF Removal
      <4>2. CASE by = "stdio" /\ locator = mine.gen
        <5>1. closing'[<<s, "stdio">>] = [mine EXCEPT !.at = "unlink"]
          BY <2>2, <3>2, <4>2 DEF CompareLocator
        <5> QED
          BY <2>5, <4>1, <5>1, EndpointAssumption
      <4>3. CASE by = "stdio" /\ locator # mine.gen
        BY <2>5, <3>2, <4>3 DEF CompareLocator
      <4>4. CASE by = "endpoint"
        BY <2>2, <2>5, <3>2, <4>4 DEF CompareLocator
      <4> QED
        BY <4>2, <4>3, <4>4 DEF Thread
    <3>3. CASE UnlinkLocator(s, by)
      BY <2>4, <2>5, <3>3 DEF UnlinkLocator
    <3> QED
      BY <1>6, <3>2, <3>3 DEF RemoveLocator
  <2>6. GenerationsDiffer'
    BY <2>1 DEF GenerationsDiffer
  <2>7. LocatorFollows'
    BY <2>1, <2>3, <2>4, <2>5 DEF LocatorFollows, Follows
  <2> QED
    BY <1>1, <1>2, <2>6, <2>7
<1>7. CASE Worker(s)
  BY <1>4, <1>5, <1>7 DEF Worker, Thread, keyVars
<1>8. CASE EndOfInput(s)
  BY <1>5, <1>8 DEF EndOfInput, Thread
<1> QED
  BY <1>4, <1>6, <1>7, <1>8

(* Every step of the activation keeps it, and a server that leaves in order*)
(* takes its locator with it.                                              *)
LEMMA EndpointNext == EndpointInv /\ TypeOK /\ [Next]_vars => EndpointInv'
<1> SUFFICES ASSUME EndpointInv, TypeOK, [Next]_vars PROVE EndpointInv'
  OBVIOUS
<1>1. EndpointTypeOK' /\ PlacesOK'
  BY NextType DEF TypeOK, PlacesOK
<1>2. ASSUME NEW s \in Server, Provision(s) \/ Launch(s) PROVE EndpointInv'
  <2>1. UNCHANGED epVars
    BY <1>2 DEF Provision, Launch, epVars
  <2>2. \E to \in KeyStates \cup {"keyed"} :
           pc[s] \in KeyStates \cup {"down"} /\ pc' = [pc EXCEPT ![s] = to]
    BY <1>2 DEF Provision, ProvisionStep, Launch, ReadKey, CheckActive, UnlinkUnchanged, CreateKey,
       WriteKey, VerifyKey, RereadKey, Keyed, Goto, KeyStates
  <2> QED
    BY <1>1, <2>1, <2>2, EndpointUntouched DEF EndpointInv, PlacesOK, KeyStates
<1>3. ASSUME NEW s \in Server, StartEndpoint(s) PROVE EndpointInv'
  BY <1>3, StartFollows
<1>4. ASSUME NEW s \in Server,
             \/ ClientServed(s) \/ Worker(s) \/ EndOfInput(s)
             \/ \E by \in Thread : RemoveLocator(s, by)
      PROVE  EndpointInv'
  BY <1>4, ServiceFollows
<1>5. ASSUME NEW s \in Server, Exit(s) \/ Crash(s) PROVE EndpointInv'
  <2>1. ProcessEnds(s)
    BY <1>5 DEF Exit, Crash
  <2> USE DEF EndpointInv, EndpointTypeOK, PlacesOK, ProcessEnds
  <2>2. GenerationsDiffer'
    <3>1. \A z \in Server : lastGen[z] # 0 => lastGen[z] # None
      BY EndpointAssumption DEF Gen
    <3> QED
      BY <2>1, <3>1 DEF GenerationsDiffer
  <2>3. LocatorFollows'
    <3> SUFFICES ASSUME NEW z \in Server PROVE Follows(z)'
      BY DEF LocatorFollows
    <3>1. CASE z = s
      BY <2>1, <3>1 DEF Follows
    <3>2. CASE z # s
      <4>1. /\ pc'[z] = pc[z] /\ lastGen'[z] = lastGen[z] /\ gen'[z] = gen[z] /\ locator' = locator
        BY <2>1, <3>2
      <4>2. closing'[<<z, "stdio">>] = closing[<<z, "stdio">>]
        BY <2>1, <3>2 DEF Caller, Thread
      <4>3. taken'[z] = taken[z]
        BY <2>1, <3>2
      <4> QED
        BY <4>1, <4>2, <4>3, Zenon DEF Follows, LocatorFollows
    <3> QED
      BY <3>1, <3>2
  <2> QED
    BY <1>1, <2>2, <2>3
<1>6. CASE Host \/ UNCHANGED vars
  <2>1. UNCHANGED epVars /\ UNCHANGED pc
    BY <1>6 DEF Host, vars, keyVars
  <2> QED
    BY <1>1, <2>1, EndpointUntouched
<1>7. ASSUME NEW s \in Server,
             \/ Initialize(s)
             \/ \E by \in Thread : WorkOn(s, by) \/ \E t \in Session : EndSession(s, by, t)
      PROVE  EndpointInv'
  <2>1. UNCHANGED epVars /\ UNCHANGED pc
    BY <1>7 DEF Initialize, WorkOn, EndSession, keyVars
  <2> QED
    BY <1>1, <2>1, EndpointUntouched
<1> QED
  BY <1>2, <1>3, <1>4, <1>5, <1>6, <1>7 DEF Next

(* A server that leaves in order takes its locator with it, unless its     *)
(* worker had begun that and died with the process, however the servers    *)
(* that share the file publish and remove (ControlEndpoint.close).         *)
THEOREM LocatorsEnd == Spec => LeavingRemovesLocator
<1>1. Init => EndpointInv
  <2>1. Init => EndpointTypeOK /\ PlacesOK
    BY Induction DEF Inductive, TypeOK, PlacesOK
  <2> QED
    BY <2>1 DEF Init, EndpointInit, KeyInit, EndpointInv, GenerationsDiffer, LocatorFollows, Follows
<1>2. EndpointInv /\ TypeOK /\ [Next]_vars =>
        [\A s \in Server :
          pc[s] = "leaving" /\ pc'[s] = "down"
          /\ closing[<<s, "stdio">>] = None /\ lastGen[s] # 0 /\ ~taken[s]
          => locator' # lastGen[s]]_vars
  <2> SUFFICES ASSUME EndpointInv, Next, NEW s \in Server, pc[s] = "leaving", pc'[s] = "down",
                      closing[<<s, "stdio">>] = None, lastGen[s] # 0, ~taken[s]
               PROVE  locator' # lastGen[s]
    OBVIOUS
  <2>1. locator # lastGen[s]
    BY DEF EndpointInv, LocatorFollows, Follows
  <2>2. s \in Server /\ pc \in [Server -> ServerStates]
    BY DEF EndpointInv, PlacesOK
  <2>3. ASSUME NEW z \in Server, Exit(z) \/ Crash(z) PROVE UNCHANGED locator
    BY <2>3 DEF Exit, Crash, ProcessEnds
  <2>4. ASSUME NEW z \in Server,
               \/ Launch(z) \/ Provision(z) \/ StartEndpoint(z) \/ Initialize(z)
               \/ ClientServed(z) \/ Worker(z) \/ EndOfInput(z)
        PROVE  FALSE
    <3>1. \/ UNCHANGED pc
          \/ \E to \in ServerStates \ {"down"} : pc' = [pc EXCEPT ![z] = to]
      BY <2>4 DEF Launch, Provision, ProvisionStep, ReadKey, CheckActive, UnlinkUnchanged, CreateKey,
         WriteKey, VerifyKey, RereadKey, Keyed, Goto, KeyStates, ServerStates, StartEndpoint,
         Initialize, ClientServed, Worker, EndOfInput, keyVars
    <3> QED
      BY <2>2, <3>1
  <2>5. ASSUME \/ Host
               \/ \E z \in Server, by \in Thread :
                     \/ WorkOn(z, by) \/ RemoveLocator(z, by)
                     \/ \E t \in Session : EndSession(z, by, t)
        PROVE  FALSE
    BY <2>5 DEF Host, WorkOn, RemoveLocator, EndSession, keyVars
  <2> QED
    BY <2>1, <2>3, <2>4, <2>5 DEF Next
<1> QED
  BY <1>1, <1>2, EndpointNext, AlwaysInductive, PTL DEF Spec, LeavingRemovesLocator, Inductive

-----------------------------------------------------------------------------
(* The setup pages and the suggestion.                                     *)

USE NoteAssumption

(* Only what answered a test is stored, sent to or kept for the next       *)
(* message, whichever page or process has it in hand.                      *)
TestedOnly ==
    /\ noteConfigured \in Webhook => noteConfigured \in noteAccepted
    /\ \A p \in Page :
          /\ notePhase[p] \in {"testing", "saving"} => noteSubmitted[p] \in Webhook
          /\ notePhase[p] = "saving" => noteSubmitted[p] \in noteAccepted
    /\ \A w \in Watcher :
          noteDelivery[w] # Nothing => noteDelivery[w] \in noteAccepted \cup {Inherited}
    /\ Notification!OnlyTestedIsUsed

(* One session at a time is between the look for the file and its writing, *)
(* and once one has made the suggestion no other is about to.              *)
OneClaims ==
    /\ \A s \in Opening : noteClaim[s] \in {"locked", "writing"} <=> noteLock = s
    /\ \A s \in Opening : noteClaim[s] = "offer" => noteOffered
    /\ \A s \in Opening : noteClaim[s] = "writing" => ~noteOffered
    /\ \A s, z \in Opening : noteClaim[s] = "offer" /\ noteClaim[z] = "offer" => s = z

NoteInv == Notification!TypeOK /\ Notification!PageIsOwned /\ TestedOnly /\ OneClaims

(* A page's thread, but for its end, keeps the pages owned.                *)
MoveOf(p) ==
    \/ Notification!Decide(p) \/ Notification!NobodyConnects(p) \/ Notification!Connect(p)
    \/ Notification!Refuse(p) \/ Notification!Test(p) \/ Notification!Save(p)
    \/ Notification!Answer(p) \/ Notification!Answered(p)
    \/ \E w \in Webhook : Notification!Submit(p, w)

(* What such a move does to the page.                                      *)
LEMMA MoveChanges ==
    ASSUME Notification!TypeOK, NEW p \in Page, MoveOf(p)
    PROVE  /\ notePhase[p] \notin {"unused", "leaving", "ended"}
           /\ \E to \in Notification!Phases \ {"unused", "ended"} :
                 notePhase' = [notePhase EXCEPT ![p] = to]
           /\ noteStop' \in {noteStop, [noteStop EXCEPT ![p] = TRUE]}
           /\ noteSubmitted' = noteSubmitted
              \/ \E w \in Webhook \cup {Nothing} : noteSubmitted' = [noteSubmitted EXCEPT ![p] = w]
           /\ UNCHANGED <<noteNow, noteCurrent, noteDeadline, noteClaim, noteOffered, noteLock,
                          noteDelivery, noteUsed>>
<1> USE DEF MoveOf, Notification!Decide, Notification!NobodyConnects, Notification!Connect,
    Notification!Refuse, Notification!Test, Notification!Save, Notification!Answer,
    Notification!Answered, Notification!Submit, Notification!Move, Notification!Others,
    Notification!TypeOK, Notification!Phases, Notification!onboarding, Notification!sending
<1>1. notePhase[p] \notin {"unused", "leaving", "ended"}
  OBVIOUS
<1>2. \E to \in Notification!Phases \ {"unused", "ended"} :
         notePhase' = [notePhase EXCEPT ![p] = to]
  OBVIOUS
<1>3. noteStop' \in {noteStop, [noteStop EXCEPT ![p] = TRUE]}
  OBVIOUS
<1>4. noteSubmitted' = noteSubmitted
      \/ \E w \in Webhook \cup {Nothing} : noteSubmitted' = [noteSubmitted EXCEPT ![p] = w]
  OBVIOUS
<1>5. UNCHANGED <<noteNow, noteCurrent, noteDeadline, noteClaim, noteOffered, noteLock,
                  noteDelivery, noteUsed>>
  OBVIOUS
<1> QED
  BY <1>1, <1>2, <1>3, <1>4, <1>5

(* What the steps of sessions and of the processes that deliver leave alone*)
ClaimStep ==
    \E s \in Opening :
       \/ Notification!CheckConfigured(s) \/ Notification!LockOffer(s)
       \/ Notification!LookForOffer(s) \/ Notification!WriteOffer(s) \/ Notification!KillClaim(s)
SendStep == \E w \in Watcher : Notification!Notify(w) \/ Notification!Deliver(w)

LEMMA PagesAlone ==
    ASSUME ClaimStep \/ SendStep \/ Notification!Spoil
    PROVE  UNCHANGED <<noteNow, noteCurrent, notePhase, noteStop, noteDeadline, noteSubmitted>>
BY DEF ClaimStep, SendStep, Notification!Spoil, Notification!CheckConfigured,
   Notification!LockOffer, Notification!LookForOffer, Notification!WriteOffer,
   Notification!KillClaim, Notification!Notify, Notification!Deliver, Notification!page

(* The steps of the notifications, by what they are about.                 *)
LEMMA NoteSteps ==
    ASSUME [Notification!Next]_(Notification!vars)
    PROVE  \/ Notification!Tick \/ Notification!Close \/ Notification!Exit \/ Notification!Spoil
           \/ \E p \in Page : Notification!Start(p) \/ Notification!Leave(p) \/ MoveOf(p)
           \/ ClaimStep \/ SendStep \/ UNCHANGED noteVars
BY DEF Notification!Next, Notification!Serve, MoveOf, ClaimStep, SendStep, Notification!vars,
   Notification!page, Notification!onboarding, Notification!sending, noteVars

(* Every step keeps the types.                                             *)
LEMMA NoteType ==
    ASSUME Notification!TypeOK, TestedOnly, [Notification!Next]_(Notification!vars)
    PROVE  Notification!TypeOK'
<1> USE DEF Notification!TypeOK, Notification!page, Notification!onboarding, Notification!sending
<1>1. CASE Notification!Tick
  BY <1>1 DEF Notification!Tick
<1>2. CASE Notification!Close
  BY <1>2 DEF Notification!Close
<1>3. CASE Notification!Exit
  BY <1>3 DEF Notification!Exit, Notification!Phases
<1>4. CASE Notification!Spoil
  BY <1>4 DEF Notification!Spoil
<1>5. ASSUME NEW p \in Page, Notification!Start(p) PROVE Notification!TypeOK'
  BY <1>5 DEF Notification!Start, Notification!Phases
<1>6. ASSUME NEW p \in Page, Notification!Leave(p) PROVE Notification!TypeOK'
  BY <1>6 DEF Notification!Leave, Notification!Move, Notification!Phases
<1>7. ASSUME NEW p \in Page, MoveOf(p) PROVE Notification!TypeOK'
  <2>1. PICK to \in Notification!Phases : notePhase' = [notePhase EXCEPT ![p] = to]
    BY <1>7, MoveChanges
  <2>2. noteStop' \in [Page -> BOOLEAN]
    <3>1. noteStop' \in {noteStop, [noteStop EXCEPT ![p] = TRUE]}
      BY <1>7, MoveChanges
    <3> QED
      BY <3>1
  <2>3. noteSubmitted' \in [Page -> Webhook \cup {Nothing}]
    <3>1. noteSubmitted' = noteSubmitted
          \/ \E w \in Webhook \cup {Nothing} : noteSubmitted' = [noteSubmitted EXCEPT ![p] = w]
      BY <1>7, MoveChanges
    <3> QED
      BY <3>1
  <2>4. UNCHANGED <<noteNow, noteCurrent, noteDeadline, noteClaim, noteOffered, noteLock,
                    noteDelivery, noteUsed>>
    BY <1>7, MoveChanges
  <2>5. noteConfigured' \in Webhook \cup {Nothing, Unreadable} /\ noteAccepted' \subseteq Webhook
    BY <1>7 DEF TestedOnly, MoveOf, Notification!Decide, Notification!NobodyConnects,
       Notification!Connect, Notification!Refuse, Notification!Test, Notification!Save,
       Notification!Answer, Notification!Answered, Notification!Submit, Notification!Move
  <2> QED
    BY <2>1, <2>2, <2>3, <2>4, <2>5
<1>8. ASSUME NEW s \in Opening,
             \/ Notification!CheckConfigured(s) \/ Notification!LockOffer(s)
             \/ Notification!LookForOffer(s) \/ Notification!WriteOffer(s)
             \/ Notification!KillClaim(s)
      PROVE  Notification!TypeOK'
  <2>1. /\ noteClaim' \in [Opening -> {"none", "checked", "locked", "writing", "offer", "over"}]
        /\ noteLock' \in Opening \cup {Nothing}
    BY <1>8 DEF Notification!Claim, Notification!CheckConfigured, Notification!LockOffer,
       Notification!LookForOffer, Notification!WriteOffer, Notification!KillClaim
  <2>2. noteOffered' \in BOOLEAN
    BY <1>8 DEF Notification!CheckConfigured, Notification!LockOffer,
       Notification!LookForOffer, Notification!WriteOffer, Notification!KillClaim
  <2>3. UNCHANGED <<noteNow, noteCurrent, notePhase, noteStop, noteDeadline, noteSubmitted,
                    noteConfigured, noteAccepted, noteDelivery, noteUsed>>
    BY <1>8 DEF Notification!CheckConfigured, Notification!LockOffer,
       Notification!LookForOffer, Notification!WriteOffer, Notification!KillClaim
  <2> QED
    BY <2>1, <2>2, <2>3
<1>9. CASE SendStep
  BY <1>9 DEF SendStep, Notification!Notify, Notification!Deliver, Notification!Target
<1>10. CASE UNCHANGED noteVars
  BY <1>10 DEF noteVars
<1> QED
  BY <1>1, <1>2, <1>3, <1>4, <1>5, <1>6, <1>7, <1>8, <1>9, <1>10, NoteSteps DEF ClaimStep

(* A page that still takes requests stays the one the coordinator owns: a  *)
(* start finds no active page, and a thread forgets its own page only.     *)
LEMMA PagesStayOwned ==
    ASSUME Notification!TypeOK, Notification!PageIsOwned,
           [Notification!Next]_(Notification!vars)
    PROVE  Notification!PageIsOwned'
<1> USE DEF Notification!TypeOK, Notification!PageIsOwned, Notification!Alive,
    Notification!Expired
<1>1. CASE Notification!Tick
  <2>1. noteNow' = noteNow + 1 /\ UNCHANGED <<noteCurrent, notePhase, noteStop, noteDeadline>>
    BY <1>1 DEF Notification!Tick, Notification!page
  <2>2. \A p \in Page : noteNow >= noteDeadline[p] => noteNow + 1 >= noteDeadline[p]
    OBVIOUS
  <2> QED
    BY <2>1, <2>2
<1>2. CASE Notification!Close
  BY <1>2 DEF Notification!Close
<1>3. CASE Notification!Exit
  BY <1>3 DEF Notification!Exit
<1>4. CASE ClaimStep \/ SendStep \/ Notification!Spoil
  BY <1>4, PagesAlone
<1>5. ASSUME NEW p \in Page, Notification!Start(p) PROVE Notification!PageIsOwned'
  <2>1. ~(noteCurrent # Nothing /\ ~(noteNow >= noteDeadline[noteCurrent]))
    BY <1>5 DEF Notification!Start, Notification!IsActive
  <2>2. \A q \in Page \ {p} :
          /\ notePhase'[q] = notePhase[q] /\ noteStop'[q] = noteStop[q]
          /\ noteDeadline'[q] = noteDeadline[q] /\ noteNow' = noteNow
    BY <1>5 DEF Notification!Start
  <2>3. noteCurrent' = p
    BY <1>5 DEF Notification!Start
  <2> QED
    BY <2>1, <2>2, <2>3
<1>6. ASSUME NEW p \in Page, Notification!Leave(p) PROVE Notification!PageIsOwned'
  BY <1>6 DEF Notification!Leave, Notification!Move
<1>7. ASSUME NEW p \in Page, MoveOf(p) PROVE Notification!PageIsOwned'
  <2>1. /\ notePhase[p] \notin {"unused", "leaving", "ended"}
        /\ UNCHANGED <<noteNow, noteCurrent, noteDeadline>>
    BY <1>7, MoveChanges
  <2>2. \A q \in Page \ {p} : notePhase'[q] = notePhase[q]
    BY <1>7, MoveChanges
  <2>3. \A q \in Page : noteStop[q] => noteStop'[q]
    BY <1>7, MoveChanges
  <2> QED
    BY <2>1, <2>2, <2>3
<1>8. CASE UNCHANGED noteVars
  BY <1>8 DEF noteVars
<1> QED
  BY <1>1, <1>2, <1>3, <1>4, <1>5, <1>6, <1>7, <1>8, NoteSteps

(* Only what answered a test is stored and used.                           *)
LEMMA TestsPrecedeUse ==
    ASSUME Notification!TypeOK, TestedOnly, [Notification!Next]_(Notification!vars)
    PROVE  TestedOnly'
<1> USE DEF TestedOnly, Notification!TypeOK, Notification!OnlyTestedIsUsed
<1>1. CASE Notification!Tick \/ Notification!Close \/ UNCHANGED noteVars
  BY <1>1 DEF Notification!Tick, Notification!Close, Notification!page, Notification!onboarding,
     Notification!sending, noteVars
<1>2. CASE Notification!Exit
  BY <1>2 DEF Notification!Exit, Notification!Alive, Notification!sending
<1>3. CASE Notification!Spoil
  BY <1>3 DEF Notification!Spoil, Notification!page, Notification!sending
<1>4. CASE ClaimStep
  BY <1>4 DEF ClaimStep, Notification!CheckConfigured, Notification!LockOffer,
     Notification!LookForOffer, Notification!WriteOffer, Notification!KillClaim,
     Notification!page, Notification!sending
<1>5. CASE SendStep
  BY <1>5 DEF SendStep, Notification!Notify, Notification!Deliver, Notification!Target,
     Notification!page
<1>6. ASSUME NEW p \in Page, Notification!Start(p) \/ Notification!Leave(p) PROVE TestedOnly'
  BY <1>6 DEF Notification!Start, Notification!Leave, Notification!Move, Notification!sending
<1>7. ASSUME NEW p \in Page, MoveOf(p) PROVE TestedOnly'
  <2>1. UNCHANGED <<noteDelivery, noteUsed>> /\ noteAccepted \subseteq noteAccepted'
    BY <1>7, MoveChanges DEF MoveOf, Notification!Decide, Notification!NobodyConnects,
       Notification!Connect, Notification!Refuse, Notification!Test, Notification!Save,
       Notification!Answer, Notification!Answered, Notification!Submit
  <2>2. \A q \in Page \ {p} :
           notePhase'[q] = notePhase[q] /\ noteSubmitted'[q] = noteSubmitted[q]
    BY <1>7, MoveChanges
  <2>3. /\ notePhase'[p] \in {"testing", "saving"} => noteSubmitted'[p] \in Webhook
        /\ notePhase'[p] = "saving" => noteSubmitted'[p] \in noteAccepted'
        /\ noteConfigured' \in Webhook => noteConfigured' \in noteAccepted'
    BY <1>7 DEF MoveOf, Notification!Decide, Notification!NobodyConnects,
       Notification!Connect, Notification!Refuse, Notification!Test, Notification!Save,
       Notification!Answer, Notification!Answered, Notification!Submit, Notification!Move
  <2> QED
    BY <2>1, <2>2, <2>3
<1> QED
  BY <1>1, <1>2, <1>3, <1>4, <1>5, <1>6, <1>7, NoteSteps

(* One session at a time looks for the file and writes it.                 *)
LEMMA OneKeepsClaiming ==
    ASSUME Notification!TypeOK, OneClaims, [Notification!Next]_(Notification!vars)
    PROVE  OneClaims'
<1> USE DEF OneClaims, Notification!TypeOK
<1>1. ASSUME UNCHANGED <<noteClaim, noteOffered, noteLock>> PROVE OneClaims'
  BY <1>1
<1>2. CASE Notification!Tick \/ Notification!Close \/ Notification!Exit \/ Notification!Spoil
           \/ SendStep \/ UNCHANGED noteVars
  BY <1>1, <1>2 DEF Notification!Tick, Notification!Close, Notification!Exit, Notification!Spoil,
     SendStep, Notification!Notify, Notification!Deliver, Notification!onboarding, noteVars
<1>3. ASSUME NEW p \in Page, Notification!Start(p) \/ Notification!Leave(p) PROVE OneClaims'
  BY <1>1, <1>3 DEF Notification!Start, Notification!Leave, Notification!onboarding
<1>4. ASSUME NEW p \in Page, MoveOf(p) PROVE OneClaims'
  BY <1>1, <1>4, MoveChanges
<1>5. ASSUME NEW s \in Opening,
             \/ Notification!CheckConfigured(s) \/ Notification!LockOffer(s)
             \/ Notification!LookForOffer(s)
      PROVE  OneClaims'
  BY <1>5 DEF Notification!CheckConfigured, Notification!LockOffer, Notification!LookForOffer,
     Notification!Claim
<1>6. ASSUME NEW s \in Opening, Notification!WriteOffer(s) PROVE OneClaims'
  BY <1>6 DEF Notification!WriteOffer, Notification!Claim
<1>7. ASSUME NEW s \in Opening, Notification!KillClaim(s) PROVE OneClaims'
  BY <1>7 DEF Notification!KillClaim
<1> QED
  BY <1>2, <1>3, <1>4, <1>5, <1>6, <1>7, NoteSteps DEF ClaimStep

(* All of it holds at first, and every step keeps it.                      *)
LEMMA NoteInduction ==
    /\ Notification!Init => NoteInv
    /\ NoteInv /\ [Notification!Next]_(Notification!vars) => NoteInv'
<1>1. Notification!Init => NoteInv
  <2> SUFFICES ASSUME Notification!Init PROVE NoteInv
    OBVIOUS
  <2> USE DEF Notification!Init
  <2>1. Notification!TypeOK
    <3>1. /\ noteNow \in 0..MaxNoteNow /\ noteDeadline \in [Page -> Nat]
          /\ notePhase \in [Page -> Notification!Phases]
      BY DEF Notification!Phases
    <3>2. noteStop \in [Page -> BOOLEAN] /\ noteOffered \in BOOLEAN
      OBVIOUS
    <3>3. /\ noteSubmitted \in [Page -> Webhook \cup {Nothing}]
          /\ noteDelivery \in [Watcher -> Webhook \cup {Nothing}]
          /\ noteClaim \in [Opening -> {"none", "checked", "locked", "writing", "offer", "over"}]
      OBVIOUS
    <3> QED
      BY <3>1, <3>2, <3>3 DEF Notification!TypeOK
  <2>2. Notification!PageIsOwned
    BY DEF Notification!PageIsOwned, Notification!Alive
  <2>3. TestedOnly
    BY DEF TestedOnly, Notification!OnlyTestedIsUsed
  <2>4. OneClaims
    BY DEF OneClaims
  <2> QED
    BY <2>1, <2>2, <2>3, <2>4 DEF NoteInv
<1> QED
  BY <1>1, NoteType, PagesStayOwned, TestsPrecedeUse, OneKeepsClaiming DEF NoteInv

(* The instance's Cardinality is the one the theorems about it are stated for. *)
LEMMA SameCardinality == \A S : Notification!Cardinality(S) = Cardinality(S)
BY Zenon DEF Notification!Cardinality, Cardinality

(* What the invariant says of pages and webhooks, and of the suggestion.   *)
LEMMA NoteSafety == NoteInv => Notification!PagesAreOwned /\ Notification!OfferedOnce
<1> SUFFICES ASSUME NoteInv PROVE Notification!PagesAreOwned /\ Notification!OfferedOnce
  OBVIOUS
<1>1. Notification!PagesAreOwned
  BY DEF NoteInv, Notification!PagesAreOwned, TestedOnly
<1>2. Notification!OfferedOnce
  <2> DEFINE offers == {s \in Opening : noteClaim[s] = "offer"}
  <2>1. offers = {} \/ \E s \in offers : offers = {s}
    BY DEF NoteInv, OneClaims
  <2>2. Cardinality({}) = 0
    BY FS_EmptySet, Zenon
  <2>3. \A s : Cardinality({s}) = 1
    BY FS_Singleton
  <2> HIDE DEF offers
  <2>4. Cardinality(offers) = 0 \/ Cardinality(offers) = 1
    BY <2>1, <2>2, <2>3, Zenon
  <2>5. Notification!Cardinality(offers) <= 1
    BY <2>4, SameCardinality
  <2> QED
    BY <2>5 DEF Notification!OfferedOnce, offers
<1> QED
  BY <1>1, <1>2

(* A page that answered "connected" is stopped, and its thread's next test *)
(* of the loop ends it.                                                    *)
LEMMA ConnectedEnds ==
    ASSUME NoteInv, [Notification!Next]_(Notification!vars), NEW p \in Page, noteStop[p],
           notePhase[p] \in {"connected", "deciding"}
    PROVE  notePhase'[p] \in {"connected", "deciding", "leaving", "ended"}
<1> USE DEF NoteInv, Notification!TypeOK
<1>1. CASE Notification!Tick \/ Notification!Close \/ UNCHANGED noteVars
           \/ ClaimStep \/ SendStep \/ Notification!Spoil
  BY <1>1, PagesAlone DEF Notification!Tick, Notification!Close, Notification!page, noteVars
<1>2. CASE Notification!Exit
  BY <1>2 DEF Notification!Exit
<1>3. ASSUME NEW q \in Page, Notification!Start(q) \/ Notification!Leave(q)
      PROVE  notePhase'[p] \in {"connected", "deciding", "leaving", "ended"}
  BY <1>3 DEF Notification!Start, Notification!Leave, Notification!Move
<1>4. ASSUME NEW q \in Page, MoveOf(q)
      PROVE  notePhase'[p] \in {"connected", "deciding", "leaving", "ended"}
  <2>1. CASE q = p
    BY <1>4, <2>1 DEF MoveOf, Notification!Decide, Notification!NobodyConnects,
       Notification!Connect, Notification!Refuse, Notification!Test, Notification!Save,
       Notification!Answer, Notification!Answered, Notification!Submit, Notification!Move
  <2>2. CASE q # p
    BY <1>4, <2>2, MoveChanges
  <2> QED
    BY <2>1, <2>2
<1> QED
  BY <1>1, <1>2, <1>3, <1>4, NoteSteps

-----------------------------------------------------------------------------
(* The two components beside each other, as they are checked.              *)

(* Their invariants hold whichever of them moves.                          *)
LEMMA PartsHold ==
    PartsSpec => Spec /\ []NoteInv /\ [][Notification!Next]_(Notification!vars)
<1>1. PartsInit => Init /\ Notification!Init
  BY DEF PartsInit
<1>2. [PartsNext]_partsVars => [Next]_vars /\ [Notification!Next]_(Notification!vars)
  BY DEF PartsNext, partsVars, noteVars, Notification!vars, Notification!page,
     Notification!onboarding, Notification!sending
<1> QED
  BY <1>1, <1>2, NoteInduction, PTL DEF PartsSpec, Spec

(* For any pages, webhooks, sessions and deliveries: the page that takes   *)
(* requests is the one close() can reach, and only webhooks that answered a*)
(* page's test, or that the environment names, get messages                *)
(* (NotificationSetupCoordinator, do_POST, notify).                        *)
THEOREM PagesStayReachable == PartsSpec => []PagesAreOwned
<1>1. NoteInv => PagesAreOwned
  BY NoteSafety DEF PagesAreOwned
<1> QED
  BY <1>1, PartsHold, PTL

(* For any number of sessions and killed hooks: the suggestion is made once*)
(* (claim_notification_onboarding).                                        *)
THEOREM SuggestedOnce == PartsSpec => []OfferedOnce
<1>1. NoteInv => OfferedOnce
  BY NoteSafety DEF OfferedOnce
<1> QED
  BY <1>1, PartsHold, PTL

(* What has ended stays so: the time of a ticket, the locator of a server  *)
(* that left, and a page that connected (consume, close, complete).        *)
THEOREM EndsAreFinal == PartsSpec => EndIsFinal
<1>1. NoteInv /\ [Notification!Next]_(Notification!vars) =>
        [\A p \in Page : noteStop[p] /\ notePhase[p] \in {"connected", "deciding"}
            => notePhase'[p] \in {"connected", "deciding", "leaving", "ended"}]_(Notification!vars)
  BY ConnectedEnds
<1>2. PartsSpec => Notification!ConnectedIsFinal
  BY <1>1, PartsHold, PTL DEF Notification!ConnectedIsFinal
<1> QED
  BY <1>2, PartsHold, WindowHolds, LocatorsEnd, PTL DEF EndIsFinal, TicketAndLocatorEnd

===============================================================================
