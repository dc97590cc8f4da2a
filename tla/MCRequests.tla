----------------------------- MODULE MCRequests -----------------------------
(***************************************************************************)
(* The requests of a conversation: the tickets and endpoints of an         *)
(* activation, and the notification page and offer, one component moving in*)
(* a behaviour.                                                            *)
(***************************************************************************)
EXTENDS Activation, TLC

CONSTANTS
  Page, Webhook, Opening, Watcher, Nothing, Unreadable, Inherited, Lifetime,
  MaxNoteNow  \* the notifications' parameters; Opening has its sessions

ASSUME NoteAssumption ==
  /\ Nothing \notin Page \cup Webhook \cup Opening
  /\ Unreadable \notin Webhook /\ Inherited \in Webhook \cup {Nothing}
  /\ Lifetime \in Nat /\ MaxNoteNow \in Nat

VARIABLES
  component,  \* the component that moves, the same in a whole behaviour
  noteNow, noteCurrent, notePhase, noteStop, noteDeadline, noteSubmitted,
  noteConfigured, noteAccepted, noteClaim, noteOffered, noteLock,
  noteDelivery, noteUsed

Notification == INSTANCE Notifications WITH
  now <- noteNow, current <- noteCurrent, phase <- notePhase,
  stop <- noteStop, deadline <- noteDeadline, submitted <- noteSubmitted,
  configured <- noteConfigured, accepted <- noteAccepted, claim <- noteClaim,
  offered <- noteOffered, lock <- noteLock, delivery <- noteDelivery,
  used <- noteUsed, Session <- Opening, MaxNow <- MaxNoteNow

noteVars ==
  <<noteNow, noteCurrent, notePhase, noteStop, noteDeadline, noteSubmitted,
    noteConfigured, noteAccepted, noteClaim, noteOffered, noteLock,
    noteDelivery, noteUsed>>

PartsInit ==
  /\ component \in {"activation", "notification"}
  /\ Init
  /\ Notification!Init

PartsNext ==
  \/ component = "activation" /\ Next
     /\ UNCHANGED <<component, noteVars>>
  \/ component = "notification" /\ Notification!Next
     /\ UNCHANGED <<component, vars>>

partsVars == <<component, vars, noteVars>>

PartsSpec == PartsInit /\ [][PartsNext]_partsVars

\* The cfg gives the activation's servers and the sessions that open the
\* notifications the same values: interchangeable in each component.
Symmetry == Permutations(Server)

(* A setup page that still takes requests is the one the daemon owns, and   *)
(* only a webhook that answered its test is used (start, close, do_POST).   *)
PagesAreOwned == component = "notification" => Notification!PagesAreOwned

(* The setup is offered once, however many hooks run (claim).               *)
OfferedOnce == component = "notification" => Notification!OfferedOnce

(* What has ended stays so: the time of a ticket, the locator of a server   *)
(* that left, a page that connected (consume, close, complete).             *)
EndIsFinal == TicketAndLocatorEnd /\ Notification!ConnectedIsFinal
===============================================================================
