----------------------------- MODULE MCAppServer -----------------------------
(***************************************************************************)
(* What becomes of the activities of the app-server, one component moving in*)
(* a behaviour: the stream of one child after another, the routing of turns*)
(* to tasks, and the scheduled work of the service that acts on them.      *)
(***************************************************************************)
EXTENDS ServiceWork, TLC

CONSTANTS
  a, b, c1, h1, s1, s2, t1, t2, None, Nothing

VARIABLES
  component,  \* the component that moves, the same in a whole behaviour
  streamNow, streamHome, streamState, streamChild, streamUnanswered,
  streamGeneration, streamRunning, streamLines, streamReader, streamLost,
  streamClosed, streamEvents, streamPc, streamJob, routingTasks, routingFile,
  routingFence, routingInterrupted, routingAttempt, routingLock, routingPc,
  routingJob

Stream == INSTANCE ActivityStream WITH
  now <- streamNow, home <- streamHome, state <- streamState,
  child <- streamChild, unanswered <- streamUnanswered,
  generation <- streamGeneration, running <- streamRunning,
  lines <- streamLines, reader <- streamReader, lost <- streamLost,
  closed <- streamClosed, events <- streamEvents, pc <- streamPc,
  job <- streamJob, Caller <- {c1}, Turn <- {a, b}, Thread <- {h1},
  MaxOutcomes <- 1, MaxCorrelations <- 1, Expiry <- 0, MaxChildren <- 2,
  MaxNow <- 1

Routing == INSTANCE TurnRouting WITH
  tasks <- routingTasks, file <- routingFile, fence <- routingFence,
  interrupted <- routingInterrupted, attempt <- routingAttempt,
  lock <- routingLock, pc <- routingPc, job <- routingJob,
  Session <- {s1, s2}, Turn <- {t1, t2}, Router <- {a, b}, Capacity <- 1

streamVars ==
  <<streamNow, streamHome, streamState, streamChild, streamUnanswered,
    streamGeneration, streamRunning, streamLines, streamReader, streamLost,
    streamClosed, streamEvents, streamPc, streamJob>>
routingVars ==
  <<routingTasks, routingFile, routingFence, routingInterrupted,
    routingAttempt, routingLock, routingPc, routingJob>>

PartsInit ==
  /\ component \in {"service", "stream", "routing"}
  /\ Init
  /\ Stream!Init
  /\ Routing!Init

PartsNext ==
  \/ component = "service" /\ Next
     /\ UNCHANGED <<component, streamVars, routingVars>>
  \/ component = "stream" /\ Stream!Next
     /\ UNCHANGED <<component, vars, routingVars>>
  \/ component = "routing" /\ Routing!Next
     /\ UNCHANGED <<component, vars, streamVars>>

partsVars == <<component, vars, streamVars, routingVars>>

PartsSpec == PartsInit /\ [][PartsNext]_partsVars

\* a and b are the two callers of the service, the two turns of the stream and
\* the two threads that route: interchangeable in each component.
Symmetry == Permutations({a, b})

(* What the client says of turns is true of its present child: a live turn  *)
(* is routed to its owner, none is active after its end, and a loss is      *)
(* published once (record, bind_started_turn, mark_closed).                 *)
TurnsAreTracked == component = "stream" => Stream!TurnsAreTracked

(* What a published task waits for is armed: its threshold deadline, and    *)
(* the polling of the fence its start captured (_publish).                  *)
ServiceIsArmed == component = "service" => WorkIsArmed

(* Every announced turn is settled: one without an owner is interrupted,    *)
(* once, by one caller, while no file names it (selected,                   *)
(* _interrupt_once).                                                        *)
AnnouncedTurnsAreSettled == Routing!AnnouncedTurnsAreSettled
===============================================================================
