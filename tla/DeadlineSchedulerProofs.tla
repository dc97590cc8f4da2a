----------------------- MODULE DeadlineSchedulerProofs -----------------------
(***************************************************************************)
(* Proofs about the deadline scheduler, for every set of keys, deadlines   *)
(* and closing threads and every bound; and about two components that are  *)
(* checked beside it: the lease of the standalone watcher, for every set   *)
(* of sessions and processes, and the reader of a rollout, for lines and   *)
(* batches of every length.                                                *)
(***************************************************************************)
EXTENDS MCTimerAndWork, Sequences, FiniteSetTheorems, TLAPS

(***************************************************************************)
(* The inductive invariant.  Sequence numbers identify heap entries and    *)
(* bound the generations, so that Schedule makes a fresh live entry; a     *)
(* retired scheduler holds nothing; and the worker's place agrees with     *)
(* health and the closers.                                                 *)
(***************************************************************************)
SequencesAreFresh ==
  /\ \A e \in entries : e.sequence > 0 /\ e.sequence <= sequence
  /\ \A k \in Keys : generations[k] <= sequence

SequencesIdentify ==
  \A e, f \in entries : e.sequence = f.sequence => e = f

RetiredIsEmpty ==
  ~Accepting => entries = {} /\ \A k \in Keys : generations[k] = 0

WorkerAgrees ==
  /\ worker \in {"exiting", "exited"} => ~Accepting
  /\ health = "fatal" => worker \in {"exiting", "exited"}
  /\ \A c \in Closers : closing[c] = "returned" => worker = "exited"

IInv ==
  /\ TypeOK
  /\ SequencesAreFresh
  /\ SequencesIdentify
  /\ ArmedKeysAreInHeap
  /\ RetiredIsEmpty
  /\ WorkerAgrees
  /\ NoLostWakeup

-------------------------------------------------------------------------------
(* The constructor's fields are well typed. *)
LEMMA TypeInit == Init => TypeOK
<1> SUFFICES ASSUME Init PROVE TypeOK
  OBVIOUS
<1>1. current \in Entry \cup {NoEntry} /\ wakeAt \in Nat \cup {Untimed}
  BY DEF Init
<1>2. generations \in [Keys -> Nat]
  BY DEF Init
<1>3. closing \in [Closers -> {"idle", "waiting", "returned"}]
  BY DEF Init
<1>4. entries \subseteq Entry
  BY DEF Init
<1>5. QED BY <1>1, <1>2, <1>3, <1>4 DEF Init, TypeOK

(* Type correctness of every scheduler operation and worker step. *)
THEOREM TypeCorrect == Spec => []TypeOK
<1>1. Init => TypeOK
  BY TypeInit
<1>2. TypeOK /\ [Next]_vars => TypeOK'
  <2> SUFFICES ASSUME TypeOK, [Next]_vars PROVE TypeOK'
    OBVIOUS
  <2> USE DEF TypeOK
  <2>1. ASSUME NEW k \in Keys, NEW d \in Deadlines, Schedule(k, d) PROVE TypeOK'
    BY <2>1, SchedulerAssumption DEF Schedule, Notify, Entry
  <2>2. ASSUME NEW k \in Keys, Cancel(k) PROVE TypeOK'
    BY <2>2 DEF Cancel, Notify
  <2>3. ASSUME NEW c \in Closers, Close(c) PROVE TypeOK'
    BY <2>3 DEF Close, MarkClosed, Notify
  <2>4. ASSUME NEW c \in Closers, CloseReturns(c) PROVE TypeOK'
    BY <2>4 DEF CloseReturns
  <2>5. CASE CloseFromCallback
    BY <2>5 DEF CloseFromCallback, MarkClosed, Notify
  <2>6. CASE SleepUntimed
    BY <2>6 DEF SleepUntimed
  <2>7. CASE SleepUntilDue
    BY <2>7, SchedulerAssumption DEF SleepUntilDue, Live, Entry
  <2>8. CASE WaitTimesOut
    BY <2>8 DEF WaitTimesOut
  <2>9. CASE StartCallback
    BY <2>9 DEF StartCallback, Live, Entry
  <2>10. CASE CallbackReturns
    BY <2>10 DEF CallbackReturns, CallbackSucceeds, CallbackRaises,
                 CallbackIsFatal
  <2>11. CASE WorkerSeesClosed \/ WorkerExits
    BY <2>11 DEF WorkerSeesClosed, WorkerExits
  <2>12. CASE Tick
    BY <2>12, SchedulerAssumption DEF Tick
  <2>13. CASE UNCHANGED vars
    BY <2>13 DEF vars
  <2>14. QED
    BY <2>1, <2>2, <2>3, <2>4, <2>5, <2>6, <2>7, <2>8, <2>9, <2>10, <2>11,
       <2>12, <2>13 DEF Next, WorkerStep
<1>3. QED BY <1>1, <1>2, PTL DEF Spec

-------------------------------------------------------------------------------
(* Schedule adds the only entry that carries the new sequence number. *)
LEMMA SchedulePreserves ==
  ASSUME IInv, TypeOK', NEW k \in Keys, NEW d \in Deadlines, Schedule(k, d)
  PROVE  IInv'
<1> DEFINE new == [key |-> k, deadline |-> d, sequence |-> sequence + 1]
<1> USE DEF IInv, TypeOK
<1>1. /\ entries' = entries \cup {new}
      /\ sequence' = sequence + 1
      /\ generations' = [generations EXCEPT ![k] = sequence + 1]
      /\ UNCHANGED <<closed, health, closing>>
      /\ Accepting
      /\ worker' = IF worker = "waiting" THEN "ready" ELSE worker
  BY DEF Schedule, Notify
<1>2. SequencesAreFresh'
  BY <1>1 DEF SequencesAreFresh, Entry
<1>3. SequencesIdentify'
  BY <1>1 DEF SequencesAreFresh, SequencesIdentify, Entry
<1>4. ArmedKeysAreInHeap'
  <2> SUFFICES ASSUME NEW j \in Keys, generations'[j] # 0
               PROVE  \E e \in entries' :
                        e.key = j /\ e.sequence = generations'[j]
    BY DEF ArmedKeysAreInHeap
  <2>1. CASE j = k
    <3>1. new \in entries' /\ new.key = j /\ new.sequence = generations'[j]
      BY <1>1, <2>1
    <3>2. QED BY <3>1
  <2>2. CASE j # k
    BY <1>1, <2>2 DEF ArmedKeysAreInHeap
  <2>3. QED BY <2>1, <2>2
<1>5. RetiredIsEmpty'
  BY <1>1 DEF RetiredIsEmpty, Accepting
<1>6. WorkerAgrees'
  BY <1>1 DEF WorkerAgrees, Accepting
<1>7. NoLostWakeup'
  BY <1>1 DEF NoLostWakeup
<1>8. QED BY <1>2, <1>3, <1>4, <1>5, <1>6, <1>7

LEMMA CancelPreserves ==
  ASSUME IInv, TypeOK', NEW k \in Keys, Cancel(k)
  PROVE  IInv'
<1> USE DEF IInv, TypeOK
<1>1. /\ generations' = [generations EXCEPT ![k] = 0]
      /\ UNCHANGED <<entries, sequence, closed, health, closing>>
      /\ worker' = IF worker = "waiting" THEN "ready" ELSE worker
  BY DEF Cancel, Notify
<1>2. SequencesAreFresh' /\ SequencesIdentify' /\ ArmedKeysAreInHeap'
  BY <1>1 DEF SequencesAreFresh, SequencesIdentify, ArmedKeysAreInHeap
<1>3. RetiredIsEmpty' /\ WorkerAgrees' /\ NoLostWakeup'
  BY <1>1 DEF RetiredIsEmpty, WorkerAgrees, NoLostWakeup, Accepting
<1>4. QED BY <1>2, <1>3

(* Closing empties the heap, or finds it already empty. *)
LEMMA MarkClosedPreserves ==
  ASSUME IInv, TypeOK', MarkClosed,
         \A c \in Closers : closing'[c] = "returned" => closing[c] = "returned"
  PROVE  IInv'
<1> USE DEF IInv, TypeOK
<1>1. /\ closed' = TRUE
      /\ UNCHANGED <<sequence, health>>
      /\ entries' = {} /\ \A k \in Keys : generations'[k] = 0
  BY DEF MarkClosed, RetiredIsEmpty, Accepting
<1>2. /\ worker' # "waiting"
      /\ worker \in {"exiting", "exited"} => worker' = worker
  BY DEF MarkClosed, Notify, NoLostWakeup
<1>3. SequencesAreFresh' /\ SequencesIdentify' /\ ArmedKeysAreInHeap'
  BY <1>1 DEF SequencesAreFresh, SequencesIdentify, ArmedKeysAreInHeap
<1>4. RetiredIsEmpty' /\ WorkerAgrees' /\ NoLostWakeup'
  BY <1>1, <1>2 DEF RetiredIsEmpty, WorkerAgrees, NoLostWakeup, Accepting
<1>5. QED BY <1>3, <1>4

(* Before a sleep the worker discards only stale heads of the heap. *)
LEMMA SleepPreserves ==
  ASSUME IInv, TypeOK', SleepUntimed \/ SleepUntilDue
  PROVE  IInv'
<1> USE DEF IInv, TypeOK
<1>1. /\ worker = "ready" /\ worker' = "waiting" /\ ~closed
      /\ UNCHANGED <<generations, sequence, closed, health, closing>>
      /\ entries' \subseteq entries
      /\ Live \subseteq entries'
      /\ \A f \in Live : wakeAt' # Untimed /\ wakeAt' <= f.deadline
  <2>1. CASE SleepUntimed
    BY <2>1 DEF SleepUntimed
  <2>2. CASE SleepUntilDue
    <3>1. PICK e \in Live : /\ IsEarliest(e)
                            /\ entries' = {f \in entries : ~Before(f, e)}
                            /\ wakeAt' = e.deadline
      BY <2>2 DEF SleepUntilDue
    <3>2. \A f \in Live : ~Before(f, e) /\ e.deadline <= f.deadline
      <4> TAKE f \in Live
      <4>1. /\ e.deadline \in Nat /\ e.sequence \in Nat
            /\ f.deadline \in Nat /\ f.sequence \in Nat
        BY SchedulerAssumption DEF Live, Entry
      <4>2. f = e \/ Before(e, f)
        BY <3>1 DEF IsEarliest
      <4>3. QED BY <4>1, <4>2 DEF Before
    <3>3. wakeAt' # Untimed
      BY <3>1, SchedulerAssumption DEF Live, Entry, Untimed
    <3>4. QED BY <2>2, <3>1, <3>2, <3>3 DEF SleepUntilDue, Live
  <2>3. QED BY <2>1, <2>2
<1>2. SequencesAreFresh' /\ SequencesIdentify'
  BY <1>1 DEF SequencesAreFresh, SequencesIdentify
<1>3. ArmedKeysAreInHeap'
  BY <1>1 DEF ArmedKeysAreInHeap, Live, IsLive
<1>4. RetiredIsEmpty' /\ WorkerAgrees'
  BY <1>1 DEF RetiredIsEmpty, WorkerAgrees, Accepting
<1>5. NoLostWakeup'
  BY <1>1 DEF NoLostWakeup, Live, IsLive
<1>6. QED BY <1>2, <1>3, <1>4, <1>5

(* Taking the earliest live entry leaves every other live entry behind it. *)
LEMMA StartPreserves ==
  ASSUME IInv, TypeOK', StartCallback
  PROVE  IInv'
<1> USE DEF IInv, TypeOK
<1>1. PICK e \in Live : /\ IsEarliest(e)
                        /\ entries' = {f \in entries : Before(e, f)}
                        /\ generations' = [generations EXCEPT ![e.key] = 0]
  BY DEF StartCallback
<1>2. /\ worker = "ready" /\ worker' = "running" /\ ~closed
      /\ UNCHANGED <<sequence, closed, health, closing>>
  BY DEF StartCallback
<1>3. SequencesAreFresh' /\ SequencesIdentify'
  BY <1>1, <1>2 DEF SequencesAreFresh, SequencesIdentify
<1>4. ArmedKeysAreInHeap'
  BY <1>1 DEF ArmedKeysAreInHeap, IsEarliest, Live, IsLive, Entry
<1>5. RetiredIsEmpty' /\ WorkerAgrees' /\ NoLostWakeup'
  BY <1>2 DEF RetiredIsEmpty, WorkerAgrees, NoLostWakeup, Accepting
<1>6. QED BY <1>3, <1>4, <1>5

(* The worker's other steps keep the heap or, when fatal, empty it. *)
LEMMA WorkerPreserves ==
  ASSUME IInv, TypeOK',
         WaitTimesOut \/ CallbackReturns \/ WorkerSeesClosed \/ WorkerExits
  PROVE  IInv'
<1> USE DEF IInv, TypeOK
<1>1. CASE WaitTimesOut
  BY <1>1 DEF WaitTimesOut, SequencesAreFresh, SequencesIdentify,
     ArmedKeysAreInHeap, RetiredIsEmpty, WorkerAgrees, NoLostWakeup, Accepting
<1>2. CASE CallbackSucceeds \/ CallbackRaises
  BY <1>2 DEF CallbackSucceeds, CallbackRaises, SequencesAreFresh,
     SequencesIdentify, ArmedKeysAreInHeap, RetiredIsEmpty, WorkerAgrees,
     NoLostWakeup, Accepting
<1>3. CASE CallbackIsFatal
  <2>1. SequencesAreFresh' /\ SequencesIdentify' /\ ArmedKeysAreInHeap'
    BY <1>3 DEF CallbackIsFatal, SequencesAreFresh, SequencesIdentify,
       ArmedKeysAreInHeap
  <2>2. RetiredIsEmpty' /\ WorkerAgrees' /\ NoLostWakeup'
    BY <1>3 DEF CallbackIsFatal, RetiredIsEmpty, WorkerAgrees, NoLostWakeup,
       Accepting
  <2>3. QED BY <2>1, <2>2
<1>4. CASE WorkerSeesClosed \/ WorkerExits
  BY <1>4 DEF WorkerSeesClosed, WorkerExits, SequencesAreFresh,
     SequencesIdentify, ArmedKeysAreInHeap, RetiredIsEmpty, WorkerAgrees,
     NoLostWakeup, Accepting
<1>5. QED BY <1>1, <1>2, <1>3, <1>4 DEF CallbackReturns

(* The inductive invariant holds in every reachable state. *)
THEOREM Inductive == Spec => []IInv
<1>1. Init => IInv
  <2> SUFFICES ASSUME Init PROVE IInv
    OBVIOUS
  <2>1. TypeOK
    BY TypeInit
  <2>2. QED
    BY <2>1 DEF Init, IInv, SequencesAreFresh, SequencesIdentify,
       ArmedKeysAreInHeap, RetiredIsEmpty, WorkerAgrees, NoLostWakeup, Accepting
<1>2. IInv /\ TypeOK' /\ [Next]_vars => IInv'
  <2> SUFFICES ASSUME IInv, TypeOK', [Next]_vars PROVE IInv'
    OBVIOUS
  <2>1. ASSUME NEW k \in Keys, NEW d \in Deadlines, Schedule(k, d) PROVE IInv'
    BY <2>1, SchedulePreserves
  <2>2. ASSUME NEW k \in Keys, Cancel(k) PROVE IInv'
    BY <2>2, CancelPreserves
  <2>3. ASSUME NEW c \in Closers, Close(c) PROVE IInv'
    <3>1. \A x \in Closers : closing'[x] = "returned" => closing[x] = "returned"
      BY <2>3 DEF Close, IInv, TypeOK
    <3>2. QED BY <2>3, <3>1, MarkClosedPreserves DEF Close
  <2>4. ASSUME NEW c \in Closers, CloseReturns(c) PROVE IInv'
    BY <2>4 DEF CloseReturns, IInv, TypeOK, SequencesAreFresh,
       SequencesIdentify, ArmedKeysAreInHeap, RetiredIsEmpty, WorkerAgrees,
       NoLostWakeup, Accepting
  <2>5. CASE CloseFromCallback
    BY <2>5, MarkClosedPreserves DEF CloseFromCallback
  <2>6. CASE SleepUntimed \/ SleepUntilDue
    BY <2>6, SleepPreserves
  <2>7. CASE StartCallback
    BY <2>7, StartPreserves
  <2>8. CASE WaitTimesOut \/ CallbackReturns \/ WorkerSeesClosed \/ WorkerExits
    BY <2>8, WorkerPreserves
  <2>9. CASE Tick
    BY <2>9 DEF Tick, IInv, SequencesAreFresh, SequencesIdentify,
       ArmedKeysAreInHeap, RetiredIsEmpty, WorkerAgrees, NoLostWakeup,
       Accepting, Live, IsLive
  <2>10. CASE UNCHANGED vars
    BY <2>10 DEF vars, IInv, SequencesAreFresh, SequencesIdentify,
       ArmedKeysAreInHeap, RetiredIsEmpty, WorkerAgrees, NoLostWakeup,
       Accepting, Live, IsLive
  <2>11. QED
    BY <2>1, <2>2, <2>3, <2>4, <2>5, <2>6, <2>7, <2>8, <2>9, <2>10
    DEF Next, WorkerStep
<1>3. QED BY <1>1, <1>2, TypeCorrect, PTL DEF Spec

-------------------------------------------------------------------------------
(* No wakeup of the worker is lost, for any number of keys and deadlines. *)
THEOREM WakeupsAreKept == Spec => []NoLostWakeup
BY Inductive, PTL DEF IInv

(* Lazy discarding never drops an armed deadline from the heap. *)
THEOREM ArmedKeysKept == Spec => []ArmedKeysAreInHeap
BY Inductive, PTL DEF IInv

(* A returned close leaves a scheduler that runs nothing, now and later. *)
THEOREM CloseIsQuiet == Spec => []CloseMeansQuiet
<1>1. IInv => CloseMeansQuiet
  BY DEF IInv, WorkerAgrees, RetiredIsEmpty, CloseMeansQuiet, Live
<1>2. QED BY Inductive, <1>1, PTL

-------------------------------------------------------------------------------
(* No heap entry precedes itself. *)
LEMMA BeforeIsIrreflexive ==
  ASSUME NEW e \in Entry
  PROVE  ~Before(e, e)
<1>1. e.deadline \in Nat /\ e.sequence \in Nat
  BY SchedulerAssumption DEF Entry
<1>2. QED BY <1>1 DEF Before

(* Running the earliest entry takes exactly that deadline off the timer. *)
LEMMA StartFires ==
  ASSUME IInv, StartCallback
  PROVE  Timer!Fire
<1> USE DEF IInv, TypeOK
<1>1. PICK e \in Live : /\ IsEarliest(e)
                        /\ e.deadline <= now
                        /\ entries' = {f \in entries : Before(e, f)}
                        /\ generations' = [generations EXCEPT ![e.key] = 0]
                        /\ current' = e
  BY DEF StartCallback
<1>2. /\ worker = "ready" /\ worker' = "running" /\ ~closed /\ health # "fatal"
      /\ UNCHANGED <<sequence, closed, health, now>>
  BY DEF StartCallback, WorkerAgrees
<1>3. Live' = Live \ {e}
  <2>1. ASSUME NEW f \in Live, f # e PROVE f \in Live'
    <3>1. f.key # e.key
      BY <2>1 DEF Live, IsLive, SequencesIdentify
    <3>2. Before(e, f)
      BY <1>1, <2>1 DEF IsEarliest
    <3>3. QED BY <1>1, <2>1, <3>1, <3>2 DEF Live, IsLive, Entry
  <2>2. e \notin Live'
    BY <1>1, BeforeIsIrreflexive DEF Live
  <2>3. ASSUME NEW f \in Live' PROVE f \in Live
    BY <1>1, <2>3 DEF Live, IsLive, Entry, SequencesAreFresh
  <2>4. QED BY <2>1, <2>2, <2>3
<1>4. \A f \in Live : e.deadline <= f.deadline
  <2> TAKE f \in Live
  <2>1. e.deadline \in Nat /\ f.deadline \in Nat
    BY SchedulerAssumption DEF Live, Entry
  <2>2. f = e \/ Before(e, f)
    BY <1>1 DEF IsEarliest
  <2>3. QED BY <2>1, <2>2 DEF Before
<1>5. QED BY <1>1, <1>2, <1>3, <1>4 DEF Timer!Fire, Accepting

(* Scheduling a key replaces its deadline by the new one. *)
LEMMA ScheduleArms ==
  ASSUME IInv, NEW k \in Keys, NEW d \in Deadlines, Schedule(k, d)
  PROVE  Timer!Arm
<1> DEFINE new == [key |-> k, deadline |-> d, sequence |-> sequence + 1]
<1> USE DEF IInv, TypeOK
<1>1. /\ entries' = entries \cup {new}
      /\ sequence' = sequence + 1
      /\ generations' = [generations EXCEPT ![k] = sequence + 1]
      /\ UNCHANGED <<closed, health, now, current>>
      /\ Accepting
      /\ (worker' = "running") = (worker = "running")
  BY DEF Schedule, Notify
<1>2. Live' = {e \in Live : e.key # k} \cup {new}
  <2>1. ASSUME NEW e \in Live' PROVE e = new \/ (e \in Live /\ e.key # k)
    BY <1>1, <2>1 DEF Live, IsLive, Entry, SequencesAreFresh
  <2>2. ASSUME NEW e \in Live, e.key # k PROVE e \in Live'
    BY <1>1, <2>2 DEF Live, IsLive, Entry
  <2>3. new \in Live'
    <3>1. new.key = k /\ new.sequence = sequence + 1
      OBVIOUS
    <3>2. new \in entries' /\ generations'[new.key] = new.sequence
      BY <1>1, <3>1
    <3>3. QED
      <4> HIDE DEF new
      <4>1. QED BY <3>2 DEF Live, IsLive
  <2>4. QED BY <2>1, <2>2, <2>3
<1>3. QED BY <1>1, <1>2 DEF Timer!Arm, Accepting

LEMMA CancelDisarms ==
  ASSUME IInv, NEW k \in Keys, Cancel(k)
  PROVE  Timer!Disarm
<1> USE DEF IInv, TypeOK
<1>1. /\ generations' = [generations EXCEPT ![k] = 0]
      /\ UNCHANGED <<entries, sequence, closed, health, now, current>>
      /\ (worker' = "running") = (worker = "running")
  BY DEF Cancel, Notify
<1>2. Live' = {e \in Live : e.key # k}
  BY <1>1 DEF Live, IsLive, Entry, SequencesAreFresh
<1>3. QED BY <1>1, <1>2 DEF Timer!Disarm, Accepting

LEMMA MarkClosedShuts ==
  ASSUME IInv, MarkClosed
  PROVE  Timer!Shut
<1> USE DEF IInv, TypeOK
<1>1. /\ closed' = TRUE /\ entries' = {}
      /\ UNCHANGED <<sequence, health, now, current>>
      /\ (worker' = "running") = (worker = "running")
  BY DEF MarkClosed, Notify, RetiredIsEmpty, Accepting
<1>2. QED BY <1>1 DEF Timer!Shut, Live, Accepting

(* Steps that only move the worker or a closer leave the timer as it is. *)
LEMMA QuietStepsStutter ==
  ASSUME IInv,
         \/ SleepUntimed \/ SleepUntilDue \/ WaitTimesOut \/ WorkerSeesClosed
         \/ WorkerExits \/ (\E c \in Closers : CloseReturns(c))
  PROVE  UNCHANGED Timer!vars
<1> USE DEF IInv, TypeOK
<1>1. /\ UNCHANGED <<generations, sequence, closed, health, now, current>>
      /\ \/ worker # "running" /\ worker' # "running"
         \/ UNCHANGED worker
  BY DEF SleepUntimed, SleepUntilDue, WaitTimesOut, WorkerSeesClosed,
         WorkerExits, CloseReturns
<1>2. Live' = Live
  <2>1. CASE SleepUntimed
    BY <1>1, <2>1 DEF SleepUntimed, Live, IsLive
  <2>2. CASE SleepUntilDue
    <3>1. PICK e \in Live : /\ IsEarliest(e)
                            /\ entries' = {f \in entries : ~Before(f, e)}
      BY <2>2 DEF SleepUntilDue
    <3>2. \A f \in Live : ~Before(f, e)
      <4> TAKE f \in Live
      <4>1. /\ e.deadline \in Nat /\ e.sequence \in Nat
            /\ f.deadline \in Nat /\ f.sequence \in Nat
        BY SchedulerAssumption DEF Live, Entry
      <4>2. f = e \/ Before(e, f)
        BY <3>1 DEF IsEarliest
      <4>3. QED BY <4>1, <4>2 DEF Before
    <3>3. QED BY <1>1, <3>1, <3>2 DEF Live, IsLive
  <2>3. CASE ~SleepUntimed /\ ~SleepUntilDue
    <3>1. UNCHANGED entries
      BY <2>3 DEF WaitTimesOut, WorkerSeesClosed, WorkerExits, CloseReturns
    <3>2. QED BY <1>1, <3>1 DEF Live, IsLive
  <2>4. QED BY <2>1, <2>2, <2>3
<1>3. QED BY <1>1, <1>2 DEF Timer!vars, Accepting

LEMMA ReturnFinishes ==
  ASSUME IInv, CallbackReturns
  PROVE  Timer!Finish
<1> USE DEF IInv, TypeOK
<1>1. /\ worker = "running" /\ worker' # "running"
      /\ UNCHANGED <<sequence, closed, now>>
  BY DEF CallbackReturns, CallbackSucceeds, CallbackRaises, CallbackIsFatal
<1>2. \/ Live' = Live /\ Accepting' = Accepting
      \/ Live' = {} /\ Accepting' = FALSE
  <2>1. CASE CallbackSucceeds \/ CallbackRaises
    BY <2>1 DEF CallbackSucceeds, CallbackRaises, Live, IsLive, Accepting
  <2>2. CASE CallbackIsFatal
    BY <2>2 DEF CallbackIsFatal, Live, Accepting
  <2>3. QED BY <2>1, <2>2 DEF CallbackReturns
<1>3. QED BY <1>1, <1>2 DEF Timer!Finish

(***************************************************************************)
(* The scheduler implements the timer: whatever the interleaving, a        *)
(* replaced, cancelled or fired deadline never fires (again), deadlines    *)
(* fire in order and never early, and nothing fires after close or a fatal *)
(* callback.                                                               *)
(***************************************************************************)
THEOREM SchedulerImplementsTimer == Spec => ImplementsTimer
<1>1. Init => Timer!Init
  BY DEF Init, Timer!Init, Live, Accepting
<1>2. IInv /\ [Next]_vars => [Timer!Next]_(Timer!vars)
  <2> SUFFICES ASSUME IInv, [Next]_vars PROVE [Timer!Next]_(Timer!vars)
    OBVIOUS
  <2>1. ASSUME NEW k \in Keys, NEW d \in Deadlines, Schedule(k, d)
        PROVE Timer!Next
    BY <2>1, ScheduleArms DEF Timer!Next
  <2>2. ASSUME NEW k \in Keys, Cancel(k) PROVE Timer!Next
    BY <2>2, CancelDisarms DEF Timer!Next
  <2>3. ASSUME NEW c \in Closers, Close(c) PROVE Timer!Next
    BY <2>3, MarkClosedShuts DEF Close, Timer!Next
  <2>4. CASE CloseFromCallback
    BY <2>4, MarkClosedShuts DEF CloseFromCallback, Timer!Next
  <2>5. CASE StartCallback
    BY <2>5, StartFires DEF Timer!Next
  <2>6. CASE CallbackReturns
    BY <2>6, ReturnFinishes DEF Timer!Next
  <2>7. CASE \/ SleepUntimed \/ SleepUntilDue \/ WaitTimesOut
             \/ WorkerSeesClosed \/ WorkerExits
             \/ (\E c \in Closers : CloseReturns(c))
    BY <2>7, QuietStepsStutter
  <2>8. CASE Tick
    <3>1. Live' = Live /\ Accepting' = Accepting /\ now' = now + 1
          /\ UNCHANGED <<worker, current, sequence>>
      BY <2>8 DEF Tick, Live, IsLive, Accepting
    <3>2. QED BY <3>1 DEF IInv, TypeOK, Timer!Next, Timer!Tick
  <2>9. CASE UNCHANGED vars
    BY <2>9 DEF vars, Timer!vars, Live, IsLive, Accepting
  <2>10. QED
    BY <2>1, <2>2, <2>3, <2>4, <2>5, <2>6, <2>7, <2>8, <2>9 DEF Next, WorkerStep
<1>3. QED BY <1>1, <1>2, Inductive, PTL DEF Spec, ImplementsTimer, Timer!Spec

-----------------------------------------------------------------------------
(* The lease of the standalone watcher.  A session that waits for nobody is *)
(* one this tick will still count; one that this tick has missed was        *)
(* recorded after its visit, so that the process launched for it has waited *)
(* no longer than the tick has taken: where it gives up all the same, the   *)
(* tick has lasted for the whole hand-off.                                  *)

LeaseTypeOK ==
    /\ leaseWaiting \in [Process -> {Nothing} \cup Nat]
    /\ leaseHolder \in {Nothing} \cup Process
    /\ leasePhase \in {"tick", "sleep", "leave"}
    /\ leaseSpent \in 0..TickLimit
    /\ leaseAt \in {Nothing} \cup Lease!Visit
    /\ leaseAt # Nothing => leaseAt.session \notin leaseQuarantined
    /\ leaseHolder = Nothing => leasePhase = "leave"
    /\ leasePhase = "leave" => leaseTodo = {}

Counted(t) ==
    \/ leasePhase = "sleep"
    \/ leasePhase = "tick" /\ leaseFound
    \/ /\ leasePhase = "tick" /\ t \notin leaseQuarantined
       /\ t \in leaseTodo \/ (leaseAt # Nothing /\ leaseAt.session = t)

Awaited == \E p \in Process :
    leaseWaiting[p] # Nothing /\ (leaseHolder = Nothing \/ leaseWaiting[p] <= leaseSpent)

LeaseInductive ==
    /\ LeaseTypeOK
    /\ leaseQuarantined \cap leaseActive \subseteq leaseExcused
    /\ \A t \in leaseActive \ leaseExcused : t \in leaseLaunching \/ Counted(t) \/ Awaited

(* The session visited stays the same, its snapshot may be outdated.       *)
VisitStays ==
    \/ leaseAt' = leaseAt
    \/ leaseAt # Nothing /\ leaseAt' \in Lease!Visit /\ leaseAt'.session = leaseAt.session

(* Every step keeps that nobody waits in vain.                             *)
LEMMA LeaseInduction ==
    ASSUME Lease!WatcherLeaseTyping
    PROVE  LeaseInductive /\ [Lease!Next]_Lease!vars => LeaseInductive'
<1> SUFFICES ASSUME LeaseInductive, [Lease!Next]_Lease!vars PROVE LeaseInductive'
  OBVIOUS
<1> USE DEF LeaseInductive, Lease!WatcherLeaseTyping
<1>1. ASSUME UNCHANGED <<leaseWaiting, leaseHolder, leasePhase, leaseTodo, leaseFound, leaseSpent,
                         leaseQuarantined>>,
             VisitStays
      PROVE  /\ LeaseTypeOK' /\ Awaited' = Awaited
             /\ \A t : Counted(t)' = Counted(t)
  BY <1>1 DEF LeaseTypeOK, Awaited, Counted, VisitStays
<1>2. ASSUME NEW t \in Session, Lease!Outdates(t)
      PROVE  VisitStays
  <2>1. \A v \in Lease!Visit : [v EXCEPT !.current = FALSE] \in Lease!Visit
                         /\ [v EXCEPT !.current = FALSE].session = v.session
    BY DEF Lease!Visit
  <2> QED
    BY <1>2, <2>1 DEF Lease!Outdates, LeaseTypeOK, VisitStays
<1>3. ASSUME NEW t \in Session,
             Lease!Begin(t) \/ Lease!Touch(t) \/ Lease!Ends(t) \/ Lease!LaunchFails(t)
      PROVE  LeaseInductive'
  <2>1. /\ UNCHANGED <<leaseWaiting, leaseHolder, leasePhase, leaseTodo, leaseFound, leaseSpent,
                        leaseQuarantined>>
        /\ VisitStays
    <3>1. Lease!Outdates(t) => VisitStays
      BY <1>2
    <3>2. leaseAt' = leaseAt => VisitStays
      BY DEF VisitStays
    <3> QED
      BY <1>3, <3>1, <3>2 DEF Lease!Begin, Lease!Touch, Lease!Ends, Lease!LaunchFails
  <2>2. LeaseTypeOK' /\ Awaited' = Awaited /\ \A u : Counted(u)' = Counted(u)
    BY <1>1, <2>1
  <2>3. /\ leaseQuarantined \cap leaseActive' \subseteq leaseExcused'
        /\ \A u \in leaseActive' \ leaseExcused' : u = t \/ u \in leaseActive \ leaseExcused
        /\ \A u \in leaseLaunching : u = t \/ u \in leaseLaunching'
        /\ t \in leaseActive' \ leaseExcused' =>
              t \in leaseLaunching' \/ (t \in leaseActive \ leaseExcused /\ t \notin leaseLaunching)
    BY <1>3 DEF Lease!Begin, Lease!Touch, Lease!Ends, Lease!LaunchFails
  <2> QED
    BY <2>1, <2>2, <2>3
<1>4. ASSUME NEW t \in Session, Lease!Launch(t) PROVE LeaseInductive'
  <2>1. PICK p \in Process \ {leaseHolder} :
           leaseWaiting[p] = Nothing /\ leaseWaiting' = [leaseWaiting EXCEPT ![p] = 0]
    BY <1>4 DEF Lease!Launch
  <2>2. Awaited'
    BY <1>4, <2>1 DEF Awaited, Lease!Launch, LeaseTypeOK, Lease!tickVars
  <2>3. LeaseTypeOK'
    BY <1>4, <2>1 DEF Lease!Launch, LeaseTypeOK, Lease!tickVars
  <2> QED
    BY <1>4, <2>2, <2>3 DEF Lease!Launch
<1>5. ASSUME Lease!BeginTick, UNCHANGED <<leaseActive, leaseExcused, leaseQuarantined>>,
             leaseWaiting' \in [Process -> {Nothing} \cup Nat], leaseHolder' \in Process
      PROVE  LeaseInductive'
  <2>1. LeaseTypeOK'
    BY <1>5 DEF Lease!BeginTick, LeaseTypeOK
  <2>2. \A t \in leaseActive \ leaseQuarantined : Counted(t)'
    BY <1>5 DEF Lease!BeginTick, Counted
  <2> QED
    BY <1>5, <2>1, <2>2
<1>6. ASSUME NEW p \in Process, Lease!Acquire(p) PROVE LeaseInductive'
  BY <1>5, <1>6 DEF Lease!Acquire, LeaseTypeOK
<1>7. ASSUME NEW p \in Process, Lease!GiveUp(p) PROVE LeaseInductive'
  <2>1. /\ leaseHolder # Nothing /\ leaseWaiting[p] = HandOff
        /\ leaseWaiting' = [leaseWaiting EXCEPT ![p] = Nothing]
        /\ UNCHANGED <<leaseActive, leaseLaunching, leaseHolder, leasePhase, leaseTodo, leaseAt,
                       leaseFound, leaseSpent, leaseQuarantined>>
        /\ leaseExcused \subseteq leaseExcused'
    BY <1>7 DEF Lease!GiveUp, Lease!tickVars
  <2>2. LeaseTypeOK' /\ \A t : Counted(t)' = Counted(t)
    BY <2>1 DEF LeaseTypeOK, Counted
  <2>3. CASE leaseWaiting[p] <= leaseSpent /\ leasePhase # "sleep"
    <3>1. leaseExcused' = leaseExcused \cup (leaseActive \ leaseTodo)
      BY <1>7, <2>1, <2>3 DEF Lease!GiveUp
    <3>2. \A t \in leaseActive \ leaseExcused' : Counted(t)
      BY <2>3, <3>1 DEF LeaseTypeOK, Counted
    <3> QED
      BY <2>1, <2>2, <3>2
  <2>4. CASE ~(leaseWaiting[p] <= leaseSpent)
    <3>1. Awaited => Awaited'
      BY <2>1, <2>4 DEF Awaited, LeaseTypeOK
    <3> QED
      BY <2>1, <2>2, <3>1
  <2>5. CASE leasePhase = "sleep"
    <3>1. \A t : Counted(t)
      BY <2>5 DEF Counted
    <3> QED
      BY <2>1, <2>2, <3>1
  <2> QED
    BY <2>3, <2>4, <2>5
<1>8. ASSUME NEW p \in Process, Lease!Crash(p) PROVE LeaseInductive'
  BY <1>8 DEF Lease!Crash, Lease!Freed, LeaseTypeOK, Lease!tickVars
<1>9. ASSUME NEW t \in Session, Lease!Snapshot(t) PROVE LeaseInductive'
  <2>1. UNCHANGED <<leaseActive, leaseLaunching, leaseWaiting, leaseHolder, leasePhase,
                    leaseFound, leaseSpent, leaseQuarantined,
                    leaseExcused>> /\ leasePhase = "tick" /\ leaseAt = Nothing
    BY <1>9 DEF Lease!Snapshot
  <2>2. LeaseTypeOK' /\ Awaited' = Awaited
    BY <1>9, <2>1 DEF Lease!Snapshot, LeaseTypeOK, Awaited, Lease!Visit
  <2>3. [session |-> t, current |-> TRUE] \in Lease!Visit
    BY DEF Lease!Visit
  <2>4. \A u \in leaseActive \ leaseExcused : Counted(u) => Counted(u)'
    <3>1. ASSUME NEW u \in leaseActive \ leaseExcused, u # t, Counted(u) PROVE Counted(u)'
      BY <1>9, <2>1, <3>1 DEF Lease!Snapshot, Counted
    <3>2. t \in leaseActive \ leaseQuarantined => leaseAt' # Nothing /\ leaseAt'.session = t
      <4>1. t \in leaseActive \ leaseQuarantined => leaseAt' = [session |-> t, current |-> TRUE]
        BY <1>9 DEF Lease!Snapshot
      <4>2. [session |-> t, current |-> TRUE].session = t
        OBVIOUS
      <4>3. [session |-> t, current |-> TRUE] # Nothing
        BY <2>3
      <4> HIDE DEF LeaseInductive, Lease!WatcherLeaseTyping
      <4> QED
        BY <4>1, <4>2, <4>3
    <3>3. ASSUME t \in leaseActive \ leaseExcused PROVE Counted(t)'
      BY <2>1, <3>2, <3>3 DEF Counted
    <3> QED
      BY <3>1, <3>3
  <2> QED
    BY <2>1, <2>2, <2>4
<1>10. CASE Lease!Commit
  <2>1. UNCHANGED <<leaseLaunching, leaseWaiting, leaseHolder, leasePhase, leaseTodo, leaseSpent,
                    leaseQuarantined>>
        /\ leasePhase = "tick" /\ leaseAt # Nothing /\ leaseAt' = Nothing
    BY <1>10 DEF Lease!Commit
  <2>2. LeaseTypeOK' /\ Awaited' = Awaited
    BY <2>1 DEF LeaseTypeOK, Awaited
  <2>3. \A u \in leaseActive' \ leaseExcused' : u # leaseAt.session /\ Counted(u) => Counted(u)'
    BY <1>10, <2>1 DEF Lease!Commit, Counted
  <2>4. leaseAt.session \in leaseActive' => \A u : u = leaseAt.session => Counted(u)'
    <3>1. leaseAt.session \in leaseActive' => leaseFound'
      BY <1>10 DEF Lease!Commit
    <3> QED
      BY <2>1, <3>1 DEF Counted
  <2>5. leaseAt.session \notin leaseQuarantined
    BY <2>1 DEF LeaseTypeOK
  <2>6. /\ leaseQuarantined \cap leaseActive' \subseteq leaseExcused'
        /\ \A u \in leaseActive' \ leaseExcused' :
                 u = leaseAt.session \/ u \in leaseActive \ leaseExcused
    BY <1>10, <2>5 DEF Lease!Commit
  <2> QED
    BY <2>1, <2>2, <2>3, <2>4, <2>6
<1>11. CASE Lease!ReadFails
  <2>1. UNCHANGED <<leaseActive, leaseLaunching, leaseWaiting, leaseHolder, leasePhase,
                    leaseTodo, leaseFound, leaseSpent>>
        /\ leasePhase = "tick" /\ leaseAt # Nothing /\ leaseAt' = Nothing
    BY <1>11 DEF Lease!ReadFails
  <2>2. LeaseTypeOK' /\ Awaited' = Awaited
    BY <2>1 DEF LeaseTypeOK, Awaited
  <2>3. \A u \in leaseActive' \ leaseExcused' : u # leaseAt.session
    BY <1>11 DEF Lease!ReadFails
  <2>4. \A u : u # leaseAt.session /\ Counted(u) => Counted(u)'
    BY <1>11, <2>1 DEF Lease!ReadFails, Counted
  <2> QED
    BY <1>11, <2>1, <2>2, <2>3, <2>4 DEF Lease!ReadFails
<1>12. CASE Lease!EndTick
  <2>1. LeaseTypeOK' /\ Awaited' = Awaited /\ \A t : Counted(t) => Counted(t)'
    BY <1>12 DEF Lease!EndTick, LeaseTypeOK, Awaited, Counted
  <2> QED
    BY <1>12, <2>1 DEF Lease!EndTick
<1>13. CASE Lease!Wake
  BY <1>5, <1>13 DEF Lease!Wake, LeaseTypeOK
<1>14. CASE Lease!TickRaises
  BY <1>14 DEF Lease!TickRaises, LeaseTypeOK
<1>15. CASE Lease!Release
  <2>1. LeaseTypeOK' /\ (Awaited => Awaited') /\ \A t : ~Counted(t)
    BY <1>15 DEF Lease!Release, Lease!Freed, LeaseTypeOK, Awaited, Counted
  <2> QED
    BY <1>15, <2>1 DEF Lease!Release, Lease!Freed
<1>16. CASE Lease!Second
  <2>1. UNCHANGED <<leaseActive, leaseLaunching, leaseHolder, leasePhase, leaseTodo, leaseAt,
                    leaseFound, leaseQuarantined, leaseExcused>>
        /\ leaseHolder # Nothing
    BY <1>16 DEF Lease!Second
  <2>2. \A p \in Process : leaseWaiting[p] # Nothing =>
           leaseWaiting'[p] = leaseWaiting[p] + 1 /\ leaseWaiting[p] \in Nat /\ leaseWaiting'[p] \in Nat
    BY <1>16 DEF Lease!Second, LeaseTypeOK
  <2>3. Nothing \notin Nat
    BY DEF LeaseTypeOK
  <2>4. LeaseTypeOK'
    BY <1>16, <2>1, <2>2 DEF Lease!Second, LeaseTypeOK
  <2>5. \A t : Counted(t)' = Counted(t)
    BY <2>1 DEF Counted
  <2>6. leasePhase # "sleep" /\ Awaited => Awaited'
    BY <1>16, <2>1, <2>2, <2>3 DEF Lease!Second, Awaited, LeaseTypeOK
  <2>7. leasePhase = "sleep" => \A t : Counted(t)
    BY DEF Counted
  <2> QED
    BY <2>1, <2>4, <2>5, <2>6, <2>7
<1>17. CASE UNCHANGED Lease!vars
  BY <1>1, <1>17 DEF Lease!vars, LeaseTypeOK, Awaited, Counted
<1> QED
  BY <1>3, <1>4, <1>6, <1>7, <1>8, <1>9, <1>10, <1>11, <1>12, <1>13, <1>14, <1>15, <1>16, <1>17
  DEF Lease!Next

(* However many processes and sessions there are, however long a tick      *)
(* takes, a launch that finds the lease taken is harmless, but for sessions*)
(* a tick as long as the hand-off had passed by                            *)
(* (acquire_watcher_lease, commit_runtime_snapshot).                       *)
THEOREM LaunchesAreWatched == ASSUME Lease!WatcherLeaseTyping PROVE PartsSpec => []LaunchIsWatched
<1>1. PartsInit => LeaseInductive
  BY DEF PartsInit, Lease!Init, LeaseInductive, LeaseTypeOK, Lease!WatcherLeaseTyping
<1>2. [PartsNext]_partsVars => [Lease!Next]_(Lease!vars)
  BY DEF PartsNext, partsVars, leaseVars, Lease!vars
<1>3. LeaseInductive => LaunchIsWatched
  BY DEF LeaseInductive, LeaseTypeOK, Counted, Awaited, Lease!LaunchIsWatched, LaunchIsWatched
<1> QED
  BY <1>1, <1>2, <1>3, LeaseInduction, PTL DEF PartsSpec
-----------------------------------------------------------------------------
(* The reader of a rollout.  The numbers of the lines do not fall along the *)
(* file and do not rise inside a line; the cursor is where the watch began  *)
(* or where a line ends; and what was taken is every line in between.       *)

Size == Len(readerFile)

Unended(i, j) == \A k \in i..(j - 1) : ~readerFile[k].last

Piece == [line : Nat, last : BOOLEAN]

\* What Codex adds to the file.
Writes(piece) == piece \in Piece /\ readerFile' = Append(readerFile, piece)

LinesInOrder ==
    /\ \A i, j \in 0..Size : i <= j => Reader!LineOf(i) <= Reader!LineOf(j)
    /\ \A i, j \in 1..Size : i <= j /\ Unended(i, j) => Reader!LineOf(i) = Reader!LineOf(j)
    /\ readerUnwritten = 0 /\ Size > 0 => readerFile[Size].last
    /\ readerUnwritten > 0 => Size > 0 /\ ~readerFile[Size].last

CursorInv ==
    /\ readerCursor = NoCursor <=> readerStart = NoCursor
    /\ readerCursor = NoCursor => readerSeen = <<>> /\ ~readerFailed
    /\ readerCursor # NoCursor =>
          /\ readerStart <= readerCursor /\ readerCursor <= Size
          /\ readerCursor = readerStart \/ readerFile[readerCursor].last
          /\ Len(readerSeen) = Reader!LineOf(readerCursor) - Reader!LineOf(readerStart)
          /\ \A k \in 1..Len(readerSeen) : readerSeen[k] = Reader!LineOf(readerStart) + k

\* A batch that was read: the lines from the cursor to its end.
BatchInv ==
    readerBatch # Reader!NoBatch =>
        /\ readerBatch.end \in Nat /\ readerBatch.end <= Size
        /\ readerCursor = NoCursor => readerBatch.lines = <<>>
        /\ readerCursor # NoCursor =>
              /\ readerCursor < readerBatch.end /\ readerFile[readerBatch.end].last
              /\ readerBatch.lines = Reader!Lines(readerCursor, readerBatch.end)

\* Pieces of one line, more of them than a line may have.
LongLine ==
    \E i, j \in 0..Size :
        /\ j - i > MaxLine
        /\ \A k \in (i + 1)..j : readerFile[k].line = readerFile[j].line

ReaderInv ==
    /\ Reader!TypeOK /\ LinesInOrder /\ CursorInv /\ BatchInv
    /\ readerFailed => readerReplaced \/ Reader!Fragment(readerStart) \/ LongLine

(* A set of numbers that is not empty has a least one.                     *)
LEMMA LeastNumber ==
    ASSUME NEW S \in SUBSET Nat, S # {}
    PROVE  \E m \in S : \A i \in S : m <= i
<1> DEFINE R == {ss \in Nat \X Nat : ss[1] < ss[2]}
<1>1. IsWellFoundedOn(R, Nat)
  BY NatLessThanWellFounded DEF OpToRel
<1>2. PICK m \in S : \A i \in S : ~(<<i, m>> \in R)
  <2> HIDE DEF R
  <2> QED
    BY WFMin, <1>1
<1>3. ASSUME NEW i \in S PROVE m <= i
  <2>1. i \in Nat /\ m \in Nat
    OBVIOUS
  <2>2. <<i, m>> \in Nat \X Nat /\ <<i, m>> \notin R
    BY <2>1, <1>2
  <2>3. ~ (i < m)
    BY <2>2
  <2> QED
    BY <2>1, <2>3
<1> QED
  BY <1>3

(* What a piece more makes of a sequence.                                  *)
LEMMA OneMore ==
    ASSUME NEW S, NEW s \in Seq(S), NEW x \in S
    PROVE  /\ Append(s, x) \in Seq(S) /\ Len(s) \in Nat /\ Len(Append(s, x)) = Len(s) + 1
           /\ Append(s, x)[Len(s) + 1] = x
           /\ \A k \in 1..Len(s) : Append(s, x)[k] = s[k] /\ s[k] \in S
OBVIOUS

(* What a sequence more makes of it.                                       *)
LEMMA Joined ==
    ASSUME NEW S, NEW s \in Seq(S), NEW t \in Seq(S)
    PROVE  /\ s \o t \in Seq(S) /\ Len(s \o t) = Len(s) + Len(t)
           /\ \A k \in 1..Len(s) : (s \o t)[k] = s[k]
           /\ \A k \in (Len(s) + 1)..(Len(s) + Len(t)) : (s \o t)[k] = t[k - Len(s)]
OBVIOUS

(* The numbers after m, up to n.                                           *)
LEMMA Numbered ==
    ASSUME NEW m \in Nat, NEW n \in Nat, m <= n
    PROVE  LET s == [k \in 1..(n - m) |-> m + k]
           IN  s \in Seq(Nat) /\ Len(s) = n - m /\ \A k \in 1..(n - m) : s[k] = m + k
<1> DEFINE s == [k \in 1..(n - m) |-> m + k]
<1>1. n - m \in Nat /\ s \in [1..(n - m) -> Nat] /\ \A k \in 1..(n - m) : s[k] = m + k
  OBVIOUS
<1> HIDE DEF s
<1>2. s \in Seq(Nat) /\ Len(s) = n - m
  BY <1>1
<1> QED
  BY <1>1, <1>2 DEF s

(* Where a line ends that is complete, and that it does not end before.    *)
LEMMA LineEndIsFirst ==
    ASSUME Reader!TypeOK, NEW i \in 0..Size
    PROVE  \/ /\ Reader!LineEnd(i) = 0
              /\ Unended(i + 1, Size + 1)
           \/ /\ Reader!LineEnd(i) \in (i + 1)..Size /\ readerFile[Reader!LineEnd(i)].last
              /\ Unended(i + 1, Reader!LineEnd(i))
<1> DEFINE ends == {k \in (i + 1)..Size : readerFile[k].last}
<1>1. Size \in Nat
  BY DEF Size, Reader!TypeOK
<1>2. CASE ends = {}
  BY <1>1, <1>2 DEF Reader!LineEnd, Unended, Size
<1>3. CASE ends # {}
  <2> DEFINE e == CHOOSE k \in ends : \A f \in ends : k <= f
  <2>1. \E k \in ends : \A f \in ends : k <= f
    <3>1. ends \in SUBSET Nat
      BY <1>1
    <3> QED
      BY <1>3, <3>1, LeastNumber
  <2>2. e \in ends /\ \A f \in ends : e <= f
    BY <2>1
  <2>3. Reader!LineEnd(i) = e
    BY <1>3 DEF Reader!LineEnd, Size
  <2> HIDE DEF e
  <2>4. Unended(i + 1, e)
    BY <1>1, <2>2 DEF Unended
  <2> QED
    BY <2>2, <2>3, <2>4
<1> QED
  BY <1>2, <1>3

(* The loop of read_new_records comes to an end, at the start of a line.   *)
LEMMA ScanStops ==
    ASSUME Reader!TypeOK, NEW from \in 0..Size
    PROVE  Reader!Scan(from).end \in Reader!Stops(from)
<1> DEFINE starts == {i \in from..Size : i = from \/ readerFile[i].last}
           S == Reader!Stops(from)
<1>1. Size \in Nat
  BY DEF Size, Reader!TypeOK
<1>2. \E i \in starts : Unended(i + 1, Size + 1)
  <2> DEFINE back == {n \in 0..(Size - from) : Size - n \in starts}
  <2>1. back \in SUBSET Nat /\ Size - from \in back
    BY <1>1
  <2>2. PICK n \in back : \A m \in back : n <= m
    <3> HIDE DEF back
    <3> QED
      BY <2>1, LeastNumber
  <2>3. Size - n \in starts /\ Size - n \in 0..Size
    BY <1>1, <2>2
  <2>4. ASSUME NEW k \in (Size - n + 1)..Size, readerFile[k].last PROVE FALSE
    <3>1. k \in from..Size /\ k \in starts /\ Size - k < n
      BY <1>1, <2>2, <2>3, <2>4
    <3>2. Size - k \in back
      BY <1>1, <3>1
    <3> QED
      BY <1>1, <2>2, <3>1, <3>2
  <2> QED
    BY <1>1, <2>3, <2>4 DEF Unended
<1>3. PICK i \in starts : Unended(i + 1, Size + 1)
  BY <1>2
<1>4. Reader!LineEnd(i) = 0
  <2>1. i \in 0..Size
    BY <1>1
  <2> QED
    BY <1>1, <1>3, <2>1, LineEndIsFirst DEF Unended
<1>5. i \in S
  BY <1>4 DEF Reader!Stops, Reader!BatchEnds, Size
<1>6. S \in SUBSET Nat
  BY <1>1 DEF Reader!Stops, Size
<1> HIDE DEF S
<1>7. \E m \in S : \A k \in S : m <= k
  BY <1>5, <1>6, LeastNumber
<1>8. (CHOOSE at \in S : \A k \in S : at <= k) \in S
  BY <1>7
<1> QED
  BY <1>8 DEF Reader!Scan, S

(* What makes a line too long.                                             *)
LEMMA TooLongIsLong ==
    ASSUME Reader!TypeOK, LinesInOrder, NEW i \in 0..Size, Reader!TooLong(i)
    PROVE  LongLine
<1> DEFINE e == IF Reader!LineEnd(i) = 0 THEN Size ELSE Reader!LineEnd(i)
<1>1. e - i > MaxLine
  BY DEF Reader!TooLong, Size
<1>2. e \in 0..Size /\ Unended(i + 1, e) /\ i < e
  <2>1. Size \in Nat
    BY DEF Size, Reader!TypeOK
  <2> QED
    BY <1>1, <2>1, LineEndIsFirst, ReaderAssumption DEF Unended
<1> HIDE DEF e
<1>3. \A k \in (i + 1)..e : readerFile[k].line = readerFile[e].line
  <2> SUFFICES ASSUME NEW k \in (i + 1)..e PROVE readerFile[k].line = readerFile[e].line
    OBVIOUS
  <2>1. k \in 1..Size /\ e \in 1..Size /\ k <= e /\ Unended(k, e)
    BY <1>2 DEF Unended, Size, Reader!TypeOK
  <2>2. Reader!LineOf(k) = Reader!LineOf(e)
    BY <2>1 DEF LinesInOrder
  <2> QED
    BY <2>1, <2>2 DEF Reader!LineOf
<1> QED
  BY <1>1, <1>2, <1>3 DEF LongLine

(* Lines have numbers.                                                     *)
LEMMA LineNumbers ==
    ASSUME Reader!TypeOK
    PROVE  Size \in Nat /\ \A k \in 0..Size : Reader!LineOf(k) \in Nat
<1>1. readerFile \in Seq(Piece)
  BY DEF Reader!TypeOK, Piece
<1>2. Size \in Nat /\ \A k \in 1..Size : readerFile[k] \in Piece
  BY <1>1 DEF Size
<1>3. \A k \in 1..Size : readerFile[k].line \in Nat
  BY <1>2 DEF Piece
<1> QED
  BY <1>2, <1>3 DEF Reader!LineOf

(* A cursor is within the file, and so is where it began.                  *)
LEMMA CursorInFile ==
    ASSUME Reader!TypeOK, CursorInv, readerCursor # NoCursor
    PROVE  readerCursor \in 0..Size /\ readerStart \in 0..Size /\ readerStart <= readerCursor
<1>1. readerCursor \in Nat /\ readerStart \in Nat
  BY DEF CursorInv, Reader!TypeOK
<1> QED
  BY <1>1, LineNumbers DEF CursorInv

(* What Codex writes leaves the pieces before it alone.                    *)
LEMMA WritingAppends ==
    ASSUME Reader!TypeOK, NEW piece, Writes(piece)
    PROVE  /\ readerFile' \in Seq(Piece)
           /\ Size \in Nat /\ Size' = Size + 1 /\ readerFile'[Size + 1] = piece
           /\ \A k \in 1..Size : readerFile'[k] = readerFile[k]
           /\ \A k \in 0..Size : Reader!LineOf(k)' = Reader!LineOf(k) /\ Reader!LineOf(k) \in Nat
           /\ \A k : k = Size + 1 => Reader!LineOf(k)' = piece.line
<1>1. readerFile \in Seq(Piece) /\ piece \in Piece /\ readerFile' = Append(readerFile, piece)
  BY DEF Reader!TypeOK, Writes, Piece
<1>2. \A x \in Piece : x.line \in Nat
  BY DEF Piece
<1>3. /\ readerFile' \in Seq(Piece)
      /\ Size \in Nat /\ Size' = Size + 1 /\ readerFile'[Size + 1] = piece
      /\ \A k \in 1..Size : readerFile'[k] = readerFile[k] /\ readerFile[k] \in Piece
  <2>1. /\ Append(readerFile, piece) \in Seq(Piece) /\ Size \in Nat
        /\ Len(Append(readerFile, piece)) = Size + 1 /\ Append(readerFile, piece)[Size + 1] = piece
        /\ \A k \in 1..Size : Append(readerFile, piece)[k] = readerFile[k] /\ readerFile[k] \in Piece
    BY <1>1, OneMore DEF Size
  <2> QED
    BY <1>1, <2>1 DEF Size
<1>4. ASSUME NEW k \in 0..Size
      PROVE  Reader!LineOf(k)' = Reader!LineOf(k) /\ Reader!LineOf(k) \in Nat
  <2>1. CASE k = 0
    BY <2>1 DEF Reader!LineOf
  <2>2. CASE k # 0
    <3>1. k \in 1..Size
      BY <1>3, <2>2
    <3>2. readerFile'[k] = readerFile[k] /\ readerFile[k].line \in Nat
      BY <1>2, <1>3, <3>1
    <3> QED
      BY <2>2, <3>2, Zenon DEF Reader!LineOf
  <2> QED
    BY <2>1, <2>2
<1>5. ASSUME NEW k, k = Size + 1 PROVE Reader!LineOf(k)' = piece.line
  <2>1. k # 0 /\ readerFile'[k] = piece
    BY <1>3, <1>5
  <2> QED
    BY <2>1, Zenon DEF Reader!LineOf
<1> QED
  BY <1>3, <1>4, <1>5

(* The order of the lines, kept by a piece of the same or of the next line.*)
LEMMA WritingKeepsOrder ==
    ASSUME Reader!TypeOK, LinesInOrder, NEW piece, Writes(piece),
           \/ readerUnwritten = 0 /\ piece.line = Reader!LineOf(Size) + 1
           \/ readerUnwritten > 0 /\ piece.line = Reader!LineOf(Size),
           readerUnwritten' \in Nat, piece.last <=> readerUnwritten' = 0
    PROVE  LinesInOrder'
<1>1. /\ Size \in Nat /\ Size' = Size + 1 /\ readerFile'[Size + 1] = piece
      /\ \A k \in 1..Size : readerFile'[k] = readerFile[k]
      /\ \A k \in 0..Size : Reader!LineOf(k)' = Reader!LineOf(k) /\ Reader!LineOf(k) \in Nat
      /\ \A k : k = Size + 1 => Reader!LineOf(k)' = piece.line
  BY WritingAppends
<1>2. \A i \in 0..Size : Reader!LineOf(i) <= Reader!LineOf(Size)
  BY <1>1 DEF LinesInOrder
<1>3. ASSUME NEW i \in 0..Size', NEW j \in 0..Size', i <= j
      PROVE  Reader!LineOf(i)' <= Reader!LineOf(j)'
  <2>1. CASE j <= Size
    BY <1>1, <1>3, <2>1 DEF LinesInOrder
  <2>2. CASE j = Size + 1 /\ i <= Size
    BY <1>1, <1>2, <2>2
  <2>3. CASE i = Size + 1 /\ j = Size + 1
    BY <1>1, <2>3
  <2> QED
    BY <1>1, <1>3, <2>1, <2>2, <2>3
<1>4. ASSUME NEW i \in 1..Size', NEW j \in 1..Size', i <= j, Unended(i, j)'
      PROVE  Reader!LineOf(i)' = Reader!LineOf(j)'
  <2>1. CASE j <= Size
    <3>1. Unended(i, j)
      BY <1>1, <1>4, <2>1 DEF Unended
    <3> QED
      BY <1>1, <1>4, <2>1, <3>1 DEF LinesInOrder
  <2>2. CASE j = Size + 1 /\ i <= Size
    <3>1. Unended(i, Size) /\ ~readerFile[Size].last
      BY <1>1, <1>4, <2>2 DEF Unended
    <3>2. Reader!LineOf(i) = Reader!LineOf(Size)
      BY <1>1, <1>4, <2>2, <3>1 DEF LinesInOrder
    <3>3. readerUnwritten > 0
      <4>1. Size > 0
        BY <1>1, <2>2
      <4>2. ~(readerUnwritten = 0)
        BY <3>1, <4>1 DEF LinesInOrder
      <4> QED
        BY <4>2 DEF Reader!TypeOK
    <3> QED
      BY <1>1, <1>4, <2>2, <3>2, <3>3
  <2>3. CASE i = Size + 1 /\ j = Size + 1
    BY <2>3
  <2> QED
    BY <1>1, <1>4, <2>1, <2>2, <2>3
<1> QED
  BY <1>1, <1>3, <1>4 DEF LinesInOrder

(* The rest of the invariant does not see what is written.                 *)
LEMMA WritingKeepsRest ==
    ASSUME ReaderInv, NEW piece, Writes(piece),
           UNCHANGED <<readerReplaced, readerCursor, readerStart, readerBatch, readerSeen,
                       readerFailed>>
    PROVE  /\ CursorInv' /\ BatchInv'
           /\ readerFailed' => readerReplaced' \/ Reader!Fragment(readerStart)' \/ LongLine'
<1> USE DEF ReaderInv
<1>1. /\ Size \in Nat /\ Size' = Size + 1
      /\ \A k \in 1..Size : readerFile'[k] = readerFile[k]
      /\ \A k \in 0..Size : Reader!LineOf(k)' = Reader!LineOf(k) /\ Reader!LineOf(k) \in Nat
  BY WritingAppends
<1>2. readerCursor # NoCursor => readerCursor \in 0..Size /\ readerStart \in 0..Size
  BY <1>1 DEF CursorInv, Reader!TypeOK
<1>3. CursorInv'
  BY <1>1, <1>2 DEF CursorInv
<1>4. BatchInv'
  <2>1. \A i, j \in 0..Size : Reader!Lines(i, j)' = Reader!Lines(i, j)
    BY <1>1 DEF Reader!Lines
  <2> QED
    BY <1>1, <1>2, <2>1 DEF BatchInv, Reader!NoBatch
<1>5. readerCursor # NoCursor /\ Reader!Fragment(readerStart) => Reader!Fragment(readerStart)'
  BY <1>1, <1>2 DEF Reader!Fragment
<1>6. LongLine => LongLine'
  <2> SUFFICES ASSUME LongLine PROVE LongLine'
    OBVIOUS
  <2>1. PICK i \in 0..Size, j \in 0..Size :
           /\ j - i > MaxLine
           /\ \A k \in (i + 1)..j : readerFile[k].line = readerFile[j].line
    BY DEF LongLine
  <2>2. \A k \in (i + 1)..j : readerFile'[k].line = readerFile'[j].line
    <3> SUFFICES ASSUME NEW k \in (i + 1)..j PROVE readerFile'[k].line = readerFile'[j].line
      OBVIOUS
    <3>1. k \in 1..Size /\ j \in 1..Size
      BY <1>1
    <3> QED
      BY <1>1, <2>1, <3>1
  <2>3. i \in 0..Size' /\ j \in 0..Size' /\ j - i > MaxLine
    BY <1>1, <2>1
  <2> QED
    BY <2>2, <2>3, Zenon DEF LongLine
<1> QED
  BY <1>1, <1>3, <1>4, <1>5, <1>6 DEF CursorInv

(* The records of a batch are taken where those before them ended.         *)
LEMMA CommitTakes ==
    ASSUME ReaderInv, Reader!Commit
    PROVE  ReaderInv'
<1> USE DEF ReaderInv
<1>1. /\ readerBatch # Reader!NoBatch /\ readerBatch' = Reader!NoBatch
      /\ readerCursor' = readerBatch.end /\ readerSeen' = readerSeen \o readerBatch.lines
      /\ readerStart' = IF readerStart = NoCursor THEN readerBatch.end ELSE readerStart
      /\ UNCHANGED <<readerFile, readerUnwritten, readerReplaced, readerFailed>>
  BY DEF Reader!Commit
<1>2. /\ Size \in Nat /\ readerBatch.end \in 0..Size /\ readerCursor' # NoCursor
      /\ readerStart' # NoCursor
      /\ \A k \in 0..Size : Reader!LineOf(k) \in Nat
  BY <1>1, LineNumbers, ReaderAssumption DEF BatchInv
<1>3. LinesInOrder' /\ (LongLine' <=> LongLine)
      /\ \A k : Reader!LineOf(k)' = Reader!LineOf(k)
  BY <1>1 DEF LinesInOrder, LongLine, Unended, Size, Reader!LineOf
<1>4. Reader!NoBatch \in [end : Nat \cup {NoCursor}, lines : Seq(Nat)]
  BY DEF Reader!NoBatch
<1>5. Reader!TypeOK'
  BY <1>1, <1>2, <1>4 DEF Reader!TypeOK
<1>6. CursorInv'
  <2>1. CASE readerCursor = NoCursor
    <3>1. readerSeen' = <<>> /\ readerStart' = readerBatch.end
      BY <1>1, <2>1 DEF CursorInv, BatchInv
    <3> QED
      BY <1>1, <1>2, <1>3, <3>1 DEF CursorInv, Size
  <2>2. CASE readerCursor # NoCursor
    <3>1. /\ readerStart' = readerStart /\ readerStart \in 0..Size /\ readerCursor \in 0..Size
          /\ readerStart <= readerBatch.end /\ readerFile[readerBatch.end].last
          /\ readerBatch.lines = Reader!Lines(readerCursor, readerBatch.end)
          /\ readerCursor <= readerBatch.end
      <4>1. readerCursor \in 0..Size /\ readerStart \in 0..Size /\ readerStart <= readerCursor
        BY <2>2, CursorInFile
      <4>2. /\ readerCursor < readerBatch.end /\ readerFile[readerBatch.end].last
            /\ readerBatch.lines = Reader!Lines(readerCursor, readerBatch.end)
        BY <1>1, <2>2 DEF BatchInv
      <4>3. readerStart' = readerStart
        BY <1>1, <2>2 DEF CursorInv
      <4> QED
        BY <1>2, <4>1, <4>2, <4>3
    <3> DEFINE from == Reader!LineOf(readerStart)
               here == Reader!LineOf(readerCursor)
               upto == Reader!LineOf(readerBatch.end)
               more == readerBatch.lines
    <3>2. from \in Nat /\ here \in Nat /\ upto \in Nat /\ here <= upto
      BY <1>2, <3>1 DEF LinesInOrder
    <3>3. more = [k \in 1..(upto - here) |-> here + k]
      BY <3>1 DEF Reader!Lines
    <3>4. Len(readerSeen) = here - from
          /\ \A k \in 1..Len(readerSeen) : readerSeen[k] = from + k
      BY <2>2 DEF CursorInv
    <3> HIDE DEF from, here, upto, more
    <3>5. more \in Seq(Nat) /\ Len(more) = upto - here
          /\ \A k \in 1..(upto - here) : more[k] = here + k
      BY <3>2, <3>3, Numbered
    <3>6. readerSeen \in Seq(Nat) /\ readerSeen' = readerSeen \o more
      BY <1>1 DEF Reader!TypeOK, more
    <3>7. Len(readerSeen') = upto - from
      <4>1. Len(readerSeen') = Len(readerSeen) + Len(more)
        BY <3>5, <3>6, Joined
      <4> QED
        BY <3>2, <3>4, <3>5, <4>1
    <3>8. ASSUME NEW k \in 1..Len(readerSeen') PROVE readerSeen'[k] = from + k
      <4>1. CASE k <= Len(readerSeen)
        BY <3>2, <3>4, <3>5, <3>6, <3>7, <4>1
      <4>2. CASE k > Len(readerSeen)
        <5>1. /\ k \in (Len(readerSeen) + 1)..(Len(readerSeen) + Len(more))
              /\ k - Len(readerSeen) \in 1..(upto - here)
          BY <3>2, <3>4, <3>5, <3>7, <4>2
        <5>2. readerSeen'[k] = more[k - Len(readerSeen)]
          BY <3>5, <3>6, <5>1, Joined
        <5> QED
          BY <3>2, <3>4, <3>5, <5>1, <5>2
      <4> QED
        BY <3>2, <3>4, <3>7, <4>1, <4>2
    <3>9. Reader!LineOf(readerStart)' = from /\ Reader!LineOf(readerCursor)' = upto
      BY <1>1, <3>1 DEF from, upto, Reader!LineOf
    <3> QED
      BY <1>1, <1>2, <3>1, <3>7, <3>8, <3>9 DEF CursorInv, Size
  <2> QED
    BY <2>1, <2>2
<1>7. BatchInv'
  BY <1>1 DEF BatchInv, Reader!NoBatch
<1>8. readerFailed' => readerReplaced' \/ Reader!Fragment(readerStart)' \/ LongLine'
  <2>1. readerFailed => readerStart' = readerStart
    BY <1>1 DEF CursorInv
  <2> QED
    BY <1>1, <1>3, <2>1 DEF Reader!Fragment
<1> QED
  BY <1>3, <1>5, <1>6, <1>7, <1>8

(* Every step of Codex and of the watcher keeps the invariant.             *)
LEMMA ReaderInduction == ReaderInv /\ [Reader!Next]_(Reader!vars) => ReaderInv'
<1> SUFFICES ASSUME ReaderInv, [Reader!Next]_(Reader!vars) PROVE ReaderInv'
  OBVIOUS
<1> USE DEF ReaderInv
<1>1. Size \in Nat /\ \A k \in 0..Size : Reader!LineOf(k) \in Nat
  BY LineNumbers
<1> Reader!LineOf(Size) \in Nat /\ Reader!LineOf(Size) + 1 \in Nat
  BY <1>1
<1>2. ASSUME NEW n \in Lengths, Reader!BeginLine(n) PROVE ReaderInv'
  <2> DEFINE piece == [line |-> Reader!LineOf(Size) + 1, last |-> n = 1]
  <2>1. /\ readerUnwritten = 0 /\ readerFile' = Append(readerFile, piece)
        /\ readerUnwritten' = n - 1
        /\ UNCHANGED <<readerReplaced, readerCursor, readerStart, readerBatch, readerSeen,
                       readerFailed>>
    BY <1>2 DEF Reader!BeginLine, Size
  <2>2. piece \in Piece /\ piece.line = Reader!LineOf(Size) + 1 /\ piece.last = (n = 1)
    BY <1>1, Zenon DEF Piece
  <2>3. readerUnwritten' \in Nat /\ (readerUnwritten' = 0 <=> n = 1)
    BY <2>1, ReaderAssumption
  <2> HIDE DEF piece
  <2>4. LinesInOrder'
    BY <2>1, <2>2, <2>3, WritingKeepsOrder DEF Writes
  <2>5. /\ CursorInv' /\ BatchInv'
        /\ readerFailed' => readerReplaced' \/ Reader!Fragment(readerStart)' \/ LongLine'
    BY <2>1, <2>2, WritingKeepsRest DEF Writes
  <2>6. readerFile' \in Seq([line : Nat, last : BOOLEAN])
    BY <2>1, <2>2, WritingAppends DEF Writes, Piece
  <2>7. Reader!TypeOK'
    BY <2>1, <2>3, <2>6 DEF Reader!TypeOK
  <2> QED
    BY <2>4, <2>5, <2>7
<1>3. CASE Reader!ContinueLine
  <2> DEFINE piece == [line |-> Reader!LineOf(Size), last |-> readerUnwritten = 1]
  <2>1. /\ readerUnwritten > 0 /\ readerFile' = Append(readerFile, piece)
        /\ readerUnwritten' = readerUnwritten - 1
        /\ UNCHANGED <<readerReplaced, readerCursor, readerStart, readerBatch, readerSeen,
                       readerFailed>>
    BY <1>3 DEF Reader!ContinueLine, Size
  <2>2. piece \in Piece /\ piece.line = Reader!LineOf(Size) /\ piece.last = (readerUnwritten = 1)
    BY <1>1, Zenon DEF Piece
  <2>3. readerUnwritten' \in Nat /\ (readerUnwritten' = 0 <=> readerUnwritten = 1)
    BY <2>1 DEF Reader!TypeOK
  <2> HIDE DEF piece
  <2>4. LinesInOrder'
    BY <2>1, <2>2, <2>3, WritingKeepsOrder DEF Writes
  <2>5. /\ CursorInv' /\ BatchInv'
        /\ readerFailed' => readerReplaced' \/ Reader!Fragment(readerStart)' \/ LongLine'
    BY <2>1, <2>2, WritingKeepsRest DEF Writes
  <2>6. readerFile' \in Seq([line : Nat, last : BOOLEAN])
    BY <2>1, <2>2, WritingAppends DEF Writes, Piece
  <2>7. Reader!TypeOK'
    BY <2>1, <2>3, <2>6 DEF Reader!TypeOK
  <2> QED
    BY <2>4, <2>5, <2>7
<1>4. ASSUME UNCHANGED <<readerFile, readerUnwritten, readerCursor, readerStart, readerSeen>>
      PROVE  /\ LinesInOrder' /\ (LongLine' <=> LongLine)
             /\ Reader!Fragment(readerStart)' <=> Reader!Fragment(readerStart)
             /\ readerFailed' = readerFailed \/ readerCursor # NoCursor => CursorInv'
             /\ readerBatch' = readerBatch \/ readerBatch' = Reader!NoBatch => BatchInv'
  <2>1. /\ Size' = Size /\ \A i, j : Unended(i, j)' = Unended(i, j)
        /\ \A k : Reader!LineOf(k)' = Reader!LineOf(k)
        /\ \A i, j : Reader!Lines(i, j)' = Reader!Lines(i, j)
    BY <1>4 DEF Size, Unended, Reader!LineOf, Reader!Lines
  <2>2. LinesInOrder'
    BY <1>4, <2>1 DEF LinesInOrder
  <2>3. LongLine' <=> LongLine
    BY <1>4, <2>1 DEF LongLine
  <2>4. Reader!Fragment(readerStart)' <=> Reader!Fragment(readerStart)
    BY <1>4 DEF Reader!Fragment
  <2>5. readerFailed' = readerFailed \/ readerCursor # NoCursor => CursorInv'
    BY <1>4, <2>1 DEF CursorInv
  <2>6. readerBatch' = readerBatch \/ readerBatch' = Reader!NoBatch => BatchInv'
    <3>1. Reader!NoBatch' = Reader!NoBatch
      BY DEF Reader!NoBatch
    <3> QED
      BY <1>4, <2>1, <3>1 DEF BatchInv
  <2> QED
    BY <2>2, <2>3, <2>4, <2>5, <2>6
<1>5. CASE Reader!Replace
  BY <1>4, <1>5 DEF Reader!Replace, Reader!TypeOK
<1>6. CASE Reader!StartWatch
  <2>1. /\ readerCursor = NoCursor /\ readerBatch' = [end |-> Size, lines |-> <<>>]
        /\ UNCHANGED <<readerFile, readerUnwritten, readerReplaced, readerCursor, readerStart,
                       readerSeen, readerFailed>>
    BY <1>6 DEF Reader!StartWatch, Size
  <2>2. readerBatch'.end = Size /\ readerBatch'.lines = <<>> /\ Size' = Size
    BY <2>1 DEF Size
  <2>3. BatchInv'
    BY <1>1, <2>1, <2>2 DEF BatchInv
  <2>4. Reader!TypeOK'
    BY <1>1, <2>1 DEF Reader!TypeOK
  <2> QED
    BY <1>4, <2>1, <2>3, <2>4
<1>7. CASE Reader!Read
  <2> DEFINE end == Reader!Scan(readerCursor).end
             lines == Reader!Lines(readerCursor, end)
  <2>1. /\ readerCursor # NoCursor /\ end > readerCursor
        /\ readerBatch' = [end |-> end, lines |-> lines]
        /\ UNCHANGED <<readerFile, readerUnwritten, readerReplaced, readerCursor, readerStart,
                       readerSeen, readerFailed>>
    BY <1>7 DEF Reader!Read
  <2>2. readerCursor \in 0..Size
    BY <1>1, <2>1 DEF CursorInv, Reader!TypeOK
  <2>3. end \in readerCursor..Size /\ readerFile[end].last
    <3>1. end \in Reader!Stops(readerCursor)
      BY <2>2, ScanStops
    <3> HIDE DEF end
    <3> QED
      BY <2>1, <2>2, <3>1 DEF Reader!Stops, Size
  <2>4. lines \in Seq(Nat)
    <3>1. Reader!LineOf(readerCursor) \in Nat /\ Reader!LineOf(end) \in Nat
          /\ Reader!LineOf(readerCursor) <= Reader!LineOf(end)
      <4> HIDE DEF end
      <4> QED
        BY <1>1, <2>2, <2>3 DEF Reader!LineOf, LinesInOrder
    <3> HIDE DEF end
    <3> QED
      BY <3>1, Numbered DEF Reader!Lines
  <2> HIDE DEF end
  <2> HIDE DEF lines
  <2>6. readerBatch'.end = end /\ readerBatch'.lines = lines
        /\ readerBatch' \in [end : Nat \cup {NoCursor}, lines : Seq(Nat)]
    BY <1>1, <2>1, <2>2, <2>3, <2>4
  <2>7. BatchInv'
    BY <1>1, <2>1, <2>2, <2>3, <2>6 DEF BatchInv, Size, Reader!Lines, Reader!LineOf, lines
  <2>8. Reader!TypeOK'
    BY <2>1, <2>6 DEF Reader!TypeOK
  <2> QED
    BY <1>4, <2>1, <2>7, <2>8
<1>8. CASE Reader!ReadFails
  <2>1. /\ readerCursor # NoCursor /\ readerFailed'
        /\ readerReplaced \/ Reader!Scan(readerCursor).corrupt
        /\ UNCHANGED <<readerFile, readerUnwritten, readerReplaced, readerCursor, readerStart,
                       readerBatch, readerSeen>>
    BY <1>8 DEF Reader!ReadFails
  <2>2. Reader!Scan(readerCursor).corrupt => Reader!Fragment(readerStart) \/ LongLine
    <3> DEFINE stop == Reader!Scan(readerCursor).end
    <3>1. readerCursor \in 0..Size
      BY <1>1, <2>1 DEF CursorInv, Reader!TypeOK
    <3>2. stop \in Reader!Stops(readerCursor)
      BY <3>1, ScanStops
    <3>3. Reader!Scan(readerCursor).corrupt <=> ~Reader!BatchEnds(readerCursor, stop)
      BY DEF Reader!Scan
    <3> HIDE DEF stop
    <3>4. /\ stop \in 0..Size /\ (stop = readerCursor \/ readerFile[stop].last)
          /\ \/ Reader!BatchEnds(readerCursor, stop) \/ Reader!TooLong(stop)
             \/ Reader!Fragment(stop)
      BY <1>1, <3>1, <3>2 DEF Reader!Stops, Size
    <3>5. Reader!TooLong(stop) => LongLine
      BY <3>4, TooLongIsLong
    <3>6. Reader!Fragment(stop) => stop = readerStart
      BY <2>1, <3>4 DEF Reader!Fragment, CursorInv
    <3> QED
      BY <3>3, <3>4, <3>5, <3>6
  <2>3. Reader!TypeOK'
    BY <2>1, <1>8 DEF Reader!TypeOK, Reader!ReadFails
  <2> QED
    BY <1>4, <2>1, <2>2, <2>3
<1>9. CASE Reader!Commit
  BY <1>9, CommitTakes
<1>10. CASE Reader!Crash
  <2>1. Reader!NoBatch \in [end : Nat \cup {NoCursor}, lines : Seq(Nat)]
    BY DEF Reader!NoBatch
  <2> QED
    BY <1>4, <1>10, <2>1 DEF Reader!Crash, Reader!TypeOK
<1>11. CASE UNCHANGED Reader!vars
  BY <1>4, <1>11 DEF Reader!vars, Reader!TypeOK
<1> QED
  BY <1>2, <1>3, <1>5, <1>6, <1>7, <1>8, <1>9, <1>10, <1>11 DEF Reader!Next

(* The instance's own Cardinality is the one of the theorems.              *)
LEMMA SameCardinality == \A S : Reader!Cardinality(S) = Cardinality(S)
BY Zenon DEF Reader!Cardinality, Cardinality

(* A line with too many pieces shows when they are counted.                *)
LEMMA LongLineCounts ==
    ASSUME Reader!TypeOK, LongLine
    PROVE  \E i \in DOMAIN readerFile :
              Reader!Cardinality({k \in DOMAIN readerFile :
                                    readerFile[k].line = readerFile[i].line}) > MaxLine
<1>1. Size \in Nat /\ DOMAIN readerFile = 1..Size
  BY DEF Size, Reader!TypeOK
<1>2. PICK i \in 0..Size, j \in 0..Size :
         /\ j - i > MaxLine
         /\ \A k \in (i + 1)..j : readerFile[k].line = readerFile[j].line
  BY DEF LongLine
<1> DEFINE whole == {k \in DOMAIN readerFile : readerFile[k].line = readerFile[j].line}
<1>3. j \in DOMAIN readerFile /\ (i + 1)..j \subseteq whole /\ whole \subseteq 1..Size
  BY <1>1, <1>2, ReaderAssumption
<1> HIDE DEF whole
<1>4. IsFiniteSet(whole)
  <2>1. IsFiniteSet(1..Size) /\ whole \in SUBSET (1..Size)
    BY <1>1, <1>3, FS_Interval
  <2> QED
    BY <2>1, FS_Subset
<1>5. Cardinality((i + 1)..j) = j - i
  BY <1>2, FS_Interval, ReaderAssumption
<1>6. Cardinality((i + 1)..j) <= Cardinality(whole) /\ Cardinality(whole) \in Nat
  BY <1>3, <1>4, FS_Subset, FS_CardinalityType
<1>7. Reader!Cardinality(whole) > MaxLine
  BY <1>2, <1>5, <1>6, SameCardinality, ReaderAssumption
<1> QED
  BY <1>3, <1>7 DEF whole

(* Wherever a write stops and a watcher dies, for lines and batches of any *)
(* length: the records taken are the complete lines in order, none twice,  *)
(* and a session is given up for a cause (read_new_records).               *)
THEOREM LinesAreTakenOnce == PartsSpec => []LinesAreTaken
<1>1. PartsInit => ReaderInv
  <2> SUFFICES ASSUME PartsInit PROVE ReaderInv
    OBVIOUS
  <2>1. Reader!NoBatch \in [end : Nat \cup {NoCursor}, lines : Seq(Nat)]
    BY DEF Reader!NoBatch
  <2>2. Reader!Init
    BY DEF PartsInit
  <2> QED
    <3>1. Reader!TypeOK
      <4>1. readerFile \in Seq([line : Nat, last : BOOLEAN]) /\ readerSeen \in Seq(Nat)
        BY <2>2 DEF Reader!Init
      <4>2. readerBatch \in [end : Nat \cup {NoCursor}, lines : Seq(Nat)]
        BY <2>1, <2>2 DEF Reader!Init
      <4> QED
        BY <2>2, <4>1, <4>2 DEF Reader!Init, Reader!TypeOK
    <3>2. Size = 0 /\ Reader!LineOf(0) = 0
      BY <2>2 DEF Reader!Init, Size, Reader!LineOf
    <3>3. LinesInOrder
      BY <2>2, <3>2 DEF Reader!Init, LinesInOrder
    <3>4. CursorInv /\ BatchInv /\ ~readerFailed
      BY <2>2 DEF Reader!Init, CursorInv, BatchInv
    <3> QED
      BY <3>1, <3>3, <3>4 DEF ReaderInv
<1>2. [PartsNext]_partsVars => [Reader!Next]_(Reader!vars)
  BY DEF PartsNext, partsVars, readerVars, Reader!vars
<1>3. ReaderInv => LinesAreTaken
  <2> SUFFICES ASSUME ReaderInv PROVE Reader!LinesAreTaken
    BY DEF LinesAreTaken
  <2> USE DEF ReaderInv
  <2>1. Reader!TakenInOrder
    <3>1. DOMAIN readerSeen = 1..Len(readerSeen) /\ DOMAIN <<>> = {}
      BY DEF Reader!TypeOK
    <3> QED
      BY <3>1 DEF Reader!TakenInOrder, CursorInv
  <2>2. Reader!FailureHasACause
    BY LongLineCounts DEF Reader!FailureHasACause
  <2> QED
    BY <2>1, <2>2 DEF Reader!LinesAreTaken
<1> QED
  BY <1>1, <1>2, <1>3, ReaderInduction, PTL DEF PartsSpec
===============================================================================
