----------------------------- MODULE WatcherProofs -----------------------------
(***************************************************************************)
(* What daemons that share a state root announce, for any number of        *)
(* daemons, sessions, crashes and failures; what one daemon makes of its   *)
(* session, for any of the latter.                                         *)
(***************************************************************************)
EXTENDS NotificationWatcher, FiniteSetTheorems, TLAPS

USE WatcherAssumption, ThresholdAssumption

Distinct(s) == \A i, j \in DOMAIN s : s[i] = s[j] => i = j

Apart(s, t) == \A i \in DOMAIN s, j \in DOMAIN t : s[i] # t[j]

(* A recorded transition waits in one queue at most, once, until it is     *)
(* sent.                                                                   *)
Queues ==
    /\ sent \in Seq(log) /\ Distinct(sent)
    /\ pending \in [Daemons -> Seq(log)]
    /\ \A d \in Daemons : Distinct(pending[d]) /\ Apart(pending[d], sent)
    /\ \A d, e \in Daemons : d # e => Apart(pending[d], pending[e])

(* The members of a finite set in some order.                              *)
LEMMA SetInOrder ==
    ASSUME NEW S, IsFiniteSet(S)
    PROVE  SetToSeq(S) \in Seq(S) /\ Distinct(SetToSeq(S))
<1>1. Cardinality(S) \in Nat /\ ExistsBijection(1..Cardinality(S), S)
  BY FS_CardinalityType
<1>2. \E f \in [1..Cardinality(S) -> S] : IsInjective(f)
  BY <1>1 DEF ExistsBijection, Bijection, Injection
<1>3. SetToSeq(S) \in [1..Cardinality(S) -> S] /\ IsInjective(SetToSeq(S))
  BY <1>2 DEF SetToSeq
<1> QED
  BY <1>1, <1>3 DEF IsInjective, Distinct

(* Where the members of a concatenation come from.                         *)
LEMMA ConcatMembers ==
    ASSUME NEW S, NEW q \in Seq(S), NEW r \in Seq(S), NEW i \in DOMAIN (q \o r)
    PROVE  \/ i \in DOMAIN q /\ (q \o r)[i] = q[i]
           \/ i - Len(q) \in DOMAIN r /\ (q \o r)[i] = r[i - Len(q)]
<1>1. Len(q) \in Nat /\ Len(r) \in Nat /\ i \in 1..(Len(q) + Len(r))
  OBVIOUS
<1>2. DOMAIN q = 1..Len(q) /\ DOMAIN r = 1..Len(r)
  OBVIOUS
<1>3. CASE i > Len(q)
  BY <1>1, <1>2, <1>3
<1>4. CASE i <= Len(q)
  BY <1>1, <1>2, <1>4
<1> QED
  BY <1>1, <1>3, <1>4

(* Two queues without a common member stay distinct when joined.           *)
LEMMA ConcatDistinct ==
    ASSUME NEW S, NEW q \in Seq(S), NEW r \in Seq(S), Distinct(q), Distinct(r), Apart(q, r)
    PROVE  Distinct(q \o r)
<1> SUFFICES ASSUME NEW i \in DOMAIN (q \o r), NEW j \in DOMAIN (q \o r),
                    (q \o r)[i] = (q \o r)[j]
             PROVE  i = j
  BY DEF Distinct
<1> DEFINE n == Len(q)
           s == q \o r
           InQ(k) == k \in DOMAIN q /\ s[k] = q[k]
           InR(k) == k - n \in DOMAIN r /\ s[k] = r[k - n]
<1>1. (InQ(i) \/ InR(i)) /\ (InQ(j) \/ InR(j))
  BY ConcatMembers
<1>2. i \in Nat /\ j \in Nat /\ n \in Nat /\ s[i] = s[j]
  OBVIOUS
<1> HIDE DEF s, n
<1>3. CASE InQ(i) /\ InQ(j)
  BY <1>2, <1>3 DEF Distinct
<1>4. CASE InR(i) /\ InR(j)
  <2>1. i - n = j - n
    BY <1>2, <1>4 DEF Distinct
  <2> QED
    BY <1>2, <2>1
<1>5. CASE InQ(i) /\ InR(j)
  BY <1>2, <1>5 DEF Apart
<1>6. CASE InR(i) /\ InQ(j)
  BY <1>2, <1>6 DEF Apart
<1> QED
  BY <1>1, <1>3, <1>4, <1>5, <1>6

(* A queue apart from two others is apart from their concatenation.        *)
LEMMA ConcatApart ==
    ASSUME NEW S, NEW q \in Seq(S), NEW r \in Seq(S), NEW t, Apart(q, t), Apart(r, t)
    PROVE  Apart(q \o r, t) /\ Apart(t, q \o r)
<1> SUFFICES ASSUME NEW i \in DOMAIN (q \o r), NEW j \in DOMAIN t
             PROVE  (q \o r)[i] # t[j] /\ t[j] # (q \o r)[i]
  BY DEF Apart
<1> DEFINE s == q \o r
           n == Len(q)
<1>1. \/ i \in DOMAIN q /\ s[i] = q[i]
      \/ i - n \in DOMAIN r /\ s[i] = r[i - n]
  BY ConcatMembers
<1> HIDE DEF s, n
<1>2. s[i] # t[j]
  BY <1>1 DEF Apart
<1> QED
  BY <1>2 DEF s

(* What the recorder does with the transitions of a tick.                  *)
LEMMA RecordQueues ==
    ASSUME Queues, NEW d \in Daemons, NEW T, IsFiniteSet(T), Record(d, T), sent' = sent
    PROVE  Queues'
<1> DEFINE new == T \ log
           r == SetToSeq(new)
           q == pending[d]
<1>1. r \in Seq(new) /\ Distinct(r)
  <2>1. IsFiniteSet(new)
    BY FS_Subset
  <2> QED
    BY <2>1, SetInOrder
<1>2. log' = log \cup new /\ pending' = [pending EXCEPT ![d] = q \o r]
  BY DEF Record
<1> HIDE DEF r
<1>3. q \in Seq(log) /\ Distinct(q) /\ Apart(q, sent)
  BY DEF Queues
<1>4. q \in Seq(log') /\ r \in Seq(log') /\ q \o r \in Seq(log')
  BY <1>1, <1>2, <1>3
<1>5. ASSUME NEW s \in Seq(log) PROVE Apart(r, s)
  BY <1>1 DEF Apart
<1>6. Distinct(q \o r)
  <2>1. Apart(q, r)
    BY <1>3, <1>5 DEF Apart
  <2> QED
    BY <1>1, <1>3, <1>4, <2>1, ConcatDistinct
<1>7. ASSUME NEW s \in Seq(log), Apart(q, s) PROVE Apart(q \o r, s) /\ Apart(s, q \o r)
  BY <1>4, <1>5, <1>7, ConcatApart
<1>8. pending' \in [Daemons -> Seq(log')] /\ sent' \in Seq(log')
  BY <1>2, <1>4 DEF Queues
<1>9. ASSUME NEW e \in Daemons PROVE Distinct(pending'[e]) /\ Apart(pending'[e], sent')
  BY <1>2, <1>3, <1>6, <1>7 DEF Queues
<1>10. ASSUME NEW a \in Daemons, NEW b \in Daemons, a # b PROVE Apart(pending'[a], pending'[b])
  <2>1. CASE a = d
    BY <1>2, <1>7, <1>10, <2>1 DEF Queues
  <2>2. CASE b = d
    <3>1. Apart(q, pending[a]) /\ pending[a] \in Seq(log)
      BY <1>10, <2>2 DEF Queues
    <3> QED
      BY <1>2, <1>7, <1>10, <2>2, <3>1 DEF Queues
  <2>3. CASE a # d /\ b # d
    BY <1>2, <1>10, <2>3 DEF Queues
  <2> QED
    BY <2>1, <2>2, <2>3
<1> QED
  BY <1>8, <1>9, <1>10 DEF Queues

(* Taking the next announcement from a queue.                              *)
LEMMA TakeQueues ==
    ASSUME Queues, NEW d \in Daemons, pending[d] # <<>>, log' = log,
           pending' = [pending EXCEPT ![d] = Tail(@)],
           sent' \in {sent, Append(sent, Head(pending[d]))}
    PROVE  Queues'
<1> DEFINE q == pending[d]
           h == Head(q)
           t == Tail(q)
<1>1. q \in Seq(log) /\ Len(q) \in Nat /\ q # <<>> /\ Distinct(q) /\ Apart(q, sent)
  BY DEF Queues
<1>2. t \in Seq(log) /\ h \in log /\ h = q[1] /\ 1 \in DOMAIN q
  BY <1>1
<1>3. \A i \in DOMAIN t : i + 1 \in DOMAIN q /\ i \in Nat /\ i > 0 /\ t[i] = q[i + 1]
  <2> HIDE DEF q
  <2>1. Len(t) = Len(q) - 1 /\ DOMAIN t = 1..(Len(q) - 1) /\ DOMAIN q = 1..Len(q)
    BY <1>1
  <2>2. \A i \in 1..(Len(q) - 1) : t[i] = q[i + 1]
    BY <1>1
  <2> QED
    BY <1>1, <2>1, <2>2
<1>4. sent \in Seq(log) /\ Distinct(sent) /\ Len(sent) \in Nat
  BY DEF Queues
<1>5. pending' = [pending EXCEPT ![d] = t] /\ sent' \in {sent, Append(sent, h)}
  OBVIOUS
<1> HIDE DEF q, h, t
<1>6. Distinct(t) /\ \A i \in DOMAIN t : t[i] # h
  <2>1. ASSUME NEW i \in DOMAIN t PROVE t[i] # h
    <3>1. i + 1 \in DOMAIN q /\ i + 1 # 1 /\ t[i] = q[i + 1]
      BY <1>3
    <3> QED
      BY <1>1, <1>2, <3>1 DEF Distinct
  <2>2. ASSUME NEW i \in DOMAIN t, NEW j \in DOMAIN t, t[i] = t[j] PROVE i = j
    <3>1. i + 1 = j + 1
      BY <1>1, <1>3, <2>2 DEF Distinct
    <3> QED
      BY <1>3, <3>1
  <2> QED
    BY <2>1, <2>2 DEF Distinct
<1>7. ASSUME NEW s, Apart(q, s) PROVE Apart(t, s)
  BY <1>3, <1>7 DEF Apart
<1>8. ASSUME NEW s, Apart(s, sent), \A i \in DOMAIN s : s[i] # h PROVE Apart(s, sent')
  <2>1. CASE sent' = sent
    BY <1>8, <2>1
  <2>2. CASE sent' = Append(sent, h)
    <3>1. \A i \in DOMAIN sent' : (i \in DOMAIN sent /\ sent'[i] = sent[i]) \/ sent'[i] = h
      BY <1>4, <2>2
    <3> QED
      BY <1>8, <3>1 DEF Apart
  <2> QED
    BY <1>5, <2>1, <2>2
<1>9. sent' \in Seq(log') /\ Distinct(sent')
  <2>1. CASE sent' = sent
    BY <1>4, <2>1
  <2>2. CASE sent' = Append(sent, h)
    <3>1. sent' \in Seq(log')
      BY <1>2, <1>4, <2>2
    <3>2. \A i \in DOMAIN sent : h # sent[i]
      BY <1>1, <1>2 DEF Apart
    <3>3. \A i \in DOMAIN sent' :
            \/ i \in DOMAIN sent /\ sent'[i] = sent[i]
            \/ i = Len(sent) + 1 /\ sent'[i] = h
      BY <1>4, <2>2
    <3> QED
      BY <1>4, <3>1, <3>2, <3>3 DEF Distinct
  <2> QED
    BY <1>5, <2>1, <2>2
<1>10. pending' \in [Daemons -> Seq(log')]
  BY <1>2, <1>5 DEF Queues
<1>11. ASSUME NEW e \in Daemons PROVE Distinct(pending'[e]) /\ Apart(pending'[e], sent')
  <2>1. CASE e = d
    BY <1>1, <1>5, <1>6, <1>7, <1>8, <2>1 DEF Queues
  <2>2. CASE e # d
    <3>1. pending'[e] = pending[e] /\ Apart(pending[e], sent) /\ Distinct(pending[e])
      BY <1>5, <2>2 DEF Queues
    <3>2. \A i \in DOMAIN pending[e] : pending[e][i] # h
      BY <1>2, <2>2 DEF Queues, Apart, q
    <3> QED
      BY <1>8, <3>1, <3>2
  <2> QED
    BY <2>1, <2>2
<1>12. ASSUME NEW a \in Daemons, NEW b \in Daemons, a # b PROVE Apart(pending'[a], pending'[b])
  <2>1. Apart(pending[a], pending[b]) /\ Apart(pending[b], pending[a])
    BY <1>12 DEF Queues
  <2>2. CASE a = d
    BY <1>5, <1>7, <1>12, <2>1, <2>2 DEF Queues, q
  <2>3. CASE b = d
    <3>1. Apart(t, pending[a])
      BY <1>7, <2>1, <2>3 DEF q
    <3>2. pending'[a] = pending[a] /\ pending'[b] = t
      BY <1>5, <1>12, <2>3 DEF Queues
    <3>3. Apart(pending[a], t)
      BY Zenon, <3>1 DEF Apart
    <3> QED
      BY Zenon, <3>2, <3>3
  <2>4. CASE a # d /\ b # d
    BY <1>5, <2>1, <2>4 DEF Queues
  <2> QED
    BY <2>2, <2>3, <2>4
<1> QED
  BY <1>9, <1>10, <1>11, <1>12 DEF Queues

(* A process that dies forgets its queue.                                  *)
LEMMA ForgetQueues ==
    ASSUME Queues, NEW d \in Daemons, log' = log, sent' = sent,
           pending' = [pending EXCEPT ![d] = <<>>]
    PROVE  Queues'
<1>1. <<>> \in Seq(log) /\ Distinct(<<>>) /\ DOMAIN <<>> = {}
  BY DEF Distinct
<1>2. \A s : Apart(<<>>, s) /\ Apart(s, <<>>)
  BY DEF Apart
<1>3. \A e \in Daemons : pending'[e] = IF e = d THEN <<>> ELSE pending[e]
  BY DEF Queues
<1>4. pending' \in [Daemons -> Seq(log')] /\ sent' \in Seq(log') /\ Distinct(sent')
  BY <1>1 DEF Queues
<1>5. \A e \in Daemons : Distinct(pending'[e]) /\ Apart(pending'[e], sent')
  BY <1>1, <1>2, <1>3 DEF Queues
<1>6. \A a, b \in Daemons : a # b => Apart(pending'[a], pending'[b])
  BY <1>2, <1>3 DEF Queues
<1> QED
  BY <1>4, <1>5, <1>6 DEF Queues

(* The transitions of a tick are finitely many.                            *)
LEMMA TickIsFinite ==
    ASSUME NEW d \in Daemons
    PROVE  /\ IsFiniteSet(RecoveryOf(d))
           /\ IsFiniteSet(RecoveryOf(d) \cup DiagnosticOf(d))
<1>1. RecoveryOf(d) \in {{}, {Entry("recovered", runtime.epoch)}}
  BY DEF RecoveryOf
<1>2. \E x : DiagnosticOf(d) \in {{}, {x}}
  BY DEF DiagnosticOf
<1>3. IsFiniteSet({}) /\ \A x : IsFiniteSet({x})
  BY FS_EmptySet, FS_Singleton
<1>4. IsFiniteSet(RecoveryOf(d)) /\ IsFiniteSet(DiagnosticOf(d))
  BY <1>1, <1>2, <1>3
<1> QED
  BY <1>4, FS_Union

(* No step announces a transition twice or one the log does not hold.      *)
LEMMA NextQueues ==
    ASSUME Queues, [Next]_vars
    PROVE  Queues'
<1>1. ASSUME UNCHANGED <<log, sent, pending>> PROVE Queues'
  BY <1>1 DEF Queues, Distinct, Apart
<1>2. CASE Thread \/ Clock \/ UNCHANGED vars
  BY <1>1, <1>2 DEF Thread, EmitItem, EmitStart, EmitResult, Emit, Clock, vars, files, memory
<1>3. ASSUME NEW d \in Daemons, Request(d) \/ DaemonStep(d) \/ Fault(d) \/ Restart(d)
      PROVE  Queues'
  <2>1. CASE Request(d) \/ Restart(d)
    BY <1>1, <2>1 DEF Request, Start, Stop, Complete, Restart, files, memory
  <2>2. CASE TickBegins(d) \/ TickEnds(d) \/ CompleteEnds(d)
    BY <1>1, <2>2 DEF TickBegins, TickEnds, CompleteEnds, files, memory
  <2>3. CASE Scan(d) \/ ReadBatch(d) \/ CommitRefused(d)
    <3>1. UNCHANGED files /\ UNCHANGED memory /\ UNCHANGED sent
      BY <2>3 DEF Scan, ReadBatch, CommitRefused
    <3> QED
      BY <1>1, <3>1 DEF files, memory
  <2>4. CASE WriteRuntime(d) \/ WriteCursor(d) \/ RemoveRuntime(d) \/ RemoveCursor(d)
    BY <1>1, <2>4 DEF WriteRuntime, WriteCursor, RemoveRuntime, RemoveCursor, memory
  <2>5. CASE CommitProgress(d)
    <3>1. Record(d, RecoveryOf(d) \cup DiagnosticOf(d)) /\ sent' = sent
      BY <2>5 DEF CommitProgress, Commit
    <3> QED
      BY <3>1, RecordQueues, TickIsFinite
  <2>6. CASE CommitCompletion(d)
    <3>1. PICK T \in {{}, {Completion}} : Record(d, T)
      BY <2>6 DEF CommitCompletion
    <3>2. sent' = sent
      BY <2>6 DEF CommitCompletion, Commit
    <3>3. IsFiniteSet(T)
      <4>1. T = {} \/ T = {Completion}
        OBVIOUS
      <4>2. IsFiniteSet({}) /\ IsFiniteSet({Completion})
        BY FS_EmptySet, FS_Singleton
      <4> QED
        BY <4>1, <4>2
    <3> QED
      BY <3>1, <3>2, <3>3, RecordQueues
  <2>7. CASE LogFailsAfterEvaluation(d)
    <3>1. Record(d, RecoveryOf(d)) /\ sent' = sent
      BY <2>7 DEF LogFailsAfterEvaluation
    <3> QED
      BY <3>1, RecordQueues, TickIsFinite
  <2>8. CASE Deliver(d) \/ DeliveryRefused(d)
    BY <2>8, TakeQueues DEF Deliver, DeliveryRefused, files
  <2>9. CASE FileFails(d) \/ LogFailsBeforeEvaluation(d)
    <3>1. UNCHANGED <<log, sent, pending>>
      BY <2>9 DEF FileFails, LogFailsBeforeEvaluation, files, memory
    <3> QED
      BY <1>1, <3>1
  <2>10. CASE Crash(d)
    BY <2>10, ForgetQueues DEF Crash, files
  <2> QED
    BY <1>3, <2>1, <2>2, <2>3, <2>4, <2>5, <2>6, <2>7, <2>8, <2>9, <2>10
       DEF DaemonStep, Fault
<1> QED
  BY <1>2, <1>3 DEF Next

(* Nothing waits and nothing was announced before the first daemon ran.    *)
LEMMA InitQueues == Init => Queues
<1> SUFFICES ASSUME Init PROVE Queues
  OBVIOUS
<1>1. sent = <<>> /\ pending = [d \in Daemons |-> <<>>]
  BY DEF Init, Untouched
<1>2. <<>> \in Seq(log) /\ DOMAIN <<>> = {}
  OBVIOUS
<1> QED
  BY <1>1, <1>2 DEF Queues, Distinct, Apart

(* Every transition is announced at most once, and only when the log holds *)
(* it, however many daemons share the state root, crash, restart, fail to  *)
(* write a file or to append to the log, and however often the session is  *)
(* removed and created again (DiagnosticTransitionRecorder.record, flush). *)
THEOREM TransitionsAreAnnouncedOnce == Spec => []AnnouncedOnce
<1>1. Init => Queues
  BY InitQueues
<1>2. Queues /\ [Next]_vars => Queues'
  BY NextQueues
<1>3. Queues => AnnouncedOnce
  <2> SUFFICES ASSUME Queues PROVE AnnouncedOnce
    OBVIOUS
  <2>1. sent \in Seq(log) /\ Distinct(sent)
    BY DEF Queues
  <2>2. \A i \in DOMAIN sent : sent[i] \in log
    BY <2>1
  <2> QED
    BY <2>1, <2>2 DEF AnnouncedOnce, Distinct
<1> QED
  BY <1>1, <1>2, <1>3, PTL DEF Spec

-----------------------------------------------------------------------------
(***************************************************************************)
(* One daemon and the session it watches.  Two daemons can undo each       *)
(* other's files, and a daemon keeps its detector when a session is        *)
(* removed and created again, so what follows supposes one daemon          *)
(* (OneDaemon), and from OneSession on one session; crashes, restarts and  *)
(* failed writes are as many as the bounds allow.  The argument is in      *)
(* three layers, each using the ones before: what a tick finds is still    *)
(* there when it ends (Alone); what was consumed, advanced and completed   *)
(* agrees with the files (History); a warning in memory is one in the log  *)
(* (Warned), for which the log must not fail (ReliableLog).                *)
(***************************************************************************)
(* What the operations on a detector leave alone.                          *)
LEMMA DetectorFields ==
    ASSUME NEW s \in SilenceState, NEW at
    PROVE  /\ \A w \in Waits : /\ SetWaits(s, w).since = s.since
                             /\ SetWaits(s, w).waits = w
                             /\ SetWaits(s, w).warned = s.warned
           /\ RestoreSuspected(s).since = s.since
           /\ RestoreSuspected(s).waits = s.waits
           /\ RestoreSuspected(s).warned
           /\ Evaluate(s, at).since = s.since
           /\ Evaluate(s, at).waits = s.waits
           /\ Evaluate(s, at).warned = (s.warned \/ ActionAt(s, at) = "silence")
BY Zenon DEF SilenceState, SetWaits, RestoreSuspected, Evaluate

(* What the operations on a detector keep in range.                        *)
LEMMA DetectorTypes ==
    ASSUME NEW s \in SilenceState, NEW at \in Int
    PROVE  /\ \A w \in Waits : SetWaits(s, w) \in SilenceState
           /\ RestoreSuspected(s) \in SilenceState
           /\ InitialState(at) \in SilenceState
           /\ Evaluate(s, at) \in SilenceState
           /\ RecordProgress(s, at) \in SilenceState
<1>1. s.phase \in Phases /\ s.waits \in Waits /\ s.warned \in BOOLEAN /\ s.critical \in BOOLEAN
  BY DEF SilenceState
<1>2. {"healthy", "paused", "silent_warned", "critical", "terminal"} = Phases /\ Waits = {"none", "paused", "terminal"}
  BY DEF Phases, Waits
<1>9. \A p \in Phases, w \in Waits : [s EXCEPT !.waits = w, !.phase = p] \in SilenceState
  BY Zenon DEF SilenceState
<1>3. \A p \in Phases, b \in BOOLEAN, c \in BOOLEAN :
         /\ [s EXCEPT !.phase = p, !.warned = b] \in SilenceState
         /\ [s EXCEPT !.since = at, !.warned = b, !.critical = c, !.phase = p] \in SilenceState
         /\ [s EXCEPT !.warned = b, !.critical = c, !.phase = p] \in SilenceState
  BY Zenon DEF SilenceState
<1>4. ASSUME NEW w \in Waits PROVE SetWaits(s, w) \in SilenceState
  <2>1. (CASE w = "terminal" -> "terminal"
          [] w = "paused" -> "paused"
          [] OTHER -> IF s.waits = "paused" THEN "healthy" ELSE s.phase) \in Phases
    BY Zenon, <1>1, <1>2
  <2> QED
    BY Zenon, <1>9, <2>1 DEF SetWaits
<1>5. RestoreSuspected(s) \in SilenceState
  BY Zenon, <1>2, <1>3 DEF RestoreSuspected
<1>6. InitialState(at) \in SilenceState
  BY <1>2 DEF InitialState, SilenceState
<1>7. Evaluate(s, at) \in SilenceState
  <2> DEFINE action == ActionAt(s, at)
             phase == IF s.waits # "none" THEN s.waits
                      ELSE IF at - s.since < Warning THEN "healthy"
                      ELSE IF action = "critical" THEN "critical"
                      ELSE IF action = "silence" \/ at - s.since < Critical THEN "silent_warned"
                      ELSE s.phase
  <2>1. phase \in Phases
    BY <1>1, <1>2
  <2>2. (s.warned \/ action = "silence") \in BOOLEAN /\ (s.critical \/ action = "critical") \in BOOLEAN
    BY Zenon
  <2>3. Evaluate(s, at) = [s EXCEPT !.warned = s.warned \/ action = "silence",
                                    !.critical = s.critical \/ action = "critical", !.phase = phase]
    BY Zenon, <1>1 DEF Evaluate, SilenceState
  <2> HIDE DEF phase, action
  <2> QED
    BY Zenon, <1>3, <2>1, <2>2, <2>3
<1>8. RecordProgress(s, at) \in SilenceState
  <2>1. (IF s.waits = "paused" THEN "paused" ELSE "healthy") \in Phases
    BY Zenon, <1>2
  <2> QED
    BY Zenon, <1>3, <2>1 DEF RecordProgress
<1> QED
  BY <1>4, <1>5, <1>6, <1>7, <1>8

(* Accepted progress starts a new silence and forgets the old warning.     *)
LEMMA ProgressFields ==
    ASSUME NEW s \in SilenceState, NEW at, AcceptsProgress(s, at)
    PROVE  /\ RecordProgress(s, at).since = at
           /\ RecordProgress(s, at).waits = s.waits
           /\ ~RecordProgress(s, at).warned
BY Zenon DEF SilenceState, RecordProgress

(* No diagnostic before the warning is due, and none critical before it.   *)
LEMMA ActionCases ==
    ASSUME NEW s \in SilenceState, NEW at \in Int, s.waits # "terminal"
    PROVE  /\ at - s.since < Warning => ActionAt(s, at) = "none"
           /\ ActionAt(s, at) = "critical" => s.warned
BY Zenon DEF SilenceState, ActionAt

OneDaemon == \E d : Daemons = {d} /\ d # NoOne

Places == {"idle", "down", "removing", "dropping", "scanning", "reading", "committing",
           "writing", "storing", "flushing"}
Runtimes == [complete : BOOLEAN, finished : BOOLEAN, anchor : Nat, epoch : Nat, revision : Int]
Ops == [purpose : {"none", "stop", "complete", "tick"}, revision : Int, from : Int, to : Int,
        next : Runtimes, active : BOOLEAN, failed : BOOLEAN]
Records == [kind : {"item", "start", "result"}, call : Calls \cup {NoCall}, at : Nat]

(* What the clock, the thread and the files can be, whatever daemons do.   *)
Times ==
    /\ now \in 0..MaxTime
    /\ rollout \in Seq(Records) /\ Len(rollout) <= MaxEvents
    /\ \A i \in DOMAIN rollout :
         rollout[i].at <= now /\ (rollout[i].kind # "item" => rollout[i].call \in Calls)

Files ==
    /\ runtime \in Runtimes /\ runtime.anchor <= now /\ runtime.revision >= -1
    /\ runtime.revision = -1 => runtime = NoRuntime
    /\ runtime.finished => runtime.complete
    /\ cursor \in -1..Len(rollout)
    /\ baseline \in Int

Memory ==
    /\ lock \in Daemons \cup {NoOne}
    /\ pc \in [Daemons -> Places]
    /\ detector \in [Daemons -> SilenceState]
    /\ openCalls \in [Daemons -> SUBSET Calls]
    /\ scheduled \in [Daemons -> BOOLEAN]
    /\ op \in [Daemons -> Ops]

Budget ==
    /\ spent \in [Bounds -> Nat]
    /\ spent["stops"] <= MaxStops /\ spent["failures"] <= MaxFailures
    /\ spent["activations"] <= MaxActivations

Values == Times /\ Files /\ Memory /\ Budget

(* A tick that nobody disturbs: the session it read is there until it ends.*)
Undisturbed(d) ==
    /\ lock = d <=> pc[d] \in {"writing", "storing"}
    /\ pc[d] \in {"reading", "committing", "writing"} =>
         runtime.revision # -1 /\ runtime.revision = op[d].revision
    /\ pc[d] = "reading" => ~runtime.complete
    /\ pc[d] = "storing" => runtime.revision # -1
    /\ pc[d] \in {"scanning", "reading"} => op[d].from = -1 /\ op[d].to = -1
    /\ pc[d] \in {"committing", "writing", "storing"} =>
         \/ runtime.complete /\ op[d].from = -1 /\ op[d].to = -1
         \/ ~runtime.complete /\ op[d].from = cursor /\ op[d].to \in 0..Len(rollout)
            /\ op[d].from <= op[d].to
    /\ pc[d] = "writing" => LET next == op[d].next IN
         /\ next.revision = runtime.revision => next = runtime
         /\ next.revision >= 0
         /\ next.complete = runtime.complete /\ (next.finished => next.complete)
         /\ runtime.finished => next.finished
         /\ next.anchor <= now

(* Who will look at the session again.                                     *)
Attended(d) == runtime.revision # -1 =>
    /\ pc[d] = "idle" => scheduled[d] \/ runtime.finished
    /\ op[d].purpose = "complete" /\ pc[d] # "removing" => scheduled[d] \/ runtime.finished
    /\ op[d].purpose = "tick" /\ pc[d] \in {"storing", "flushing"} =>
          op[d].active \/ op[d].failed \/ runtime.finished
    /\ op[d].purpose = "tick" /\ pc[d] = "writing" => op[d].active \/ op[d].next.finished
    /\ pc[d] # "dropping"

Sole(d) == Undisturbed(d) /\ Attended(d)

(* The runtime and the operation after an update, field by field.          *)
RuntimeIs(r, c, f, a, e, v) ==
    /\ r.complete = c /\ r.finished = f /\ r.anchor = a /\ r.epoch = e /\ r.revision = v

OpIs(j, p, v, f, t, n, a, b) ==
    /\ j.purpose = p /\ j.revision = v /\ j.from = f /\ j.to = t /\ j.next = n
    /\ j.active = a /\ j.failed = b

(* Every update of a runtime, field by field.                              *)
LEMMA RuntimeUpdates ==
    ASSUME NEW r \in Runtimes
    PROVE  /\ \A a \in Nat : LET s == [r EXCEPT !.epoch = @ + 1, !.anchor = a] IN
              s \in Runtimes /\ RuntimeIs(s, r.complete, r.finished, a, r.epoch + 1, r.revision)
           /\ LET s == [r EXCEPT !.complete = TRUE, !.revision = @ + 1] IN
              s \in Runtimes /\ RuntimeIs(s, TRUE, r.finished, r.anchor, r.epoch, r.revision + 1)
           /\ LET s == [r EXCEPT !.revision = @ + 1] IN
              s \in Runtimes /\ RuntimeIs(s, r.complete, r.finished, r.anchor, r.epoch, r.revision + 1)
           /\ LET s == Claimed(r) IN
              s \in Runtimes /\ RuntimeIs(s, r.complete, TRUE, r.anchor, r.epoch, r.revision)
           /\ \A a \in Nat : LET s == [NoRuntime EXCEPT !.anchor = a, !.revision = 0] IN
              s \in Runtimes /\ RuntimeIs(s, FALSE, FALSE, a, 0, 0)
           /\ NoRuntime \in Runtimes /\ RuntimeIs(NoRuntime, FALSE, FALSE, 0, 0, -1)
<1> DEFINE e == r.epoch + 1
           v == r.revision + 1
<1>1. e \in Nat /\ v \in Int
  BY DEF Runtimes
<1>2. NoRuntime \in Runtimes /\ RuntimeIs(NoRuntime, FALSE, FALSE, 0, 0, -1)
  BY DEF NoRuntime, Runtimes, RuntimeIs
<1>3. ASSUME NEW a \in Nat, NEW k \in Nat, NEW m \in Int
      PROVE  /\ [r EXCEPT !.epoch = k, !.anchor = a] \in Runtimes
             /\ [r EXCEPT !.complete = TRUE, !.revision = m] \in Runtimes
             /\ [r EXCEPT !.revision = m] \in Runtimes
             /\ [r EXCEPT !.finished = TRUE] \in Runtimes
             /\ RuntimeIs([r EXCEPT !.epoch = k, !.anchor = a],
                          r.complete, r.finished, a, k, r.revision)
             /\ RuntimeIs([r EXCEPT !.complete = TRUE, !.revision = m],
                          TRUE, r.finished, r.anchor, r.epoch, m)
             /\ RuntimeIs([r EXCEPT !.revision = m],
                          r.complete, r.finished, r.anchor, r.epoch, m)
             /\ RuntimeIs([r EXCEPT !.finished = TRUE],
                          r.complete, TRUE, r.anchor, r.epoch, r.revision)
  BY Zenon DEF Runtimes, RuntimeIs
<1>4. /\ \A a \in Nat : [r EXCEPT !.epoch = @ + 1, !.anchor = a] = [r EXCEPT !.epoch = e, !.anchor = a]
      /\ [r EXCEPT !.complete = TRUE, !.revision = @ + 1] = [r EXCEPT !.complete = TRUE, !.revision = v]
      /\ [r EXCEPT !.revision = @ + 1] = [r EXCEPT !.revision = v]
  BY Zenon DEF Runtimes
<1>5. ASSUME NEW a \in Nat PROVE
      /\ [NoRuntime EXCEPT !.anchor = a, !.revision = 0] \in Runtimes
      /\ RuntimeIs([NoRuntime EXCEPT !.anchor = a, !.revision = 0], FALSE, FALSE, a, 0, 0)
  <2>1. 0 \in Int
    OBVIOUS
  <2> QED
    BY Zenon, <1>2, <2>1 DEF Runtimes, RuntimeIs
<1> HIDE DEF e, v
<1>6. Claimed(r) = [r EXCEPT !.finished = TRUE]
  BY DEF Claimed
<1> QED
  BY Zenon, <1>1, <1>2, <1>3, <1>4, <1>5, <1>6 DEF e, v

(* Every update of an operation, field by field.                           *)
LEMMA OpUpdates ==
    ASSUME NEW j \in Ops
    PROVE  /\ NoOp \in Ops /\ OpIs(NoOp, "none", 0, -1, -1, NoRuntime, FALSE, FALSE)
           /\ \A p \in {"none", "stop", "complete", "tick"} : LET k == [NoOp EXCEPT !.purpose = p] IN
              k \in Ops /\ OpIs(k, p, 0, -1, -1, NoRuntime, FALSE, FALSE)
           /\ \A v \in Int : LET k == [j EXCEPT !.revision = v] IN
              k \in Ops /\ OpIs(k, j.purpose, v, j.from, j.to, j.next, j.active, j.failed)
           /\ \A f, t \in Int : LET k == [j EXCEPT !.from = f, !.to = t] IN
              k \in Ops /\ OpIs(k, j.purpose, j.revision, f, t, j.next, j.active, j.failed)
           /\ \A b \in BOOLEAN : LET k == [j EXCEPT !.active = b] IN
              k \in Ops /\ OpIs(k, j.purpose, j.revision, j.from, j.to, j.next, b, j.failed)
           /\ \A b \in BOOLEAN : LET k == [j EXCEPT !.failed = b] IN
              k \in Ops /\ OpIs(k, j.purpose, j.revision, j.from, j.to, j.next, j.active, b)
           /\ \A b \in BOOLEAN, n \in Runtimes : LET k == [j EXCEPT !.active = b, !.next = n] IN
              k \in Ops /\ OpIs(k, j.purpose, j.revision, j.from, j.to, n, b, j.failed)
<1>1. NoOp \in Ops /\ OpIs(NoOp, "none", 0, -1, -1, NoRuntime, FALSE, FALSE)
  BY DEF NoOp, Ops, OpIs, NoCursor, NoRuntime, Runtimes
<1> QED
  BY Zenon, <1>1 DEF Ops, OpIs

(* One daemon, alone with its files.                                       *)
Alone(d) ==
    /\ d \in Daemons /\ (\A e \in Daemons : e = d) /\ NoOne \notin Daemons
    /\ Values /\ Sole(d)

(* The thread and the clock leave the daemon's files and memory alone.     *)
LEMMA EnvironmentAlone ==
    ASSUME NEW d, Alone(d), Thread \/ Clock
    PROVE  Alone(d)'
<1>1. UNCHANGED <<files, lock, sent, pc, memory, op, spent, history>>
  BY DEF Thread, EmitItem, EmitStart, EmitResult, Emit, Clock
<1>2. CASE Clock
  <2>1. now' = now + 1 /\ now' \in 0..MaxTime /\ rollout' = rollout
    <3>1. now \in 0..MaxTime /\ MaxTime \in Nat
      BY DEF Alone, Values, Times
    <3> QED
      BY <1>2, <3>1 DEF Clock
  <2>2. Times'
    <3>1. \A i \in DOMAIN rollout : rollout[i].at \in Nat
      <4>1. \A i \in DOMAIN rollout : rollout[i] \in Records
        BY DEF Alone, Values, Times
      <4> QED
        BY <4>1 DEF Records
    <3> QED
      BY <2>1, <3>1 DEF Alone, Values, Times
  <2>3. Files'
    <3>1. now \in Nat /\ runtime.anchor \in Nat /\ Files
      BY DEF Alone, Values, Times, Files, Runtimes
    <3> QED
      BY <1>1, <2>1, <3>1 DEF Files, files, history
  <2>4. Memory' /\ Budget'
    BY <1>1 DEF Alone, Values, Memory, Budget, memory
  <2>5. Undisturbed(d)'
    <3>1. op[d].next \in Runtimes
      BY DEF Alone, Values, Memory, Ops
    <3>2. op[d].next.anchor \in Nat /\ now \in Nat /\ Undisturbed(d)
      BY <3>1 DEF Alone, Values, Times, Sole, Runtimes
    <3> QED
      BY <1>1, <2>1, <3>2 DEF Undisturbed, files
  <2>6. Attended(d)'
    BY <1>1 DEF Alone, Sole, Attended, files, memory
  <2> QED
    BY <2>2, <2>3, <2>4, <2>5, <2>6 DEF Alone, Values, Sole
<1>3. CASE Thread
  <2>1. PICK r \in Records : /\ r.at = now /\ (r.kind # "item" => r.call \in Calls)
                             /\ rollout' = Append(rollout, r)
    <3>1. ASSUME NEW kind \in {"item", "start", "result"}, NEW call, Emit(kind, call),
                 IF kind = "item" THEN call = NoCall ELSE call \in Calls
          PROVE  \E r \in Records : /\ r.at = now /\ (r.kind # "item" => r.call \in Calls)
                                    /\ rollout' = Append(rollout, r)
      <4> DEFINE r == [kind |-> kind, call |-> call, at |-> now]
      <4>1. r \in Records /\ r.at = now /\ (r.kind # "item" => r.call \in Calls)
        BY <3>1 DEF Records, Alone, Values, Times, Files, Memory, Budget
      <4> QED
        BY <3>1, <4>1 DEF Emit
    <3> QED
      BY <1>3, <3>1 DEF Thread, EmitItem, EmitStart, EmitResult
  <2>2. Len(rollout) < MaxEvents /\ now' = now
    BY <1>3 DEF Thread, EmitItem, EmitStart, EmitResult, Emit
  <2>3. /\ rollout' \in Seq(Records) /\ Len(rollout') = Len(rollout) + 1
        /\ \A i \in DOMAIN rollout' : rollout'[i].at <= now /\ (rollout'[i].kind # "item" => rollout'[i].call \in Calls)
    <3>1. /\ rollout \in Seq(Records) /\ Len(rollout) \in Nat
          /\ DOMAIN rollout' = 1..(Len(rollout) + 1) /\ DOMAIN rollout = 1..Len(rollout)
      <4>1. rollout \in Seq(Records)
        BY DEF Alone, Values, Times
      <4> QED
        BY <2>1, <4>1
    <3>2. \A i \in DOMAIN rollout' : (i \in DOMAIN rollout /\ rollout'[i] = rollout[i]) \/ rollout'[i] = r
      BY <2>1, <3>1
    <3>3. now <= now /\ \A i \in DOMAIN rollout :
                           rollout[i].at <= now /\ (rollout[i].kind # "item" => rollout[i].call \in Calls)
      BY DEF Alone, Values, Times
    <3>4. rollout' \in Seq(Records) /\ Len(rollout') = Len(rollout) + 1
      BY <2>1, <3>1
    <3> QED
      BY <2>1, <3>2, <3>3, <3>4
  <2>4. Values'
    <3>1. Times'
      BY <2>2, <2>3 DEF Alone, Values, Times
    <3>2. Files'
      BY <1>1, <2>2, <2>3 DEF Alone, Values, Times, Files, files, history
    <3>3. Memory' /\ Budget'
      BY <1>1 DEF Alone, Values, Memory, Budget, memory
    <3> QED
      BY <3>1, <3>2, <3>3 DEF Values
  <2>5. Sole(d)'
    BY <1>1, <2>2, <2>3 DEF Alone, Values, Times, Files, Memory, Budget, Sole, Undisturbed, Attended, files, memory
  <2> QED
    BY <2>4, <2>5 DEF Alone
<1> QED
  BY <1>2, <1>3

(* Requests, and what they remove.                                         *)
LEMMA RequestAlone ==
    ASSUME NEW d, Alone(d), Request(d) \/ RemoveRuntime(d) \/ RemoveCursor(d) \/ Restart(d)
    PROVE  Alone(d)'
<1> USE DEF Alone
<1>1. op[d] \in Ops /\ runtime \in Runtimes /\ now \in Nat /\ pc[d] \in Places
  BY DEF Values, Times, Files, Memory, Budget
<1>2. CASE Start(d)
  <2>1. spent' \in [Bounds -> Nat] /\ spent'["stops"] = spent["stops"] /\ spent'["failures"] = spent["failures"] /\ spent'["activations"] <= MaxActivations
    <3>1. CASE spent' = spent
      BY <3>1 DEF Values, Budget
    <3>2. CASE Spend("activations", MaxActivations)
      <4>1. /\ spent["activations"] < MaxActivations
            /\ spent' = [spent EXCEPT !["activations"] = spent["activations"] + 1]
        BY <3>2 DEF Spend
      <4>2. spent \in [Bounds -> Nat] /\ {"activations", "stops", "failures"} \subseteq Bounds
        BY DEF Values, Budget, Bounds
      <4>3. MaxActivations \in Nat
        OBVIOUS
      <4> QED
        BY <4>1, <4>2, <4>3
    <3> QED
      BY <1>2, <3>1, <3>2 DEF Start
  <2>2. \/ runtime' = runtime /\ runtime.revision # -1
        \/ runtime' \in Runtimes /\ RuntimeIs(runtime', FALSE, FALSE, now, 0, 0)
    <3>1. LET fresh == [NoRuntime EXCEPT !.anchor = now, !.revision = 0] IN
          fresh \in Runtimes /\ RuntimeIs(fresh, FALSE, FALSE, now, 0, 0)
      BY Zenon, <1>1, RuntimeUpdates
    <3>2. Exists => runtime.revision # -1
      BY DEF Exists, Values, Files
    <3> QED
      BY <1>2, <3>1, <3>2 DEF Start
  <2>3. Values'
    <3>1. Times' /\ Memory'
      BY <1>2 DEF Start, Values, Times, Memory
    <3>2. Files'
      BY <1>1, <1>2, <2>2 DEF Start, Values, Files, RuntimeIs, history
    <3>3. Budget'
      BY <2>1 DEF Values, Budget
    <3> QED
      BY <3>1, <3>2, <3>3 DEF Values
  <2>4. Sole(d)'
    BY <1>2, <2>2 DEF Start, Values, Times, Files, Memory, Budget, RuntimeIs, Sole, Undisturbed, Attended
  <2> QED
    BY <2>3, <2>4
<1>3. CASE Stop(d)
  <2>1. op'[d] \in Ops /\ OpIs(op'[d], "stop", 0, -1, -1, NoRuntime, FALSE, FALSE)
    BY <1>1, <1>3, OpUpdates, RuntimeUpdates DEF Stop, Values, Times, Files, Memory, Budget
  <2>2. Values'
    BY <1>3, <2>1 DEF Stop, Values, Times, Files, Memory, Budget, files, memory, history, Places
  <2>3. Sole(d)'
    BY <1>3, <2>1 DEF Stop, Values, Times, Files, Memory, Budget, OpIs, Sole, Undisturbed, Attended, files, memory
  <2> QED
    BY <2>2, <2>3
<1>4. CASE Complete(d)
  <2>1. op'[d] \in Ops /\ OpIs(op'[d], "complete", 0, -1, -1, NoRuntime, FALSE, FALSE)
    BY <1>1, <1>4, OpUpdates, RuntimeUpdates DEF Complete, Values, Times, Files, Memory, Budget
  <2>2. runtime' \in Runtimes /\ RuntimeIs(runtime', TRUE, runtime.finished, runtime.anchor, runtime.epoch, runtime.revision + 1)
    BY <1>1, <1>4, RuntimeUpdates DEF Complete
  <2>3. runtime.revision \in Int /\ runtime.revision >= 0
    <3>1. runtime.revision \in Int /\ runtime.revision >= -1 /\ runtime.revision # -1
      BY <1>1, <1>4 DEF Complete, Exists, Values, Files, Runtimes
    <3> QED
      BY <3>1
  <2>4. Values'
    <3>1. Times' /\ Budget'
      BY <1>4 DEF Complete, Values, Times, Budget
    <3>2. Files'
      <4>1. UNCHANGED <<now, rollout, cursor, baseline>>
        BY <1>4 DEF Complete, history
      <4> QED
        BY <2>2, <2>3, <4>1 DEF Values, Files, RuntimeIs
    <3>3. Memory'
      BY <1>4, <2>1 DEF Complete, Values, Memory, memory, Places
    <3> QED
      BY <3>1, <3>2, <3>3 DEF Values
  <2>5. Sole(d)'
    BY <1>4, <2>1, <2>2, <2>3 DEF Complete, Values, Times, Files, Memory, Budget, OpIs, RuntimeIs, Sole, Undisturbed, Attended, files, memory
  <2> QED
    BY <2>4, <2>5
<1>5. CASE RemoveRuntime(d)
  <2>1. runtime' = NoRuntime /\ runtime' \in Runtimes /\ RuntimeIs(runtime', FALSE, FALSE, 0, 0, -1)
    BY <1>1, <1>5, RuntimeUpdates DEF RemoveRuntime
  <2>2. Values'
    <3>1. Times' /\ Budget'
      BY <1>5 DEF RemoveRuntime, Values, Times, Budget
    <3>2. Files'
      <4>1. UNCHANGED <<now, rollout, cursor, baseline>>
        BY <1>5 DEF RemoveRuntime, history
      <4>2. now \in Nat
        BY DEF Values, Times
      <4> QED
        BY <2>1, <4>1, <4>2 DEF Values, Files, RuntimeIs
    <3>3. Memory'
      BY <1>5 DEF RemoveRuntime, Values, Memory, memory, Places
    <3> QED
      BY <3>1, <3>2, <3>3 DEF Values
  <2>3. Sole(d)'
    BY <1>5, <2>1 DEF RemoveRuntime, Values, Times, Files, Memory, Budget, RuntimeIs, Sole, Undisturbed, Attended, files, memory
  <2> QED
    BY <2>2, <2>3
<1>6. CASE RemoveCursor(d)
  <2>1. op'[d] \in Ops /\ OpIs(op'[d], "none", 0, -1, -1, NoRuntime, FALSE, FALSE)
    BY <1>1, <1>6, OpUpdates, RuntimeUpdates DEF RemoveCursor, Values, Times, Files, Memory, Budget
  <2>2. Values'
    <3>1. Times' /\ Budget'
      BY <1>6 DEF RemoveCursor, Values, Times, Budget
    <3>2. Files'
      <4>1. UNCHANGED <<now, rollout, runtime, baseline>> /\ cursor' = -1
        BY <1>6 DEF RemoveCursor, NoCursor, history
      <4>2. Len(rollout) \in Nat
        BY DEF Values, Times
      <4> QED
        BY <4>1, <4>2 DEF Values, Files
    <3>3. Memory'
      BY <1>6, <2>1 DEF RemoveCursor, Values, Memory, memory, Places
    <3> QED
      BY <3>1, <3>2, <3>3 DEF Values
  <2>3. Sole(d)'
    BY <1>6, <2>1 DEF RemoveCursor, Values, Times, Files, Memory, Budget, OpIs, Sole, Undisturbed, Attended, files, memory
  <2> QED
    BY <2>2, <2>3
<1>7. CASE Restart(d)
  <2>1. scheduled' \in [Daemons -> BOOLEAN] /\ (runtime.revision # -1 => scheduled'[d])
    <3>1. scheduled' = [scheduled EXCEPT ![d] = Exists] /\ Exists \in BOOLEAN
      BY <1>7 DEF Restart, Exists
    <3>2. runtime.revision # -1 => Exists
      BY RuntimeUpdates, <1>1 DEF Exists, RuntimeIs
    <3> QED
      BY <3>1, <3>2 DEF Values, Times, Files, Memory, Budget
  <2>2. Values'
    BY <1>7, <2>1 DEF Restart, Values, Times, Files, Memory, Budget, files, memory, history, Places
  <2>3. Sole(d)'
    BY <1>7, <2>1 DEF Restart, Values, Times, Files, Memory, Budget, OpIs, Sole, Undisturbed, Attended, files, memory
  <2> QED
    BY <2>2, <2>3
<1> QED
  BY <1>2, <1>3, <1>4, <1>5, <1>6, <1>7 DEF Request

(* What the evaluation of a batch works with.                              *)
LEMMA EvaluationTypes ==
    ASSUME NEW d, Alone(d), pc[d] = "committing", ~runtime.complete
    PROVE  /\ Existing(d) \in SilenceState /\ Restored(d) \in SilenceState
           /\ Prepared(d) \in SilenceState
           /\ detector[d] \in SilenceState
           /\ Fresh(d) \subseteq DOMAIN rollout
           /\ OpenAfter(d) \subseteq Calls
           /\ (IF OpenAfter(d) = {} THEN "none" ELSE "paused") \in Waits
           /\ now \in Int /\ runtime.anchor \in Int
<1> USE DEF Alone, Values
<1>1. detector[d] \in SilenceState /\ now \in Int /\ runtime.anchor \in Int
  BY DEF Memory, Times, Files, Runtimes
<1>2. Existing(d) \in SilenceState /\ Restored(d) \in SilenceState
  BY <1>1, DetectorTypes DEF Existing, Restored, RecoveredState
<1>3. (IF OpenAfter(d) = {} THEN "none" ELSE "paused") \in Waits
  BY DEF Waits
<1>4. Prepared(d) \in SilenceState
  <2>1. (IF Progressed(d) THEN RecordProgress(Restored(d), now) ELSE Restored(d)) \in SilenceState
    BY <1>1, <1>2, DetectorTypes
  <2> QED
    BY Zenon, <1>3, <2>1, DetectorTypes, <1>1 DEF Prepared
<1>5. Fresh(d) \subseteq DOMAIN rollout
  <2>1. /\ op[d].from \in Int /\ op[d].from >= -1 /\ op[d].to \in 0..Len(rollout)
        /\ Len(rollout) \in Nat /\ DOMAIN rollout = 1..Len(rollout)
    <3>1. Len(rollout) \in Nat /\ DOMAIN rollout = 1..Len(rollout)
      BY DEF Times
    <3>2. op[d].from = cursor /\ op[d].to \in 0..Len(rollout)
      BY DEF Sole, Undisturbed
    <3>3. cursor \in -1..Len(rollout)
      BY DEF Files
    <3> HIDE DEF Alone, Values
    <3> QED
      BY <3>1, <3>2, <3>3
  <2> HIDE DEF Alone, Values
  <2>2. ASSUME NEW i \in Fresh(d) PROVE i \in DOMAIN rollout
    <3>1. op[d].from # -1 /\ i \in (op[d].from + 1)..op[d].to
      BY <2>2 DEF Fresh, NoCursor
    <3>2. ASSUME NEW f \in Int, NEW n \in Nat, NEW t \in 0..n, f >= -1, f # -1, i \in (f + 1)..t
          PROVE  i \in 1..n
      BY <3>2
    <3>3. i \in 1..Len(rollout)
      BY <2>1, <3>1, <3>2
    <3> QED
      BY <2>1, <3>3
  <2> QED
    BY <2>2
<1>6. OpenAfter(d) \subseteq Calls
  <2>1. openCalls[d] \subseteq Calls
    BY DEF Memory
  <2>2. ASSUME NEW c \in FreshCalls(d, "start") PROVE c \in Calls
    BY <1>5, <2>2 DEF FreshCalls, Times
  <2> QED
    BY <2>1, <2>2 DEF OpenAfter
<1> QED
  BY <1>1, <1>2, <1>3, <1>4, <1>5, <1>6

(* A record that the commit saves, if it saves one.                        *)
LEMMA CommitFields ==
    ASSUME NEW d, Alone(d), Accepted(d), NEW next \in Runtimes, NEW b \in BOOLEAN, Commit(d, next, b),
           next.revision = runtime.revision
    PROVE  /\ runtime.revision \in Nat /\ runtime.revision = op[d].revision
           /\ op' \in [Daemons -> Ops]
           /\ OpIs(op'[d], op[d].purpose, op[d].revision, op[d].from, op[d].to, op'[d].next, b, op[d].failed)
           /\ RuntimeIs(op'[d].next, next.complete, next.finished, next.anchor, next.epoch, op'[d].next.revision)
           /\ op'[d].next \in Runtimes
           /\ \/ next = runtime /\ op'[d].next = runtime
              \/ next # runtime /\ op'[d].next.revision = runtime.revision + 1
<1> DEFINE saved == IF next = runtime THEN runtime ELSE [next EXCEPT !.revision = @ + 1]
<1>1. op[d] \in Ops /\ runtime \in Runtimes /\ op \in [Daemons -> Ops] /\ d \in Daemons
  BY DEF Alone, Values, Memory, Files
<1>2. saved \in Runtimes
  BY <1>1, RuntimeUpdates
<1>3. op' = [op EXCEPT ![d].active = b, ![d].next = saved]
  BY DEF Commit
<1>4. \/ saved = runtime /\ next = runtime
      \/ next # runtime /\ RuntimeIs(saved, next.complete, next.finished, next.anchor, next.epoch, runtime.revision + 1)
  BY RuntimeUpdates
<1> HIDE DEF saved
<1>5. op'[d] = [op[d] EXCEPT !.active = b, !.next = saved] /\ \A e \in Daemons : e # d => op'[e] = op[e]
  BY <1>1, <1>3
<1>6. op'[d] \in Ops /\ OpIs(op'[d], op[d].purpose, op[d].revision, op[d].from, op[d].to, saved, b, op[d].failed)
  <2>1. LET k == [op[d] EXCEPT !.active = b, !.next = saved] IN
        k \in Ops /\ OpIs(k, op[d].purpose, op[d].revision, op[d].from, op[d].to, saved, b, op[d].failed)
    BY Zenon, <1>1, <1>2, OpUpdates
  <2> QED
    BY Zenon, <1>5, <2>1
<1>7. op' \in [Daemons -> Ops]
  BY <1>1, <1>3, <1>6
<1>8. runtime.revision \in Nat /\ runtime.revision = op[d].revision
  <2>1. pc[d] = "committing" /\ runtime.revision = op[d].revision
    BY DEF Accepted
  <2>2. runtime.revision # -1
    BY <2>1 DEF Alone, Sole, Undisturbed
  <2>3. runtime.revision \in Int /\ runtime.revision >= -1
    BY DEF Alone, Values, Files, Runtimes
  <2> QED
    BY <2>1, <2>2, <2>3
<1> QED
  BY <1>2, <1>4, <1>6, <1>7, <1>8 DEF OpIs, RuntimeIs

(* A commit saves what it validated and keeps the lock.                    *)
LEMMA CommitAlone ==
    ASSUME NEW d, Alone(d), CommitProgress(d) \/ CommitCompletion(d)
    PROVE  Alone(d)'
<1> USE DEF Alone, Values
<1>1. d \in Daemons /\ pc[d] = "committing" /\ runtime \in Runtimes /\ now \in Nat
  <2>1. runtime \in Runtimes /\ now \in Nat
    BY DEF Files, Times
  <2> QED
    BY <2>1 DEF CommitProgress, CommitCompletion, Accepted
<1>2. Accepted(d)
  BY DEF CommitProgress, CommitCompletion
<1>3. CASE CommitProgress(d)
  <2> DEFINE next == Advanced(d)
  <2>1. ~runtime.complete /\ Commit(d, next, TRUE)
    BY <1>3 DEF CommitProgress
  <2>2. next \in Runtimes /\ next.revision = runtime.revision /\ next.complete = runtime.complete /\ next.finished = runtime.finished /\ next.anchor <= now
    <3>1. runtime.anchor <= now /\ now <= now
      BY <1>1 DEF Files
    <3>2. LET later == [runtime EXCEPT !.epoch = @ + 1, !.anchor = now] IN
          /\ later \in Runtimes
          /\ RuntimeIs(later, runtime.complete, runtime.finished, now, runtime.epoch + 1, runtime.revision)
      BY Zenon, <1>1, RuntimeUpdates
    <3>3. next = runtime \/ RuntimeIs(next, runtime.complete, runtime.finished, now, runtime.epoch + 1, runtime.revision)
      BY Zenon, <3>2 DEF Advanced
    <3>4. next \in Runtimes
      BY Zenon, <1>1, <3>2 DEF Advanced
    <3> HIDE DEF next
    <3> QED
      BY <3>1, <3>3, <3>4 DEF RuntimeIs
  <2> HIDE DEF next
  <2>3. /\ runtime.revision \in Nat /\ runtime.revision = op[d].revision
        /\ op' \in [Daemons -> Ops]
        /\ OpIs(op'[d], op[d].purpose, op[d].revision, op[d].from, op[d].to, op'[d].next, TRUE, op[d].failed)
        /\ RuntimeIs(op'[d].next, runtime.complete, runtime.finished, next.anchor, next.epoch, op'[d].next.revision)
        /\ \/ op'[d].next = runtime
           \/ op'[d].next.revision = runtime.revision + 1
    BY <1>2, <2>1, <2>2, CommitFields
  <2>4. detector' \in [Daemons -> SilenceState] /\ openCalls' \in [Daemons -> SUBSET Calls]
    <3>1. Evaluate(Prepared(d), now) \in SilenceState /\ OpenAfter(d) \in SUBSET Calls
      BY <1>1, <2>1, EvaluationTypes, DetectorTypes
    <3> QED
      BY <1>3, <3>1 DEF CommitProgress, Evaluating, Memory
  <2>5. Values'
    <3>1. Times' /\ Files' /\ Budget'
      BY <1>3 DEF CommitProgress, Commit, Times, Files, Budget
    <3>2. Memory'
      BY <1>3, <2>3, <2>4 DEF CommitProgress, Commit, Memory, Places
    <3> QED
      BY <3>1, <3>2
  <2>6. Undisturbed(d)'
    <3>1. pc'[d] = "writing" /\ lock' = d /\ runtime' = runtime /\ rollout' = rollout /\ cursor' = cursor /\ now' = now
      BY <1>1, <2>1 DEF Commit, Memory
    <3>2. /\ op[d].from = cursor /\ op[d].to \in 0..Len(rollout) /\ op[d].from <= op[d].to
          /\ runtime.finished => runtime.complete
      BY <1>1, <2>1 DEF Sole, Undisturbed, Files
    <3>3. LET new == op'[d].next IN
          /\ new.revision = runtime.revision => new = runtime
          /\ new.revision >= 0
          /\ new.complete = runtime.complete /\ (new.finished => new.complete)
          /\ runtime.finished => new.finished
          /\ new.anchor <= now
      BY <2>1, <2>2, <2>3, <3>2 DEF RuntimeIs
    <3>4. op'[d].revision = runtime.revision /\ op'[d].from = op[d].from /\ op'[d].to = op[d].to
      BY <2>3 DEF OpIs
    <3> QED
      BY <2>1, <2>3, <3>1, <3>2, <3>3, <3>4 DEF Undisturbed
  <2>7. Attended(d)'
    BY <1>1, <1>3, <2>1, <2>2, <2>3 DEF CommitProgress, Commit, Memory, Sole, Attended, OpIs, RuntimeIs
  <2> QED
    BY <2>5, <2>6, <2>7 DEF Sole
<1>4. CASE CommitCompletion(d)
  <2> DEFINE next == Claimed(runtime)
  <2>1. runtime.complete /\ Commit(d, next, FALSE)
    BY <1>4 DEF CommitCompletion
  <2>2. next \in Runtimes /\ next.revision = runtime.revision /\ next.complete = runtime.complete /\ next.finished /\ next.anchor = runtime.anchor
    BY <1>1, RuntimeUpdates DEF RuntimeIs
  <2> HIDE DEF next
  <2>3. /\ runtime.revision \in Nat /\ runtime.revision = op[d].revision
        /\ op' \in [Daemons -> Ops]
        /\ OpIs(op'[d], op[d].purpose, op[d].revision, op[d].from, op[d].to, op'[d].next, FALSE, op[d].failed)
        /\ RuntimeIs(op'[d].next, runtime.complete, next.finished, runtime.anchor, next.epoch, op'[d].next.revision)
        /\ \/ op'[d].next = runtime
           \/ op'[d].next.revision = runtime.revision + 1
    BY <1>2, <2>1, <2>2, CommitFields
  <2>4. detector' \in [Daemons -> SilenceState] /\ openCalls' = openCalls
    <3>1. detector[d] \in SilenceState /\ InitialState(now) \in SilenceState /\ "terminal" \in Waits
      BY <1>1, DetectorTypes DEF Waits, Memory
    <3>2. (IF detector[d] = NoDetector THEN InitialState(now) ELSE detector[d]) \in SilenceState
      BY <3>1
    <3>3. now \in Int
      BY <1>1
    <3>4. SetWaits(IF detector[d] = NoDetector THEN InitialState(now) ELSE detector[d], "terminal") \in SilenceState
      BY Zenon, <3>1, <3>2, <3>3, DetectorTypes
    <3> QED
      BY <1>4, <3>4 DEF CommitCompletion, Memory
  <2>5. Values'
    <3>1. Times' /\ Files' /\ Budget'
      BY <1>4 DEF CommitCompletion, Commit, Times, Files, Budget
    <3>2. Memory'
      BY <1>4, <2>3, <2>4 DEF CommitCompletion, Commit, Memory, Places
    <3> QED
      BY <3>1, <3>2
  <2>6. Undisturbed(d)'
    <3>1. pc'[d] = "writing" /\ lock' = d /\ runtime' = runtime /\ rollout' = rollout /\ cursor' = cursor /\ now' = now
      BY <1>1, <2>1 DEF Commit, Memory
    <3>2. op[d].from = -1 /\ op[d].to = -1 /\ runtime.anchor <= now
      BY <1>1, <2>1 DEF Sole, Undisturbed, Files
    <3>3. /\ op'[d].from = -1 /\ op'[d].to = -1 /\ op'[d].revision = runtime.revision
          /\ op'[d].next.complete = runtime.complete /\ op'[d].next.finished
          /\ op'[d].next.anchor = runtime.anchor
          /\ (op'[d].next.revision = runtime.revision => op'[d].next = runtime)
          /\ op'[d].next.revision >= 0
      BY <2>2, <2>3, <3>2 DEF OpIs, RuntimeIs
    <3>4. runtime.revision # -1 /\ runtime.complete /\ d \notin {NoOne}
      BY <2>1, <2>3
    <3> QED
      BY <3>1, <3>2, <3>3, <3>4 DEF Undisturbed
  <2>7. Attended(d)'
    BY <1>1, <1>4, <2>1, <2>2, <2>3 DEF CommitCompletion, Commit, Memory, Sole, Attended, OpIs, RuntimeIs
  <2> QED
    BY <2>5, <2>6, <2>7 DEF Sole
<1> QED
  BY <1>3, <1>4

(* A tick up to its commit, and the two writes after it.                   *)
LEMMA TickAlone ==
    ASSUME NEW d, Alone(d),
           \/ TickBegins(d) \/ Scan(d) \/ ReadBatch(d) \/ WriteRuntime(d) \/ WriteCursor(d)
    PROVE  Alone(d)'
<1> USE DEF Alone, Values
<1>1. /\ d \in Daemons /\ pc \in [Daemons -> Places] /\ op \in [Daemons -> Ops] /\ op[d] \in Ops
      /\ runtime \in Runtimes /\ runtime.revision \in Int /\ cursor \in Int
      /\ Len(rollout) \in Nat
  <2>1. /\ d \in Daemons /\ pc \in [Daemons -> Places] /\ op \in [Daemons -> Ops] /\ op[d] \in Ops
    BY DEF Memory
  <2>2. runtime \in Runtimes /\ runtime.revision \in Int /\ cursor \in Int
    BY DEF Files, Runtimes
  <2>3. Len(rollout) \in Nat
    BY DEF Times
  <2> QED
    BY <2>1, <2>2, <2>3
<1>2. CASE TickBegins(d)
  <2>1. op'[d] \in Ops /\ OpIs(op'[d], "tick", 0, -1, -1, NoRuntime, FALSE, FALSE)
    <3>1. LET k == [NoOp EXCEPT !.purpose = "tick"] IN
          k \in Ops /\ OpIs(k, "tick", 0, -1, -1, NoRuntime, FALSE, FALSE)
      BY Zenon, <1>1, OpUpdates
    <3> QED
      BY <1>1, <1>2, <3>1 DEF TickBegins
  <2>2. Values'
    <3>1. Times' /\ Files' /\ Budget'
      BY <1>2 DEF TickBegins, Times, Files, Budget, files, history
    <3>2. Memory'
      BY <1>2, <2>1 DEF TickBegins, Memory, Places
    <3> QED
      BY <3>1, <3>2
  <2>3. Sole(d)'
    BY <1>1, <1>2, <2>1 DEF TickBegins, Memory, Sole, Undisturbed, Attended, OpIs, files
  <2> QED
    BY <2>2, <2>3
<1>3. CASE Scan(d)
  <2> DEFINE next == CASE ~Exists -> "flushing" [] runtime.complete -> "committing" [] OTHER -> "reading"
  <2>1. Exists <=> runtime.revision # -1
    BY RuntimeUpdates DEF Exists, Files, RuntimeIs
  <2>2. /\ ~Exists => next = "flushing"
        /\ Exists /\ runtime.complete => next = "committing"
        /\ Exists /\ ~runtime.complete => next = "reading"
    <3>1. runtime = NoRuntime => ~runtime.complete
      BY DEF NoRuntime
    <3> QED
      BY Zenon, <3>1 DEF Exists
  <2>3. pc' = [pc EXCEPT ![d] = next]
    BY <1>3 DEF Scan
  <2> HIDE DEF next
  <2>4. op'[d] \in Ops /\ OpIs(op'[d], op[d].purpose, runtime.revision, op[d].from, op[d].to, op[d].next, op[d].active, op[d].failed)
    <3>1. LET k == [op[d] EXCEPT !.revision = runtime.revision] IN
          k \in Ops /\ OpIs(k, op[d].purpose, runtime.revision, op[d].from, op[d].to, op[d].next, op[d].active, op[d].failed)
      BY Zenon, <1>1, OpUpdates
    <3>2. op'[d] = [op[d] EXCEPT !.revision = runtime.revision]
      BY <1>1, <1>3 DEF Scan
    <3> QED
      BY Zenon, <3>1, <3>2
  <2>5. op' \in [Daemons -> Ops]
    BY <1>1, <1>3, <2>4 DEF Scan
  <2>6. Values'
    <3>1. Times' /\ Files' /\ Budget'
      BY <1>3 DEF Scan, Times, Files, Budget, files, history
    <3>2. next \in Places
      BY <2>2 DEF Places
    <3>3. Memory'
      BY <1>3, <2>3, <2>5, <3>2 DEF Scan, Memory, memory
    <3> QED
      BY <3>1, <3>3
  <2>7. pc[d] = "scanning" /\ pc'[d] = next
    BY <1>1, <1>3, <2>3 DEF Scan
  <2>8. Undisturbed(d)'
    BY <1>1, <1>3, <2>1, <2>2, <2>4, <2>7 DEF Scan, Sole, Undisturbed, OpIs, files
  <2>9. Attended(d)'
    BY <1>1, <1>3, <2>1, <2>2, <2>4, <2>7 DEF Scan, Sole, Attended, OpIs, files, memory
  <2> QED
    BY <2>6, <2>8, <2>9 DEF Sole
<1>4. CASE ReadBatch(d)
  <2> DEFINE end == IF cursor = NoCursor THEN Len(rollout)
                    ELSE CHOOSE n \in {cursor + BatchLimit, Len(rollout)} :
                           n <= cursor + BatchLimit /\ n <= Len(rollout)
  <2>1. end \in Int /\ end \in 0..Len(rollout) /\ cursor <= end
    <3>1. CASE cursor = -1
      BY <1>1, <3>1 DEF NoCursor
    <3>2. CASE cursor # -1
      <4>1. cursor \in 0..Len(rollout) /\ BatchLimit \in Nat
        BY <3>2 DEF Files
      <4>2. \E n \in {cursor + BatchLimit, Len(rollout)} : n <= cursor + BatchLimit /\ n <= Len(rollout)
        BY <1>1, <4>1
      <4>3. /\ end \in {cursor + BatchLimit, Len(rollout)}
            /\ end <= cursor + BatchLimit /\ end <= Len(rollout)
        BY Zenon, <3>2, <4>2 DEF NoCursor
      <4> HIDE DEF end
      <4> QED
        BY <1>1, <4>1, <4>3
    <3> QED
      BY <3>1, <3>2
  <2>2. pc[d] = "reading" /\ op' = [op EXCEPT ![d].from = cursor, ![d].to = end]
    BY <1>4 DEF ReadBatch
  <2> HIDE DEF end
  <2>3. op'[d] \in Ops /\ OpIs(op'[d], op[d].purpose, op[d].revision, cursor, end, op[d].next, op[d].active, op[d].failed)
    <3>1. LET k == [op[d] EXCEPT !.from = cursor, !.to = end] IN
          k \in Ops /\ OpIs(k, op[d].purpose, op[d].revision, cursor, end, op[d].next, op[d].active, op[d].failed)
      BY Zenon, <1>1, <2>1, OpUpdates
    <3>2. op'[d] = [op[d] EXCEPT !.from = cursor, !.to = end]
      BY <1>1, <2>2
    <3> QED
      BY Zenon, <3>1, <3>2
  <2>4. op' \in [Daemons -> Ops]
    BY <1>1, <2>2, <2>3
  <2>5. Values'
    <3>1. Times' /\ Files' /\ Budget'
      BY <1>4 DEF ReadBatch, Times, Files, Budget, files, history
    <3>2. Memory'
      BY <1>4, <2>4 DEF ReadBatch, Memory, memory, Places
    <3> QED
      BY <3>1, <3>2
  <2>6. Undisturbed(d)'
    BY <1>1, <1>4, <2>1, <2>3 DEF ReadBatch, Sole, Undisturbed, OpIs, files
  <2>7. Attended(d)'
    BY <1>1, <1>4, <2>3 DEF ReadBatch, Sole, Attended, OpIs, files, memory
  <2> QED
    BY <2>5, <2>6, <2>7 DEF Sole
<1>5. CASE WriteRuntime(d)
  <2> DEFINE next == op[d].next
  <2>1. pc[d] = "writing" /\ next \in Runtimes /\ runtime' = IF next.revision = op[d].revision THEN runtime ELSE next
    BY <1>1, <1>5 DEF WriteRuntime, Ops
  <2>2. /\ runtime.revision # -1 /\ runtime.revision = op[d].revision
        /\ (next.revision = runtime.revision => next = runtime)
        /\ next.revision >= 0
        /\ next.complete = runtime.complete /\ (next.finished => next.complete)
        /\ (runtime.finished => next.finished)
        /\ next.anchor <= now
    BY <2>1 DEF Sole, Undisturbed
  <2>3. runtime' = next
    BY <2>1, <2>2
  <2> HIDE DEF next
  <2>4. Values'
    <3>1. Times' /\ Budget'
      BY <1>5 DEF WriteRuntime, Times, Budget, files
    <3>2. Files'
      <4>1. next.revision \in Int
        BY <2>1 DEF Runtimes
      <4>2. UNCHANGED <<now, rollout, cursor, baseline>>
        BY <1>5 DEF WriteRuntime, history
      <4> QED
        BY <2>1, <2>2, <2>3, <4>1, <4>2 DEF Files
    <3>3. Memory'
      BY <1>5 DEF WriteRuntime, Memory, memory, Places
    <3> QED
      BY <3>1, <3>2, <3>3
  <2>5. Undisturbed(d)'
    BY <1>1, <1>5, <2>2, <2>3 DEF WriteRuntime, Sole, Undisturbed, files
  <2>6. Attended(d)'
    BY <1>1, <1>5, <2>2, <2>3 DEF WriteRuntime, Sole, Attended, memory, next
  <2> QED
    BY <2>4, <2>5, <2>6 DEF Sole
<1>6. CASE WriteCursor(d)
  <2>1. /\ pc[d] = "storing" /\ lock = d
        /\ op[d].to \in -1..Len(rollout)
    <3>1. op[d].to = -1 \/ op[d].to \in 0..Len(rollout)
      BY <1>6 DEF WriteCursor, Sole, Undisturbed
    <3> QED
      BY <1>1, <1>6, <3>1 DEF WriteCursor, Sole, Undisturbed
  <2>2. Values'
    <3>1. Times' /\ Budget'
      BY <1>6 DEF WriteCursor, Times, Budget, files
    <3>2. Files'
      BY <1>1, <1>6, <2>1 DEF WriteCursor, Files
    <3>3. Memory'
      BY <1>6 DEF WriteCursor, Memory, memory, Places
    <3> QED
      BY <3>1, <3>2, <3>3
  <2>3. Undisturbed(d)'
    BY <1>1, <1>6 DEF WriteCursor, Sole, Undisturbed
  <2>4. Attended(d)'
    BY <1>1, <1>6 DEF WriteCursor, Sole, Attended, memory
  <2> QED
    BY <2>2, <2>3, <2>4 DEF Sole
<1> QED
  BY <1>2, <1>3, <1>4, <1>5, <1>6

(* The end of a tick and of a completion.                                  *)
LEMMA FlushAlone ==
    ASSUME NEW d, Alone(d),
           \/ CommitRefused(d) \/ Deliver(d) \/ DeliveryRefused(d) \/ TickEnds(d) \/ CompleteEnds(d)
    PROVE  Alone(d)'
<1> USE DEF Alone, Values
<1>1. d \in Daemons /\ pc \in [Daemons -> Places] /\ op \in [Daemons -> Ops] /\ op[d] \in Ops
  BY DEF Memory
<1>2. ~CommitRefused(d)
  BY DEF CommitRefused, Sole, Undisturbed
<1>3. CASE Deliver(d) \/ DeliveryRefused(d)
  <2>1. Values'
    <3>1. Times' /\ Files' /\ Budget'
      BY <1>3 DEF Deliver, DeliveryRefused, Times, Files, Budget, files, history
    <3>2. Memory'
      BY <1>3 DEF Deliver, DeliveryRefused, Memory
    <3> QED
      BY <3>1, <3>2
  <2>2. Sole(d)'
    BY <1>3 DEF Deliver, DeliveryRefused, Sole, Undisturbed, Attended, files
  <2> QED
    BY <2>1, <2>2
<1>4. NoOp \in Ops /\ OpIs(NoOp, "none", 0, -1, -1, NoRuntime, FALSE, FALSE)
  BY Zenon, <1>1, OpUpdates
<1>5. CASE TickEnds(d)
  <2>1. op'[d] = NoOp /\ op' \in [Daemons -> Ops] /\ pc'[d] = "idle"
    BY <1>1, <1>4, <1>5 DEF TickEnds
  <2>2. scheduled' \in [Daemons -> BOOLEAN] /\ scheduled'[d] = (scheduled[d] \/ op[d].active \/ op[d].failed)
    <3>1. scheduled \in [Daemons -> BOOLEAN] /\ (scheduled[d] \/ op[d].active \/ op[d].failed) \in BOOLEAN
      BY Zenon DEF Memory
    <3> QED
      BY Zenon, <1>1, <1>5, <3>1 DEF TickEnds
  <2>3. Values'
    <3>1. Times' /\ Files' /\ Budget'
      BY <1>5 DEF TickEnds, Times, Files, Budget, files, history
    <3>2. Memory'
      BY <1>5, <2>1, <2>2 DEF TickEnds, Memory, Places
    <3> QED
      BY <3>1, <3>2
  <2>4. Undisturbed(d)'
    BY <1>5, <2>1 DEF TickEnds, Sole, Undisturbed, files
  <2>5. Attended(d)'
    <3>1. runtime.revision # -1 => scheduled'[d] \/ runtime.finished
      BY <1>5, <2>2 DEF TickEnds, Sole, Attended
    <3> QED
      BY <1>4, <1>5, <2>1, <3>1 DEF TickEnds, Attended, OpIs, files
  <2> QED
    BY <2>3, <2>4, <2>5 DEF Sole
<1>6. CASE CompleteEnds(d)
  <2>1. /\ op' \in [Daemons -> Ops]
        /\ \/ op[d].failed /\ op'[d] = NoOp /\ pc'[d] = "idle"
           \/ ~op[d].failed /\ op'[d] = op[d] /\ pc'[d] = "removing"
    BY <1>1, <1>4, <1>6 DEF CompleteEnds
  <2>2. Values'
    <3>1. Times' /\ Files' /\ Budget'
      BY <1>6 DEF CompleteEnds, Times, Files, Budget, files, history
    <3>2. Memory'
      BY <1>6, <2>1 DEF CompleteEnds, Memory, memory, Places
    <3> QED
      BY <3>1, <3>2
  <2>3. Undisturbed(d)'
    BY <1>6, <2>1 DEF CompleteEnds, Sole, Undisturbed, files
  <2>4. Attended(d)'
    BY <1>4, <1>6, <2>1 DEF CompleteEnds, Sole, Attended, OpIs, files, memory
  <2> QED
    BY <2>2, <2>3, <2>4 DEF Sole
<1> QED
  BY <1>2, <1>3, <1>5, <1>6

(* A fault is paid from the budget.                                        *)
LEMMA Spent ==
    ASSUME Budget, NEW b \in Bounds, NEW limit \in Nat, Spend(b, limit),
           b = "stops" => limit = MaxStops, b = "failures" => limit = MaxFailures,
           b = "activations" => limit = MaxActivations
    PROVE  Budget' /\ spent'[b] = spent[b] + 1 /\ \A c \in Bounds : c # b => spent'[c] = spent[c]
<1>1. spent[b] < limit /\ spent' = [spent EXCEPT ![b] = spent[b] + 1]
  BY DEF Spend
<1>2. {"activations", "stops", "failures"} \subseteq Bounds
  BY DEF Bounds
<1> QED
  BY <1>1, <1>2 DEF Budget

(* A tick that raised.                                                     *)
LEMMA RaiseAlone ==
    ASSUME NEW d, Alone(d), Raise(d), UNCHANGED <<now, rollout, runtime, cursor, scheduled>>, Budget',
           pc[d] \in {"scanning", "reading", "committing", "writing", "storing"},
           detector' \in [Daemons -> SilenceState], openCalls' \in [Daemons -> SUBSET Calls],
           baseline' = baseline
    PROVE  Alone(d)'
<1> USE DEF Alone, Values
<1>1. d \in Daemons /\ pc \in [Daemons -> Places] /\ op \in [Daemons -> Ops] /\ op[d] \in Ops
  BY DEF Memory
<1>2. op'[d] \in Ops /\ OpIs(op'[d], op[d].purpose, op[d].revision, op[d].from, op[d].to, op[d].next, op[d].active, TRUE)
  <2>1. LET k == [op[d] EXCEPT !.failed = TRUE] IN
        k \in Ops /\ OpIs(k, op[d].purpose, op[d].revision, op[d].from, op[d].to, op[d].next, op[d].active, TRUE)
    BY Zenon, <1>1, OpUpdates
  <2>2. op'[d] = [op[d] EXCEPT !.failed = TRUE]
    BY <1>1 DEF Raise
  <2> QED
    BY Zenon, <2>1, <2>2
<1>3. /\ op' \in [Daemons -> Ops]
      /\ pc' \in [Daemons -> Places] /\ pc'[d] = "flushing"
      /\ lock' = NoOne
  <2>1. lock \in {d, NoOne}
    BY DEF Memory
  <2> QED
    BY <1>1, <1>2, <2>1 DEF Raise, Places
<1>4. Times' /\ Files' /\ Memory'
  BY <1>3 DEF Times, Files, Memory
<1>5. Undisturbed(d)'
  BY <1>3 DEF Undisturbed
<1>6. Attended(d)'
  BY <1>2, <1>3 DEF Sole, Attended, OpIs
<1> QED
  BY <1>4, <1>5, <1>6 DEF Sole

(* Faults: what raised is tried again, what died is restarted.             *)
LEMMA FaultAlone ==
    ASSUME NEW d, Alone(d),
           FileFails(d) \/ LogFailsBeforeEvaluation(d) \/ LogFailsAfterEvaluation(d) \/ Crash(d)
    PROVE  Alone(d)'
<1> USE DEF Alone, Values
<1>1. /\ d \in Daemons /\ pc \in [Daemons -> Places] /\ op \in [Daemons -> Ops] /\ op[d] \in Ops
      /\ detector \in [Daemons -> SilenceState] /\ openCalls \in [Daemons -> SUBSET Calls]
  BY DEF Memory
<1>2. Bounds = {"activations", "stops", "failures", "log failures"}
  BY DEF Bounds
<1>3. CASE FileFails(d)
  <2>1. Budget'
    BY <1>2, <1>3, Spent DEF FileFails
  <2> QED
    BY <1>1, <1>3, <2>1, RaiseAlone DEF FileFails, memory, history, files
<1>4. CASE LogFailsBeforeEvaluation(d)
  <2>1. Budget'
    BY <1>2, <1>4, Spent DEF LogFailsBeforeEvaluation
  <2>2. openCalls' \in [Daemons -> SUBSET Calls]
    <3>1. CASE ~runtime.complete
      <4>1. OpenAfter(d) \in SUBSET Calls
        BY <1>4, <3>1, EvaluationTypes DEF LogFailsBeforeEvaluation, Accepted
      <4> QED
        BY <1>1, <1>4, <4>1 DEF LogFailsBeforeEvaluation
    <3>2. CASE runtime.complete
      BY <1>1, <1>4, <3>2 DEF LogFailsBeforeEvaluation
    <3> QED
      BY <3>1, <3>2
  <2>3. UNCHANGED <<now, rollout, runtime, cursor, scheduled>> /\ pc[d] = "committing" /\ Raise(d) /\ detector' = detector /\ baseline' = baseline
    BY <1>4 DEF LogFailsBeforeEvaluation, Accepted, history, files
  <2> QED
    BY <1>1, <2>1, <2>2, <2>3, RaiseAlone
<1>5. CASE LogFailsAfterEvaluation(d)
  <2>1. Budget'
    BY <1>2, <1>5, Spent DEF LogFailsAfterEvaluation
  <2>2. pc[d] = "committing" /\ ~runtime.complete /\ Raise(d) /\ Evaluating(d)
    BY <1>5 DEF LogFailsAfterEvaluation, Accepted
  <2>3. detector' \in [Daemons -> SilenceState] /\ openCalls' \in [Daemons -> SUBSET Calls]
    <3>1. Evaluate(Prepared(d), now) \in SilenceState /\ OpenAfter(d) \in SUBSET Calls
      BY <2>2, EvaluationTypes, DetectorTypes
    <3> QED
      BY <1>1, <2>2, <3>1 DEF Evaluating
  <2>4. UNCHANGED <<now, rollout, runtime, cursor, scheduled, baseline>>
    BY <1>5 DEF LogFailsAfterEvaluation, history
  <2> QED
    BY <2>1, <2>2, <2>3, <2>4, RaiseAlone
<1>6. CASE Crash(d)
  <2>1. Budget'
    BY <1>2, <1>6, Spent DEF Crash
  <2>2. NoOp \in Ops /\ OpIs(NoOp, "none", 0, -1, -1, NoRuntime, FALSE, FALSE)
    BY Zenon, <1>1, OpUpdates
  <2>3. NoDetector \in SilenceState
    BY DEF NoDetector, InitialState, SilenceState, Phases, Waits
  <2>4. Memory' /\ pc'[d] = "down" /\ lock' = NoOne /\ op'[d] = NoOp
    <3>1. lock \in {d, NoOne}
      BY DEF Memory
    <3> QED
      BY <1>1, <1>6, <2>2, <2>3, <3>1 DEF Crash, Memory, Places
  <2>5. Times' /\ Files'
    BY <1>6 DEF Crash, Times, Files, files, history
  <2>6. Undisturbed(d)'
    BY <2>4 DEF Undisturbed
  <2>7. Attended(d)'
    BY <2>2, <2>4 DEF Attended, OpIs
  <2> QED
    BY <2>1, <2>4, <2>5, <2>6, <2>7 DEF Sole
<1> QED
  BY <1>3, <1>4, <1>5, <1>6

(* Every step of the only daemon and of its surroundings.                  *)
LEMMA NextAlone ==
    ASSUME NEW d, Alone(d), [Next]_vars
    PROVE  Alone(d)'
<1>1. d \in Daemons /\ \A e \in Daemons : e = d
  BY DEF Alone
<1>2. CASE UNCHANGED vars
  <2>1. UNCHANGED <<now, rollout, runtime, cursor, lock, pc, detector, openCalls, scheduled, op,
                    spent, baseline>>
    BY <1>2 DEF vars, files, memory, history
  <2>2. Times' /\ Files' /\ Memory' /\ Budget'
    BY <2>1 DEF Alone, Values, Times, Files, Memory, Budget
  <2>3. Sole(d)'
    BY <2>1 DEF Alone, Sole, Undisturbed, Attended
  <2> QED
    BY <2>2, <2>3 DEF Alone, Values
<1>3. CASE Thread \/ Clock
  BY <1>3, EnvironmentAlone
<1>4. CASE Request(d) \/ DaemonStep(d) \/ Fault(d) \/ Restart(d)
  BY <1>4, RequestAlone, CommitAlone, TickAlone, FlushAlone, FaultAlone DEF DaemonStep, Fault
<1> QED
  BY <1>1, <1>2, <1>3, <1>4 DEF Next

(* Before the first session there is nothing to attend to.                 *)
LEMMA InitAlone ==
    ASSUME NEW d \in Daemons, OneDaemon, Init
    PROVE  Alone(d)
<1>1. NoRuntime \in Runtimes /\ RuntimeIs(NoRuntime, FALSE, FALSE, 0, 0, -1)
  BY DEF NoRuntime, Runtimes, RuntimeIs
<1>2. NoOp \in Ops /\ NoOp.purpose = "none"
  BY DEF NoOp, Ops, NoCursor, NoRuntime, Runtimes
<1>3. NoDetector \in SilenceState
  BY DEF NoDetector, InitialState, SilenceState, Phases, Waits
<1>4. <<>> \in Seq(Records) /\ Len(<<>>) = 0 /\ DOMAIN <<>> = {}
  OBVIOUS
<1>5. Times /\ Files /\ Budget
  <2>1. Times
    BY <1>4 DEF Init, Untouched, Times
  <2>2. Files
    BY <1>1, <1>4 DEF Init, Untouched, Files, NoCursor, RuntimeIs
  <2>3. Budget
    <3>1. {"activations", "stops", "failures"} \subseteq Bounds
      BY DEF Bounds
    <3>2. spent = [b \in Bounds |-> 0] /\ {MaxStops, MaxFailures, MaxActivations} \subseteq Nat
      BY DEF Init
    <3>3. 0 <= MaxStops /\ 0 <= MaxFailures /\ 0 <= MaxActivations
      BY <3>2
    <3> QED
      BY <3>1, <3>2, <3>3 DEF Budget
  <2> QED
    BY <2>1, <2>2, <2>3
<1>6. Memory
  BY <1>2, <1>3 DEF Init, Untouched, Memory, Places
<1>7. Sole(d)
  BY <1>1, <1>2 DEF Init, Untouched, Sole, Undisturbed, Attended, RuntimeIs, OneDaemon
<1> QED
  BY <1>5, <1>6, <1>7 DEF Alone, Values, OneDaemon

(* The only daemon polls an unfinished session whatever raised, failed or  *)
(* restarted (MonitorIsDriven: run, close).                                *)
THEOREM SoleDaemonPolls == OneDaemon /\ Spec => []MonitorIsDriven
<1> SUFFICES ASSUME OneDaemon PROVE Spec => []MonitorIsDriven
  OBVIOUS
<1>1. PICK d : d \in Daemons
  BY DEF OneDaemon
<1>2. Init => Alone(d)
  BY <1>1, InitAlone
<1>3. Alone(d) /\ [Next]_vars => Alone(d)'
  BY NextAlone
<1>4. Alone(d) => MonitorIsDriven
  BY DEF Alone, Sole, Attended, MonitorIsDriven, Exists, Values, Files, NoRuntime
<1> QED
  BY <1>2, <1>3, <1>4, PTL DEF Spec

OneSession == MaxActivations <= 1

(* The session is created once.                                            *)
Once(d) ==
    spent["activations"] = 0 =>
        runtime.revision = -1 /\ cursor = -1 /\ detector[d] = NoDetector

Watching == runtime.revision # -1 /\ ~runtime.complete

(* The persisted anchor is not older than a consumed record.               *)
Covered ==
    Watching => \A i \in DOMAIN rollout :
        baseline < i /\ i <= cursor => rollout[i].at <= runtime.anchor

BatchCovered(d, anchor) ==
    op[d].from # -1 =>
        \A i \in DOMAIN rollout : op[d].from < i /\ i <= op[d].to => rollout[i].at <= anchor

(* The detector's silence began at the anchor or later.                    *)
Interval(d) ==
    /\ detector[d].since <= now
    /\ runtime.revision # -1 /\ detector[d] # NoDetector => runtime.anchor <= detector[d].since
    /\ Watching => detector[d].waits # "terminal"

(* What is about to be written.                                            *)
Saving(d) ==
    /\ pc[d] = "writing" => LET next == op[d].next IN
         /\ \/ next.epoch = runtime.epoch
            \/ next.epoch = runtime.epoch + 1 /\ op[d].from # -1 /\ op[d].from < op[d].to
         /\ runtime.anchor <= next.anchor /\ next.anchor <= detector[d].since
         /\ ~runtime.complete => BatchCovered(d, next.anchor)
         /\ next.finished => Completion \in log
    /\ pc[d] = "storing" /\ ~runtime.complete => BatchCovered(d, runtime.anchor)

(* An epoch is paid with a consumed record or with a fault that made its   *)
(* batch be read again.                                                    *)
Paid == (IF cursor = -1 THEN 0 ELSE cursor) + spent["failures"] + spent["stops"]

EpochsPaid(d) ==
    \/ runtime.epoch <= Paid
    \/ /\ runtime.epoch <= Paid + 1
       /\ pc[d] = "storing" /\ op[d].from # -1 /\ op[d].from < op[d].to

(* A session finishes, and is removed as complete, after the record of its *)
(* completion.                                                             *)
Finishing(d) ==
    /\ runtime.finished => Completion \in log
    /\ Completion \in log => completedIn = 1 /\ spent["activations"] = 1
    /\ op[d].purpose = "complete" =>
         /\ pc[d] \in {"scanning", "committing", "writing", "storing"} =>
              runtime.revision # -1 /\ runtime.complete
         /\ pc[d] \in {"writing", "storing", "removing"} => Completion \in log
         /\ pc[d] = "flushing" => op[d].failed \/ Completion \in log
         /\ pc[d] # "reading"

History(d) ==
    /\ Once(d) /\ Covered /\ Interval(d) /\ Saving(d) /\ EpochsPaid(d) /\ Finishing(d)
    /\ log \subseteq Transitions

(* A step that leaves the session and the detector as they are.            *)
LEMMA Quiet ==
    ASSUME NEW d, History(d), 
           UNCHANGED <<now, rollout, runtime, cursor, log, spent, baseline, detector>>,
           pc[d] # "storing", pc'[d] \notin {"writing", "storing"}, Finishing(d)'
    PROVE  History(d)'
BY DEF History, Once, Covered, Watching, Interval, Saving, EpochsPaid, Paid

(* Steps that read, queue, deliver and end.                                *)
LEMMA QuietSteps ==
    ASSUME NEW d, Alone(d), History(d),
           \/ Stop(d) \/ Restart(d) \/ TickBegins(d) \/ Scan(d) \/ ReadBatch(d)
           \/ Deliver(d) \/ DeliveryRefused(d) \/ TickEnds(d) \/ CompleteEnds(d)
    PROVE  History(d)'
<1>1. Alone(d)'
  BY RequestAlone, TickAlone, FlushAlone DEF Request
<1>2. /\ d \in Daemons /\ pc \in [Daemons -> Places] /\ op \in [Daemons -> Ops] /\ op[d] \in Ops
      /\ runtime \in Runtimes
  BY DEF Alone, Values, Memory, Files
<1>3. UNCHANGED <<now, rollout, runtime, cursor, log, spent, baseline, completedIn, detector>>
  BY DEF Stop, Restart, TickBegins, Scan, ReadBatch, Deliver, DeliveryRefused, TickEnds,
         CompleteEnds, files, memory, history
<1>4. NoOp.purpose = "none" /\ [NoOp EXCEPT !.purpose = "stop"].purpose = "stop"
      /\ [NoOp EXCEPT !.purpose = "tick"].purpose = "tick"
  BY DEF NoOp
<1>5. pc[d] # "storing" /\ pc'[d] \notin {"writing", "storing"} /\ Finishing(d)'
  <2>1. CASE Stop(d) \/ TickBegins(d)
    <3>1. op'[d].purpose \in {"stop", "tick"} /\ pc'[d] \in {"removing", "scanning"} /\ pc[d] = "idle"
      BY <1>2, <1>4, <2>1 DEF Stop, TickBegins
    <3> QED
      BY <1>3, <3>1 DEF History, Finishing
  <2>2. CASE Restart(d)
    BY <1>2, <1>3, <2>2 DEF Restart, History, Finishing
  <2>3. CASE Deliver(d) \/ DeliveryRefused(d)
    BY <1>2, <1>3, <2>3 DEF Deliver, DeliveryRefused, History, Finishing
  <2>4. CASE TickEnds(d)
    <3>1. op'[d].purpose = "none" /\ pc'[d] = "idle" /\ pc[d] = "flushing"
      BY <1>2, <1>4, <2>4 DEF TickEnds
    <3> QED
      BY <1>3, <3>1 DEF History, Finishing
  <2>5. CASE CompleteEnds(d)
    <3>1. /\ pc[d] = "flushing"
          /\ \/ op[d].failed /\ op'[d].purpose = "none" /\ pc'[d] = "idle"
             \/ ~op[d].failed /\ op'[d] = op[d] /\ pc'[d] = "removing"
      BY <1>2, <1>4, <2>5 DEF CompleteEnds
    <3> QED
      BY <1>3, <3>1 DEF History, Finishing
  <2>6. CASE Scan(d)
    <3>1. pc[d] = "scanning" /\ op'[d] = [op[d] EXCEPT !.revision = runtime.revision]
      BY <1>2, <2>6 DEF Scan
    <3>2. op'[d].purpose = op[d].purpose /\ op'[d].failed = op[d].failed
      BY Zenon, <1>2, <3>1 DEF Ops
    <3>3. Exists <=> runtime.revision # -1
      BY <1>2, RuntimeUpdates DEF Exists, Alone, Values, Files, RuntimeIs
    <3>4. /\ pc'[d] \in {"flushing", "committing", "reading"}
          /\ Exists /\ runtime.complete => pc'[d] = "committing"
      <4>1. runtime = NoRuntime => ~runtime.complete
        BY DEF NoRuntime
      <4>2. pc'[d] = CASE ~Exists -> "flushing" [] runtime.complete -> "committing" [] OTHER -> "reading"
        BY <1>2, <2>6 DEF Scan
      <4> QED
        BY Zenon, <4>1, <4>2 DEF Exists
    <3> QED
      BY <1>3, <3>1, <3>2, <3>3, <3>4 DEF History, Finishing
  <2>7. CASE ReadBatch(d)
    <3>1. pc[d] = "reading" /\ pc'[d] = "committing"
      BY <1>2, <2>7 DEF ReadBatch
    <3>2. op'[d].purpose = op[d].purpose
      <4>1. \A f, t : op'[d] = [op[d] EXCEPT !.from = f, !.to = t] => op'[d].purpose = op[d].purpose
        BY Zenon, <1>2 DEF Ops
      <4>2. \E f, t : op'[d] = [op[d] EXCEPT !.from = f, !.to = t]
        BY Zenon, <1>2, <2>7 DEF ReadBatch
      <4> QED
        BY <4>1, <4>2
    <3> QED
      BY <1>3, <3>1, <3>2 DEF History, Finishing
  <2> QED
    BY <2>1, <2>2, <2>3, <2>4, <2>5, <2>6, <2>7
<1> QED
  BY <1>3, <1>5, Quiet

(* New records are beyond the cursor and beyond every batch.               *)
LEMMA EnvironmentHistory ==
    ASSUME NEW d, Alone(d), History(d), Thread \/ Clock
    PROVE  History(d)'
<1>1. UNCHANGED <<files, lock, sent, pc, memory, op, spent, history>>
  BY DEF Thread, EmitItem, EmitStart, EmitResult, Emit, Clock
<1>2. now' \in {now, now + 1} /\ now \in Nat
  <2>1. now \in Nat
    BY DEF Alone, Values, Times
  <2>2. now' = now \/ now' = now + 1
    BY DEF Thread, EmitItem, EmitStart, EmitResult, Emit, Clock
  <2> QED
    BY <2>1, <2>2
<1>3. /\ Len(rollout) \in Nat /\ DOMAIN rollout = 1..Len(rollout)
      /\ \A i \in DOMAIN rollout' :
           (i \in DOMAIN rollout /\ rollout'[i] = rollout[i]) \/ i = Len(rollout) + 1
  <2>1. rollout \in Seq(Records)
    BY DEF Alone, Values, Times
  <2>2. rollout' = rollout \/ \E r : rollout' = Append(rollout, r)
    BY DEF Thread, EmitItem, EmitStart, EmitResult, Emit, Clock
  <2> QED
    BY <2>1, <2>2
<1>4. cursor <= Len(rollout) /\ cursor \in Int
  BY <1>3 DEF Alone, Values, Files
<1>5. pc[d] \in {"writing", "storing"} => op[d].to <= Len(rollout) /\ op[d].to \in Int
  BY <1>3 DEF Alone, Sole, Undisturbed
<1>6. detector[d].since \in Int
  BY DEF Alone, Values, Memory, SilenceState
<1>7. Once(d)' /\ EpochsPaid(d)' /\ Finishing(d)' /\ log' \subseteq Transitions
  BY <1>1 DEF History, Once, EpochsPaid, Paid, Finishing, files, memory, history
<1>8. Interval(d)'
  BY <1>1, <1>2, <1>6 DEF History, Interval, Watching, files, memory
<1>9. Covered'
  BY <1>1, <1>3, <1>4 DEF History, Covered, Watching, files, history
<1>10. ASSUME NEW a, BatchCovered(d, a), pc[d] \in {"writing", "storing"} PROVE BatchCovered(d, a)'
  <2>1. op[d].to \in Int /\ op[d].to <= Len(rollout) /\ op' = op
    BY <1>1, <1>5, <1>10
  <2>2. ASSUME NEW i \in DOMAIN rollout', op[d].from < i, i <= op[d].to
        PROVE  i \in DOMAIN rollout /\ rollout'[i] = rollout[i]
    BY <1>3, <2>1, <2>2
  <2> QED
    BY <1>10, <2>1, <2>2 DEF BatchCovered
<1>11. Saving(d)'
  BY <1>1, <1>10 DEF History, Saving, files, memory
<1> QED
  BY <1>7, <1>8, <1>9, <1>11 DEF History

(* The one session is created over an untouched cursor and detector.       *)
LEMMA StartHistory ==
    ASSUME NEW d, OneSession, Alone(d), History(d), Start(d)
    PROVE  History(d)'
<1>1. /\ pc[d] = "idle"
      /\ UNCHANGED <<now, rollout, cursor, log, pc, detector, op, baseline, completedIn>>
  BY DEF Start, history
<1>2. CASE Exists
  <2>1. UNCHANGED <<runtime, spent>>
    BY <1>2 DEF Start
  <2> QED
    BY <1>1, <2>1, Quiet DEF History, Finishing
<1>3. CASE ~Exists
  <2>1. /\ runtime' = [NoRuntime EXCEPT !.anchor = now, !.revision = 0]
        /\ Spend("activations", MaxActivations)
    BY <1>3 DEF Start
  <2>2. spent["activations"] = 0 /\ spent'["activations"] = 1
        /\ spent'["failures"] = spent["failures"] /\ spent'["stops"] = spent["stops"]
    <3>1. {"activations", "stops", "failures"} \subseteq Bounds
      BY DEF Bounds
    <3>2. spent["activations"] \in Nat /\ spent["activations"] < MaxActivations /\ MaxActivations \in Nat
      BY <2>1, <3>1 DEF Spend, Alone, Values, Budget
    <3>3. spent["activations"] = 0
      BY <3>2 DEF OneSession
    <3> QED
      BY <2>1, <3>1, <3>3, Spent DEF Alone, Values
  <2>3. now \in Nat /\ RuntimeIs(runtime', FALSE, FALSE, now, 0, 0)
    <3>1. now \in Nat /\ NoRuntime \in Runtimes
      BY DEF Alone, Values, Times, NoRuntime, Runtimes
    <3> QED
      BY Zenon, <2>1, <3>1, RuntimeUpdates
  <2>4. cursor = -1 /\ detector[d] = NoDetector /\ Completion \notin log
    BY <2>2 DEF History, Once, Finishing
  <2>5. NoDetector.since = -1 /\ NoDetector.waits = "none"
    BY DEF NoDetector, InitialState
  <2>6. Once(d)' /\ Interval(d)' /\ Finishing(d)'
    BY <1>1, <2>2, <2>3, <2>4, <2>5 DEF History, Once, Interval, Finishing, RuntimeIs, Watching
  <2>7. Covered'
    <3>1. \A i \in DOMAIN rollout : i \in Nat
      BY DEF Alone, Values, Times
    <3> QED
      BY <1>1, <2>4, <3>1 DEF Covered
  <2>8. Saving(d)'
    BY <1>1 DEF Saving
  <2>9. EpochsPaid(d)'
    <3>1. spent["failures"] \in Nat /\ spent["stops"] \in Nat
      BY DEF Alone, Values, Budget, Bounds
    <3> QED
      BY <1>1, <2>2, <2>3, <2>4, <3>1 DEF EpochsPaid, Paid, RuntimeIs
  <2> QED
    BY <1>1, <2>6, <2>7, <2>8, <2>9 DEF History
<1> QED
  BY <1>2, <1>3

(* A completed or removed session no longer waits for its records.         *)
LEMMA RemovalHistory ==
    ASSUME NEW d, Alone(d), History(d), Complete(d) \/ RemoveRuntime(d) \/ RemoveCursor(d)
    PROVE  History(d)'
<1>1. /\ d \in Daemons /\ pc \in [Daemons -> Places] /\ op \in [Daemons -> Ops] /\ op[d] \in Ops
      /\ runtime \in Runtimes
  BY DEF Alone, Values, Memory, Files
<1>2. NoOp.purpose = "none" /\ [NoOp EXCEPT !.purpose = "complete"].purpose = "complete"
  BY DEF NoOp
<1>3. spent["failures"] \in Nat /\ spent["stops"] \in Nat /\ cursor \in Int /\ cursor >= -1
  <2>1. {"failures", "stops"} \subseteq Bounds
    BY DEF Bounds
  <2> QED
    BY <2>1 DEF Alone, Values, Budget, Files
<1>4. UNCHANGED <<now, rollout, log, detector, spent, baseline, completedIn>>
  BY DEF Complete, RemoveRuntime, RemoveCursor, memory, history
<1>5. CASE Complete(d)
  <2>1. RuntimeIs(runtime', TRUE, runtime.finished, runtime.anchor, runtime.epoch, runtime.revision + 1)
    BY Zenon, <1>1, <1>5, RuntimeUpdates DEF Complete
  <2>2. /\ pc[d] = "idle" /\ pc'[d] = "scanning" /\ op'[d].purpose = "complete" /\ cursor' = cursor
        /\ runtime.revision # -1 /\ runtime.revision \in Int /\ runtime.revision >= -1
    BY <1>1, <1>2, <1>5 DEF Complete, Exists, Alone, Values, Files, Runtimes
  <2> QED
    BY <1>4, <2>1, <2>2 DEF History, Once, Covered, Watching, Interval, Saving, EpochsPaid, Paid, Finishing, RuntimeIs
<1>6. CASE RemoveRuntime(d)
  <2>1. RuntimeIs(runtime', FALSE, FALSE, 0, 0, -1)
    BY <1>1, <1>6, RuntimeUpdates DEF RemoveRuntime
  <2>2. pc[d] = "removing" /\ pc'[d] = "dropping" /\ op' = op /\ cursor' = cursor
    BY <1>1, <1>6 DEF RemoveRuntime
  <2>3. EpochsPaid(d)'
    BY <1>3, <1>4, <2>1, <2>2 DEF EpochsPaid, Paid, RuntimeIs
  <2> QED
    BY <1>4, <2>1, <2>2, <2>3 DEF History, Once, Covered, Watching, Interval, Saving, Finishing, RuntimeIs
<1>7. CASE RemoveCursor(d)
  <2>1. pc[d] = "dropping" /\ pc'[d] = "idle" /\ op'[d].purpose = "none" /\ cursor' = -1 /\ runtime' = runtime
    BY <1>1, <1>2, <1>7 DEF RemoveCursor, NoCursor
  <2>2. runtime.revision = -1 /\ runtime.epoch = 0
    <3>1. runtime.revision = -1
      BY <2>1 DEF Alone, Sole, Attended
    <3> QED
      BY <3>1 DEF Alone, Values, Files, NoRuntime
  <2>3. EpochsPaid(d)'
    BY <1>3, <1>4, <2>1, <2>2 DEF EpochsPaid, Paid
  <2> QED
    BY <1>4, <2>1, <2>2, <2>3 DEF History, Once, Covered, Watching, Interval, Saving, Finishing
<1> QED
  BY <1>5, <1>6, <1>7

(* The runtime is written before the cursor passes its records.            *)
LEMMA WriteHistory ==
    ASSUME NEW d, Alone(d), History(d), WriteRuntime(d) \/ WriteCursor(d)
    PROVE  History(d)'
<1>1. /\ d \in Daemons /\ pc \in [Daemons -> Places] /\ op \in [Daemons -> Ops] /\ op[d] \in Ops
      /\ runtime \in Runtimes /\ runtime.revision # -1 /\ runtime.epoch \in Nat /\ runtime.anchor \in Nat
      /\ detector[d].since \in Int /\ cursor \in Int /\ baseline \in Int
  <2>1. /\ d \in Daemons /\ pc \in [Daemons -> Places] /\ op \in [Daemons -> Ops] /\ op[d] \in Ops
        /\ detector[d].since \in Int
    BY DEF Alone, Values, Memory, SilenceState
  <2>2. /\ runtime \in Runtimes /\ runtime.epoch \in Nat /\ runtime.anchor \in Nat
        /\ cursor \in Int /\ baseline \in Int
    BY DEF Alone, Values, Files, Runtimes
  <2>3. runtime.revision # -1
    BY DEF WriteRuntime, WriteCursor, Alone, Sole, Undisturbed
  <2> QED
    BY <2>1, <2>2, <2>3
<1>2. spent["failures"] \in Nat /\ spent["stops"] \in Nat /\ cursor \in Int /\ cursor >= -1
  <2>1. {"failures", "stops"} \subseteq Bounds
    BY DEF Bounds
  <2> QED
    BY <2>1 DEF Alone, Values, Budget, Files
<1>3. UNCHANGED <<now, rollout, log, detector, spent, completedIn, op>>
  BY DEF WriteRuntime, WriteCursor, memory, history
<1>4. \A i \in DOMAIN rollout : i \in Nat /\ rollout[i].at \in Nat
  <2>1. \A i \in DOMAIN rollout : rollout[i] \in Records /\ i \in Nat
    BY DEF Alone, Values, Times
  <2> QED
    BY <2>1 DEF Records
<1>5. CASE WriteRuntime(d)
  <2> DEFINE next == op[d].next
  <2>1. /\ pc[d] = "writing" /\ pc'[d] = "storing" /\ cursor' = cursor /\ baseline' = baseline
        /\ next \in Runtimes /\ next.anchor \in Nat /\ next.epoch \in Nat
    BY <1>1, <1>5 DEF WriteRuntime, history, Ops, Runtimes
  <2>2. /\ (next.revision = runtime.revision => next = runtime)
        /\ next.complete = runtime.complete
        /\ next.revision >= 0 /\ runtime.revision = op[d].revision
    BY <2>1 DEF Alone, Sole, Undisturbed
  <2>3. /\ \/ next.epoch = runtime.epoch
           \/ next.epoch = runtime.epoch + 1 /\ op[d].from # -1 /\ op[d].from < op[d].to
        /\ runtime.anchor <= next.anchor /\ next.anchor <= detector[d].since
        /\ (~runtime.complete => BatchCovered(d, next.anchor))
        /\ (next.finished => Completion \in log)
    BY <2>1 DEF History, Saving
  <2>4. runtime' = next
    BY <1>5, <2>2 DEF WriteRuntime
  <2> HIDE DEF next
  <2>5. Once(d)' /\ Interval(d)' /\ Finishing(d)'
    BY <1>1, <1>3, <2>1, <2>2, <2>3, <2>4 DEF History, Once, Interval, Finishing, Watching
  <2>6. Covered'
    <3>1. ASSUME NEW i \in DOMAIN rollout, rollout[i].at <= runtime.anchor PROVE rollout[i].at <= next.anchor
      BY <1>1, <1>4, <2>1, <2>3, <3>1
    <3> QED
      BY <1>1, <1>3, <2>1, <2>2, <2>4, <3>1 DEF History, Covered, Watching
  <2>7. Saving(d)'
    BY <1>3, <2>1, <2>2, <2>3, <2>4 DEF Saving, BatchCovered
  <2>8. EpochsPaid(d)'
    <3>1. runtime.epoch <= Paid /\ Paid \in Int /\ Paid' = Paid
      BY <1>2, <1>3, <2>1 DEF History, EpochsPaid, Paid
    <3> HIDE DEF Paid
    <3> QED
      BY <1>1, <1>3, <2>1, <2>3, <2>4, <3>1 DEF EpochsPaid
  <2> QED
    BY <1>3, <2>5, <2>6, <2>7, <2>8 DEF History
<1>6. CASE WriteCursor(d)
  <2>1. /\ pc[d] = "storing" /\ pc'[d] = "flushing" /\ runtime' = runtime
        /\ cursor' = IF op[d].to = op[d].from THEN cursor ELSE op[d].to
        /\ baseline' = IF op[d].to # -1 /\ op[d].from = -1 THEN op[d].to ELSE baseline
    BY <1>1, <1>6 DEF WriteCursor, NoCursor
  <2>2. \/ runtime.complete /\ op[d].from = -1 /\ op[d].to = -1
        \/ ~runtime.complete /\ op[d].from = cursor /\ op[d].to \in Nat /\ op[d].from <= op[d].to
    BY <2>1 DEF Alone, Sole, Undisturbed
  <2>3. Once(d)' /\ Interval(d)' /\ Saving(d)'
    BY <1>1, <1>3, <2>1 DEF History, Once, Interval, Saving, Watching
  <2>4. Finishing(d)'
    BY <1>3, <2>1 DEF History, Finishing
  <2>5. Covered'
    <3>1. CASE op[d].from = -1
      BY <1>3, <1>4, <2>1, <2>2, <3>1, <1>1 DEF History, Covered, Watching
    <3>2. CASE op[d].from # -1 /\ ~runtime.complete
      <4>1. BatchCovered(d, runtime.anchor) /\ baseline' = baseline /\ op[d].from = cursor /\ cursor' = op[d].to
        BY <2>1, <2>2, <3>2 DEF History, Saving
      <4>2. ASSUME NEW i \in DOMAIN rollout, i <= cursor' PROVE i <= cursor \/ rollout[i].at <= runtime.anchor
        BY <1>1, <1>4, <2>2, <3>2, <4>1, <4>2 DEF BatchCovered
      <4> QED
        BY <1>3, <2>1, <4>1, <4>2 DEF History, Covered, Watching
    <3> QED
      BY <2>2, <3>1, <3>2
  <2>6. EpochsPaid(d)'
    BY <1>1, <1>2, <1>3, <2>1, <2>2 DEF History, EpochsPaid, Paid
  <2> QED
    BY <1>3, <2>3, <2>4, <2>5, <2>6 DEF History
<1> QED
  BY <1>5, <1>6

(* What an evaluation finds: the silence it measures began at the anchor or*)
(* later, and a batch with nothing fresh is older than the anchor.         *)
LEMMA EvaluationStart ==
    ASSUME NEW d, Alone(d), History(d), pc[d] = "committing", ~runtime.complete
    PROVE  /\ runtime.revision # -1 /\ now \in Nat /\ runtime.anchor \in Nat /\ runtime.epoch \in Nat
           /\ Restored(d) \in SilenceState
           /\ Restored(d).since = Existing(d).since
           /\ Existing(d).since \in Int
           /\ runtime.anchor <= Existing(d).since /\ Existing(d).since <= now
           /\ Restored(d).waits # "terminal"
           /\ (Restored(d).warned <=> WasWarned(d))
           /\ (Existing(d).warned => detector[d].warned)
           /\ (Progressed(d) <=> Fresh(d) # {})
           /\ (IF OpenAfter(d) = {} THEN "none" ELSE "paused") \in Waits \ {"terminal"}
<1>1. /\ now \in Nat /\ runtime.anchor \in Nat /\ runtime.epoch \in Nat /\ runtime.anchor <= now
      /\ detector[d] \in SilenceState /\ runtime.revision # -1
  BY DEF Alone, Values, Times, Files, Memory, Runtimes, Sole, Undisturbed
<1>2. Existing(d) \in SilenceState /\ Restored(d) \in SilenceState
  BY EvaluationTypes
<1>3. /\ Existing(d).since \in Int /\ runtime.anchor <= Existing(d).since /\ Existing(d).since <= now
      /\ Existing(d).waits # "terminal" /\ (Existing(d).warned => detector[d].warned)
  <2>1. CASE detector[d] = NoDetector
    <3>1. Existing(d).since = runtime.anchor /\ Existing(d).waits = "none" /\ ~Existing(d).warned
      BY <2>1 DEF Existing, RecoveredState, InitialState
    <3> QED
      BY <1>1, <3>1
  <2>2. CASE detector[d] # NoDetector
    <3>1. Existing(d) = detector[d]
      BY <2>2 DEF Existing
    <3> QED
      BY <1>1, <2>2, <3>1 DEF History, Interval, Watching, SilenceState
  <2> QED
    BY <2>1, <2>2
<1>4. /\ RestoreSuspected(Existing(d)).since = Existing(d).since
      /\ RestoreSuspected(Existing(d)).waits = Existing(d).waits
      /\ RestoreSuspected(Existing(d)).warned
  BY Zenon, <1>2, DetectorFields
<1>5. /\ Restored(d).since = Existing(d).since
      /\ Restored(d).waits # "terminal"
      /\ (Restored(d).warned <=> WasWarned(d))
  <2>1. CASE WasWarned(d) /\ ~Existing(d).warned
    BY Zenon, <1>3, <1>4, <2>1 DEF Restored
  <2>2. CASE ~(WasWarned(d) /\ ~Existing(d).warned)
    BY Zenon, <1>3, <2>2 DEF Restored, WasWarned
  <2> QED
    BY <2>1, <2>2
<1>6. AcceptsProgress(Restored(d), now)
  BY <1>1, <1>3, <1>5 DEF AcceptsProgress
<1>7. Progressed(d) <=> Fresh(d) # {}
  BY <1>6 DEF Progressed
<1>8. (IF OpenAfter(d) = {} THEN "none" ELSE "paused") \in Waits \ {"terminal"}
  BY DEF Waits
<1> QED
  BY <1>1, <1>2, <1>3, <1>5, <1>7, <1>8

(* What an evaluation leaves in memory, and what it wants recorded.        *)
LEMMA EvaluationEnd ==
    ASSUME NEW d, Alone(d), History(d), pc[d] = "committing", ~runtime.complete
    PROVE  LET after == Evaluate(Prepared(d), now)
               action == ActionAt(Prepared(d), now)
           IN
           /\ after.since = IF Progressed(d) THEN now ELSE Existing(d).since
           /\ after.waits # "terminal"
           /\ (Progressed(d) => ~after.warned /\ DiagnosticOf(d) = {})
           /\ (~Progressed(d) /\ after.warned => WasWarned(d) \/ Silence(runtime.epoch) \in DiagnosticOf(d))
           /\ (\A t \in DiagnosticOf(d) :
                 \/ t = Silence(runtime.epoch) /\ action = "silence"
                    /\ now - Existing(d).since >= Warning
                 \/ t = Entry("critical", runtime.epoch) /\ WasWarned(d))
<1> DEFINE r == Restored(d)
           waits == IF OpenAfter(d) = {} THEN "none" ELSE "paused"
           s == IF Progressed(d) THEN RecordProgress(r, now) ELSE r
           p == Prepared(d)
<1>1. /\ now \in Nat /\ r \in SilenceState /\ r.since = Existing(d).since /\ Existing(d).since \in Int
      /\ r.waits # "terminal" /\ (r.warned <=> WasWarned(d))
      /\ waits \in Waits \ {"terminal"} /\ now \in Int
  BY EvaluationStart
<1>2. p = SetWaits(s, waits)
  BY DEF Prepared
<1>3. Progressed(d) => AcceptsProgress(r, now)
  BY DEF Progressed
<1> HIDE DEF r, waits
<1>4. /\ s \in SilenceState
      /\ s.since = IF Progressed(d) THEN now ELSE Existing(d).since
      /\ (Progressed(d) => ~s.warned)
      /\ (~Progressed(d) => (s.warned <=> WasWarned(d)))
  <2>1. CASE Progressed(d)
    <3>1. s = RecordProgress(r, now)
      BY <2>1
    <3> HIDE DEF s
    <3>2. s \in SilenceState /\ s.since = now /\ ~s.warned
      BY <1>1, <1>3, <2>1, <3>1, ProgressFields, DetectorTypes
    <3> QED
      BY Zenon, <2>1, <3>2
  <2>2. CASE ~Progressed(d)
    <3>1. s = r
      BY <2>2
    <3> HIDE DEF s
    <3> QED
      BY Zenon, <1>1, <2>2, <3>1
  <2> QED
    BY <2>1, <2>2
<1> HIDE DEF s
<1>5. p \in SilenceState /\ p.since = s.since /\ p.waits = waits /\ p.warned = s.warned
  <2>1. waits \in Waits
    BY <1>1
  <2> QED
    <3>1. SetWaits(s, waits) \in SilenceState
      BY <1>1, <1>4, <2>1, DetectorTypes
    <3>2. /\ SetWaits(s, waits).since = s.since /\ SetWaits(s, waits).waits = waits
          /\ SetWaits(s, waits).warned = s.warned
      BY <1>4, <2>1, DetectorFields
    <3> QED
      BY Zenon, <1>2, <3>1, <3>2
<1>6. p.waits # "terminal" /\ p.since \in Int
  BY <1>1, <1>4, <1>5
<1> HIDE DEF p
<1>7. /\ (now - p.since < Warning => ActionAt(p, now) = "none")
      /\ (ActionAt(p, now) = "critical" => p.warned)
  BY <1>1, <1>5, <1>6, ActionCases
<1>8. /\ Evaluate(p, now).since = p.since /\ Evaluate(p, now).waits = p.waits
      /\ Evaluate(p, now).warned = (p.warned \/ ActionAt(p, now) = "silence")
  <2>1. p \in SilenceState
    BY <1>5
  <2> QED
    BY Zenon, <2>1 DEF SilenceState, Evaluate
<1>9. Progressed(d) => ActionAt(p, now) = "none"
  <2>1. CASE Progressed(d)
    BY <1>1, <1>4, <1>5, <1>7, <2>1
  <2> QED
    BY <2>1
<1>10. DiagnosticOf(d) = IF ActionAt(p, now) \in {"silence", "critical"} THEN {Entry(ActionAt(p, now), runtime.epoch)} ELSE {}
  BY DEF DiagnosticOf, p
<1>11. Progressed(d) => ~Evaluate(p, now).warned /\ DiagnosticOf(d) = {}
  <2>1. CASE Progressed(d)
    <3>1. ActionAt(p, now) = "none" /\ ~p.warned
      BY Zenon, <1>4, <1>5, <1>9, <2>1
    <3> QED
      BY <1>8, <1>10, <3>1
  <2> QED
    BY <2>1
<1>12. ~Progressed(d) /\ Evaluate(p, now).warned => WasWarned(d) \/ Silence(runtime.epoch) \in DiagnosticOf(d)
  <2>1. CASE ~Progressed(d) /\ Evaluate(p, now).warned
    <3>1. p.warned \/ ActionAt(p, now) = "silence"
      BY Zenon, <1>8, <2>1
    <3>2. p.warned => WasWarned(d)
      BY Zenon, <1>4, <1>5, <2>1
    <3> QED
      BY <1>10, <3>1, <3>2 DEF Silence
  <2> QED
    BY <2>1
<1>13. ASSUME NEW t \in DiagnosticOf(d)
       PROVE  \/ t = Silence(runtime.epoch) /\ ActionAt(p, now) = "silence" /\ now - Existing(d).since >= Warning
              \/ t = Entry("critical", runtime.epoch) /\ WasWarned(d)
  <2>1. ~Progressed(d)
    BY <1>11, <1>13
  <2>2. ActionAt(p, now) \in {"silence", "critical"} /\ t = Entry(ActionAt(p, now), runtime.epoch)
    BY <1>10, <1>13
  <2>3. CASE ActionAt(p, now) = "silence"
    BY <1>1, <1>4, <1>5, <1>6, <1>7, <2>1, <2>2, <2>3 DEF Silence
  <2>4. CASE ActionAt(p, now) = "critical"
    <3>1. p.warned
      BY <1>7, <2>4
    <3>2. WasWarned(d)
      BY Zenon, <1>4, <1>5, <2>1, <3>1
    <3> QED
      BY <2>2, <2>4, <3>2
  <2> QED
    BY <2>2, <2>3, <2>4
<1>14. Evaluate(p, now).since = (IF Progressed(d) THEN now ELSE Existing(d).since) /\ Evaluate(p, now).waits # "terminal"
  BY Zenon, <1>4, <1>5, <1>6, <1>8
<1> QED
  BY <1>11, <1>12, <1>13, <1>14 DEF p

(* What an evaluation records belongs to the epoch of the snapshot.        *)
LEMMA EvaluationTransitions ==
    ASSUME NEW d, Alone(d), History(d), pc[d] = "committing", ~runtime.complete
    PROVE  RecoveryOf(d) \cup DiagnosticOf(d) \subseteq Transitions \ {Completion}
<1>1. runtime.epoch \in Epochs
  <2>1. /\ spent["failures"] \in Nat /\ spent["stops"] \in Nat
        /\ spent["failures"] <= MaxFailures /\ spent["stops"] <= MaxStops
    <3>1. {"failures", "stops"} \subseteq Bounds
      BY DEF Bounds
    <3> QED
      BY <3>1 DEF Alone, Values, Budget
  <2>2. cursor \in Int /\ cursor <= MaxEvents /\ runtime.epoch \in Nat
    <3>1. Len(rollout) \in Nat /\ Len(rollout) <= MaxEvents
      BY DEF Alone, Values, Times
    <3> QED
      BY <3>1 DEF Alone, Values, Files, Runtimes
  <2>3. runtime.epoch <= Paid
    BY DEF History, EpochsPaid
  <2>4. {MaxEvents, MaxFailures, MaxStops} \subseteq Nat
    OBVIOUS
  <2>5. runtime.epoch <= MaxEvents + MaxFailures + MaxStops
    BY <2>1, <2>2, <2>3, <2>4 DEF Paid
  <2> QED
    BY <2>2, <2>4, <2>5 DEF Epochs
<1>2. \A c \in Codes \ {"completed"} : Entry(c, runtime.epoch) \in Transitions \ {Completion}
  BY <1>1 DEF Entry, Transitions, Completion
<1>3. RecoveryOf(d) \subseteq {Entry("recovered", runtime.epoch)}
  BY DEF RecoveryOf
<1>4. DiagnosticOf(d) \subseteq {Entry("silence", runtime.epoch), Entry("critical", runtime.epoch)}
  BY DEF DiagnosticOf
<1> QED
  BY <1>2, <1>3, <1>4 DEF Codes

(* The evaluated detector.                                                 *)
LEMMA EvaluatedInterval ==
    ASSUME NEW d, Alone(d), History(d), pc[d] = "committing", ~runtime.complete, Evaluating(d),
           runtime' = runtime, now' = now
    PROVE  /\ Interval(d)'
           /\ runtime.anchor <= detector'[d].since
           /\ (Progressed(d) => detector'[d].since = now)
<1>1. detector'[d] = Evaluate(Prepared(d), now)
  BY DEF Evaluating, Alone, Values, Memory
<1>2. /\ detector'[d].since = (IF Progressed(d) THEN now ELSE Existing(d).since)
      /\ detector'[d].waits # "terminal"
  BY <1>1, EvaluationEnd
<1>3. /\ now \in Nat /\ runtime.anchor \in Nat /\ Existing(d).since \in Int
      /\ runtime.anchor <= Existing(d).since /\ Existing(d).since <= now
  BY EvaluationStart
<1> QED
  BY <1>2, <1>3 DEF Interval

(* What a commit is about to write covers the batch it read.               *)
LEMMA CommitProgressHistory ==
    ASSUME NEW d, Alone(d), History(d), CommitProgress(d)
    PROVE  History(d)'
<1>1. /\ pc[d] = "committing" /\ ~runtime.complete /\ Accepted(d) /\ Evaluating(d)
      /\ Record(d, RecoveryOf(d) \cup DiagnosticOf(d)) /\ Commit(d, Advanced(d), TRUE)
      /\ UNCHANGED <<now, rollout, runtime, cursor, spent, baseline, completedIn>>
  BY DEF CommitProgress, Accepted, Commit
<1>2. /\ now \in Nat /\ runtime.anchor \in Nat /\ runtime.epoch \in Nat /\ runtime.revision # -1
      /\ runtime \in Runtimes /\ runtime.anchor <= now /\ (Progressed(d) <=> Fresh(d) # {})
      /\ pc'[d] = "writing"
  <2>1. pc'[d] = "writing" /\ runtime \in Runtimes /\ runtime.anchor <= now
    BY <1>1 DEF Commit, Alone, Values, Memory, Files
  <2> QED
    BY <1>1, <2>1, EvaluationStart
<1>3. Interval(d)' /\ runtime.anchor <= detector'[d].since /\ (Progressed(d) => detector'[d].since = now)
  BY <1>1, EvaluatedInterval
<1>4. log' \subseteq Transitions /\ (Completion \in log' => Completion \in log) /\ log \subseteq log'
  BY <1>1, EvaluationTransitions DEF Record, History
<1> DEFINE next == Advanced(d)
<1>5. /\ next \in Runtimes /\ next.revision = runtime.revision /\ next.finished = runtime.finished
      /\ \/ Progressed(d) /\ next.epoch = runtime.epoch + 1 /\ next.anchor = now
         \/ ~Progressed(d) /\ next.epoch = runtime.epoch /\ next.anchor = runtime.anchor
  <2>1. LET later == [runtime EXCEPT !.epoch = @ + 1, !.anchor = now] IN
        /\ later \in Runtimes
        /\ RuntimeIs(later, runtime.complete, runtime.finished, now, runtime.epoch + 1, runtime.revision)
    BY Zenon, <1>2, RuntimeUpdates
  <2>2. CASE Progressed(d)
    <3>1. next \in Runtimes /\ RuntimeIs(next, runtime.complete, runtime.finished, now, runtime.epoch + 1, runtime.revision)
      BY Zenon, <2>1, <2>2 DEF Advanced
    <3> HIDE DEF next
    <3> QED
      BY <2>2, <3>1 DEF RuntimeIs
  <2>3. CASE ~Progressed(d)
    <3>1. next = runtime
      BY Zenon, <2>3 DEF Advanced
    <3> HIDE DEF next
    <3> QED
      BY <1>2, <2>3, <3>1
  <2> QED
    BY <2>2, <2>3
<1> HIDE DEF next
<1>6. /\ op'[d].purpose = op[d].purpose /\ op'[d].from = op[d].from /\ op'[d].to = op[d].to
      /\ op'[d].next.finished = runtime.finished /\ op'[d].next.anchor = next.anchor
      /\ op'[d].next.epoch = next.epoch
  BY <1>1, <1>5, CommitFields DEF OpIs, RuntimeIs, next
<1>7. /\ op[d].purpose # "complete" /\ ~runtime.finished
  BY <1>1 DEF History, Finishing, Alone, Values, Files
<1>8. \A i \in DOMAIN rollout : i \in Nat /\ rollout[i].at \in Nat /\ rollout[i].at <= now
  <2>1. \A i \in DOMAIN rollout : rollout[i] \in Records /\ i \in Nat
    BY DEF Alone, Values, Times
  <2> QED
    BY <2>1 DEF Records, Alone, Values, Times
<1>9. op[d].from \in Int /\ op[d].to \in Int
  BY DEF Alone, Values, Memory, Ops
<1>10. Fresh(d) # {} => op[d].from # -1 /\ op[d].from < op[d].to
  BY <1>9 DEF Fresh, NoCursor
<1>11. BatchCovered(d, next.anchor)
  <2>1. CASE Progressed(d)
    BY <1>5, <1>8, <2>1 DEF BatchCovered
  <2>2. CASE ~Progressed(d)
    <3>1. Fresh(d) = {} /\ next.anchor = runtime.anchor
      BY <1>2, <1>5, <2>2
    <3>2. ASSUME op[d].from # -1, NEW i \in DOMAIN rollout, op[d].from < i, i <= op[d].to
          PROVE  rollout[i].at <= runtime.anchor
      <4>1. i \in (op[d].from + 1)..op[d].to
        BY <1>8, <1>9, <3>2
      <4>2. ~(rollout[i].at >= runtime.anchor)
        BY <3>1, <3>2, <4>1 DEF Fresh, NoCursor
      <4> QED
        BY <1>2, <1>8, <4>2
    <3> QED
      BY <3>1, <3>2 DEF BatchCovered
  <2> QED
    BY <2>1, <2>2
<1>12. Saving(d)'
  <2>1. BatchCovered(d, op[d].next.anchor)'
    BY <1>1, <1>6, <1>11 DEF BatchCovered
  <2>2. /\ \/ op'[d].next.epoch = runtime.epoch
           \/ op'[d].next.epoch = runtime.epoch + 1 /\ op'[d].from # -1 /\ op'[d].from < op'[d].to
        /\ runtime.anchor <= op'[d].next.anchor /\ op'[d].next.anchor <= detector'[d].since
    BY <1>2, <1>3, <1>5, <1>6, <1>10
  <2> QED
    BY <1>1, <1>2, <1>6, <1>7, <2>1, <2>2 DEF Saving
<1>13. Once(d)' /\ Covered' /\ EpochsPaid(d)' /\ Finishing(d)'
  BY <1>1, <1>2, <1>4, <1>6, <1>7 DEF History, Once, Covered, Watching, EpochsPaid, Paid, Finishing
<1> QED
  BY <1>3, <1>4, <1>12, <1>13 DEF History

(* The completion is in the log before the session counts as finished.     *)
LEMMA CommitCompletionHistory ==
    ASSUME NEW d, OneSession, Alone(d), History(d), CommitCompletion(d)
    PROVE  History(d)'
<1>1. /\ pc[d] = "committing" /\ runtime.complete /\ Accepted(d)
      /\ Record(d, IF runtime.finished THEN {} ELSE {Completion}) /\ Commit(d, Claimed(runtime), FALSE)
      /\ completedIn' = IF log' = log THEN completedIn ELSE spent["activations"]
      /\ UNCHANGED <<now, rollout, runtime, cursor, spent, baseline>>
  BY DEF CommitCompletion, Accepted, Commit
<1>2. /\ now \in Nat /\ runtime \in Runtimes /\ runtime.anchor \in Nat /\ runtime.anchor <= now
      /\ runtime.revision # -1 /\ pc'[d] = "writing" /\ detector[d] \in SilenceState
      /\ detector \in [Daemons -> SilenceState] /\ d \in Daemons
  <2>1. now \in Nat /\ runtime \in Runtimes /\ runtime.anchor \in Nat /\ runtime.anchor <= now
        /\ detector \in [Daemons -> SilenceState] /\ pc \in [Daemons -> Places] /\ d \in Daemons
    <3>1. now \in Nat /\ runtime \in Runtimes /\ runtime.anchor \in Nat /\ runtime.anchor <= now
      BY DEF Alone, Values, Times, Files, Runtimes
    <3>2. detector \in [Daemons -> SilenceState] /\ pc \in [Daemons -> Places] /\ d \in Daemons
      BY DEF Alone, Values, Memory
    <3> QED
      BY <3>1, <3>2
  <2> QED
    BY <1>1, <2>1 DEF Commit, Alone, Sole, Undisturbed
<1>3. spent["activations"] = 1
  <2>1. spent["activations"] \in Nat /\ spent["activations"] <= MaxActivations
    BY DEF Alone, Values, Budget, Bounds
  <2>2. MaxActivations \in Nat
    OBVIOUS
  <2> QED
    BY <1>2, <2>1, <2>2 DEF OneSession, History, Once
<1>4. detector'[d].since \in Int /\ runtime.anchor <= detector'[d].since /\ detector'[d].since <= now
  <2> DEFINE s == IF detector[d] = NoDetector THEN InitialState(now) ELSE detector[d]
  <2>1. s \in SilenceState /\ s.since \in Int /\ runtime.anchor <= s.since /\ s.since <= now
    <3>1. CASE detector[d] = NoDetector
      <4>1. s = InitialState(now) /\ InitialState(now).since = now
        BY <3>1 DEF InitialState
      <4>2. InitialState(now) \in SilenceState
        BY <1>2, DetectorTypes
      <4> QED
        BY <1>2, <4>1, <4>2
    <3>2. CASE detector[d] # NoDetector
      <4>1. s = detector[d]
        BY <3>2
      <4> HIDE DEF s
      <4> QED
        BY <1>2, <3>2, <4>1 DEF History, Interval, SilenceState
    <3> QED
      BY <3>1, <3>2
  <2>2. detector'[d] = SetWaits(s, "terminal")
    BY <1>2 DEF CommitCompletion
  <2> HIDE DEF s
  <2>3. detector'[d].since = s.since
    <3>1. "terminal" \in Waits
      BY DEF Waits
    <3>2. SetWaits(s, "terminal").since = s.since
      BY <2>1, <3>1, DetectorFields
    <3> QED
      BY Zenon, <2>2, <3>2
  <2> QED
    BY <2>1, <2>3
<1>5. /\ Claimed(runtime) \in Runtimes
      /\ RuntimeIs(Claimed(runtime), runtime.complete, TRUE, runtime.anchor, runtime.epoch, runtime.revision)
  BY Zenon, <1>2, RuntimeUpdates
<1>6. /\ op'[d].purpose = op[d].purpose /\ op'[d].from = op[d].from /\ op'[d].to = op[d].to
      /\ op'[d].next.anchor = runtime.anchor /\ op'[d].next.epoch = runtime.epoch
  <2>1. Claimed(runtime).revision = runtime.revision
    BY <1>5 DEF RuntimeIs
  <2>2. \E r \in Runtimes : /\ r = Claimed(runtime)
          /\ OpIs(op'[d], op[d].purpose, op[d].revision, op[d].from, op[d].to, op'[d].next, FALSE, op[d].failed)
          /\ RuntimeIs(op'[d].next, r.complete, r.finished, r.anchor, r.epoch, op'[d].next.revision)
    BY <1>1, <1>5, <2>1, CommitFields
  <2> QED
    BY <1>5, <2>2 DEF OpIs, RuntimeIs
<1>7. Completion \in Transitions
  BY DEF Completion, Entry, Transitions, Codes, Epochs
<1>8. log' \subseteq Transitions /\ Completion \in log'
  BY <1>1, <1>7 DEF Record, History, Finishing
<1>9. completedIn' = 1
  BY <1>1, <1>3, <1>8 DEF History, Finishing
<1>10. Once(d)' /\ Covered' /\ Interval(d)' /\ EpochsPaid(d)'
  BY <1>1, <1>2, <1>3, <1>4 DEF History, Once, Covered, Watching, Interval, EpochsPaid, Paid
<1>11. Saving(d)'
  BY <1>1, <1>2, <1>4, <1>6, <1>8 DEF Saving
<1>12. Finishing(d)'
  BY <1>1, <1>2, <1>3, <1>8, <1>9 DEF Finishing
<1> QED
  BY <1>8, <1>10, <1>11, <1>12 DEF History

(* A fault pays for the batch that will be read again.                     *)
LEMMA FaultHistory ==
    ASSUME NEW d, Alone(d), History(d),
           FileFails(d) \/ LogFailsBeforeEvaluation(d) \/ LogFailsAfterEvaluation(d) \/ Crash(d)
    PROVE  History(d)'
<1>1. /\ d \in Daemons /\ pc \in [Daemons -> Places] /\ op \in [Daemons -> Ops] /\ op[d] \in Ops
      /\ runtime \in Runtimes /\ runtime.epoch \in Nat /\ cursor \in Int /\ now \in Nat
      /\ detector \in [Daemons -> SilenceState] /\ Budget
  BY DEF Alone, Values, Memory, Files, Runtimes, Times
<1>2. {"activations", "stops", "failures", "log failures"} = Bounds
  BY DEF Bounds
<1>3. spent["failures"] \in Nat /\ spent["stops"] \in Nat
  BY <1>1, <1>2 DEF Budget
<1>4. UNCHANGED <<now, rollout, runtime, cursor, baseline, completedIn>>
  BY DEF FileFails, LogFailsBeforeEvaluation, LogFailsAfterEvaluation, Crash, files, history
<1>5. ASSUME Raise(d), pc[d] \in {"scanning", "reading", "committing", "writing", "storing"}
      PROVE  pc'[d] = "flushing" /\ op'[d].failed /\ op'[d].purpose = op[d].purpose
  <2>1. pc'[d] = "flushing" /\ op'[d] = [op[d] EXCEPT !.failed = TRUE]
    BY <1>1, <1>5 DEF Raise
  <2> QED
    BY Zenon, <1>1, <2>1 DEF Ops
<1>6. CASE FileFails(d)
  <2>1. /\ spent'["failures"] = spent["failures"] + 1 /\ spent'["stops"] = spent["stops"]
        /\ spent'["activations"] = spent["activations"]
    BY <1>1, <1>2, <1>6, Spent DEF FileFails
  <2>2. pc'[d] = "flushing" /\ op'[d].failed /\ op'[d].purpose = op[d].purpose /\ detector' = detector /\ log' = log
    BY <1>5, <1>6 DEF FileFails, memory, files
  <2>3. EpochsPaid(d)'
    BY <1>1, <1>3, <1>4, <2>1 DEF History, EpochsPaid, Paid
  <2> QED
    BY <1>4, <2>1, <2>2, <2>3 DEF History, Once, Covered, Watching, Interval, Saving, Finishing
<1>7. CASE LogFailsBeforeEvaluation(d)
  <2>1. /\ spent'["failures"] = spent["failures"] /\ spent'["stops"] = spent["stops"]
        /\ spent'["activations"] = spent["activations"]
    BY <1>1, <1>2, <1>7, Spent DEF LogFailsBeforeEvaluation
  <2>2. /\ pc[d] = "committing" /\ pc'[d] = "flushing" /\ op'[d].failed /\ op'[d].purpose = op[d].purpose
        /\ detector' = detector /\ log' = log
    BY <1>5, <1>7 DEF LogFailsBeforeEvaluation, Accepted, files
  <2> QED
    BY <1>4, <2>1, <2>2 DEF History, Once, Covered, Watching, Interval, Saving, EpochsPaid, Paid, Finishing
<1>8. CASE LogFailsAfterEvaluation(d)
  <2>1. /\ spent'["failures"] = spent["failures"] /\ spent'["stops"] = spent["stops"]
        /\ spent'["activations"] = spent["activations"]
    BY <1>1, <1>2, <1>8, Spent DEF LogFailsAfterEvaluation
  <2>2. /\ pc[d] = "committing" /\ pc'[d] = "flushing" /\ op'[d].failed /\ op'[d].purpose = op[d].purpose
        /\ ~runtime.complete /\ Evaluating(d) /\ Record(d, RecoveryOf(d))
    BY <1>5, <1>8 DEF LogFailsAfterEvaluation, Accepted
  <2>3. Interval(d)' /\ runtime.revision # -1
    BY <1>4, <2>2, EvaluatedInterval, EvaluationStart
  <2>4. log' \subseteq Transitions /\ (Completion \in log' => Completion \in log) /\ log \subseteq log'
    BY <2>2, EvaluationTransitions DEF Record, History
  <2> QED
    BY <1>4, <2>1, <2>2, <2>3, <2>4 DEF History, Once, Covered, Watching, Saving, EpochsPaid, Paid, Finishing
<1>9. CASE Crash(d)
  <2>1. /\ spent'["failures"] = spent["failures"] /\ spent'["stops"] = spent["stops"] + 1
        /\ spent'["activations"] = spent["activations"]
    BY <1>1, <1>2, <1>9, Spent DEF Crash
  <2>2. NoOp.purpose = "none" /\ NoDetector.since = -1 /\ NoDetector.waits = "none"
    BY DEF NoOp, NoDetector, InitialState
  <2>3. pc'[d] = "down" /\ op'[d].purpose = "none" /\ detector'[d] = NoDetector /\ log' = log
    BY <1>1, <1>9, <2>2 DEF Crash, files
  <2>4. EpochsPaid(d)'
    BY <1>1, <1>3, <1>4, <2>1 DEF History, EpochsPaid, Paid
  <2> QED
    BY <1>1, <1>4, <2>1, <2>2, <2>3, <2>4 DEF History, Once, Covered, Watching, Interval, Saving, Finishing
<1> QED
  BY <1>6, <1>7, <1>8, <1>9

(* Every step of the one session.                                          *)
LEMMA NextHistory ==
    ASSUME NEW d, OneSession, Alone(d), History(d), [Next]_vars
    PROVE  History(d)'
<1>1. d \in Daemons /\ \A e \in Daemons : e = d
  BY DEF Alone
<1>2. CASE UNCHANGED vars
  BY <1>2 DEF vars, files, memory, history, History, Once, Covered, Watching, Interval, Saving, BatchCovered, EpochsPaid, Paid, Finishing
<1>3. CASE Thread \/ Clock
  BY <1>3, EnvironmentHistory
<1>4. CASE Request(d) \/ DaemonStep(d) \/ Fault(d) \/ Restart(d)
  <2>1. ~CommitRefused(d)
    BY DEF CommitRefused, Alone, Sole, Undisturbed
  <2> QED
    BY <1>4, <2>1, QuietSteps, StartHistory, RemovalHistory, WriteHistory, CommitProgressHistory,
       CommitCompletionHistory, FaultHistory DEF Request, DaemonStep, Fault
<1> QED
  BY <1>1, <1>2, <1>3, <1>4 DEF Next

(* Nothing is consumed, recorded or warned of at first.                    *)
LEMMA InitHistory ==
    ASSUME NEW d \in Daemons, Init
    PROVE  History(d)
<1>1. NoRuntime.revision = -1 /\ NoRuntime.epoch = 0 /\ ~NoRuntime.finished
  BY DEF NoRuntime
<1>2. NoOp.purpose = "none" /\ NoDetector.since = -1 /\ NoDetector.waits = "none"
  BY DEF NoOp, NoDetector, InitialState
<1>3. /\ runtime = NoRuntime /\ cursor = -1 /\ now = 0 /\ log = {} /\ detector[d] = NoDetector
      /\ op[d] = NoOp /\ pc[d] = "idle"
  BY DEF Init, Untouched, NoCursor
<1>4. spent["failures"] = 0 /\ spent["stops"] = 0
  BY DEF Init, Bounds
<1> QED
  BY <1>1, <1>2, <1>3, <1>4 DEF History, Once, Covered, Watching, Interval, Saving, EpochsPaid, Paid, Finishing

(* The invariant gives every variable its range.                           *)
LEMMA TypesHold ==
    ASSUME NEW d, Alone(d), History(d)
    PROVE  TypeOK
<1>1. now \in 0..MaxTime /\ now \in Nat /\ MaxTime \in Nat
  BY DEF Alone, Values, Times
<1>2. ASSUME NEW i \in DOMAIN rollout
      PROVE  rollout[i] \in [kind : {"item", "start", "result"}, call : Calls \cup {NoCall}, at : 0..now]
  <2>1. rollout[i] \in Records /\ rollout[i].at <= now
    BY DEF Alone, Values, Times
  <2> QED
    BY <1>1, <2>1 DEF Records
<1>3. cursor \in Int /\ cursor >= -1 /\ cursor <= MaxEvents /\ Len(rollout) \in Nat /\ Len(rollout) <= MaxEvents
  <2>1. Len(rollout) \in Nat /\ Len(rollout) <= MaxEvents
    BY DEF Alone, Values, Times
  <2> QED
    BY <2>1 DEF Alone, Values, Files
<1>4. runtime \in RuntimeFile
  <2>1. runtime \in Runtimes /\ runtime.anchor \in 0..MaxTime /\ runtime.epoch \in Nat
    <3>1. runtime \in Runtimes /\ runtime.anchor <= now
      BY DEF Alone, Values, Files
    <3> QED
      BY <1>1, <3>1 DEF Runtimes
  <2>2. runtime.epoch \in Epochs
    <3>1. /\ spent["failures"] \in Nat /\ spent["stops"] \in Nat
          /\ spent["failures"] <= MaxFailures /\ spent["stops"] <= MaxStops
      <4>1. {"failures", "stops"} \subseteq Bounds
        BY DEF Bounds
      <4> QED
        BY <4>1 DEF Alone, Values, Budget
    <3>2. {MaxEvents, MaxFailures, MaxStops} \subseteq Nat
      OBVIOUS
    <3>3. CASE runtime.epoch <= Paid
      <4>1. Paid <= MaxEvents + MaxFailures + MaxStops /\ Paid \in Int
        <5>1. CASE cursor = -1
          <6>1. 0 <= MaxEvents /\ Paid = spent["failures"] + spent["stops"]
            BY <3>1, <3>2, <5>1 DEF Paid
          <6> QED
            BY <3>1, <3>2, <6>1
        <5>2. CASE cursor # -1
          <6>1. cursor <= MaxEvents /\ cursor \in Int /\ Paid = cursor + spent["failures"] + spent["stops"]
            BY <1>3, <3>1, <3>2, <5>2 DEF Paid
          <6> QED
            BY <3>1, <3>2, <6>1
        <5> QED
          BY <5>1, <5>2
      <4>2. runtime.epoch <= MaxEvents + MaxFailures + MaxStops
        BY <2>1, <3>2, <3>3, <4>1
      <4> QED
        BY <2>1, <3>2, <4>2 DEF Epochs
    <3>4. CASE runtime.epoch <= Paid + 1 /\ pc[d] = "storing" /\ op[d].from # -1 /\ op[d].from < op[d].to
      <4>1. op[d].from = cursor /\ op[d].to \in 0..Len(rollout)
        BY <3>4 DEF Alone, Sole, Undisturbed
      <4>2. cursor + 1 <= MaxEvents /\ MaxEvents \in Nat
        BY <1>3, <3>2, <3>4, <4>1
      <4>3. cursor # -1 /\ cursor \in Nat
        BY <1>3, <3>4, <4>1
      <4>4. Paid <= (MaxEvents - 1) + MaxFailures + MaxStops /\ Paid \in Int
        BY <3>1, <3>2, <4>2, <4>3 DEF Paid
      <4>5. runtime.epoch <= MaxEvents + MaxFailures + MaxStops
        BY <2>1, <3>2, <3>4, <4>4
      <4> QED
        BY <2>1, <3>2, <4>5 DEF Epochs
    <3> QED
      BY <3>3, <3>4 DEF History, EpochsPaid
  <2> QED
    BY <2>1, <2>2 DEF Runtimes, RuntimeFile
<1>5. /\ runtime.finished => runtime.complete
      /\ log \subseteq Transitions
      /\ \A e \in Daemons : detector[e] \in SilenceState /\ openCalls[e] \subseteq Calls
      /\ \A e \in Daemons : lock = e <=> pc[e] \in {"writing", "storing"}
  BY DEF Alone, Values, Files, Memory, History, Sole, Undisturbed
<1> QED
  BY <1>1, <1>2, <1>3, <1>4, <1>5 DEF TypeOK

(* The anchor of a live session covers what was consumed.                  *)
LEMMA CoverHolds ==
    ASSUME NEW d, Alone(d), History(d)
    PROVE  AnchorCoversCursor
<1>1. Live => Watching
  BY DEF Live, Exists, Watching, Alone, Values, Files
<1> QED
  BY <1>1 DEF History, Covered, AnchorCoversCursor

(* The log grows by what an evaluation records, or by the completion.      *)
LEMMA LogGrowth ==
    ASSUME NEW d, Alone(d), [Next]_vars, log' # log
    PROVE  \/ CommitProgress(d) \/ CommitCompletion(d) \/ LogFailsAfterEvaluation(d)
<1>1. \A e \in Daemons : e = d
  BY DEF Alone
<1>2. ~UNCHANGED vars /\ ~Thread /\ ~Clock
  BY DEF vars, files, Thread, EmitItem, EmitStart, EmitResult, Emit, Clock
<1>3. ~Request(d) /\ ~Restart(d)
  BY DEF Request, Start, Stop, Complete, Restart, files
<1>4. DaemonStep(d) => CommitProgress(d) \/ CommitCompletion(d)
  BY DEF DaemonStep, TickBegins, Scan, ReadBatch, CommitRefused, WriteRuntime, WriteCursor,
         Deliver, TickEnds, CompleteEnds, RemoveRuntime, RemoveCursor, files
<1>5. Fault(d) => LogFailsAfterEvaluation(d)
  BY DEF Fault, DeliveryRefused, FileFails, LogFailsBeforeEvaluation, Crash, files
<1> QED
  BY <1>1, <1>2, <1>3, <1>4, <1>5 DEF Next

(* A suspicion is recorded by an evaluation whose batch held nothing fresh.*)
LEMMA SuspicionsHold ==
    ASSUME NEW d, Alone(d), History(d), [Next]_vars, NEW t \in log' \ log, t.code = "silence"
    PROVE  /\ now - runtime.anchor >= Warning
           /\ \A i \in Seen(lock') : now - rollout[i].at >= Warning
<1>1. CASE CommitProgress(d)
  <2>1. /\ pc[d] = "committing" /\ ~runtime.complete /\ lock' = d
        /\ log' = log \cup (RecoveryOf(d) \cup DiagnosticOf(d))
    BY <1>1 DEF CommitProgress, Accepted, Commit, Record
  <2>2. t \in DiagnosticOf(d)
    <3>1. \A u \in RecoveryOf(d) : u.code = "recovered"
      BY DEF RecoveryOf, Entry
    <3> QED
      BY <2>1, <3>1
  <2>3. now - Existing(d).since >= Warning /\ ~Progressed(d)
    <3>1. Entry("critical", runtime.epoch).code # "silence"
      BY DEF Entry
    <3> QED
      BY <2>1, <2>2, <3>1, EvaluationEnd
  <2>4. /\ now \in Nat /\ runtime.anchor \in Nat /\ Existing(d).since \in Int /\ runtime.anchor <= Existing(d).since
        /\ Fresh(d) = {} /\ runtime.revision # -1
    BY <2>1, <2>3, EvaluationStart
  <2>5. Warning \in Nat /\ now - runtime.anchor >= Warning
    BY <2>3, <2>4
  <2>6. ASSUME NEW i \in Seen(d) PROVE now - rollout[i].at >= Warning
    <3>1. i \in DOMAIN rollout /\ i \in Nat /\ rollout[i].at \in Nat
      <4>1. \A k \in DOMAIN rollout : rollout[k] \in Records /\ k \in Nat
        BY DEF Alone, Values, Times
      <4> QED
        BY <2>6, <4>1 DEF Seen, Records
    <3>2. CASE baseline < i /\ i <= cursor
      <4>1. rollout[i].at <= runtime.anchor
        BY <2>1, <2>4, <3>1, <3>2 DEF History, Covered, Watching
      <4> QED
        BY <2>4, <2>5, <3>1, <4>1
    <3>3. CASE op[d].from # NoCursor /\ op[d].from < i /\ i <= op[d].to
      <4>1. op[d].from \in Int /\ op[d].to \in Int
        BY DEF Alone, Values, Memory, Ops
      <4>2. i \in (op[d].from + 1)..op[d].to
        BY <3>1, <3>3, <4>1
      <4>3. ~(rollout[i].at >= runtime.anchor)
        BY <2>4, <3>3, <4>2 DEF Fresh
      <4> QED
        BY <2>4, <2>5, <3>1, <4>3
    <3> QED
      BY <2>6, <3>2, <3>3 DEF Seen
  <2> QED
    BY <2>1, <2>5, <2>6
<1>2. CASE CommitCompletion(d)
  <2>1. log' \subseteq log \cup {Completion} /\ Completion.code = "completed"
    BY <1>2 DEF CommitCompletion, Record, Completion, Entry
  <2> QED
    BY <2>1
<1>3. CASE LogFailsAfterEvaluation(d)
  <2>1. log' \subseteq log \cup RecoveryOf(d)
    BY <1>3 DEF LogFailsAfterEvaluation, Record
  <2>2. \A u \in RecoveryOf(d) : u.code = "recovered"
    BY DEF RecoveryOf, Entry
  <2> QED
    BY <2>1, <2>2
<1> QED
  BY <1>1, <1>2, <1>3, LogGrowth

(* The invariants of the only daemon and its only session.                 *)
LEMMA Followed ==
    ASSUME NEW d, OneDaemon, OneSession, d \in Daemons
    PROVE  Spec => [](Alone(d) /\ History(d))
<1>1. Init => Alone(d) /\ History(d)
  BY InitAlone, InitHistory
<1>2. Alone(d) /\ History(d) /\ [Next]_vars => (Alone(d) /\ History(d))'
  BY NextAlone, NextHistory
<1> QED
  BY <1>1, <1>2, PTL DEF Spec

(* A restarted daemon never takes consumed progress for silence: the       *)
(* anchor it finds is not older than what its predecessor consumed, and    *)
(* every file and every field of its memory is in range, whatever crashes, *)
(* failed writes and failures of the log came before (commit_new_progress, *)
(* save_runtime).                                                          *)
THEOREM ConsumedIsCovered == OneDaemon /\ OneSession /\ Spec => []CursorIsCovered
<1> SUFFICES ASSUME OneDaemon, OneSession PROVE Spec => []CursorIsCovered
  OBVIOUS
<1>1. PICK d : d \in Daemons
  BY DEF OneDaemon
<1>2. Spec => [](Alone(d) /\ History(d))
  BY <1>1, Followed
<1>3. Alone(d) /\ History(d) => CursorIsCovered
  BY TypesHold, CoverHolds DEF CursorIsCovered
<1> QED
  BY <1>2, <1>3, PTL

(* No silence is reported of a thread that the monitor read to be alive:   *)
(* when a suspicion is recorded, the anchor is a warning old, and so is    *)
(* every record consumed or in the batch (apply_watcher_batch, evaluate).  *)
THEOREM SuspicionsAreTrue == OneDaemon /\ OneSession /\ Spec => WarningMeansSilence
<1> SUFFICES ASSUME OneDaemon, OneSession PROVE Spec => WarningMeansSilence
  OBVIOUS
<1>1. PICK d : d \in Daemons
  BY DEF OneDaemon
<1>2. Spec => [](Alone(d) /\ History(d))
  BY <1>1, Followed
<1> DEFINE True == \A t \in log' \ log : t.code = "silence" =>
                     /\ now - runtime.anchor >= Warning
                     /\ \A i \in Seen(lock') : now - rollout[i].at >= Warning
<1>3. Alone(d) /\ History(d) /\ [Next]_vars => [True]_vars
  BY SuspicionsHold
<1> QED
  BY <1>2, <1>3, PTL DEF Spec, WarningMeansSilence

(* complete() removes the session only when its completion is in the log,  *)
(* or keeps it when its tick raised (NotificationEngine.complete).         *)
THEOREM RemovedAsCompleteIsRecorded == OneDaemon /\ OneSession /\ Spec => []CompletedMeansRecorded
<1> SUFFICES ASSUME OneDaemon, OneSession PROVE Spec => []CompletedMeansRecorded
  OBVIOUS
<1>1. PICK d : d \in Daemons
  BY DEF OneDaemon
<1>2. Spec => [](Alone(d) /\ History(d))
  BY <1>1, Followed
<1>3. Alone(d) /\ History(d) => CompletedMeansRecorded
  BY DEF Alone, History, Finishing, CompletedMeansRecorded
<1> QED
  BY <1>2, <1>3, PTL

ReliableLog == MaxLogFailures = 0

(* A detector that holds a warning follows the record of the suspicion of  *)
(* its epoch; what opens the next epoch clears it.                         *)
Warned(d) ==
    /\ runtime.revision # -1 /\ detector[d].warned => Silence(runtime.epoch) \in log
    /\ pc[d] = "writing" /\ op[d].next.epoch # runtime.epoch => ~detector[d].warned

(* A log that never fails takes part in no fault.                          *)
LEMMA LogIsReliable ==
    ASSUME NEW d, ReliableLog, Alone(d)
    PROVE  ~LogFailsBeforeEvaluation(d) /\ ~LogFailsAfterEvaluation(d)
<1>1. spent["log failures"] \in Nat
  BY DEF Alone, Values, Budget, Bounds
<1>2. ~Spend("log failures", MaxLogFailures)
  <2> DEFINE used == spent["log failures"]
  <2>2. used \in Nat /\ MaxLogFailures = 0
    BY <1>1 DEF ReliableLog
  <2> HIDE DEF used
  <2>3. ~(used < MaxLogFailures)
    BY <2>2
  <2>1. ~(spent["log failures"] < MaxLogFailures)
    BY <2>3 DEF used
  <2> QED
    BY Zenon, <2>1 DEF Spend
<1> QED
  BY <1>2 DEF LogFailsBeforeEvaluation, LogFailsAfterEvaluation

(* An evaluation warns when it records, and clears when it advances.       *)
LEMMA CommitProgressWarned ==
    ASSUME NEW d, Alone(d), History(d), Warned(d), CommitProgress(d)
    PROVE  Warned(d)'
<1>1. /\ pc[d] = "committing" /\ ~runtime.complete /\ Evaluating(d)
      /\ Record(d, RecoveryOf(d) \cup DiagnosticOf(d)) /\ Commit(d, Advanced(d), TRUE)
      /\ runtime' = runtime
  BY DEF CommitProgress, Accepted, Commit
<1>2. /\ detector'[d] = Evaluate(Prepared(d), now) /\ log' = log \cup (RecoveryOf(d) \cup DiagnosticOf(d))
  BY <1>1 DEF Evaluating, Alone, Values, Memory, Record
<1>3. /\ runtime \in Runtimes /\ runtime.revision # -1 /\ (Existing(d).warned => detector[d].warned)
  BY <1>1, EvaluationStart DEF Alone, Values, Files
<1>4. /\ (Progressed(d) => ~detector'[d].warned)
      /\ (~Progressed(d) /\ detector'[d].warned => WasWarned(d) \/ Silence(runtime.epoch) \in DiagnosticOf(d))
  BY <1>1, <1>2, EvaluationEnd
<1>5. WasWarned(d) => Silence(runtime.epoch) \in log
  BY <1>3 DEF WasWarned, Warned
<1>6. detector'[d].warned => ~Progressed(d) /\ Silence(runtime.epoch) \in log'
  BY <1>2, <1>4, <1>5
<1>7. ~Progressed(d) => op'[d].next = runtime
  <2>1. op[d] \in Ops /\ op \in [Daemons -> Ops] /\ d \in Daemons
    BY DEF Alone, Values, Memory
  <2>2. ~Progressed(d) => Advanced(d) = runtime
    BY DEF Advanced
  <2>3. op' = [op EXCEPT ![d].active = TRUE, ![d].next = IF Advanced(d) = runtime THEN runtime
                                  ELSE [Advanced(d) EXCEPT !.revision = @ + 1]]
    BY <1>1 DEF Commit
  <2>4. ~Progressed(d) => op' = [op EXCEPT ![d].active = TRUE, ![d].next = runtime]
    BY Zenon, <2>2, <2>3
  <2>5. ~Progressed(d) => op'[d] = [op[d] EXCEPT !.active = TRUE, !.next = runtime]
    BY <2>1, <2>4
  <2>6. [op[d] EXCEPT !.active = TRUE, !.next = runtime].next = runtime
    BY Zenon, <2>1 DEF Ops
  <2> QED
    BY Zenon, <2>5, <2>6
<1> QED
  BY <1>1, <1>6, <1>7 DEF Warned

(* A terminal detector keeps its warning.                                  *)
LEMMA CommitCompletionWarned ==
    ASSUME NEW d, Alone(d), History(d), Warned(d), CommitCompletion(d)
    PROVE  Warned(d)'
<1>1. /\ pc[d] = "committing" /\ runtime' = runtime /\ Commit(d, Claimed(runtime), FALSE)
      /\ Record(d, IF runtime.finished THEN {} ELSE {Completion}) /\ runtime.revision # -1
  <2>1. pc[d] = "committing" /\ runtime' = runtime /\ Commit(d, Claimed(runtime), FALSE)
        /\ Record(d, IF runtime.finished THEN {} ELSE {Completion})
    BY DEF CommitCompletion, Accepted, Commit
  <2> QED
    BY <2>1 DEF Alone, Sole, Undisturbed
<1>2. log \subseteq log'
  BY <1>1 DEF Record
<1>3. detector'[d].warned => detector[d].warned
  <2>1. /\ detector \in [Daemons -> SilenceState] /\ detector[d] \in SilenceState /\ d \in Daemons /\ now \in Int
    BY DEF Alone, Values, Memory, Times
  <2> DEFINE s == IF detector[d] = NoDetector THEN InitialState(now) ELSE detector[d]
  <2>2. InitialState(now) \in SilenceState /\ ~InitialState(now).warned
    BY <2>1, DetectorTypes DEF InitialState
  <2>3. s \in SilenceState /\ (s.warned => detector[d].warned)
    BY Zenon, <2>1, <2>2
  <2>4. detector'[d] = SetWaits(s, "terminal")
    BY <2>1 DEF CommitCompletion
  <2> HIDE DEF s
  <2>5. SetWaits(s, "terminal").warned = s.warned
    BY <2>3, DetectorFields DEF Waits
  <2> QED
    BY <2>3, <2>4, <2>5
<1>4. op'[d].next.epoch = runtime.epoch
  <2>1. op[d] \in Ops /\ op \in [Daemons -> Ops] /\ d \in Daemons /\ runtime \in Runtimes
    BY DEF Alone, Values, Memory, Files
  <2> DEFINE next == IF Claimed(runtime) = runtime THEN runtime
                     ELSE [Claimed(runtime) EXCEPT !.revision = @ + 1]
  <2>2. next.epoch = runtime.epoch
    <3>1. Claimed(runtime) \in Runtimes /\ Claimed(runtime).epoch = runtime.epoch
      BY <2>1, RuntimeUpdates DEF RuntimeIs
    <3>2. [Claimed(runtime) EXCEPT !.revision = @ + 1].epoch = runtime.epoch
      BY <3>1, RuntimeUpdates DEF RuntimeIs
    <3> QED
      BY <3>2
  <2>3. op' = [op EXCEPT ![d].active = FALSE, ![d].next = next]
    BY <1>1 DEF Commit
  <2> HIDE DEF next
  <2>4. op'[d] = [op[d] EXCEPT !.active = FALSE, !.next = next]
    BY <2>1, <2>3
  <2>5. [op[d] EXCEPT !.active = FALSE, !.next = next].next = next
    BY Zenon, <2>1 DEF Ops
  <2> QED
    BY <2>2, <2>4, <2>5
<1> QED
  BY <1>1, <1>2, <1>3, <1>4 DEF Warned

(* Every step keeps a warning with its record.                             *)
LEMMA NextWarned ==
    ASSUME NEW d, OneSession, ReliableLog, Alone(d), History(d), Warned(d), [Next]_vars
    PROVE  Warned(d)'
<1>1. d \in Daemons /\ (\A e \in Daemons : e = d) /\ runtime \in Runtimes
      /\ pc \in [Daemons -> Places] /\ detector \in [Daemons -> SilenceState]
  BY DEF Alone, Values, Memory, Files
<1>2. ASSUME UNCHANGED <<runtime, log>>, detector'[d] = detector[d], pc'[d] # "writing"
      PROVE  Warned(d)'
  BY <1>2 DEF Warned
<1>3. ~NoDetector.warned
  BY DEF NoDetector, InitialState
<1>4. CASE UNCHANGED vars \/ Thread \/ Clock
  BY <1>4 DEF vars, files, memory, Thread, EmitItem, EmitStart, EmitResult, Emit, Clock, Warned
<1>5. CASE Start(d)
  <2>1. /\ pc[d] = "idle" /\ UNCHANGED <<log, pc, detector>>
    BY <1>5 DEF Start
  <2>2. CASE Exists
    BY <1>2, <1>5, <2>1, <2>2 DEF Start
  <2>3. CASE ~Exists
    <3>1. spent["activations"] \in Nat /\ spent["activations"] = 0
      <4>1. spent["activations"] \in Nat /\ spent["activations"] < MaxActivations
        BY <1>5, <2>3 DEF Start, Spend, Alone, Values, Budget, Bounds
      <4>2. MaxActivations \in Nat
        OBVIOUS
      <4> QED
        BY <4>1, <4>2 DEF OneSession
    <3>2. detector[d] = NoDetector
      BY <3>1 DEF History, Once
    <3> QED
      BY <1>3, <2>1, <3>2 DEF Warned
  <2> QED
    BY <2>2, <2>3
<1>6. CASE Complete(d)
  <2>1. /\ runtime' = [runtime EXCEPT !.complete = TRUE, !.revision = @ + 1]
        /\ pc'[d] = "scanning" /\ UNCHANGED <<log, detector>> /\ Exists
    BY <1>1, <1>6 DEF Complete, memory
  <2>2. runtime'.epoch = runtime.epoch /\ runtime.revision # -1
    BY <1>1, <2>1, RuntimeUpdates DEF RuntimeIs, Exists, Alone, Values, Files
  <2> QED
    BY <2>1, <2>2 DEF Warned
<1>7. CASE Stop(d) \/ Restart(d) \/ TickBegins(d) \/ Scan(d) \/ ReadBatch(d) \/ CommitRefused(d)
           \/ Deliver(d) \/ DeliveryRefused(d) \/ TickEnds(d) \/ CompleteEnds(d)
  <2>1. UNCHANGED <<runtime, log, detector>>
    BY <1>7 DEF Stop, Restart, TickBegins, Scan, ReadBatch, CommitRefused, Deliver, DeliveryRefused,
                TickEnds, CompleteEnds, files, memory
  <2>2. pc'[d] # "writing"
    <3>1. CASE Stop(d) \/ Restart(d) \/ TickBegins(d) \/ ReadBatch(d) \/ CommitRefused(d) \/ TickEnds(d)
      BY <1>1, <3>1 DEF Stop, Restart, TickBegins, ReadBatch, CommitRefused, TickEnds
    <3>2. CASE Deliver(d) \/ DeliveryRefused(d) \/ CompleteEnds(d)
      BY <1>1, <3>2 DEF Deliver, DeliveryRefused, CompleteEnds
    <3>3. CASE Scan(d)
      <4>1. pc'[d] = CASE ~Exists -> "flushing" [] runtime.complete -> "committing" [] OTHER -> "reading"
        BY <1>1, <3>3 DEF Scan
      <4> QED
        BY Zenon, <4>1
    <3> QED
      BY <1>7, <3>1, <3>2, <3>3
  <2> QED
    BY <1>2, <2>1, <2>2
<1>8. CASE RemoveRuntime(d) \/ RemoveCursor(d)
  <2>1. /\ UNCHANGED <<log, detector>> /\ pc'[d] # "writing"
        /\ runtime' = runtime \/ runtime' = NoRuntime
    BY <1>1, <1>8 DEF RemoveRuntime, RemoveCursor, memory
  <2>2. NoRuntime.revision = -1
    BY DEF NoRuntime
  <2> QED
    BY <2>1, <2>2 DEF Warned
<1>9. CASE WriteRuntime(d)
  <2>1. /\ pc[d] = "writing" /\ pc'[d] = "storing" /\ UNCHANGED <<log, detector>>
        /\ runtime' \in {runtime, op[d].next}
    BY <1>1, <1>9 DEF WriteRuntime, memory
  <2>2. op[d].next.epoch # runtime.epoch => ~detector[d].warned
    BY <2>1 DEF Warned
  <2>3. runtime.revision # -1
    BY <2>1 DEF Alone, Sole, Undisturbed
  <2> QED
    BY <2>1, <2>2, <2>3 DEF Warned
<1>10. CASE WriteCursor(d)
  BY <1>1, <1>2, <1>10 DEF WriteCursor, memory
<1>11. CASE FileFails(d)
  BY <1>1, <1>2, <1>11 DEF FileFails, Raise, files, memory
<1>12. CASE Crash(d)
  <2>1. detector'[d] = NoDetector /\ pc'[d] = "down"
    BY <1>1, <1>12 DEF Crash
  <2> QED
    BY <1>3, <2>1 DEF Warned
<1> QED
  BY <1>1, <1>4, <1>5, <1>6, <1>7, <1>8, <1>9, <1>10, <1>11, <1>12, CommitProgressWarned,
     CommitCompletionWarned, LogIsReliable DEF Next, Request, DaemonStep, Fault

(* A critical stage or a recovery follows the record of a suspicion.       *)
Answers(t) == t.code \in {"critical", "recovered"} => Silence(t.epoch) \in log

(* One evaluation records one transition at most.                          *)
LEMMA EvaluationRecordsOne ==
    ASSUME NEW d, Alone(d), History(d), Warned(d), pc[d] = "committing", ~runtime.complete
    PROVE  \E t : RecoveryOf(d) \cup DiagnosticOf(d) \subseteq {t} /\ Answers(t)
<1>1. WasWarned(d) => Silence(runtime.epoch) \in log
  BY EvaluationStart DEF WasWarned, Warned
<1>2. CASE Progressed(d) /\ WasWarned(d)
  <2>1. RecoveryOf(d) \cup DiagnosticOf(d) \subseteq {Entry("recovered", runtime.epoch)}
    BY <1>2, EvaluationEnd DEF RecoveryOf
  <2>2. Entry("recovered", runtime.epoch).epoch = runtime.epoch
    BY DEF Entry
  <2> QED
    BY <1>1, <1>2, <2>1, <2>2 DEF Answers
<1>3. CASE ~(Progressed(d) /\ WasWarned(d))
  <2>1. RecoveryOf(d) = {}
    BY <1>3 DEF RecoveryOf
  <2>2. CASE DiagnosticOf(d) = {}
    <3>1. Answers(Completion)
      BY DEF Answers, Completion, Entry
    <3> QED
      BY <2>1, <2>2, <3>1
  <2>3. CASE DiagnosticOf(d) # {}
    <3>1. PICK t \in DiagnosticOf(d) : TRUE
      BY <2>3
    <3>2. DiagnosticOf(d) = {t}
      BY <3>1 DEF DiagnosticOf
    <3>3. \/ t = Silence(runtime.epoch)
          \/ t = Entry("critical", runtime.epoch) /\ WasWarned(d)
      BY <3>1, EvaluationEnd
    <3>4. Answers(t)
      <4>1. Silence(runtime.epoch).code = "silence" /\ Entry("critical", runtime.epoch).epoch = runtime.epoch
        BY DEF Silence, Entry
      <4> QED
        BY <1>1, <3>3, <4>1 DEF Answers
    <3> QED
      BY <2>1, <3>2, <3>4
  <2> QED
    BY <2>2, <2>3
<1> QED
  BY <1>2, <1>3

(* A step that changes the log records one transition of the ledger.       *)
LEMMA RecordsOne ==
    ASSUME NEW d, ReliableLog, Alone(d), History(d), Warned(d), [Next]_vars, log' # log,
           log' \subseteq Transitions
    PROVE  \E t \in Transitions : Ledger!Record(t)
<1>1. CASE CommitProgress(d)
  <2>1. /\ pc[d] = "committing" /\ ~runtime.complete /\ sent' = sent
        /\ log' = log \cup (RecoveryOf(d) \cup DiagnosticOf(d))
    BY <1>1 DEF CommitProgress, Accepted, Commit, Record
  <2>2. PICK t : RecoveryOf(d) \cup DiagnosticOf(d) \subseteq {t} /\ Answers(t)
    BY <2>1, EvaluationRecordsOne
  <2>3. log' = log \cup {t} /\ t \notin log
    BY <2>1, <2>2
  <2> QED
    BY <2>1, <2>2, <2>3 DEF Ledger!Record, Ledger!Suspicion, Answers, Silence, Entry
<1>2. CASE CommitCompletion(d)
  <2>1. /\ sent' = sent /\ \E T \in {{}, {Completion}} : log' = log \cup (T \ log)
    BY <1>2 DEF CommitCompletion, Commit, Record
  <2>2. log' = log \cup {Completion} /\ Completion \notin log
    BY <2>1
  <2>3. Completion.code = "completed"
    BY DEF Completion, Entry
  <2> QED
    BY <2>1, <2>2, <2>3 DEF Ledger!Record
<1> QED
  BY <1>1, <1>2, LogGrowth, LogIsReliable

(* What is delivered waited in a queue, recorded and not yet announced.    *)
LEMMA DeliversOne ==
    ASSUME Queues, NEW d \in Daemons, Deliver(d), log \subseteq Transitions
    PROVE  \E t \in Transitions : Ledger!Announce(t)
<1>1. /\ pending[d] # <<>> /\ sent' = Append(sent, Head(pending[d])) /\ log' = log
  BY DEF Deliver, files
<1>2. pending[d] \in Seq(log) /\ Apart(pending[d], sent)
  BY DEF Queues
<1>3. Head(pending[d]) \in log /\ \A i \in DOMAIN sent : sent[i] # Head(pending[d])
  <2>1. 1 \in DOMAIN pending[d] /\ Head(pending[d]) = pending[d][1] /\ pending[d][1] \in log
    BY <1>1, <1>2
  <2> QED
    BY <1>2, <2>1 DEF Apart
<1> QED
  BY <1>1, <1>3 DEF Ledger!Announce

(* Only a delivery announces.                                              *)
LEMMA Announcements ==
    ASSUME [Next]_vars, sent' # sent
    PROVE  \E d \in Daemons : Deliver(d)
<1>1. ~UNCHANGED vars /\ ~Thread /\ ~Clock
  BY DEF vars, Thread, EmitItem, EmitStart, EmitResult, Emit, Clock
<1>2. ASSUME NEW d \in Daemons PROVE ~Request(d) /\ ~Restart(d)
  BY DEF Request, Start, Stop, Complete, Restart
<1>3. ASSUME NEW d \in Daemons PROVE DaemonStep(d) => Deliver(d)
  BY DEF DaemonStep, TickBegins, Scan, ReadBatch, CommitRefused, CommitProgress, CommitCompletion,
         Commit, WriteRuntime, WriteCursor, TickEnds, CompleteEnds, RemoveRuntime, RemoveCursor
<1>4. ASSUME NEW d \in Daemons PROVE ~Fault(d)
  BY DEF Fault, DeliveryRefused, FileFails, LogFailsBeforeEvaluation, LogFailsAfterEvaluation, Crash
<1> QED
  BY <1>1, <1>2, <1>3, <1>4 DEF Next

(* The watcher implements the ledger: a transition is recorded once and    *)
(* announced at most once after that, and within an epoch the critical     *)
(* stage and the recovery answer a recorded suspicion, across crashes,     *)
(* restarts and failed writes of the state files (evaluate,                *)
(* DiagnosticTransitionRecorder).                                          *)
THEOREM RecorderKeepsLedger == OneDaemon /\ OneSession /\ ReliableLog /\ Spec => ImplementsLedger
<1> SUFFICES ASSUME OneDaemon, OneSession, ReliableLog PROVE Spec => ImplementsLedger
  OBVIOUS
<1>1. PICK d : d \in Daemons
  BY DEF OneDaemon
<1>2. Spec => [](Alone(d) /\ History(d))
  BY <1>1, Followed
<1>3. Init => Warned(d) /\ Queues /\ Ledger!Init
  <2>1. ASSUME Init PROVE Warned(d) /\ Ledger!Init
    <3>1. runtime = NoRuntime /\ pc[d] = "idle" /\ log = {} /\ sent = <<>>
      BY <1>1, <2>1 DEF Init, Untouched
    <3>2. NoRuntime.revision = -1
      BY DEF NoRuntime
    <3> QED
      BY <3>1, <3>2 DEF Warned, Ledger!Init
  <2> QED
    BY <2>1, InitQueues
<1>4. Alone(d) /\ History(d) /\ Warned(d) /\ [Next]_vars => Warned(d)'
  BY NextWarned
<1>5. Queues /\ [Next]_vars => Queues'
  BY NextQueues
<1>6. /\ Alone(d) /\ History(d) /\ Warned(d) /\ Queues /\ [Next]_vars
      /\ (Alone(d) /\ History(d))'
      => [Ledger!Next]_Ledger!vars
  <2> SUFFICES ASSUME Alone(d), History(d), Warned(d), Queues, [Next]_vars, History(d)'
               PROVE  [Ledger!Next]_Ledger!vars
    OBVIOUS
  <2>1. log \subseteq Transitions /\ log' \subseteq Transitions
    BY DEF History
  <2>2. CASE log' # log
    BY <2>1, <2>2, RecordsOne DEF Ledger!Next
  <2>3. CASE sent' # sent
    <3>1. PICK e \in Daemons : Deliver(e)
      BY <2>3, Announcements
    <3> QED
      BY <2>1, <3>1, DeliversOne DEF Ledger!Next
  <2>4. CASE log' = log /\ sent' = sent
    BY <2>4 DEF Ledger!vars
  <2> QED
    BY <2>2, <2>3, <2>4
<1> QED
  BY <1>2, <1>3, <1>4, <1>5, <1>6, PTL DEF Spec, ImplementsLedger, Ledger!Spec

================================================================================
