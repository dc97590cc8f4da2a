-------------------------- MODULE ManagedDaemonProofs --------------------------
(***************************************************************************)
(* The one app-server client that the tasks of a managed daemon share is   *)
(* not closed while one of them uses it, and what starts and detachments   *)
(* take is given back or, at the end, by close(): for any number of        *)
(* threads, sessions, references and faults.                               *)
(***************************************************************************)
EXTENDS ManagedDaemon, FiniteSetTheorems, WellFoundedInduction, TLAPS

(* Where a start has yet to make a client, to record its reference, and    *)
(* where it has one that is its own.                                       *)
Making == {"reserve", "lookup", "borrow", "probe", "create"}
Recording == Making \cup {"made"}
Holding == {"held", "initialize", "begin", "install", "closeTask", "release"}

\* Inside the reservation of the pool; inside that of the session.
Borrowing == {"probe", "create", "made", "held"}
InClose == {"closing", "announcing", "blocked", "stopping"}
InSession == (StartSteps \ {"reserve", "end"}) \cup DetachSteps \cup InClose

\* From the lookup that found no task to its publication.
Alone == {"borrow", "probe", "create", "made", "held", "initialize", "begin", "install"}

\* Where a start is admitted.
Admitted == {"reserve", "end"} \cup InSession

At(places) == {c \in Callers : pc[c] \in places}

Announcing == {t \in Threads : pc[t] = "announcing"}

(* Which thread can be where.                                              *)
PlaceInv ==
  /\ \A c \in Callers : pc[c] \in {"idle", "await"} \cup Admitted
  /\ \A m \in Closers : pc[m] \in {"idle", "await"} \cup ShutdownSteps \cup DetachSteps
  /\ pc[Worker] \in {"idle", "asking", "exited"} \cup DetachSteps
  /\ pc[Reader] \in {"idle", "announcing", "await"}
  /\ \A r \in References : pc[r] \in {"idle"} \cup CloseSteps

(* The operations admitted, and room for what the starts will number.      *)
CountInv ==
  /\ active = Cardinality(At(Admitted)) + Cardinality(Announcing)
  /\ given + Cardinality(At(Recording)) <= MaxReferences
  /\ made + Cardinality(At(Making)) <= MaxReferences

(* One start at a time in a session, over none of its tasks until it has   *)
(* published one.                                                          *)
SessionInv ==
  /\ \A c \in At(InSession) : job[c].session \in sessions
  /\ \A c, d \in At(InSession) : c # d => job[c].session # job[d].session
  /\ \A c \in At(Alone) : tasks[job[c].session] = NoTask

\* Tasks that count on a reference.
Counted == Published \cup Leaving

\* Clients that are closed or to be closed.
ToClose == BeingClosed \cup {references[r].client : r \in Owing}

(* What is recorded of a reference, and of the tasks that count on one.    *)
ReferenceInv ==
  /\ \A r \in References :
        IF r <= given THEN references[r].client # Nobody ELSE references[r].state = "gone"
  /\ \A r \in Counted : r <= given /\ references[r].state # "borrowed"
  /\ \A t \in Threads : job[t].client <= made /\ job[t].created <= made

(* A start has borrowed the reference it releases, over the client it      *)
(* starts; and the client it is to pool is its own, and not to be closed.  *)
StartInv(c) ==
  /\ pc[c] \in Recording \ {"reserve", "lookup"} => job[c].task = NoTask
  /\ pc[c] \in Holding => job[c].task # NoTask
  /\ pc[c] \in {"held", "initialize", "begin"} =>
        references[job[c].task].client = job[c].client
  /\ pc[c] \in Holding \cup {"undo"} /\ job[c].task # NoTask =>
        references[job[c].task].state = "borrowed"
  /\ pc[c] \in Making => job[c].created = Nobody
  /\ pc[c] \in Borrowing => reserved
  /\ pc[c] \in {"create", "made"} => pooled = Nobody
  /\ pc[c] = "made" =>
        job[c].client = job[c].created /\ job[c].client # Nobody /\ job[c].client \notin ToClose

(* Two starts have no reference and no new client in common, and one of    *)
(* them is in the reservation.                                             *)
ApartInv(c, d) ==
  /\ {pc[c], pc[d]} \subseteq Holding \cup {"undo"} /\ job[c].task = job[d].task =>
        job[c].task = NoTask
  /\ ~ ({pc[c], pc[d]} \subseteq Borrowing)
  /\ {pc[c], pc[d]} \subseteq {"made", "held", "undo"} /\ job[c].created = job[d].created =>
        job[c].created = Nobody

BorrowInv ==
  /\ \A c \in Callers : StartInv(c)
  /\ \A c, d \in Callers : c # d => ApartInv(c, d)

(* A task counts once, in the registry or with who detaches it; and what   *)
(* a detacher owes stays released.                                         *)
DetachInv ==
  /\ \A t \in Detachers : pc[t] = "detached" => job[t].todo \cap Published = {}
  /\ \A t, u \in Detachers :
        t # u /\ pc[t] = "detached" /\ pc[u] = "detached" => job[t].todo \cap job[u].todo = {}
  /\ OneCountPerTask
  /\ \A t \in Detachers : pc[t] = "owed" =>
        \A r \in job[t].owed : r <= given /\ references[r].state \in {"closing", "gone"}

(* Whoever counts on a client counts on the pooled one, which nobody has   *)
(* to close.                                                               *)
PoolInv ==
  /\ \A r \in Active \cup Counted : references[r].client = pooled /\ pooled # Nobody
  /\ pooled # Nobody => pooled \notin ToClose

Sharing == ReferenceInv /\ BorrowInv /\ DetachInv /\ (~stolen => PoolInv)

IInv == TypeOK /\ PlaceInv /\ CountInv /\ SessionInv /\ Sharing

USE ManagedDaemonAssumption, SharedClientAssumption

-----------------------------------------------------------------------------
(* Sets of references. *)

(* A set of numbers has a least one.                                       *)
LEMMA LeastIsMember ==
    ASSUME NEW S \in SUBSET Nat, S # {}
    PROVE  Least(S) \in S /\ \A x \in S : Least(S) <= x
<1> DEFINE R == {ss \in Nat \X Nat : ss[1] < ss[2]}
<1>1. IsWellFoundedOn(R, Nat)
  BY NatLessThanWellFounded DEF OpToRel
<1>2. PICK x \in S : \A y \in S : <<y, x>> \notin R
  <2> HIDE DEF R
  <2> QED
    BY WFMin, <1>1
<1>3. ASSUME NEW y \in S PROVE x <= y
  <2>1. y \in Nat /\ x \in Nat
    OBVIOUS
  <2>2. <<y, x>> \in Nat \X Nat /\ <<y, x>> \notin R
    BY <2>1, <1>2
  <2>3. ~ (y < x)
    BY <2>2
  <2> QED
    BY <2>1, <2>3
<1> QED
  BY <1>3 DEF Least

(* Sets of references are finite.                                          *)
LEMMA ReferencesFinite ==
    ASSUME NEW S \in SUBSET References
    PROVE  IsFiniteSet(S) /\ Cardinality(S) \in Nat
<1>1. IsFiniteSet(References)
  BY FS_Interval DEF References
<1> QED
  BY <1>1, FS_Subset, FS_CardinalityType

(* Of n references or more, n are the first.                               *)
LEMMA FirstExist ==
    ASSUME NEW n \in Nat, n <= Cardinality(Installed)
    PROVE  /\ FirstInstalled(n) \subseteq Installed
           /\ Cardinality(FirstInstalled(n)) = n
<1> DEFINE First(k, S) ==
             /\ S \in SUBSET Installed /\ Cardinality(S) = k
             /\ \A r \in S, q \in Installed \ S : r < q
           Bad == {k \in Nat : k <= Cardinality(Installed) /\ \A S : ~First(k, S)}
<1>1. Installed \subseteq References /\ Installed \subseteq Nat
  BY DEF Installed, InState, References
<1>2. IsFiniteSet(Installed) /\ Cardinality(Installed) \in Nat
  BY <1>1, ReferencesFinite
<1>3. Bad = {}
  <2> SUFFICES ASSUME Bad # {} PROVE FALSE
    OBVIOUS
  <2> DEFINE k == Least(Bad)
  <2>1. k \in Bad /\ \A j \in Bad : k <= j
    BY LeastIsMember
  <2>2. k # 0
    <3>1. First(0, {})
      BY FS_EmptySet
    <3> QED
      BY <3>1, <2>1
  <2>3. k - 1 \in Nat /\ k - 1 \notin Bad /\ k \in Nat /\ k <= Cardinality(Installed)
    BY <2>1, <2>2
  <2>4. PICK S : First(k - 1, S)
    BY <2>3, <1>2
  <2> HIDE DEF k, Bad
  <2> DEFINE rest == Installed \ S
             r == Least(rest)
  <2>5. S \subseteq Installed /\ Cardinality(S) = k - 1
    BY <2>4
  <2>6. rest # {}
    <3> SUFFICES ASSUME rest = {} PROVE FALSE
      OBVIOUS
    <3>1. S = Installed
      BY <2>5
    <3> QED
      BY <3>1, <2>5, <2>3, <1>2
  <2>7. r \in rest /\ \A q \in rest : r <= q
    BY <2>6, <1>1, LeastIsMember
  <2> DEFINE T == S \cup {r}
  <2>8. Cardinality(T) = k
    <3>1. IsFiniteSet(S)
      BY <2>5, <1>2, FS_Subset
    <3>2. r \notin S
      BY <2>7
    <3> HIDE DEF r
    <3>3. Cardinality(T) = Cardinality(S) + 1
      BY <3>1, <3>2, FS_AddElement
    <3>4. k \in Nat /\ Cardinality(S) = k - 1
      BY <2>3, <2>5
    <3> QED
      BY <3>3, <3>4
  <2> HIDE DEF r
  <2>9. \A p \in T, q \in Installed \ T : p < q
    <3> SUFFICES ASSUME NEW p \in T, NEW q \in Installed \ T PROVE p < q
      OBVIOUS
    <3>1. CASE p = r
      BY <3>1, <2>7, <1>1 DEF rest
    <3>2. CASE p \in S
      BY <3>2, <2>4
    <3> QED
      BY <3>1, <3>2
  <2>10. First(k, T)
    BY <2>5, <2>7, <2>8, <2>9
  <2> QED
    BY <2>10, <2>1, <2>3 DEF Bad
<1>4. \E S : First(n, S)
  BY <1>3
<1>5. \E S \in SUBSET Installed : Cardinality(S) = n /\ \A r \in S, q \in Installed \ S : r < q
  BY <1>4
<1> QED
  BY <1>5 DEF FirstInstalled

-----------------------------------------------------------------------------
(* Threads that move. *)

(* Callers are no other thread.                                            *)
LEMMA Roles ==
    /\ Callers \subseteq Threads /\ Closers \subseteq Threads /\ References \subseteq Threads
    /\ Worker \in Threads /\ Reader \in Threads /\ Worker # Reader
    /\ Detachers \subseteq Threads /\ Openers \subseteq Threads
    /\ Worker \notin Callers /\ Worker \notin Closers /\ Worker \notin References
    /\ Reader \notin Callers /\ Reader \notin Closers /\ Reader \notin References
    /\ \A c \in Callers : c \notin Closers /\ c \notin References
    /\ \A m \in Closers : m \notin References
BY DEF Threads, Detachers, Openers

(* A thread that moves changes where it is counted, and nobody else.       *)
LEMMA Moved ==
    ASSUME TypeOK, NEW t \in Threads, NEW x, Goto(t, x), NEW P
    PROVE  /\ pc'[t] = x
           /\ \A u \in Threads \ {t} : pc'[u] = pc[u]
           /\ t \notin Callers => At(P)' = At(P)
           /\ t \in Callers /\ x \in P => At(P)' = At(P) \cup {t}
           /\ t \in Callers /\ x \notin P => At(P)' = At(P) \ {t}
<1>1. pc'[t] = x /\ \A u \in Threads \ {t} : pc'[u] = pc[u]
  BY DEF TypeOK, Goto
<1>2. At(P)' = {c \in Callers : pc'[c] \in P}
  BY DEF At
<1> QED
  BY <1>1, <1>2, Roles DEF At

(* The threads that serve requests are finitely many.                    *)
LEMMA CallersFinite ==
    ASSUME NEW P
    PROVE  IsFiniteSet(At(P)) /\ Cardinality(At(P)) \in Nat
<1>1. At(P) \subseteq Callers
  BY DEF At
<1> QED
  BY <1>1, FS_Subset, FS_CardinalityType

(* How many starts are at a place after one thread moved.                *)
LEMMA CountedAt ==
    ASSUME TypeOK, NEW t \in Threads, NEW x, Goto(t, x), NEW P
    PROVE  /\ Cardinality(At(P)) \in Nat /\ Cardinality(At(P)') \in Nat
           /\ t \notin Callers => Cardinality(At(P)') = Cardinality(At(P))
           /\ t \in Callers /\ (pc[t] \in P <=> x \in P) =>
                 Cardinality(At(P)') = Cardinality(At(P))
           /\ t \in Callers /\ pc[t] \in P /\ x \notin P =>
                 Cardinality(At(P)') = Cardinality(At(P)) - 1 /\ Cardinality(At(P)) > 0
           /\ t \in Callers /\ pc[t] \notin P /\ x \in P =>
                 Cardinality(At(P)') = Cardinality(At(P)) + 1
<1>1. IsFiniteSet(At(P)) /\ Cardinality(At(P)) \in Nat
  BY CallersFinite
<1>2. t \in Callers => (t \in At(P) <=> pc[t] \in P)
  BY DEF At
<1>3. /\ t \notin Callers => At(P)' = At(P)
      /\ t \in Callers /\ x \in P => At(P)' = At(P) \cup {t}
      /\ t \in Callers /\ x \notin P => At(P)' = At(P) \ {t}
  BY Moved
<1>4. /\ Cardinality(At(P) \cup {t}) = IF t \in At(P) THEN Cardinality(At(P)) ELSE Cardinality(At(P)) + 1
      /\ Cardinality(At(P) \ {t}) = IF t \in At(P) THEN Cardinality(At(P)) - 1 ELSE Cardinality(At(P))
  BY <1>1, FS_AddElement, FS_RemoveElement
<1>5. t \in At(P) => Cardinality(At(P)) > 0
  BY <1>1, FS_EmptySet
<1>6. IsFiniteSet(At(P) \ {t}) /\ IsFiniteSet(At(P) \cup {t})
  BY <1>1, FS_AddElement, FS_RemoveElement
<1>7. Cardinality(At(P) \ {t}) \in Nat /\ Cardinality(At(P) \cup {t}) \in Nat
  BY <1>6, FS_CardinalityType
<1> QED
  BY <1>1, <1>2, <1>3, <1>4, <1>5, <1>7

(* Only starts, the reader and the gates' threads announce a loss.         *)
LEMMA AnnouncingFinite ==
    ASSUME PlaceInv
    PROVE  IsFiniteSet(Announcing) /\ Cardinality(Announcing) \in Nat
<1>1. IsFiniteSet(Callers \cup {Reader} \cup References)
  <2>1. IsFiniteSet(References)
    BY ReferencesFinite
  <2>2. IsFiniteSet(Callers \cup {Reader})
    BY FS_AddElement
  <2> QED
    BY <2>1, <2>2, FS_Union
<1>2. Announcing \subseteq Callers \cup {Reader} \cup References
  BY Roles DEF Announcing, PlaceInv, Threads, ShutdownSteps, DetachSteps
<1> QED
  BY <1>1, <1>2, FS_Subset, FS_CardinalityType

(* Threads that announce a lost client.                                    *)
LEMMA CountedAnnouncing ==
    ASSUME TypeOK, PlaceInv, NEW t \in Threads, NEW x, Goto(t, x)
    PROVE  /\ Cardinality(Announcing) \in Nat
           /\ (pc[t] = "announcing" <=> x = "announcing") =>
                 Cardinality(Announcing') = Cardinality(Announcing)
           /\ pc[t] = "announcing" /\ x # "announcing" =>
                 /\ Cardinality(Announcing') = Cardinality(Announcing) - 1
                 /\ Cardinality(Announcing) > 0
           /\ pc[t] # "announcing" /\ x = "announcing" =>
                 Cardinality(Announcing') = Cardinality(Announcing) + 1
<1>1. IsFiniteSet(Announcing) /\ Cardinality(Announcing) \in Nat
  BY AnnouncingFinite
<1>2. t \in Announcing <=> pc[t] = "announcing"
  BY DEF Announcing
<1>3. /\ x = "announcing" => Announcing' = Announcing \cup {t}
      /\ x # "announcing" => Announcing' = Announcing \ {t}
  <2>1. pc'[t] = x /\ \A u \in Threads \ {t} : pc'[u] = pc[u]
    BY DEF TypeOK, Goto
  <2> QED
    BY <2>1 DEF Announcing
<1>4. /\ Cardinality(Announcing \cup {t}) =
            IF t \in Announcing THEN Cardinality(Announcing) ELSE Cardinality(Announcing) + 1
      /\ Cardinality(Announcing \ {t}) =
            IF t \in Announcing THEN Cardinality(Announcing) - 1 ELSE Cardinality(Announcing)
  BY <1>1, FS_AddElement, FS_RemoveElement
<1>5. t \in Announcing => Cardinality(Announcing) > 0
  BY <1>1, FS_EmptySet
<1> QED
  BY <1>1, <1>2, <1>3, <1>4, <1>5

(* The places of each kind of thread.                                      *)
CallerPlaces == {"idle", "await"} \cup Admitted
CloserPlaces == {"idle", "await"} \cup ShutdownSteps \cup DetachSteps
WorkerPlaces == {"idle", "asking", "exited"} \cup DetachSteps
ReaderPlaces == {"idle", "announcing", "await"}
GatePlaces == {"idle"} \cup CloseSteps

(* A thread that moves goes where its kind of thread can be.             *)
LEMMA PlaceKept ==
    ASSUME TypeOK, PlaceInv, NEW t \in Threads, NEW x, Goto(t, x),
           t \in Callers => x \in CallerPlaces, t \in Closers => x \in CloserPlaces,
           t = Worker => x \in WorkerPlaces, t = Reader => x \in ReaderPlaces,
           t \in References => x \in GatePlaces
    PROVE  PlaceInv'
<1>1. pc'[t] = x /\ \A u \in Threads \ {t} : pc'[u] = pc[u]
  BY DEF TypeOK, Goto
<1>2. \A c \in Callers : pc'[c] \in CallerPlaces
  BY <1>1, Roles DEF PlaceInv, CallerPlaces
<1>3. \A m \in Closers : pc'[m] \in CloserPlaces
  BY <1>1, Roles DEF PlaceInv, CloserPlaces
<1>4. pc'[Worker] \in WorkerPlaces /\ pc'[Reader] \in ReaderPlaces
  BY <1>1, Roles DEF PlaceInv, WorkerPlaces, ReaderPlaces
<1>5. \A r \in References : pc'[r] \in GatePlaces
  BY <1>1, Roles DEF PlaceInv, GatePlaces
<1> QED
  BY <1>2, <1>3, <1>4, <1>5
     DEF PlaceInv, CallerPlaces, CloserPlaces, WorkerPlaces, ReaderPlaces, GatePlaces

(* What a thread owes first is an obligation of the pool.                  *)
LEMMA FirstOwedOwed ==
    ASSUME TypeOK, NEW t \in Threads, job[t].owed # {}
    PROVE  /\ FirstOwed(t) \in job[t].owed /\ FirstOwed(t) \in References
           /\ FirstOwed(t) \in Threads
<1>1. job[t].owed \subseteq References /\ References \subseteq Nat
  BY DEF TypeOK, Jobs, References
<1>2. FirstOwed(t) \in job[t].owed
  BY <1>1, LeastIsMember DEF FirstOwed
<1> QED
  BY <1>1, <1>2, Roles

(* Every step goes where its thread can be.                              *)
LEMMA PlaceNext == ASSUME TypeOK, PlaceInv, [Next]_vars PROVE PlaceInv'
<1> USE Roles DEF CallerPlaces, CloserPlaces, WorkerPlaces, ReaderPlaces, GatePlaces, Admitted, InSession,
                  StartSteps, DetachSteps, CloseSteps, ShutdownSteps, InClose
<1>1. ASSUME NEW c \in Callers, NEW x \in CallerPlaces, Goto(c, x) PROVE PlaceInv'
  BY <1>1, PlaceKept
<1>2. ASSUME NEW c \in Callers, StartStep(c) PROVE PlaceInv'
  <2> HIDE DEF CallerPlaces
  <2>1. {"reserve", "lookup", "schedule", "borrow", "leave", "probe", "held", "create", "made",
         "initialize", "closing", "begin", "release", "install", "closeTask", "owed", "end",
         "detached"} \subseteq CallerPlaces
    BY DEF CallerPlaces
  <2>2. \E x \in CallerPlaces : Goto(c, x)
    BY <1>2, <2>1
       DEF StartStep, SessionReserved, Lookup, PoolReserved, PooledClientFound, NoPooledClient,
           ClientCreated, ClientPooled, BorrowReturned, BorrowUndone, LeaseTaken, TaskBegun,
           BeginExpired, TaskPublished, TaskScheduled, SchedulingFailed, TaskClosed,
           ReferenceReleased, StartLeft, Detach
  <2> QED
    BY <1>1, <2>2
<1>3. ASSUME NEW t \in Detachers, DetachStep(t) PROVE PlaceInv'
  <2>1. CASE TasksReleased(t)
    <3>1. Goto(t, "owed")
      BY <2>1 DEF TasksReleased
    <3> QED
      BY <3>1, PlaceKept DEF Detachers
  <2>2. CASE AttemptStarted(t) \/ ObligationFailed(t)
    <3>1. FirstOwed(t) \in References
      BY <2>2, FirstOwedOwed DEF AttemptStarted, ObligationFailed
    <3>2. Goto(FirstOwed(t), "closing") \/ Goto(FirstOwed(t), "idle")
      BY <2>2 DEF AttemptStarted, ObligationFailed
    <3> HIDE DEF FirstOwed
    <3> QED
      BY <3>1, <3>2, PlaceKept
  <2>3. CASE ObligationMet(t)
    BY <2>3 DEF ObligationMet, PlaceInv
  <2>4. CASE DetachOver(t)
    <3>1. Goto(t, CASE t \in Callers -> "leave" [] t \in Closers -> "ending" [] t = Worker -> "idle")
      BY <2>4 DEF DetachOver
    <3>2. CASE t \in Callers
      BY <3>1, <3>2, PlaceKept
    <3>3. CASE t \in Closers
      <4>1. t \notin Callers
        BY <3>3
      <4> QED
        BY <3>1, <3>3, <4>1, PlaceKept
    <3>4. CASE t = Worker
      BY <3>1, <3>4, PlaceKept
    <3> QED
      BY <3>2, <3>3, <3>4 DEF Detachers
  <2> QED
    BY <1>3, <2>1, <2>2, <2>3, <2>4 DEF DetachStep
<1>4. ASSUME NEW t \in Openers, CloseStep(t) \/ StopRaised(t) PROVE PlaceInv'
  <2>1. \E x \in {"announcing", "stopping", Closed(t), CloseRaised(t)} : Goto(t, x)
    BY <1>4 DEF CloseStep, HandleDropped, ChildStopped, StopRaised
  <2>2. /\ t \in Callers => Closed(t) = "leave" /\ CloseRaised(t) = "leave"
        /\ t \in References => Closed(t) = "done" /\ CloseRaised(t) = "failed"
        /\ t \in Callers \/ t \in References
    BY DEF Closed, CloseRaised, Openers
  <2> QED
    BY <2>1, <2>2, PlaceKept
<1>5. ASSUME NEW t \in Threads, AdmissionStep(t) PROVE PlaceInv'
  <2>1. CASE EndAdmission(t)
    <3>1. Goto(t, AfterAdmission(t)) /\ pc[t] \in {"end", "announcing"}
      BY <2>1 DEF EndAdmission
    <3>2. t \in Callers \/ t = Reader \/ (t \in References /\ pc[t] = "announcing")
      <4>1. t \notin Closers
        BY <3>1 DEF PlaceInv
      <4>2. t # Worker
        BY <3>1 DEF PlaceInv
      <4>3. t \in References => pc[t] = "announcing"
        BY <3>1 DEF PlaceInv
      <4>4. t \in Callers \/ t \in Closers \/ t = Worker \/ t = Reader \/ t \in References
        BY DEF Threads
      <4> QED
        BY <4>1, <4>2, <4>3, <4>4
    <3>3. AfterAdmission(t) \in {"await", "idle", "blocked", "stopping", "leave", "failed"}
      BY DEF AfterAdmission, CloseRaised
    <3>4. t \in Callers => AfterAdmission(t) # "failed"
      BY DEF AfterAdmission, CloseRaised
    <3>5. t = Reader => AfterAdmission(t) \in {"await", "idle"}
      BY DEF AfterAdmission, Openers
    <3>6. t \in References /\ pc[t] = "announcing" => AfterAdmission(t) \in {"blocked", "stopping", "failed"}
      BY DEF AfterAdmission, CloseRaised, Openers
    <3> HIDE DEF AfterAdmission
    <3> QED
      BY <3>1, <3>2, <3>3, <3>4, <3>5, <3>6, PlaceKept
  <2>2. CASE WaitClosed(t)
    <3>1. Goto(t, IF pc[t] = "await" THEN "idle" ELSE "stopping") /\ pc[t] \in {"await", "blocked"}
      BY <2>2 DEF WaitClosed
    <3>2. CASE pc[t] = "await"
      <4>1. Goto(t, "idle")
        BY <3>1, <3>2
      <4> QED
        BY <4>1, PlaceKept
    <3>3. CASE pc[t] = "blocked"
      <4>1. Goto(t, "stopping")
        BY <3>1, <3>3
      <4>2. t \in Callers \/ t \in References
        BY <3>3 DEF PlaceInv, Threads
      <4> QED
        BY <4>1, <4>2, PlaceKept
    <3> QED
      BY <3>1, <3>2, <3>3
  <2> QED
    BY <1>5, <2>1, <2>2 DEF AdmissionStep
<1>6. ASSUME NEW x \in WorkerPlaces, Goto(Worker, x) PROVE PlaceInv'
  BY <1>6, PlaceKept
<1>7. ASSUME NEW m \in Closers, NEW x \in CloserPlaces, Goto(m, x) PROVE PlaceInv'
  BY <1>7, PlaceKept
<1>8. CASE Requested
  <2>1. ASSUME NEW c \in Callers, NEW s \in Sessions, StartAdmitted(c, s) PROVE PlaceInv'
    BY <2>1, <1>1 DEF StartAdmitted
  <2>2. ASSUME NEW s \in Sessions, Drive(s) PROVE PlaceInv'
    BY <2>2, <1>6 DEF Drive
  <2>3. ASSUME NEW T \in SUBSET Published, Retire(T) PROVE PlaceInv'
    BY <2>3, <1>6 DEF Retire, Detach
  <2>4. ASSUME NEW m \in Closers, CloseBegins(m) PROVE PlaceInv'
    BY <2>4, <1>7 DEF CloseBegins
  <2>5. CASE ReaderAdmitted
    BY <2>5, PlaceKept DEF ReaderAdmitted
  <2> QED
    BY <1>8, <2>1, <2>2, <2>3, <2>4, <2>5 DEF Requested
<1>9. CASE Failure
  <2>1. ASSUME NEW c \in Callers, BorrowRaised(c) \/ BeginRaised(c) PROVE PlaceInv'
    BY <2>1, <1>1 DEF BorrowRaised, BeginRaised
  <2>2. CASE WorkerDies
    BY <2>2, <1>6 DEF WorkerDies
  <2> QED
    BY <1>9, <1>4, <2>1, <2>2 DEF Failure
<1>10. ASSUME WorkerStep PROVE PlaceInv'
  BY <1>10, <1>6 DEF WorkerStep, Answered, RequestFailed, WorkerExits, Detach
<1>11. ASSUME NEW m \in Closers, ShutdownStep(m) PROVE PlaceInv'
  BY <1>11, <1>7 DEF ShutdownStep, Drained, Joined, CloseEnds, Detach
<1>12. CASE UNCHANGED vars
  BY <1>12 DEF vars, PlaceInv
<1> QED
  BY <1>2, <1>3, <1>4, <1>5, <1>8, <1>9, <1>10, <1>11, <1>12 DEF Next, Progress

-----------------------------------------------------------------------------
(* What is counted. *)

(* A step of a thread that neither begins nor ends an admission, and one   *)
(* that does.                                                              *)
LEMMA AdmissionKept ==
    ASSUME TypeOK, PlaceInv, CountInv, NEW t \in Threads, NEW x, Goto(t, x),
           NEW starts \in {0, 1, 2}, NEW announces \in {0, 1, 2},
           starts = 1 => (t \in Callers => (pc[t] \in Admitted <=> x \in Admitted)),
           starts = 2 => t \in Callers /\ pc[t] \notin Admitted /\ x \in Admitted,
           starts = 0 => t \in Callers /\ pc[t] \in Admitted /\ x \notin Admitted,
           announces = 1 => (pc[t] = "announcing" <=> x = "announcing"),
           announces = 2 => pc[t] # "announcing" /\ x = "announcing",
           announces = 0 => pc[t] = "announcing" /\ x # "announcing",
           active' = active + (starts - 1) + (announces - 1)
    PROVE  active' = Cardinality(At(Admitted)') + Cardinality(Announcing') /\ active' \in Nat
<1> DEFINE a == Cardinality(At(Admitted))
           b == Cardinality(Announcing)
           a1 == Cardinality(At(Admitted)')
           b1 == Cardinality(Announcing')
<1>1. active = a + b
  BY DEF CountInv
<1>2. a \in Nat /\ a1 \in Nat /\ a1 = a + (starts - 1)
  <2>1. CASE starts = 1
    BY <2>1, CountedAt
  <2>2. CASE starts = 2
    BY <2>2, CountedAt
  <2>3. CASE starts = 0
    BY <2>3, CountedAt
  <2> QED
    BY <2>1, <2>2, <2>3
<1>3. b \in Nat /\ b1 \in Nat /\ b1 = b + (announces - 1)
  BY CountedAnnouncing
<1> HIDE DEF a, b, a1, b1
<1>4. active' = a1 + b1 /\ active' \in Nat
  BY <1>1, <1>2, <1>3
<1> QED
  BY <1>4 DEF a1, b1

(* A step that records no reference and makes no client.                   *)
LEMMA RoomKept ==
    ASSUME TypeOK, CountInv, NEW t \in Threads, NEW x, Goto(t, x),
           t \in Callers /\ x \in Recording => pc[t] \in Recording,
           t \in Callers /\ x \in Making => pc[t] \in Making,
           UNCHANGED <<given, made>>
    PROVE  /\ given' + Cardinality(At(Recording)') <= MaxReferences
           /\ made' + Cardinality(At(Making)') <= MaxReferences
<1>1. given \in Nat /\ made \in Nat /\ MaxReferences \in Nat
  BY DEF TypeOK, PoolTypeOK
<1>2. \A P : (t \in Callers /\ x \in P => pc[t] \in P) =>
        /\ Cardinality(At(P)) \in Nat /\ Cardinality(At(P)') \in Nat
        /\ Cardinality(At(P)') <= Cardinality(At(P))
  <2> SUFFICES ASSUME NEW P, t \in Callers /\ x \in P => pc[t] \in P
               PROVE  /\ Cardinality(At(P)) \in Nat /\ Cardinality(At(P)') \in Nat
                      /\ Cardinality(At(P)') <= Cardinality(At(P))
    OBVIOUS
  <2> QED
    BY CountedAt
<1> QED
  BY <1>1, <1>2 DEF CountInv

(* Every step keeps the number of admitted operations, and the room.     *)
LEMMA CountNext ==
    ASSUME TypeOK, PlaceInv, CountInv, [Next]_vars
    PROVE  CountInv' /\ active' \in Nat
<1> USE Roles
<1>1. active \in Nat /\ given \in Nat /\ made \in Nat /\ MaxReferences \in Nat
  BY DEF TypeOK, PoolTypeOK
<1>2. ASSUME NEW t \in Threads, NEW x, Goto(t, x), UNCHANGED <<active, given, made>>,
             t \in Callers => (pc[t] \in Admitted <=> x \in Admitted),
             pc[t] = "announcing" <=> x = "announcing",
             t \in Callers /\ x \in Recording => pc[t] \in Recording,
             t \in Callers /\ x \in Making => pc[t] \in Making
      PROVE  CountInv' /\ active' \in Nat
  <2>1. active' = active + (1 - 1) + (1 - 1)
    BY <1>1, <1>2
  <2>2. active' = Cardinality(At(Admitted)') + Cardinality(Announcing') /\ active' \in Nat
    BY <2>1, <1>2, AdmissionKept
  <2> QED
    BY <2>2, <1>2, RoomKept DEF CountInv
<1>3. ASSUME NEW c \in Callers, NEW x \in Admitted, Goto(c, x), UNCHANGED <<active, given, made>>,
             pc[c] \in Admitted, pc[c] # "announcing", x # "announcing",
             x \in Recording => pc[c] \in Recording,
             x \in Making => pc[c] \in Making
      PROVE  CountInv' /\ active' \in Nat
  BY <1>2, <1>3
<1>4. ASSUME NEW c \in Callers, StartStep(c) \/ BorrowRaised(c) \/ BeginRaised(c)
      PROVE  CountInv' /\ active' \in Nat
  <2> USE DEF Recording, Making, Admitted, InSession, StartSteps, DetachSteps, InClose
  <2>1. CASE SessionReserved(c) \/ Lookup(c) \/ PoolReserved(c) \/ NoPooledClient(c)
    <3>1. \E x \in Admitted : Goto(c, x) /\ x # "announcing"
            /\ (x \in Making => pc[c] \in Making) /\ (x \in Recording => pc[c] \in Recording)
      BY <2>1 DEF SessionReserved, Lookup, PoolReserved, NoPooledClient
    <3> QED
      BY <2>1, <3>1, <1>3 DEF SessionReserved, Lookup, PoolReserved, NoPooledClient, daemon, pool
  <2>2. CASE PooledClientFound(c) \/ ClientPooled(c)
    <3>1. /\ Goto(c, "held") /\ pc[c] \in Recording /\ pc[c] # "announcing"
          /\ given' = given + 1 /\ UNCHANGED <<active, made>>
          /\ c \in Callers /\ pc[c] \in Admitted /\ "held" \in Admitted
          /\ "held" \notin Recording /\ "held" \notin Making
      BY <2>2 DEF PooledClientFound, ClientPooled, Record, daemon
    <3> HIDE DEF Recording, Making, Admitted
    <3>2. active' = active + (1 - 1) + (1 - 1)
      BY <1>1, <3>1
    <3>3. active' = Cardinality(At(Admitted)') + Cardinality(Announcing') /\ active' \in Nat
      BY <3>1, <3>2, AdmissionKept
    <3>4. given' + Cardinality(At(Recording)') <= MaxReferences
      <4>1. /\ Cardinality(At(Recording)') = Cardinality(At(Recording)) - 1
            /\ Cardinality(At(Recording)) \in Nat
        BY <3>1, CountedAt
      <4> QED
        BY <1>1, <3>1, <4>1 DEF CountInv
    <3>5. made' + Cardinality(At(Making)') <= MaxReferences
      <4>1. /\ Cardinality(At(Making)') <= Cardinality(At(Making))
            /\ Cardinality(At(Making)) \in Nat /\ Cardinality(At(Making)') \in Nat
        BY <3>1, CountedAt
      <4> QED
        BY <1>1, <3>1, <4>1 DEF CountInv
    <3> QED
      BY <3>3, <3>4, <3>5 DEF CountInv
  <2>3. CASE ClientCreated(c)
    <3>1. /\ Goto(c, "made") /\ pc[c] \in Making /\ pc[c] # "announcing"
          /\ made' = made + 1 /\ UNCHANGED <<active, given>>
          /\ c \in Callers /\ pc[c] \in Admitted /\ "made" \in Admitted
          /\ pc[c] \in Recording /\ "made" \in Recording /\ "made" \notin Making
      BY <2>3 DEF ClientCreated, daemon
    <3> HIDE DEF Recording, Making, Admitted
    <3>2. active' = active + (1 - 1) + (1 - 1)
      BY <1>1, <3>1
    <3>3. active' = Cardinality(At(Admitted)') + Cardinality(Announcing') /\ active' \in Nat
      BY <3>1, <3>2, AdmissionKept
    <3>4. made' + Cardinality(At(Making)') <= MaxReferences
      <4>1. /\ Cardinality(At(Making)') = Cardinality(At(Making)) - 1
            /\ Cardinality(At(Making)) \in Nat
        BY <3>1, CountedAt
      <4> QED
        BY <1>1, <3>1, <4>1 DEF CountInv
    <3>5. given' + Cardinality(At(Recording)') <= MaxReferences
      <4>1. Cardinality(At(Recording)') = Cardinality(At(Recording))
        BY <3>1, CountedAt
      <4> QED
        BY <1>1, <3>1, <4>1 DEF CountInv
    <3> QED
      BY <3>3, <3>4, <3>5 DEF CountInv
  <2>4. CASE BorrowReturned(c) \/ BorrowRaised(c) \/ BorrowUndone(c) \/ LeaseTaken(c)
             \/ TaskBegun(c) \/ BeginExpired(c) \/ BeginRaised(c) \/ TaskPublished(c)
             \/ TaskScheduled(c) \/ SchedulingFailed(c) \/ TaskClosed(c) \/ ReferenceReleased(c)
             \/ StartLeft(c)
    <3>1. pc[c] \in Admitted /\ pc[c] # "announcing"
      BY <2>4
         DEF BorrowReturned, BorrowRaised, BorrowUndone, LeaseTaken, TaskBegun, BeginExpired,
             BeginRaised, TaskPublished, TaskScheduled, SchedulingFailed, TaskClosed,
             ReferenceReleased, StartLeft
    <3>2. \E x \in Admitted : Goto(c, x) /\ x # "announcing" /\ x \notin Recording /\ x \notin Making
      BY <2>4
         DEF BorrowReturned, BorrowRaised, BorrowUndone, LeaseTaken, TaskBegun, BeginExpired,
             BeginRaised, TaskPublished, TaskScheduled, SchedulingFailed, TaskClosed,
             ReferenceReleased, StartLeft, Detach
    <3>3. UNCHANGED <<active, given, made>>
      BY <2>4
         DEF BorrowReturned, BorrowRaised, BorrowUndone, LeaseTaken, TaskBegun, BeginExpired,
             BeginRaised, TaskPublished, TaskScheduled, SchedulingFailed, TaskClosed,
             ReferenceReleased, StartLeft, Detach, pool, daemon
    <3> HIDE DEF Recording, Making, Admitted
    <3> QED
      BY <3>1, <3>2, <3>3, <1>3
  <2> QED
    BY <1>4, <2>1, <2>2, <2>3, <2>4 DEF StartStep
<1>5. ASSUME NEW c \in Callers, NEW s \in Sessions, StartAdmitted(c, s)
      PROVE  CountInv' /\ active' \in Nat
  <2>1. /\ Goto(c, "reserve") /\ pc[c] = "idle" /\ active' = active + 1 /\ UNCHANGED <<given, made>>
        /\ LET busy == Cardinality({d \in Callers : pc[d] # "idle"})
           IN  given + busy < MaxReferences /\ made + busy < MaxReferences
    BY <1>5 DEF StartAdmitted, AdmissionBegins, pool
  <2>2. /\ "idle" \notin Admitted /\ "reserve" \in Admitted
        /\ "idle" \notin Recording /\ "reserve" \in Recording
        /\ "idle" \notin Making /\ "reserve" \in Making
    BY DEF Recording, Making, Admitted, InSession, StartSteps, DetachSteps, InClose
  <2>3. active' = active + (2 - 1) + (1 - 1)
    BY <1>1, <2>1
  <2>4. active' = Cardinality(At(Admitted)') + Cardinality(Announcing') /\ active' \in Nat
    BY <2>1, <2>2, <2>3, AdmissionKept
  <2> DEFINE Busy == {d \in Callers : pc[d] # "idle"}
  <2>5. \A P : "idle" \notin P /\ "reserve" \in P =>
          /\ Cardinality(At(P)') = Cardinality(At(P)) + 1
          /\ Cardinality(At(P)) \in Nat /\ Cardinality(Busy) \in Nat
          /\ Cardinality(At(P)) <= Cardinality(Busy)
    <3> SUFFICES ASSUME NEW P, "idle" \notin P, "reserve" \in P
                 PROVE  /\ Cardinality(At(P)') = Cardinality(At(P)) + 1
                        /\ Cardinality(At(P)) \in Nat /\ Cardinality(Busy) \in Nat
                        /\ Cardinality(At(P)) <= Cardinality(Busy)
      OBVIOUS
    <3>1. Cardinality(At(P)') = Cardinality(At(P)) + 1
      BY <2>1, CountedAt
    <3>2. At(P) \subseteq Busy /\ IsFiniteSet(Busy)
      BY FS_Subset DEF At
    <3> QED
      BY <3>1, <3>2, FS_Subset, FS_CardinalityType
  <2> HIDE DEF Busy
  <2>6. given + Cardinality(Busy) < MaxReferences /\ made + Cardinality(Busy) < MaxReferences
    BY <2>1 DEF Busy
  <2> QED
    BY <1>1, <2>1, <2>2, <2>4, <2>5, <2>6 DEF CountInv
<1>6. ASSUME NEW t \in Detachers, DetachStep(t) PROVE CountInv' /\ active' \in Nat
  <2>1. UNCHANGED <<active, given, made>>
    BY <1>6 DEF DetachStep, TasksReleased, AttemptStarted, ObligationMet, ObligationFailed,
                DetachOver, pool, daemon
  <2>2. /\ pc[t] \in {"detached", "owed"} /\ pc[t] # "announcing" /\ t \in Threads
        /\ pc[t] \notin Recording /\ pc[t] \notin Making /\ pc[t] \in Admitted
        /\ "owed" \in Admitted /\ "leave" \in Admitted /\ "ending" \notin Recording
        /\ "owed" \notin Recording /\ "leave" \notin Recording /\ "idle" \notin Recording
        /\ "owed" \notin Making /\ "leave" \notin Making /\ "idle" \notin Making
    BY <1>6
       DEF DetachStep, TasksReleased, AttemptStarted, ObligationMet, ObligationFailed, DetachOver,
           Admitted, InSession, StartSteps, DetachSteps, Recording, Making
  <2>3. CASE TasksReleased(t)
    <3>1. Goto(t, "owed")
      BY <2>3 DEF TasksReleased
    <3> QED
      BY <3>1, <2>1, <2>2, <1>2
  <2>4. CASE AttemptStarted(t) \/ ObligationFailed(t)
    <3>1. FirstOwed(t) \in References /\ FirstOwed(t) \notin Callers
      BY <2>2, <2>4, FirstOwedOwed DEF AttemptStarted, ObligationFailed
    <3>2. /\ Goto(FirstOwed(t), "closing") \/ Goto(FirstOwed(t), "idle")
          /\ pc[FirstOwed(t)] # "announcing"
      BY <2>4 DEF AttemptStarted, ObligationFailed
    <3> HIDE DEF FirstOwed
    <3> QED
      BY <3>1, <3>2, <2>1, <1>2
  <2>5. CASE ObligationMet(t)
    <3>1. UNCHANGED pc
      BY <2>5 DEF ObligationMet
    <3> QED
      BY <3>1, <2>1, <1>1 DEF CountInv, At, Announcing
  <2>6. CASE DetachOver(t)
    <3>1. /\ t \in Callers => Goto(t, "leave")
          /\ t \in Closers \/ t = Worker => Goto(t, "ending") \/ Goto(t, "idle")
      BY <2>6 DEF DetachOver
    <3>2. CASE t \in Callers
      BY <3>1, <3>2, <2>1, <2>2, <1>2
    <3>3. CASE t \in Closers \/ t = Worker
      <4>1. t \notin Callers
        BY <3>3
      <4> QED
        BY <3>1, <3>3, <4>1, <2>1, <2>2, <1>2
    <3> QED
      BY <3>2, <3>3 DEF Detachers
  <2> QED
    BY <1>6, <2>3, <2>4, <2>5, <2>6 DEF DetachStep
<1>7. ASSUME NEW t \in Openers, CloseStep(t) \/ StopRaised(t) PROVE CountInv' /\ active' \in Nat
  <2>1. /\ {"announcing", "stopping", Closed(t), CloseRaised(t)} \cap Recording = {}
        /\ {"announcing", "stopping", Closed(t), CloseRaised(t)} \cap Making = {}
        /\ t \in Callers => {"announcing", "stopping", Closed(t), CloseRaised(t)} \subseteq Admitted
        /\ "announcing" \notin {"stopping", Closed(t), CloseRaised(t)}
        /\ t \in Threads
    BY DEF Recording, Making, Admitted, InSession, StartSteps, InClose, Closed, CloseRaised, Openers
  <2>2. /\ pc[t] \in {"closing", "stopping"} /\ UNCHANGED <<given, made>>
        /\ pc[t] # "announcing" /\ pc[t] \in Admitted
    BY <1>7 DEF CloseStep, HandleDropped, ChildStopped, StopRaised, pool, daemon,
                Admitted, InSession, InClose
  <2>3. ASSUME NEW x \in {"stopping", Closed(t), CloseRaised(t)}, Goto(t, x), UNCHANGED active
        PROVE  CountInv' /\ active' \in Nat
    BY <2>1, <2>2, <2>3, <1>2
  <2>4. CASE Goto(t, "announcing") /\ active' = active + 1
    <3>1. active' = active + (1 - 1) + (2 - 1)
      BY <1>1, <2>4
    <3>2. active' = Cardinality(At(Admitted)') + Cardinality(Announcing') /\ active' \in Nat
      BY <3>1, <2>1, <2>2, <2>4, AdmissionKept
    <3>3. /\ given' + Cardinality(At(Recording)') <= MaxReferences
          /\ made' + Cardinality(At(Making)') <= MaxReferences
      BY <2>1, <2>2, <2>4, RoomKept
    <3> QED
      BY <3>2, <3>3 DEF CountInv
  <2> QED
    BY <1>7, <2>3, <2>4 DEF CloseStep, HandleDropped, ChildStopped, StopRaised, daemon
<1>8. ASSUME NEW t \in Threads, EndAdmission(t) PROVE CountInv' /\ active' \in Nat
  <2>1. /\ Goto(t, AfterAdmission(t)) /\ active' = active - 1 /\ UNCHANGED <<given, made>>
        /\ pc[t] \in {"end", "announcing"} /\ pc[t] \in Admitted
    BY <1>8 DEF EndAdmission, pool, Admitted, InSession, InClose
  <2>2. /\ AfterAdmission(t) \notin Recording /\ AfterAdmission(t) \notin Making
        /\ AfterAdmission(t) # "announcing"
    BY DEF AfterAdmission, CloseRaised, Recording, Making
  <2>3. /\ given' + Cardinality(At(Recording)') <= MaxReferences
        /\ made' + Cardinality(At(Making)') <= MaxReferences
    BY <2>1, <2>2, RoomKept
  <2>4. CASE pc[t] = "end"
    <3>1. t \in Callers
      BY <2>4 DEF PlaceInv, Threads, ShutdownSteps, DetachSteps, CloseSteps
    <3>2. AfterAdmission(t) \notin Admitted
      BY <2>4 DEF AfterAdmission, Admitted, InSession, StartSteps, DetachSteps, InClose
    <3>3. active' = active + (0 - 1) + (1 - 1)
      BY <1>1, <2>1
    <3>4. active' = Cardinality(At(Admitted)') + Cardinality(Announcing') /\ active' \in Nat
      BY <2>1, <2>2, <2>4, <3>1, <3>2, <3>3, AdmissionKept
    <3> QED
      BY <2>3, <3>4 DEF CountInv
  <2>5. CASE pc[t] = "announcing"
    <3>1. t \in Callers => AfterAdmission(t) \in Admitted
      BY <2>5 DEF AfterAdmission, CloseRaised, Openers, Admitted, InSession, StartSteps, InClose
    <3>2. active' = active + (1 - 1) + (0 - 1)
      BY <1>1, <2>1
    <3>3. active' = Cardinality(At(Admitted)') + Cardinality(Announcing') /\ active' \in Nat
      BY <2>1, <2>2, <2>5, <3>1, <3>2, AdmissionKept
    <3> QED
      BY <2>3, <3>3 DEF CountInv
  <2> QED
    BY <2>1, <2>4, <2>5
<1>9. ASSUME NEW t \in Threads, NEW x, Goto(t, x), UNCHANGED <<active, given, made>>,
             t \notin Callers, pc[t] # "announcing", x # "announcing"
      PROVE  CountInv' /\ active' \in Nat
  BY <1>2, <1>9
<1>10. ASSUME NEW t \in Threads, WaitClosed(t) PROVE CountInv' /\ active' \in Nat
  <2>1. /\ \/ pc[t] = "await" /\ Goto(t, "idle")
           \/ pc[t] = "blocked" /\ Goto(t, "stopping")
        /\ UNCHANGED <<active, given, made>>
    BY <1>10 DEF WaitClosed, pool, daemon
  <2>2. /\ "idle" \notin Recording /\ "idle" \notin Making /\ "idle" \notin Admitted
        /\ "await" \notin Admitted /\ "blocked" \in Admitted /\ "stopping" \in Admitted
        /\ "stopping" \notin Recording /\ "stopping" \notin Making
    BY DEF Recording, Making, Admitted, InSession, StartSteps, DetachSteps, InClose
  <2>3. CASE pc[t] = "await" /\ Goto(t, "idle")
    BY <2>1, <2>2, <2>3, <1>2
  <2>4. CASE pc[t] = "blocked" /\ Goto(t, "stopping")
    BY <2>1, <2>2, <2>4, <1>2
  <2> QED
    BY <2>1, <2>3, <2>4
<1>11. CASE ReaderAdmitted
  <2>1. /\ Goto(Reader, "announcing") /\ pc[Reader] = "idle" /\ active' = active + 1
        /\ UNCHANGED <<given, made>>
    BY <1>11 DEF ReaderAdmitted, AdmissionBegins, pool
  <2>2. active' = active + (1 - 1) + (2 - 1)
    BY <1>1, <2>1
  <2>3. active' = Cardinality(At(Admitted)') + Cardinality(Announcing') /\ active' \in Nat
    BY <2>1, <2>2, AdmissionKept
  <2>4. /\ given' + Cardinality(At(Recording)') <= MaxReferences
        /\ made' + Cardinality(At(Making)') <= MaxReferences
    BY <2>1, RoomKept
  <2> QED
    BY <2>3, <2>4 DEF CountInv
<1>12. ASSUME \/ WorkerStep \/ WorkerDies \/ \E s \in Sessions : Drive(s)
              \/ \E T \in SUBSET Published : Retire(T)
       PROVE  CountInv' /\ active' \in Nat
  <2>1. \E x \in {"idle", "asking", "exited", "detached"} : Goto(Worker, x)
    <3>1. ASSUME NEW s \in Sessions, Drive(s) PROVE Goto(Worker, "asking")
      BY <3>1 DEF Drive
    <3>2. ASSUME NEW T \in SUBSET Published, Retire(T) PROVE Goto(Worker, "detached")
      BY <3>2 DEF Retire, Detach
    <3>3. CASE WorkerStep \/ WorkerDies
      BY <3>3 DEF WorkerStep, Answered, RequestFailed, WorkerExits, WorkerDies, Detach
    <3> QED
      BY <1>12, <3>1, <3>2, <3>3
  <2>2. pc[Worker] # "announcing" /\ UNCHANGED <<active, given, made>>
    BY <1>12 DEF WorkerStep, Answered, RequestFailed, WorkerExits, WorkerDies, Drive, Retire, Detach,
                 pool, daemon
  <2> QED
    BY <2>1, <2>2, <1>9
<1>13. ASSUME NEW m \in Closers, CloseBegins(m) \/ ShutdownStep(m) PROVE CountInv' /\ active' \in Nat
  <2>1. \E x : Goto(m, x) /\ x # "announcing"
    BY <1>13 DEF CloseBegins, ShutdownStep, Drained, Joined, CloseEnds, Detach
  <2>2. pc[m] # "announcing" /\ UNCHANGED <<active, given, made>>
    BY <1>13 DEF CloseBegins, ShutdownStep, Drained, Joined, CloseEnds, Detach, pool, daemon
  <2> QED
    BY <2>1, <2>2, <1>9
<1>14. CASE UNCHANGED vars
  <2>1. UNCHANGED <<pc, active, given, made>>
    BY <1>14 DEF vars, pool, daemon
  <2> QED
    BY <2>1, <1>1 DEF CountInv, At, Announcing
<1> QED
  BY <1>4, <1>5, <1>6, <1>7, <1>8, <1>10, <1>11, <1>12, <1>13, <1>14
     DEF Next, Requested, Failure, Progress, AdmissionStep

-----------------------------------------------------------------------------
(* Types. *)

(* A start that has yet to make a client, or to record a reference, finds  *)
(* a number for it.                                                        *)
LEMMA Room ==
    ASSUME TypeOK, CountInv, NEW c \in Callers
    PROVE  /\ pc[c] \in Recording => given < MaxReferences
           /\ pc[c] \in Making => made < MaxReferences
<1>1. \A P : pc[c] \in P => Cardinality(At(P)) > 0
  <2> SUFFICES ASSUME NEW P, pc[c] \in P PROVE Cardinality(At(P)) > 0
    OBVIOUS
  <2>1. c \in At(P)
    BY DEF At
  <2> QED
    BY <2>1, CallersFinite, FS_EmptySet
<1>2. /\ Cardinality(At(Recording)) \in Nat
      /\ Cardinality(At(Making)) \in Nat
  BY CallersFinite
<1>3. given \in Nat /\ made \in Nat /\ MaxReferences \in Nat
  BY DEF TypeOK, PoolTypeOK
<1> QED
  BY <1>1, <1>2, <1>3 DEF CountInv

(* The records of a thread's work.                                         *)
LEMMA JobRecords ==
    ASSUME NEW j \in Jobs, NEW s \in Sessions, NEW n \in 0 .. MaxReferences,
           NEW k \in 0 .. MaxReferences, NEW S \in SUBSET References
    PROVE  /\ NoJob \in Jobs /\ [NoJob EXCEPT !.session = s] \in Jobs
           /\ [NoJob EXCEPT !.task = n] \in Jobs
           /\ [j EXCEPT !.task = n] \in Jobs /\ [j EXCEPT !.client = n] \in Jobs
           /\ [j EXCEPT !.task = n, !.client = k] \in Jobs
           /\ [j EXCEPT !.client = n, !.created = k] \in Jobs
           /\ [j EXCEPT !.created = n] \in Jobs /\ [j EXCEPT !.todo = S] \in Jobs
           /\ [j EXCEPT !.owed = S] \in Jobs
           /\ [j EXCEPT !.owed = S, !.failed = TRUE] \in Jobs
<1>1. NoJob \in Jobs
  BY DEF NoJob, Jobs, NoTask, Nobody
<1> QED
  BY <1>1 DEF Jobs

(* The pool's variables have their types after a section of the pool.      *)
LEMMA PoolTyped ==
    ASSUME TypeOK, given < MaxReferences
    PROVE  /\ \A k \in 0 .. made : Record(k) => given' \in 0 .. MaxReferences
                 /\ references' \in [References -> [client : 0 .. made, state : States]]
           /\ given + 1 \in References
<1>1. given \in Nat /\ given + 1 \in References /\ MaxReferences \in Nat /\ made \in Nat
  BY DEF TypeOK, PoolTypeOK, References
<1> QED
  BY <1>1 DEF TypeOK, PoolTypeOK, Record, States

(* References keep their type when they are released.                    *)
LEMMA ReleaseTyped ==
    ASSUME TypeOK, NEW keep, NEW drop, references' = Released(keep, drop)
    PROVE  references' \in [References -> [client : 0 .. made, state : States]]
<1>1. /\ pooled \in 0 .. made
      /\ \A r \in References : references[r] \in [client : 0 .. made, state : States]
  BY DEF TypeOK, PoolTypeOK
<1>2. \A r \in References :
        /\ [client |-> pooled, state |-> "closing"] \in [client : 0 .. made, state : States]
        /\ [references[r] EXCEPT !.state = "gone"] \in [client : 0 .. made, state : States]
  BY <1>1 DEF States
<1> QED
  BY <1>1, <1>2 DEF Released

(* A client is started over a reference to it.                             *)
LEMMA HeldClient ==
    ASSUME TypeOK, ReferenceInv, BorrowInv
    PROVE  /\ \A c \in Callers : pc[c] \in {"held", "initialize", "begin"} =>
                 job[c].client \in 1 .. made
           /\ \A s \in Sessions : tasks[s] # NoTask =>
                 tasks[s] \in References /\ references[tasks[s]].client \in 1 .. made
<1> USE DEF NoTask, Nobody
<1>1. made \in Nat /\ \A r \in References : references[r].client \in 0 .. made
  BY DEF TypeOK, PoolTypeOK
<1>2. \A r \in References : references[r].state # "gone" => references[r].client # 0
  BY DEF ReferenceInv
<1>3. ASSUME NEW c \in Callers, pc[c] \in {"held", "initialize", "begin"}
      PROVE  job[c].client \in 1 .. made
  <2>1. job[c].task \in References
    <3>1. job[c].task \in 0 .. MaxReferences /\ job[c].task # 0
      BY <1>3, Roles DEF TypeOK, Jobs, BorrowInv, StartInv, Holding
    <3> QED
      BY <3>1 DEF References
  <2>2. /\ references[job[c].task].state = "borrowed"
        /\ references[job[c].task].client = job[c].client
    BY <1>3, <2>1 DEF BorrowInv, StartInv, Holding, References
  <2> QED
    BY <1>1, <1>2, <2>1, <2>2
<1>4. ASSUME NEW s \in Sessions, tasks[s] # NoTask
      PROVE  tasks[s] \in References /\ references[tasks[s]].client \in 1 .. made
  <2>1. tasks[s] \in References
    BY <1>4 DEF TypeOK, References
  <2>2. tasks[s] <= given
    BY <1>4 DEF ReferenceInv, Counted, Published
  <2>3. references[tasks[s]].client # 0
    BY <2>1, <2>2 DEF ReferenceInv
  <2> QED
    BY <1>1, <2>1, <2>3
<1> QED
  BY <1>3, <1>4

(* Every step keeps the types of the pool.                               *)
LEMMA PoolTypeNext ==
    ASSUME TypeOK, PlaceInv, CountInv, ReferenceInv, BorrowInv, [Next]_vars
    PROVE  PoolTypeOK'
<1> USE DEF NoTask, Nobody
<1>1. PoolTypeOK /\ \A t \in Threads : job[t] \in Jobs /\ job[t].client \in 0 .. made
  BY DEF TypeOK, ReferenceInv, Jobs
<1>2. /\ made \in Nat /\ given \in Nat /\ pooled \in Nat /\ MaxReferences \in Nat
      /\ \A r \in References : references[r].client \in 0 .. made
  BY DEF TypeOK, PoolTypeOK
<1>3. ASSUME UNCHANGED <<made, running, handles, pooled, references, given>>, reserved' \in BOOLEAN
      PROVE  PoolTypeOK'
  BY <1>1, <1>3 DEF PoolTypeOK
<1>10. ASSUME NEW S, Release(S), UNCHANGED <<made, running, handles, given, reserved>>
       PROVE  PoolTypeOK'
  <2>1. references' \in [References -> [client : 0 .. made, state : States]]
    BY <1>10, ReleaseTyped DEF Release
  <2>2. pooled' \in {0, pooled}
    BY <1>10 DEF Release
  <2> QED
    BY <2>1, <2>2, <1>10, <1>1, <1>2 DEF PoolTypeOK
<1>4. ASSUME NEW c \in Callers, StartStep(c) PROVE PoolTypeOK'
  <2>1. CASE UNCHANGED pool
    BY <2>1, <1>1 DEF PoolTypeOK, pool
  <2>2. CASE PoolReserved(c) \/ BorrowReturned(c)
    BY <2>2, <1>3 DEF PoolReserved, BorrowReturned
  <2>3. CASE PooledClientFound(c)
    <3>1. given < MaxReferences
      BY <2>3, Room DEF PooledClientFound, Recording, Making
    <3> QED
      BY <2>3, <3>1, <1>1, <1>2, PoolTyped DEF PooledClientFound, PoolTypeOK
  <2>4. CASE ClientCreated(c)
    <3>1. made < MaxReferences
      BY <2>4, Room DEF ClientCreated, Recording, Making
    <3>2. 0 .. made \subseteq 0 .. made' /\ 1 .. made \subseteq 1 .. made' /\ made' \in 0 .. MaxReferences
      BY <2>4, <3>1, <1>2 DEF ClientCreated
    <3>3. references' \in [References -> [client : 0 .. made', state : States]]
      BY <2>4, <3>2, <1>1 DEF ClientCreated, PoolTypeOK
    <3> QED
      BY <2>4, <3>2, <3>3, <1>1 DEF ClientCreated, PoolTypeOK
  <2>5. CASE ClientPooled(c)
    <3>1. given < MaxReferences
      BY <2>5, Room DEF ClientPooled, Recording, Making
    <3>2. job[c].client \in 0 .. made
      BY <1>1, Roles
    <3> QED
      BY <2>5, <3>1, <3>2, <1>1, <1>2, PoolTyped DEF ClientPooled, PoolTypeOK
  <2>6. CASE BorrowUndone(c)
    <3>1. references' = Released({}, {job[c].task} \ {NoTask})
      BY <2>6 DEF BorrowUndone
    <3>2. references' \in [References -> [client : 0 .. made, state : States]]
      BY <3>1, ReleaseTyped
    <3>3. pooled' = 0 /\ UNCHANGED <<made, running, handles, given, reserved>>
      BY <2>6 DEF BorrowUndone
    <3> QED
      BY <3>2, <3>3, <1>1, <1>2 DEF PoolTypeOK
  <2>7. CASE TaskBegun(c) \/ BeginExpired(c)
    <3>1. job[c].client \in 1 .. made
      BY <2>7, HeldClient DEF TaskBegun, BeginExpired
    <3> QED
      BY <2>7, <3>1, <1>1 DEF TaskBegun, BeginExpired, Started, PoolTypeOK
  <2>8. CASE TaskPublished(c)
    <3>1. references' \in [References -> [client : 0 .. made, state : States]]
      BY <2>8, <1>1 DEF TaskPublished, Committed, PoolTypeOK, States
    <3> QED
      BY <2>8, <3>1, <1>1 DEF TaskPublished, PoolTypeOK
  <2>9. CASE ReferenceReleased(c)
    BY <2>9, <1>10 DEF ReferenceReleased
  <2> QED
    BY <1>4, <2>1, <2>2, <2>3, <2>4, <2>5, <2>6, <2>7, <2>8, <2>9
       DEF StartStep, SessionReserved, Lookup, NoPooledClient, LeaseTaken, TaskScheduled,
           SchedulingFailed, Detach, TaskClosed, StartLeft, pool
<1>5. ASSUME NEW t \in Detachers, DetachStep(t) PROVE PoolTypeOK'
  <2>1. CASE TasksReleased(t) \/ ObligationMet(t)
    <3>1. CASE TasksReleased(t)
      BY <3>1, <1>10 DEF TasksReleased
    <3>2. CASE ObligationMet(t)
      <4>1. references' \in [References -> [client : 0 .. made, state : States]]
        BY <3>2, ReleaseTyped DEF ObligationMet
      <4> QED
        BY <3>2, <4>1, <1>1 DEF ObligationMet, PoolTypeOK
    <3> QED
      BY <2>1, <3>1, <3>2
  <2> QED
    BY <1>5, <2>1, <1>1
       DEF DetachStep, AttemptStarted, ObligationFailed, DetachOver, PoolTypeOK, pool
<1>6. ASSUME NEW t \in Openers, CloseStep(t) \/ StopRaised(t) PROVE PoolTypeOK'
  BY <1>6, <1>1 DEF CloseStep, HandleDropped, ChildStopped, StopRaised, PoolTypeOK
<1>7. ASSUME NEW s \in Sessions, Drive(s) PROVE PoolTypeOK'
  <2>1. references[tasks[s]].client \in 1 .. made
    BY <1>7, HeldClient DEF Drive
  <2> QED
    BY <1>7, <2>1, <1>1 DEF Drive, Started, PoolTypeOK
<1>8. ASSUME NEW c \in Callers, BorrowRaised(c) \/ BeginRaised(c) PROVE PoolTypeOK'
  <2>1. CASE BorrowRaised(c)
    BY <2>1, <1>3 DEF BorrowRaised
  <2>2. CASE BeginRaised(c)
    <3>1. job[c].client \in 1 .. made
      BY <2>2, HeldClient DEF BeginRaised
    <3> QED
      BY <2>2, <3>1, <1>1 DEF BeginRaised, Started, PoolTypeOK
  <2> QED
    BY <1>8, <2>1, <2>2
<1>9. CASE UNCHANGED pool
  BY <1>1, <1>9 DEF PoolTypeOK, pool
<1> QED
  BY <1>4, <1>5, <1>6, <1>7, <1>8, <1>9
     DEF Next, Requested, Failure, Progress, StartAdmitted, Retire, CloseBegins, ReaderAdmitted,
         WorkerDies, AdmissionStep, EndAdmission, WaitClosed, WorkerStep, Answered, RequestFailed,
         WorkerExits, ShutdownStep, Drained, Joined, CloseEnds, Detach, vars, pool

(* Every step keeps the type of what threads work on.                    *)
LEMMA JobTypeNext ==
    ASSUME TypeOK, PlaceInv, CountInv, BorrowInv, [Next]_vars
    PROVE  job' \in [Threads -> Jobs]
<1> USE Roles DEF NoTask, Nobody
<1>1. /\ job \in [Threads -> Jobs] /\ NoJob \in Jobs
      /\ \A t \in Threads : job[t] \in Jobs /\ job[t].session \in Sessions
      /\ \A s \in Sessions : tasks[s] \in 0 .. MaxReferences
      /\ given \in 0 .. MaxReferences /\ made \in 0 .. MaxReferences /\ MaxReferences \in Nat
      /\ pooled \in 0 .. MaxReferences
  <2>1. NoJob \in Jobs
    BY DEF NoJob, Jobs
  <2> QED
    BY <2>1 DEF TypeOK, PoolTypeOK, Jobs
<1>2. ASSUME NEW t \in Threads, NEW j \in Jobs, Set(t, j) PROVE job' \in [Threads -> Jobs]
  BY <1>1, <1>2 DEF Set
<1>3. ASSUME NEW t \in Threads, NEW T, Detach(t, T) PROVE job' \in [Threads -> Jobs]
  <2>1. T \cap Published \subseteq References
    BY <1>1 DEF Published, References
  <2>2. [job[t] EXCEPT !.todo = T \cap Published] \in Jobs
    BY <2>1, <1>1 DEF Jobs
  <2> QED
    BY <2>2, <1>2, <1>3 DEF Detach
<1>4. ASSUME NEW c \in Callers, StartStep(c) PROVE job' \in [Threads -> Jobs]
  <2>1. CASE UNCHANGED job
    BY <2>1, <1>1
  <2>2. CASE Lookup(c)
    <3>1. [job[c] EXCEPT !.task = tasks[job[c].session]] \in Jobs
      BY <1>1, JobRecords
    <3> QED
      BY <2>2, <3>1, <1>2 DEF Lookup
  <2>3. CASE PooledClientFound(c) \/ ClientPooled(c)
    <3>1. given + 1 \in 0 .. MaxReferences
      BY <2>3, <1>1, Room DEF PooledClientFound, ClientPooled, Recording, Making
    <3>2. /\ [job[c] EXCEPT !.task = given + 1, !.client = pooled] \in Jobs
          /\ [job[c] EXCEPT !.task = given + 1] \in Jobs
      BY <3>1, <1>1, JobRecords
    <3> QED
      BY <2>3, <3>2, <1>2 DEF PooledClientFound, ClientPooled
  <2>4. CASE ClientCreated(c)
    <3>1. made + 1 \in 0 .. MaxReferences
      BY <2>4, <1>1, Room DEF ClientCreated, Recording, Making
    <3>2. [job[c] EXCEPT !.client = made + 1, !.created = made + 1] \in Jobs
      BY <3>1, <1>1, JobRecords
    <3> QED
      BY <2>4, <3>2, <1>2 DEF ClientCreated
  <2>5. CASE BorrowReturned(c) \/ TaskPublished(c)
    <3>1. [job[c] EXCEPT !.created = 0] \in Jobs /\ [job[c] EXCEPT !.client = 0] \in Jobs
      <4>1. 0 \in 0 .. MaxReferences
        BY <1>1
      <4> QED
        BY <4>1, <1>1, JobRecords
    <3> QED
      BY <2>5, <3>1, <1>2 DEF BorrowReturned, TaskPublished
  <2>6. CASE BorrowUndone(c)
    <3> DEFINE victim == IF pooled # Nobody THEN pooled ELSE job[c].created
    <3>1. victim \in 0 .. MaxReferences
      BY <1>1 DEF Jobs
    <3>2. [job[c] EXCEPT !.client = victim] \in Jobs
      BY <3>1, <1>1, JobRecords
    <3>3. Set(c, [job[c] EXCEPT !.client = victim])
      BY <2>6 DEF BorrowUndone
    <3> HIDE DEF victim
    <3> QED
      BY <3>2, <3>3, <1>2
  <2>7. CASE ReferenceReleased(c)
    <3>1. {r \in {job[c].task} : references'[r].state = "closing"} \subseteq References
      <4>1. job[c].task \in 0 .. MaxReferences /\ job[c].task # 0
        BY <2>7, <1>1 DEF ReferenceReleased, BorrowInv, StartInv, Holding, Jobs
      <4> QED
        BY <4>1 DEF References
    <3> DEFINE S == {r \in {job[c].task} : references'[r].state = "closing"}
    <3> HIDE DEF S
    <3>2. [job[c] EXCEPT !.owed = S] \in Jobs
      BY <3>1, <1>1, JobRecords DEF S
    <3> QED
      BY <2>7, <3>2, <1>2 DEF ReferenceReleased, S
  <2>8. CASE StartLeft(c)
    BY <2>8, <1>1, <1>2 DEF StartLeft
  <2>9. CASE SchedulingFailed(c)
    BY <2>9, <1>3 DEF SchedulingFailed
  <2> QED
    BY <1>4, <2>1, <2>2, <2>3, <2>4, <2>5, <2>6, <2>7, <2>8, <2>9
       DEF StartStep, SessionReserved, PoolReserved, NoPooledClient, LeaseTaken, TaskScheduled,
           TaskBegun, BeginExpired, TaskClosed
<1>5. ASSUME NEW t \in Detachers, DetachStep(t) PROVE job' \in [Threads -> Jobs]
  <2>1. CASE TasksReleased(t)
    <3> DEFINE S == {r \in References : references'[r].state = "closing"}
    <3>1. S \subseteq References
      OBVIOUS
    <3> HIDE DEF S
    <3>2. [job[t] EXCEPT !.owed = S] \in Jobs
      BY <3>1, <1>1, JobRecords
    <3> QED
      BY <2>1, <3>2, <1>2 DEF TasksReleased, S
  <2>2. CASE AttemptStarted(t)
    <3>1. FirstOwed(t) \in References /\ FirstOwed(t) \in Threads
      BY <2>2, FirstOwedOwed DEF AttemptStarted
    <3>2. references[FirstOwed(t)].client \in 0 .. MaxReferences
      BY <3>1, <1>1 DEF TypeOK, PoolTypeOK
    <3>3. job' = [job EXCEPT ![FirstOwed(t)].client = references[FirstOwed(t)].client]
      BY <2>2 DEF AttemptStarted
    <3> HIDE DEF FirstOwed
    <3>4. [job[FirstOwed(t)] EXCEPT !.client = references[FirstOwed(t)].client] \in Jobs
      BY <3>1, <3>2, <1>1, JobRecords
    <3> QED
      BY <3>1, <3>3, <3>4, <1>1
  <2>3. CASE ObligationMet(t) \/ ObligationFailed(t)
    <3>1. job[t].owed \ {FirstOwed(t)} \subseteq References
      BY <1>1 DEF Jobs
    <3>2. /\ [job[t] EXCEPT !.owed = job[t].owed \ {FirstOwed(t)}] \in Jobs
          /\ [job[t] EXCEPT !.owed = job[t].owed \ {FirstOwed(t)}, !.failed = TRUE] \in Jobs
      BY <3>1, <1>1, JobRecords
    <3>3. Settled(t) \in Jobs /\ [Settled(t) EXCEPT !.failed = TRUE] \in Jobs
      BY <3>2 DEF Settled, Jobs
    <3> QED
      BY <2>3, <3>3, <1>2 DEF ObligationMet, ObligationFailed
  <2>4. CASE DetachOver(t)
    <3>1. [NoJob EXCEPT !.session = job[t].session] \in Jobs
      BY <1>1, JobRecords
    <3> QED
      BY <2>4, <3>1, <1>2 DEF DetachOver
  <2> QED
    BY <1>5, <2>1, <2>2, <2>3, <2>4 DEF DetachStep
<1>6. ASSUME NEW c \in Callers, NEW s \in Sessions, StartAdmitted(c, s)
      PROVE  job' \in [Threads -> Jobs]
  <2>1. [NoJob EXCEPT !.session = s] \in Jobs
    BY <1>1, JobRecords
  <2> QED
    BY <1>6, <2>1, <1>2 DEF StartAdmitted
<1>7. ASSUME NEW s \in Sessions, Drive(s) PROVE job' \in [Threads -> Jobs]
  <2>1. [NoJob EXCEPT !.task = tasks[s]] \in Jobs
    BY <1>1, JobRecords
  <2> QED
    BY <1>7, <2>1, <1>2 DEF Drive
<1>8. ASSUME NEW T, Retire(T) PROVE job' \in [Threads -> Jobs]
  BY <1>8, <1>3 DEF Retire
<1>9. CASE WorkerStep
  BY <1>9, <1>1, <1>2, <1>3 DEF WorkerStep, Answered, RequestFailed, WorkerExits
<1>10. ASSUME NEW m \in Closers, ShutdownStep(m) PROVE job' \in [Threads -> Jobs]
  BY <1>10, <1>1, <1>3 DEF ShutdownStep, Drained, Joined, CloseEnds
<1>11. CASE UNCHANGED job
  BY <1>11, <1>1
<1> QED
  BY <1>4, <1>5, <1>6, <1>7, <1>8, <1>9, <1>10, <1>11
     DEF Next, Requested, Failure, Progress, CloseBegins, ReaderAdmitted, BorrowRaised,
         BeginRaised, StopRaised, WorkerDies, CloseStep, HandleDropped, ChildStopped,
         AdmissionStep, EndAdmission, WaitClosed, vars

(* A step moves one thread at most.                                        *)
LEMMA OneMoves ==
    ASSUME [Next]_vars
    PROVE  UNCHANGED pc \/ \E t, x : Goto(t, x)
<1>1. ASSUME NEW c \in Callers, StartStep(c) PROVE \E t, x : Goto(t, x)
  BY <1>1
     DEF StartStep, SessionReserved, Lookup, PoolReserved, PooledClientFound, NoPooledClient,
         ClientCreated, ClientPooled, BorrowReturned, BorrowUndone, LeaseTaken, TaskBegun,
         BeginExpired, TaskPublished, TaskScheduled, SchedulingFailed, TaskClosed,
         ReferenceReleased, StartLeft, Detach
<1>2. ASSUME NEW t \in Threads,
             DetachStep(t) \/ CloseStep(t) \/ AdmissionStep(t) \/ WorkerStep \/ ShutdownStep(t)
      PROVE  UNCHANGED pc \/ \E u, x : Goto(u, x)
  BY <1>2
     DEF DetachStep, TasksReleased, AttemptStarted, ObligationMet, ObligationFailed, DetachOver,
         CloseStep, HandleDropped, ChildStopped, AdmissionStep, EndAdmission, WaitClosed,
         WorkerStep, Answered, RequestFailed, WorkerExits, ShutdownStep, Drained, Joined,
         CloseEnds, Detach
<1>3. CASE Failure
  BY <1>3 DEF Failure, BorrowRaised, BeginRaised, StopRaised, WorkerDies
<1>4. CASE Requested
  <2>1. ASSUME NEW T \in SUBSET Published, Retire(T) PROVE \E u, x : Goto(u, x)
    BY <2>1 DEF Retire, Detach
  <2> QED
    BY <1>4, <2>1 DEF Requested, StartAdmitted, Drive, CloseBegins, ReaderAdmitted
<1> QED
  BY <1>1, <1>2, <1>3, <1>4 DEF Next, Progress, vars

(* What the registry and its sessions are after a step.                    *)
LEMMA DaemonTypeNext ==
    ASSUME TypeOK, [Next]_vars
    PROVE  /\ tasks' \in [Sessions -> 0 .. MaxReferences]
           /\ lease' \in [Sessions -> 0 .. MaxReferences]
           /\ sessions' \subseteq Sessions /\ dropped' \subseteq References
<1> DEFINE Typed == /\ tasks' \in [Sessions -> 0 .. MaxReferences]
                    /\ lease' \in [Sessions -> 0 .. MaxReferences]
                    /\ sessions' \subseteq Sessions /\ dropped' \subseteq References
<1> USE Roles DEF NoTask, Nobody
<1>1. /\ tasks \in [Sessions -> 0 .. MaxReferences] /\ lease \in [Sessions -> 0 .. MaxReferences]
      /\ sessions \subseteq Sessions /\ dropped \subseteq References /\ MaxReferences \in Nat
      /\ \A t \in Threads : /\ job[t].session \in Sessions /\ job[t].todo \subseteq References
                            /\ job[t].task \in 0 .. MaxReferences
  BY DEF TypeOK, Jobs
<1>2. CASE UNCHANGED <<tasks, lease, sessions, dropped>>
  BY <1>1, <1>2
<1>3. ASSUME NEW t \in Threads, NEW T, Detach(t, T) PROVE Typed
  BY <1>1, <1>3 DEF Detach, history
<1>4. ASSUME NEW c \in Callers, StartStep(c) PROVE Typed
  <2>1. CASE SessionReserved(c) \/ StartLeft(c)
    BY <2>1, <1>1 DEF SessionReserved, StartLeft, history
  <2>2. CASE LeaseTaken(c) \/ TaskClosed(c)
    BY <2>2, <1>1 DEF LeaseTaken, TaskClosed, history
  <2>3. CASE TaskPublished(c)
    BY <2>3, <1>1 DEF TaskPublished, history
  <2>4. CASE SchedulingFailed(c)
    BY <2>4, <1>3 DEF SchedulingFailed
  <2> QED
    BY <1>4, <1>2, <2>1, <2>2, <2>3, <2>4
       DEF StartStep, Lookup, PoolReserved, PooledClientFound, NoPooledClient, ClientCreated,
           ClientPooled, BorrowReturned, BorrowUndone, TaskBegun, BeginExpired, TaskScheduled,
           ReferenceReleased, daemon, history
<1>5. ASSUME NEW t \in Detachers, DetachStep(t) PROVE Typed
  <2>1. CASE DetachOver(t)
    BY <2>1, <1>1 DEF DetachOver
  <2> QED
    BY <1>5, <1>2, <2>1
       DEF DetachStep, TasksReleased, AttemptStarted, ObligationMet, ObligationFailed, daemon, history
<1>6. ASSUME NEW T, Retire(T) PROVE Typed
  BY <1>6, <1>3 DEF Retire
<1>7. CASE WorkerStep
  BY <1>7, <1>2, <1>3 DEF WorkerStep, Answered, RequestFailed, WorkerExits, daemon, history
<1>8. ASSUME NEW m \in Closers, ShutdownStep(m) PROVE Typed
  BY <1>8, <1>2, <1>3 DEF ShutdownStep, Drained, Joined, CloseEnds, daemon, history
<1> QED
  BY <1>2, <1>4, <1>5, <1>6, <1>7, <1>8
     DEF Next, Requested, Failure, Progress, StartAdmitted, Drive, CloseBegins, ReaderAdmitted,
         BorrowRaised, BeginRaised, StopRaised, WorkerDies, CloseStep, HandleDropped,
         ChildStopped, AdmissionStep, EndAdmission, WaitClosed, vars, daemon, history

(* Every step keeps the types of the flags and of the bound on faults.   *)
LEMMA FlagTypeNext ==
    ASSUME TypeOK, [Next]_vars
    PROVE  /\ closeStarted' \in BOOLEAN /\ closeFinished' \in BOOLEAN /\ stolen' \in BOOLEAN
           /\ faults' \in 0 .. MaxFaults
<1> DEFINE Flags == /\ closeStarted' \in BOOLEAN /\ closeFinished' \in BOOLEAN
                    /\ stolen' \in BOOLEAN /\ faults' \in 0 .. MaxFaults
<1>1. /\ closeStarted \in BOOLEAN /\ closeFinished \in BOOLEAN /\ stolen \in BOOLEAN
      /\ faults \in 0 .. MaxFaults /\ MaxFaults \in Nat
  BY DEF TypeOK
<1>2. CASE UNCHANGED <<closeStarted, closeFinished, stolen, faults>>
  BY <1>1, <1>2
<1>3. CASE Failure
  <2>1. UNCHANGED <<closeStarted, closeFinished, stolen>> /\ Fault
    BY <1>3 DEF Failure, BorrowRaised, BeginRaised, StopRaised, WorkerDies, daemon, history
  <2> QED
    BY <1>1, <2>1 DEF Fault
<1>4. ASSUME NEW c \in Callers, BorrowUndone(c) PROVE Flags
  <2>1. /\ UNCHANGED <<closeStarted, closeFinished, faults>>
        /\ stolen' = (stolen \/ (pooled # Nobody /\ Active \ ({job[c].task} \ {NoTask}) # {}))
    BY <1>4 DEF BorrowUndone, daemon
  <2>2. stolen' \in BOOLEAN
    BY <2>1
  <2> QED
    BY <1>1, <2>1, <2>2
<1>5. ASSUME NEW m \in Closers, CloseBegins(m) PROVE Flags
  BY <1>5, <1>1 DEF CloseBegins, history
<1>6. ASSUME NEW m \in Closers, ShutdownStep(m) PROVE Flags
  BY <1>6, <1>1 DEF ShutdownStep, Drained, Joined, CloseEnds, Detach, daemon, history
<1>7. ASSUME NEW t \in Threads, NEW T, Detach(t, T) PROVE Flags
  BY <1>7, <1>1 DEF Detach, history
<1>8. ASSUME NEW T, Retire(T) PROVE Flags
  BY <1>8, <1>7, Roles DEF Retire
<1>9. ASSUME NEW c \in Callers, StartStep(c) PROVE Flags
  BY <1>9, <1>4, <1>2, <1>7, Roles
     DEF StartStep, SessionReserved, Lookup, PoolReserved, PooledClientFound, NoPooledClient,
         ClientCreated, ClientPooled, BorrowReturned, LeaseTaken, TaskBegun,
         BeginExpired, TaskPublished, TaskScheduled, SchedulingFailed, TaskClosed,
         ReferenceReleased, StartLeft, daemon, history
<1>10. CASE WorkerStep
  BY <1>10, <1>2, <1>7, Roles DEF WorkerStep, Answered, RequestFailed, WorkerExits, daemon, history
<1> QED
  BY <1>2, <1>3, <1>5, <1>6, <1>8, <1>9, <1>10
     DEF Next, Requested, Progress, StartAdmitted, Drive, ReaderAdmitted, CloseStep, HandleDropped,
         ChildStopped, AdmissionStep, EndAdmission, WaitClosed, vars, daemon, history, DetachStep,
         TasksReleased, AttemptStarted, ObligationMet, ObligationFailed, DetachOver

(* Every step keeps the types.                                           *)
LEMMA TypeNext ==
    ASSUME TypeOK, PlaceInv, CountInv, ReferenceInv, BorrowInv, [Next]_vars
    PROVE  TypeOK'
<1> USE Roles DEF NoTask, Nobody
<1>1. PoolTypeOK' /\ job' \in [Threads -> Jobs] /\ active' \in Nat /\ PlaceInv'
  BY PoolTypeNext, JobTypeNext, CountNext, PlaceNext
<1> DEFINE Places == {"idle", "asking", "await", "exited"} \cup StartSteps \cup DetachSteps
                     \cup CloseSteps \cup ShutdownSteps
<1>2. pc' \in [Threads -> Places]
  <2>1. pc' = [t \in Threads |-> pc'[t]]
    BY OneMoves DEF TypeOK, Goto
  <2>2. \A t \in Threads : pc'[t] \in Places
    BY <1>1 DEF PlaceInv, Threads, Admitted, InSession, StartSteps, DetachSteps, InClose, CloseSteps,
                ShutdownSteps
  <2> QED
    BY <2>1, <2>2
<1> QED
  BY <1>1, <1>2, DaemonTypeNext, FlagTypeNext DEF TypeOK

-----------------------------------------------------------------------------
(* One start at a time in a session. *)

(* A step after the reservation of a session, within it.                   *)
LEMMA SessionKept ==
    ASSUME TypeOK, SessionInv, NEW t \in Threads, NEW x, Goto(t, x),
           t \in Callers => /\ x \in InSession => pc[t] \in InSession
                            /\ x \in Alone => pc[t] \in Alone,
           UNCHANGED sessions,
           \A c \in Callers : pc'[c] \in InSession => job'[c].session = job[c].session,
           \A s \in Sessions : tasks'[s] \in {tasks[s], NoTask}
    PROVE  SessionInv'
<1>1. pc'[t] = x /\ \A u \in Threads \ {t} : pc'[u] = pc[u]
  BY Moved
<1>2. \A c \in Callers : /\ pc'[c] \in InSession => pc[c] \in InSession
                         /\ pc'[c] \in Alone => pc[c] \in Alone
                         /\ job[c].session \in Sessions
  BY <1>1, Roles DEF TypeOK, Jobs
<1>3. Alone \subseteq InSession
  BY DEF Alone, InSession, StartSteps
<1>4. /\ \A c \in Callers : pc[c] \in InSession => job[c].session \in sessions
      /\ \A c, d \in Callers : pc[c] \in InSession /\ pc[d] \in InSession /\ c # d =>
            job[c].session # job[d].session
      /\ \A c \in Callers : pc[c] \in Alone => tasks[job[c].session] = NoTask
  BY DEF SessionInv, At
<1> SUFFICES /\ \A c \in Callers : pc'[c] \in InSession => job'[c].session \in sessions'
             /\ \A c, d \in Callers : pc'[c] \in InSession /\ pc'[d] \in InSession /\ c # d =>
                   job'[c].session # job'[d].session
             /\ \A c \in Callers : pc'[c] \in Alone => tasks'[job'[c].session] = NoTask
  BY DEF SessionInv, At
<1>5. \A c \in Callers : pc'[c] \in InSession => job'[c].session \in sessions'
  BY <1>2, <1>4
<1>6. \A c, d \in Callers : pc'[c] \in InSession /\ pc'[d] \in InSession /\ c # d =>
         job'[c].session # job'[d].session
  BY <1>2, <1>4
<1>7. \A c \in Callers : pc'[c] \in Alone => tasks'[job'[c].session] = NoTask
  BY <1>2, <1>3, <1>4
<1> QED
  BY <1>5, <1>6, <1>7

(* Work that changes keeps its session.                                    *)
LEMMA JobSession ==
    ASSUME NEW j \in Jobs
    PROVE  /\ \A n : [j EXCEPT !.task = n].session = j.session
           /\ \A n : [j EXCEPT !.client = n].session = j.session
           /\ \A n, k : [j EXCEPT !.task = n, !.client = k].session = j.session
           /\ \A n, k : [j EXCEPT !.client = n, !.created = k].session = j.session
           /\ \A n : [j EXCEPT !.created = n].session = j.session
           /\ \A S : [j EXCEPT !.todo = S].session = j.session
           /\ \A S : [j EXCEPT !.owed = S].session = j.session
           /\ \A S : [j EXCEPT !.owed = S, !.failed = TRUE].session = j.session
           /\ \A s : [NoJob EXCEPT !.session = s].session = s
BY DEF Jobs, NoJob

(* Every step keeps the starts in their sessions.                        *)
LEMMA SessionNext ==
    ASSUME TypeOK, PlaceInv, SessionInv, TypeOK', [Next]_vars
    PROVE  SessionInv'
<1> USE Roles
<1> DEFINE Same == \A c \in Callers : pc'[c] \in InSession => job'[c].session = job[c].session
           Fewer == \A s \in Sessions : tasks'[s] \in {tasks[s], NoTask}
<1>1. ASSUME NEW t \in Threads, NEW x, Goto(t, x), UNCHANGED sessions, Same, Fewer,
             x \notin Alone, t \in Callers /\ x \in InSession => pc[t] \in InSession
      PROVE  SessionInv'
  BY <1>1, SessionKept
<1>2. ASSUME NEW t \in Threads, NEW j, Set(t, j),
             t \in Callers => j.session = job[t].session \/ pc'[t] \notin InSession
      PROVE  Same
  BY <1>2 DEF Set, TypeOK
<1>3. ASSUME UNCHANGED job PROVE Same
  BY <1>3
<1>4. ASSUME UNCHANGED tasks PROVE Fewer
  BY <1>4
<1>6. \A t \in Threads : job[t] \in Jobs
  BY DEF TypeOK
<1>5. ASSUME NEW t \in Threads, NEW T, Detach(t, T), t \in Callers => pc[t] \in InSession
      PROVE  SessionInv'
  <2>1. Fewer
    BY <1>5 DEF Detach, TypeOK
  <2>2. Same
    <3>1. t \in Callers => [job[t] EXCEPT !.todo = T \cap Published].session = job[t].session
      BY <1>6, JobSession
    <3> QED
      BY <1>5, <1>2, <3>1 DEF Detach
  <2>3. "detached" \notin Alone
    BY DEF Alone
  <2> QED
    BY <1>1, <1>5, <2>1, <2>2, <2>3 DEF Detach
<1>7. ASSUME NEW c \in Callers, NEW x, Goto(c, x), UNCHANGED <<sessions, tasks>>,
             pc[c] \in InSession, x \in Alone => pc[c] \in Alone,
             \/ UNCHANGED job
             \/ \E j : Set(c, j) /\ j.session = job[c].session
      PROVE  SessionInv'
  <2>1. Same /\ Fewer
    BY <1>7, <1>2, <1>3, <1>4
  <2> QED
    BY <1>7, <2>1, SessionKept
<1>8. ASSUME NEW c \in Callers, StartStep(c) \/ BorrowRaised(c) \/ BeginRaised(c)
      PROVE  SessionInv'
  <2> USE <1>6 DEF InSession, StartSteps, DetachSteps, InClose, Alone
  <2>1. CASE SessionReserved(c)
    <3>1. job' = job /\ tasks' = tasks /\ sessions' = sessions \cup {job[c].session}
      BY <2>1 DEF SessionReserved
    <3>2. job[c].session \notin sessions /\ Goto(c, "lookup")
      BY <2>1 DEF SessionReserved
    <3>3. /\ At(InSession)' = At(InSession) \cup {c}
          /\ At(Alone)' = At(Alone) \ {c}
      BY <3>2, Moved
    <3>4. \A d \in At(InSession) : job[d].session # job[c].session
      BY <3>2 DEF SessionInv
    <3> HIDE DEF InSession, Alone
    <3> QED
      BY <3>1, <3>3, <3>4 DEF SessionInv
  <2>2. CASE Lookup(c)
    <3> DEFINE j == [job[c] EXCEPT !.task = tasks[job[c].session]]
    <3>1. j.session = job[c].session /\ Set(c, j) /\ UNCHANGED <<tasks, sessions>>
      BY <2>2, JobSession DEF Lookup, daemon
    <3>2. PICK x \in {"schedule", "borrow", "leave"} :
            Goto(c, x) /\ (x = "borrow" => tasks[job[c].session] = NoTask)
      BY <2>2 DEF Lookup
    <3>3. /\ At(InSession)' = At(InSession) /\ c \in At(InSession)
          /\ At(Alone)' = IF x = "borrow" THEN At(Alone) \cup {c} ELSE At(Alone) \ {c}
      <4>1. pc[c] = "lookup"
        BY <2>2 DEF Lookup
      <4>2. c \in At(InSession)
        BY <4>1 DEF At
      <4>3. x \in InSession /\ (x \in Alone <=> x = "borrow")
        OBVIOUS
      <4> HIDE DEF InSession, Alone
      <4>4. At(InSession)' = At(InSession) \cup {c}
        BY <3>2, <4>3, Moved
      <4>5. At(Alone)' = IF x \in Alone THEN At(Alone) \cup {c} ELSE At(Alone) \ {c}
        BY <3>2, Moved
      <4> QED
        BY <4>2, <4>3, <4>4, <4>5
    <3>4. \A d \in Callers : job'[d].session = job[d].session
      BY <3>1 DEF Set, TypeOK
    <3>5. \A P : At(P) \subseteq Callers
      BY DEF At
    <3> HIDE DEF InSession, Alone, j
    <3>6. \A d \in At(Alone)' : tasks[job[d].session] = NoTask
      BY <3>2, <3>3 DEF SessionInv
    <3> QED
      BY <3>1, <3>3, <3>4, <3>5, <3>6 DEF SessionInv
  <2>3. CASE TaskPublished(c)
    <3>1. /\ UNCHANGED sessions /\ tasks' = [tasks EXCEPT ![job[c].session] = job[c].task]
          /\ Goto(c, "schedule") /\ Set(c, [job[c] EXCEPT !.client = Nobody]) /\ pc[c] = "install"
      BY <2>3 DEF TaskPublished
    <3>2. At(InSession)' = At(InSession) /\ c \in At(InSession) /\ At(Alone)' = At(Alone) \ {c}
      <4>1. c \in At(InSession)
        BY <3>1 DEF At
      <4>2. "schedule" \in InSession /\ "schedule" \notin Alone
        OBVIOUS
      <4> HIDE DEF InSession, Alone
      <4> QED
        BY <3>1, <4>1, <4>2, Moved
    <3>3. \A d \in Callers : job'[d].session = job[d].session
      <4>1. [job[c] EXCEPT !.client = Nobody].session = job[c].session
        BY JobSession
      <4> QED
        BY <3>1, <4>1 DEF Set, TypeOK
    <3>4. \A P : At(P) \subseteq Callers
      BY DEF At
    <3>5. \A d \in At(Alone) : d \in At(InSession)
      BY DEF At
    <3> HIDE DEF InSession, Alone
    <3>6. \A d \in At(Alone) \ {c} : job[d].session # job[c].session
      BY <3>2, <3>5 DEF SessionInv
    <3>7. \A d \in At(Alone) \ {c} : tasks'[job[d].session] = tasks[job[d].session]
      BY <3>1, <3>6, <3>4 DEF TypeOK, Jobs
    <3> QED
      BY <3>1, <3>2, <3>3, <3>4, <3>7 DEF SessionInv
  <2>4. CASE StartLeft(c)
    <3>1. /\ sessions' = sessions \ {job[c].session} /\ UNCHANGED tasks
          /\ Goto(c, "end") /\ Set(c, NoJob) /\ pc[c] = "leave"
      BY <2>4 DEF StartLeft
    <3>2. /\ At(InSession)' = At(InSession) \ {c} /\ c \in At(InSession)
          /\ At(Alone)' = At(Alone) \ {c}
      <4>1. c \in At(InSession)
        BY <3>1 DEF At
      <4>2. "end" \notin InSession /\ "end" \notin Alone
        OBVIOUS
      <4> HIDE DEF InSession, Alone
      <4> QED
        BY <3>1, <4>1, <4>2, Moved
    <3>3. \A d \in Callers \ {c} : job'[d].session = job[d].session
      BY <3>1 DEF Set, TypeOK
    <3>4. \A P : At(P) \subseteq Callers
      BY DEF At
    <3> HIDE DEF InSession, Alone
    <3> QED
      BY <3>1, <3>2, <3>3, <3>4 DEF SessionInv
  <2>5. CASE SchedulingFailed(c)
    BY <2>5, <1>5 DEF SchedulingFailed
  <2>6. ASSUME pc[c] \in InSession, UNCHANGED <<sessions, tasks>>,
               \E x : Goto(c, x) /\ (x \in Alone => pc[c] \in Alone),
               UNCHANGED job \/ \E j : Set(c, j) /\ j.session = job[c].session
        PROVE  SessionInv'
    <3> HIDE DEF InSession, Alone
    <3> QED
      BY <2>6, <1>7
  <2>7. CASE PoolReserved(c) \/ NoPooledClient(c) \/ BorrowRaised(c) \/ LeaseTaken(c) \/ TaskBegun(c)
             \/ BeginExpired(c) \/ BeginRaised(c) \/ TaskScheduled(c) \/ TaskClosed(c)
    <3>1. pc[c] \in InSession /\ UNCHANGED <<sessions, tasks, job>>
      BY <2>7 DEF PoolReserved, NoPooledClient, BorrowRaised, LeaseTaken, TaskBegun,
                  BeginExpired, BeginRaised, TaskScheduled, TaskClosed, daemon
    <3>2. \E x : Goto(c, x) /\ (x \in Alone => pc[c] \in Alone)
      BY <2>7 DEF PoolReserved, NoPooledClient, BorrowRaised, LeaseTaken, TaskBegun,
                  BeginExpired, BeginRaised, TaskScheduled, TaskClosed
    <3> HIDE DEF InSession, Alone
    <3> QED
      BY <3>1, <3>2, <2>6
  <2>8. CASE PooledClientFound(c) \/ ClientCreated(c) \/ ClientPooled(c) \/ BorrowReturned(c)
             \/ BorrowUndone(c) \/ ReferenceReleased(c)
    <3>1. pc[c] \in InSession /\ UNCHANGED <<sessions, tasks>>
      BY <2>8 DEF PooledClientFound, ClientCreated, ClientPooled, BorrowReturned, BorrowUndone,
                  ReferenceReleased, daemon
    <3>2. \E x : Goto(c, x) /\ (x \in Alone => pc[c] \in Alone)
      BY <2>8 DEF PooledClientFound, ClientCreated, ClientPooled, BorrowReturned, BorrowUndone,
                  ReferenceReleased
    <3>3. \E j : Set(c, j) /\ j.session = job[c].session
      <4> HIDE DEF InSession, Alone
      <4>7. job[c] \in Jobs
        BY <1>6
      <4>1. CASE PooledClientFound(c)
        <5>1. Set(c, [job[c] EXCEPT !.task = given + 1, !.client = pooled])
          BY <4>1 DEF PooledClientFound
        <5>2. [job[c] EXCEPT !.task = given + 1, !.client = pooled].session = job[c].session
          BY <4>7, JobSession
        <5> QED
          BY <5>1, <5>2
      <4>2. CASE ClientCreated(c)
        <5>1. Set(c, [job[c] EXCEPT !.client = made + 1, !.created = made + 1])
          BY <4>2 DEF ClientCreated
        <5>2. [job[c] EXCEPT !.client = made + 1, !.created = made + 1].session = job[c].session
          BY <4>7, JobSession
        <5> QED
          BY <5>1, <5>2
      <4>3. CASE ClientPooled(c)
        <5>1. Set(c, [job[c] EXCEPT !.task = given + 1])
          BY <4>3 DEF ClientPooled
        <5>2. [job[c] EXCEPT !.task = given + 1].session = job[c].session
          BY <4>7, JobSession
        <5> QED
          BY <5>1, <5>2
      <4>4. CASE BorrowReturned(c)
        <5>1. Set(c, [job[c] EXCEPT !.created = Nobody])
          BY <4>4 DEF BorrowReturned
        <5>2. [job[c] EXCEPT !.created = Nobody].session = job[c].session
          BY <4>7, JobSession
        <5> QED
          BY <5>1, <5>2
      <4>5. CASE BorrowUndone(c)
        <5>1. Set(c, [job[c] EXCEPT !.client = IF pooled # Nobody THEN pooled ELSE job[c].created])
          BY <4>5 DEF BorrowUndone
        <5>2. [job[c] EXCEPT !.client = IF pooled # Nobody THEN pooled ELSE job[c].created].session = job[c].session
          BY <4>7, JobSession
        <5> QED
          BY <5>1, <5>2
      <4>6. CASE ReferenceReleased(c)
        <5>1. Set(c, [job[c] EXCEPT !.owed = {r \in {job[c].task} : references'[r].state = "closing"}])
          BY <4>6 DEF ReferenceReleased
        <5>2. [job[c] EXCEPT !.owed = {r \in {job[c].task} : references'[r].state = "closing"}].session = job[c].session
          BY <4>7, JobSession
        <5> QED
          BY <5>1, <5>2
      <4> QED
        BY <2>8, <4>1, <4>2, <4>3, <4>4, <4>5, <4>6
    <3> HIDE DEF InSession, Alone
    <3> QED
      BY <3>1, <3>2, <3>3, <2>6
  <2> QED
    BY <1>8, <2>1, <2>2, <2>3, <2>4, <2>5, <2>7, <2>8 DEF StartStep
<1>9. ASSUME NEW t \in Detachers, DetachStep(t) PROVE SessionInv'
  <2> USE <1>6 DEF InSession, StartSteps, DetachSteps, InClose, Alone
  <2>1. CASE TasksReleased(t)
    <3> DEFINE S == {r \in References : references'[r].state = "closing"}
    <3>1. Set(t, [job[t] EXCEPT !.owed = S]) /\ UNCHANGED <<sessions, tasks>> /\ Goto(t, "owed")
      BY <2>1 DEF TasksReleased, daemon
    <3>2. pc[t] = "detached"
      BY <2>1 DEF TasksReleased
    <3>3. [job[t] EXCEPT !.owed = S].session = job[t].session
      BY JobSession
    <3> HIDE DEF S
    <3>4. Same /\ Fewer
      BY <3>1, <3>3, <1>2, <1>4
    <3> QED
      BY <3>1, <3>2, <3>4, <1>1
  <2>2. CASE AttemptStarted(t)
    <3>1. FirstOwed(t) \in References /\ FirstOwed(t) \in Threads
      BY <2>2, FirstOwedOwed DEF AttemptStarted
    <3>2. /\ job' = [job EXCEPT ![FirstOwed(t)].client = references[FirstOwed(t)].client]
          /\ UNCHANGED <<sessions, tasks>> /\ Goto(FirstOwed(t), "closing")
      BY <2>2 DEF AttemptStarted, daemon
    <3>3. FirstOwed(t) \notin Callers
      BY <3>1
    <3> HIDE DEF FirstOwed, InSession, Alone
    <3>4. Same /\ Fewer
      BY <3>2, <3>3, <1>4
    <3>5. "closing" \notin Alone
      BY DEF Alone
    <3> QED
      BY <3>1, <3>2, <3>3, <3>4, <3>5, <1>1
  <2>3. CASE ObligationMet(t) \/ ObligationFailed(t)
    <3>1. FirstOwed(t) \in References /\ FirstOwed(t) \in Threads
      BY <2>3, FirstOwedOwed DEF ObligationMet, ObligationFailed
    <3>2. /\ Set(t, Settled(t)) \/ Set(t, [Settled(t) EXCEPT !.failed = TRUE])
          /\ UNCHANGED <<sessions, tasks>>
          /\ UNCHANGED pc \/ Goto(FirstOwed(t), "idle")
      BY <2>3 DEF ObligationMet, ObligationFailed, daemon
    <3>3. FirstOwed(t) \notin Callers
      BY <3>1
    <3>4. /\ Settled(t).session = job[t].session
          /\ [Settled(t) EXCEPT !.failed = TRUE].session = job[t].session
      BY DEF Settled, Jobs
    <3> HIDE DEF FirstOwed, InSession, Alone, Settled
    <3>5. Same /\ Fewer
      BY <3>2, <3>4, <1>2, <1>4
    <3>6. "idle" \notin Alone
      BY DEF Alone
    <3>7. CASE UNCHANGED pc
      BY <3>2, <3>5, <3>7 DEF SessionInv, At, Alone, InSession
    <3> QED
      BY <3>1, <3>2, <3>3, <3>5, <3>6, <3>7, <1>1
  <2>4. CASE DetachOver(t)
    <3>1. /\ Set(t, [NoJob EXCEPT !.session = job[t].session])
          /\ UNCHANGED <<sessions, tasks>> /\ pc[t] = "owed"
      BY <2>4 DEF DetachOver
    <3>2. [NoJob EXCEPT !.session = job[t].session].session = job[t].session
      BY JobSession
    <3>3. Same /\ Fewer
      BY <3>1, <3>2, <1>2, <1>4
    <3>4. PICK x \in {"leave", "ending", "idle"} : Goto(t, x)
      <4>1. Goto(t, CASE t \in Callers -> "leave" [] t \in Closers -> "ending" [] t = Worker -> "idle")
        BY <2>4 DEF DetachOver
      <4>2. t \in Callers \/ t \in Closers \/ t = Worker
        BY DEF Detachers
      <4> QED
        BY <4>1, <4>2
    <3> QED
      BY <3>1, <3>3, <3>4, <1>1
  <2> QED
    BY <1>9, <2>1, <2>2, <2>3, <2>4 DEF DetachStep
<1>10. ASSUME NEW t \in Threads, NEW x, Goto(t, x), UNCHANGED <<sessions, tasks, job>>,
              x \notin Alone, t \in Callers /\ x \in InSession => pc[t] \in InSession
       PROVE  SessionInv'
  BY <1>10, <1>1, <1>3, <1>4
<1>11. ASSUME NEW t \in Threads \ Callers, NEW x, Goto(t, x), UNCHANGED <<sessions, tasks>>,
              UNCHANGED job \/ \E j : Set(t, j)
       PROVE  SessionInv'
  <2>1. Same /\ Fewer
    BY <1>11, <1>2, <1>4
  <2> QED
    BY <1>11, <2>1, SessionKept
<1>12. ASSUME NEW t \in Openers, CloseStep(t) \/ StopRaised(t) PROVE SessionInv'
  <2> USE DEF InSession, StartSteps, DetachSteps, InClose, Alone
  <2>1. pc[t] \in InSession /\ UNCHANGED <<sessions, tasks, job>>
    BY <1>12 DEF CloseStep, HandleDropped, ChildStopped, StopRaised, daemon
  <2>2. PICK x \in {"announcing", "stopping", "done", "failed", "leave"} : Goto(t, x)
    BY <1>12 DEF CloseStep, HandleDropped, ChildStopped, StopRaised, Closed, CloseRaised
  <2> QED
    BY <2>1, <2>2, <1>10
<1>13. ASSUME NEW t \in Threads, AdmissionStep(t) PROVE SessionInv'
  <2> USE DEF InSession, StartSteps, DetachSteps, InClose, Alone
  <2>1. UNCHANGED <<sessions, tasks, job>>
    BY <1>13 DEF AdmissionStep, EndAdmission, WaitClosed, daemon
  <2>2. CASE EndAdmission(t)
    <3>1. Goto(t, AfterAdmission(t)) /\ pc[t] \in {"end", "announcing"}
      BY <2>2 DEF EndAdmission
    <3>2. /\ AfterAdmission(t) \in {"await", "idle", "blocked", "stopping", "leave", "failed"}
          /\ pc[t] = "end" => AfterAdmission(t) \in {"await", "idle"}
      BY DEF AfterAdmission, CloseRaised
    <3> HIDE DEF AfterAdmission
    <3> QED
      BY <2>1, <3>1, <3>2, <1>10
  <2>3. CASE WaitClosed(t)
    <3>1. PICK x \in {"idle", "stopping"} :
            Goto(t, x) /\ (x = "stopping" => pc[t] = "blocked")
      BY <2>3 DEF WaitClosed
    <3> QED
      BY <2>1, <3>1, <1>10
  <2> QED
    BY <1>13, <2>2, <2>3 DEF AdmissionStep
<1>14. CASE Requested
  <2>1. ASSUME NEW c \in Callers, NEW s \in Sessions, StartAdmitted(c, s) PROVE SessionInv'
    <3>1. /\ UNCHANGED <<sessions, tasks>> /\ Goto(c, "reserve") /\ pc[c] = "idle"
          /\ Set(c, [NoJob EXCEPT !.session = s])
      BY <2>1 DEF StartAdmitted
    <3>2. "reserve" \notin InSession /\ "reserve" \notin Alone
      BY DEF InSession, StartSteps, DetachSteps, InClose, Alone
    <3>3. pc'[c] = "reserve"
      BY <3>1, Moved
    <3>4. Same /\ Fewer
      BY <3>1, <3>2, <3>3, <1>2, <1>4
    <3> QED
      BY <3>1, <3>2, <3>4, <1>1
  <2>2. ASSUME NEW s \in Sessions, Drive(s) PROVE SessionInv'
    BY <2>2, <1>11 DEF Drive, daemon
  <2>3. ASSUME NEW T \in SUBSET Published, Retire(T) PROVE SessionInv'
    BY <2>3, <1>5 DEF Retire
  <2>4. ASSUME NEW m \in Closers, CloseBegins(m) PROVE SessionInv'
    BY <2>4, <1>11 DEF CloseBegins
  <2>5. CASE ReaderAdmitted
    BY <2>5, <1>11 DEF ReaderAdmitted
  <2> QED
    BY <1>14, <2>1, <2>2, <2>3, <2>4, <2>5 DEF Requested
<1>15. CASE WorkerStep \/ WorkerDies
  BY <1>15, <1>5, <1>11 DEF WorkerStep, Answered, RequestFailed, WorkerExits, WorkerDies, daemon
<1>16. ASSUME NEW m \in Closers, ShutdownStep(m) PROVE SessionInv'
  BY <1>16, <1>5, <1>11 DEF ShutdownStep, Drained, Joined, CloseEnds, daemon
<1>17. CASE UNCHANGED vars
  BY <1>17 DEF vars, daemon, SessionInv, At
<1> QED
  BY <1>8, <1>9, <1>12, <1>13, <1>14, <1>15, <1>16, <1>17 DEF Next, Failure, Progress

-----------------------------------------------------------------------------
(* References, clients and the tasks that count on them. *)

(* References have a last one.                                             *)
LEMMA GreatestIsMember ==
    ASSUME NEW S \in SUBSET References, S # {}
    PROVE  Greatest(S) \in S
<1> DEFINE From == {MaxReferences - x : x \in S}
<1>1. From \in SUBSET Nat /\ From # {}
  <2>1. \A x \in S : x \in 1 .. MaxReferences
    BY DEF References
  <2>2. \A x \in S : MaxReferences - x \in Nat
    BY <2>1
  <2>3. From \subseteq Nat
    BY <2>2
  <2> QED
    BY <2>3
<1>2. Least(From) \in From /\ \A y \in From : Least(From) <= y
  BY <1>1, LeastIsMember
<1>3. PICK x \in S : Least(From) = MaxReferences - x
  BY <1>2
<1>4. \A y \in S : MaxReferences - x <= MaxReferences - y
  BY <1>2, <1>3
<1>5. \A y \in S : y <= x
  BY <1>4 DEF References
<1> QED
  BY <1>5 DEF Greatest

(* A step that leaves the pool and the registry alone keeps what is shared *)
(* if the start that moves, if any, has what it should.                    *)
LEMMA SharingKept ==
    ASSUME TypeOK, TypeOK', Sharing, NEW c,
           UNCHANGED <<references, given, pooled, tasks, stolen>>, made <= made',
           \A t \in Threads : job'[t].client <= made' /\ job'[t].created <= made',
           \A d \in Callers \ {c} : pc'[d] = pc[d] /\ job'[d] = job[d],
           \A d \in Callers \ {c} : pc[d] \in Borrowing => reserved',
           \A t \in Detachers :
              /\ pc'[t] = "detached" <=> pc[t] = "detached"
              /\ pc[t] = "detached" => job'[t].todo = job[t].todo
              /\ pc'[t] = "owed" => pc[t] = "owed" /\ job'[t].owed \subseteq job[t].owed,
           ToClose' \subseteq ToClose,
           c \in Callers => StartInv(c)' /\ \A d \in Callers \ {c} : ApartInv(c, d)'
    PROVE  Sharing'
<1>1. Published' = Published /\ Leaving' = Leaving /\ Counted' = Counted
  <2>1. Published' = Published
    BY DEF Published
  <2>2. Leaving' = Leaving
    <3>1. {u \in Detachers : pc'[u] = "detached"} = {u \in Detachers : pc[u] = "detached"}
      OBVIOUS
    <3> QED
      BY <3>1 DEF Leaving
  <2> QED
    BY <2>1, <2>2 DEF Counted
<1>2. Active' = Active /\ Installed' = Installed
  BY DEF Active, Installed, InState
<1>3. ReferenceInv'
  BY <1>1 DEF Sharing, ReferenceInv
<1>4. DetachInv'
  <2>1. \A t \in Detachers : pc'[t] = "detached" => job'[t].todo \cap Published' = {}
    BY <1>1 DEF Sharing, DetachInv
  <2>2. \A t, u \in Detachers :
          t # u /\ pc'[t] = "detached" /\ pc'[u] = "detached" => job'[t].todo \cap job'[u].todo = {}
    BY DEF Sharing, DetachInv
  <2>3. OneCountPerTask'
    BY <1>1, <1>2 DEF Sharing, DetachInv, OneCountPerTask
  <2>4. \A t \in Detachers : pc'[t] = "owed" =>
          \A r \in job'[t].owed : r <= given' /\ references'[r].state \in {"closing", "gone"}
    BY DEF Sharing, DetachInv
  <2> QED
    BY <2>1, <2>2, <2>3, <2>4 DEF DetachInv
<1>5. BorrowInv'
  <2>1. \A d \in Callers \ {c} : StartInv(d)'
    BY DEF Sharing, BorrowInv, StartInv
  <2>2. \A d, e \in Callers \ {c} : d # e => ApartInv(d, e)'
    BY DEF Sharing, BorrowInv, ApartInv
  <2>3. \A d \in Callers \ {c} : c \in Callers => ApartInv(d, c)'
    BY DEF ApartInv
  <2> QED
    BY <2>1, <2>2, <2>3 DEF BorrowInv
<1>6. ~stolen' => PoolInv'
  BY <1>1, <1>2 DEF Sharing, PoolInv
<1> QED
  BY <1>3, <1>4, <1>5, <1>6 DEF Sharing

(* What is closed or to be closed, when no obligation is taken on.         *)
LEMMA ToCloseKept ==
    ASSUME TypeOK, UNCHANGED references,
           \A t \in Openers : pc'[t] \in InClose =>
              pc[t] \in InClose /\ job'[t].client = job[t].client
    PROVE  ToClose' \subseteq ToClose
<1>1. BeingClosed' \subseteq BeingClosed
  BY DEF BeingClosed, InClose
<1>2. Owing' = Owing
  BY DEF Owing, InState
<1> QED
  BY <1>1, <1>2 DEF ToClose

(* A step of a start that leaves the pool and the registry alone.          *)
LEMMA StartMoves ==
    ASSUME TypeOK, TypeOK', Sharing, NEW c \in Callers, NEW x, Goto(c, x),
           UNCHANGED <<references, given, pooled, tasks, stolen>>, made <= made',
           \A t \in Threads \ {c} : job'[t] = job[t],
           job'[c].client <= made' /\ job'[c].created <= made',
           x \notin DetachSteps, pc[c] # "detached",
           x \in InClose => pc[c] \in InClose /\ job'[c].client = job[c].client,
           reserved' \/ reserved' = reserved \/ pc[c] \in Borrowing,
           StartInv(c)', \A d \in Callers \ {c} : ApartInv(c, d)'
    PROVE  Sharing'
<1> USE Roles
<1>1. pc'[c] = x /\ \A t \in Threads \ {c} : pc'[t] = pc[t]
  BY Moved
<1>2. \A d \in Callers \ {c} : pc[d] \in Borrowing => reserved'
  BY DEF Sharing, BorrowInv, StartInv, ApartInv
<1>3. ToClose' \subseteq ToClose
  BY <1>1, ToCloseKept
<1>4. \A t \in Threads : job'[t].client <= made' /\ job'[t].created <= made'
  <2>1. ASSUME NEW t \in Threads \ {c} PROVE job'[t].client <= made' /\ job'[t].created <= made'
    <3>1. /\ made \in Nat /\ made' \in Nat /\ job[t].client \in Nat /\ job[t].created \in Nat
          /\ job[t].client <= made /\ job[t].created <= made
      BY DEF TypeOK, PoolTypeOK, Jobs, Sharing, ReferenceInv
    <3> QED
      BY <3>1
  <2> QED
    BY <2>1
<1>5. \A t \in Detachers :
         /\ pc'[t] = "detached" <=> pc[t] = "detached"
         /\ pc[t] = "detached" => job'[t].todo = job[t].todo
         /\ pc'[t] = "owed" => pc[t] = "owed" /\ job'[t].owed \subseteq job[t].owed
  <2>1. ASSUME NEW t \in Detachers, t # c
        PROVE  pc'[t] = pc[t] /\ job'[t] = job[t]
    BY <1>1, <2>1
  <2>2. x # "detached" /\ x # "owed"
    BY DEF DetachSteps
  <2> QED
    BY <1>1, <2>1, <2>2
<1> QED
  BY <1>1, <1>2, <1>3, <1>4, <1>5, SharingKept

(* Where a start has nothing that others have to keep off.                 *)
LEMMA StartIdles ==
    ASSUME TypeOK, TypeOK', Sharing, NEW c \in Callers, NEW x, Goto(c, x),
           UNCHANGED <<references, given, pooled, tasks, stolen, made, reserved>>,
           \A t \in Threads \ {c} : job'[t] = job[t],
           job'[c].client <= made /\ job'[c].created <= made,
           x \notin DetachSteps, pc[c] # "detached",
           x \in InClose => pc[c] \in InClose /\ job'[c].client = job[c].client,
           x \notin Recording \cup Holding \cup {"undo"}
    PROVE  Sharing'
<1> USE Roles DEF Making, Recording, Holding, Borrowing
<1>1. pc'[c] = x
  BY Moved
<1>2. StartInv(c)'
  BY <1>1 DEF StartInv
<1>3. \A d \in Callers \ {c} : ApartInv(c, d)'
  BY <1>1 DEF ApartInv
<1>4. made <= made'
  BY DEF TypeOK, PoolTypeOK
<1> HIDE DEF Making, Recording, Holding, Borrowing
<1> QED
  BY <1>2, <1>3, <1>4, StartMoves

(* A step of a start that has what it had.                                 *)
LEMMA StartContinues ==
    ASSUME TypeOK, TypeOK', Sharing, NEW c \in Callers, NEW x, Goto(c, x), pc[c] # "detached",
           UNCHANGED <<references, given, pooled, tasks, stolen, made, reserved, job>>,
           \/ pc[c] = "reserve" /\ x = "lookup"
           \/ pc[c] = "initialize" /\ x \in {"begin", "release"}
           \/ pc[c] = "begin" /\ x \in {"install", "closeTask"}
           \/ pc[c] = "closeTask" /\ x = "release"
    PROVE  Sharing'
<1> USE Roles
<1>1. pc'[c] = x /\ \A t \in Threads \ {c} : pc'[t] = pc[t]
  BY Moved
<1>2. ToClose' \subseteq ToClose
  BY <1>1, ToCloseKept DEF InClose
<1>3. StartInv(c) /\ \A d \in Callers \ {c} : ApartInv(c, d)
  BY DEF Sharing, BorrowInv
<1>4. StartInv(c)'
  BY <1>1, <1>3 DEF StartInv, Making, Recording, Holding, Borrowing
<1>5. \A d \in Callers \ {c} : ApartInv(c, d)'
  BY <1>1, <1>3 DEF ApartInv, Holding, Borrowing
<1>6. x \notin DetachSteps /\ x \notin InClose
  BY DEF DetachSteps, InClose
<1>7. made <= made' /\ job[c].client <= made' /\ job[c].created <= made'
  BY DEF TypeOK, PoolTypeOK, Sharing, ReferenceInv
<1> QED
  BY <1>3, <1>4, <1>5, <1>6, <1>7, StartMoves

(* Clients that exist.                                                     *)
LEMMA ClientsAreMade ==
    ASSUME TypeOK, Sharing
    PROVE  /\ made \in Nat /\ given \in Nat /\ pooled \in Nat /\ pooled <= made
           /\ \A t \in Threads : /\ job[t] \in Jobs
                                 /\ job[t].client \in Nat /\ job[t].client <= made
                                 /\ job[t].created \in Nat /\ job[t].created <= made
           /\ \A k \in ToClose : k \in Nat /\ k <= made
<1>1. /\ made \in Nat /\ given \in Nat /\ pooled \in Nat /\ pooled <= made
      /\ \A r \in References : references[r].client \in Nat /\ references[r].client <= made
  BY DEF TypeOK, PoolTypeOK
<1>2. \A t \in Threads : /\ job[t] \in Jobs
                         /\ job[t].client \in Nat /\ job[t].client <= made
                         /\ job[t].created \in Nat /\ job[t].created <= made
  BY DEF TypeOK, Jobs, Sharing, ReferenceInv
<1>3. \A k \in ToClose : k \in Nat /\ k <= made
  <2>1. \A k \in BeingClosed : k \in Nat /\ k <= made
    BY <1>2, Roles DEF BeingClosed
  <2>2. \A r \in Owing : references[r].client \in Nat /\ references[r].client <= made
    BY <1>1 DEF Owing, InState
  <2> QED
    BY <2>1, <2>2 DEF ToClose
<1> QED
  BY <1>1, <1>2, <1>3

(* The steps of a start before it borrows and while it is in the           *)
(* reservation of the pool.                                                *)
LEMMA SharingBorrow ==
    ASSUME TypeOK, TypeOK', Sharing, SessionInv, NEW c \in Callers,
           \/ Lookup(c) \/ PoolReserved(c) \/ NoPooledClient(c) \/ ClientCreated(c)
           \/ BorrowReturned(c) \/ BorrowRaised(c)
    PROVE  Sharing'
<1> USE Roles
<1>1. /\ made \in Nat /\ \A t \in Threads : job[t] \in Jobs
      /\ job[c].client \in Nat /\ job[c].client <= made
      /\ job[c].created \in Nat /\ job[c].created <= made
      /\ \A k \in ToClose : k \in Nat /\ k <= made
  BY ClientsAreMade
<1>2. StartInv(c) /\ \A d \in Callers \ {c} : ApartInv(c, d) /\ StartInv(d)
  BY DEF Sharing, BorrowInv
<1>3. CASE Lookup(c)
  <2>1. PICK x \in {"schedule", "borrow", "leave"} :
          Goto(c, x) /\ (x = "borrow" => tasks[job[c].session] = NoTask)
    BY <1>3 DEF Lookup
  <2>2. /\ pc[c] = "lookup" /\ Set(c, [job[c] EXCEPT !.task = tasks[job[c].session]])
        /\ UNCHANGED <<references, given, pooled, tasks, stolen, made, reserved>>
    BY <1>3 DEF Lookup, pool, daemon, history
  <2>3. /\ \A t \in Threads \ {c} : job'[t] = job[t]
        /\ job'[c].task = tasks[job[c].session]
        /\ job'[c].client = job[c].client /\ job'[c].created = job[c].created
    BY <2>2, <1>1 DEF Set, TypeOK, Jobs
  <2>4. pc'[c] = x
    BY <2>1, Moved
  <2>5. StartInv(c)'
    BY <2>1, <2>2, <2>3, <2>4, <1>2 DEF StartInv, Recording, Making, Holding, Borrowing
  <2>6. \A d \in Callers \ {c} : ApartInv(c, d)'
    BY <2>4 DEF ApartInv, Holding, Borrowing
  <2>7. x \notin DetachSteps /\ x \notin InClose /\ made <= made'
    BY <2>2, <1>1 DEF DetachSteps, InClose
  <2> QED
    BY <2>1, <2>2, <2>3, <2>5, <2>6, <2>7, <1>1, StartMoves
<1>4. CASE PoolReserved(c)
  <2>1. /\ Goto(c, "probe") /\ pc[c] = "borrow" /\ ~reserved /\ reserved'
        /\ UNCHANGED <<references, given, pooled, tasks, stolen, made, job>>
    BY <1>4 DEF PoolReserved, daemon, history
  <2>2. pc'[c] = "probe" /\ \A d \in Callers \ {c} : pc'[d] = pc[d]
    BY <2>1, Moved
  <2>3. StartInv(c)'
    BY <2>1, <2>2, <1>2 DEF StartInv, Recording, Making, Holding, Borrowing
  <2>4. \A d \in Callers \ {c} : pc'[d] \notin Borrowing
    BY <2>1, <2>2, <1>2 DEF StartInv
  <2>5. \A d \in Callers \ {c} : ApartInv(c, d)'
    BY <2>2, <2>4 DEF ApartInv, Holding
  <2>6. "probe" \notin DetachSteps /\ "probe" \notin InClose /\ made <= made'
    BY <2>1, <1>1 DEF DetachSteps, InClose
  <2> QED
    BY <2>1, <2>3, <2>5, <2>6, <1>1, StartMoves
<1>5. CASE NoPooledClient(c)
  <2>1. /\ Goto(c, "create") /\ pc[c] = "probe" /\ pooled = Nobody
        /\ UNCHANGED <<references, given, pooled, tasks, stolen, made, job, reserved>>
    BY <1>5 DEF NoPooledClient, pool, daemon, history
  <2>2. pc'[c] = "create" /\ \A d \in Callers \ {c} : pc'[d] = pc[d]
    BY <2>1, Moved
  <2>3. StartInv(c)'
    BY <2>1, <2>2, <1>2 DEF StartInv, Recording, Making, Holding, Borrowing
  <2>4. \A d \in Callers \ {c} : ApartInv(c, d)'
    BY <2>1, <2>2, <1>2 DEF ApartInv, Holding, Borrowing
  <2>5. "create" \notin DetachSteps /\ "create" \notin InClose /\ made <= made'
    BY <2>1, <1>1 DEF DetachSteps, InClose
  <2> QED
    BY <2>1, <2>3, <2>4, <2>5, <1>1, StartMoves
<1>6. CASE ClientCreated(c)
  <2>1. /\ Goto(c, "made") /\ pc[c] = "create" /\ made' = made + 1
        /\ Set(c, [job[c] EXCEPT !.client = made + 1, !.created = made + 1])
        /\ UNCHANGED <<references, given, pooled, tasks, stolen, reserved>>
    BY <1>6 DEF ClientCreated, daemon, history
  <2>2. pc'[c] = "made" /\ \A d \in Threads \ {c} : pc'[d] = pc[d]
    BY <2>1, Moved
  <2>3. /\ \A t \in Threads \ {c} : job'[t] = job[t]
        /\ job'[c].task = job[c].task
        /\ job'[c].client = made + 1 /\ job'[c].created = made + 1
    BY <2>1, <1>1 DEF Set, TypeOK, Jobs
  <2>4. ToClose' \subseteq ToClose
    BY <2>1, <2>2, <2>3, ToCloseKept DEF InClose
  <2>5. StartInv(c)'
    <3>1. made + 1 # Nobody /\ made + 1 \notin ToClose'
      BY <2>4, <1>1 DEF Nobody
    <3> QED
      BY <2>1, <2>2, <2>3, <3>1, <1>2 DEF StartInv, Recording, Making, Holding, Borrowing
  <2>6. \A d \in Callers \ {c} : ApartInv(c, d)'
    <3>1. \A d \in Callers \ {c} : job'[d].created # made + 1
      BY <2>3, ClientsAreMade
    <3> QED
      BY <2>1, <2>2, <2>3, <3>1, <1>2 DEF ApartInv, Holding, Borrowing
  <2>7. /\ "made" \notin DetachSteps /\ "made" \notin InClose /\ made <= made'
        /\ job'[c].client <= made' /\ job'[c].created <= made'
    BY <2>1, <2>3, <1>1 DEF DetachSteps, InClose
  <2> QED
    BY <2>1, <2>3, <2>5, <2>6, <2>7, StartMoves
<1>7. CASE BorrowReturned(c)
  <2>1. /\ Goto(c, "initialize") /\ pc[c] = "held" /\ ~reserved'
        /\ Set(c, [job[c] EXCEPT !.created = Nobody])
        /\ UNCHANGED <<references, given, pooled, tasks, stolen, made>>
    BY <1>7 DEF BorrowReturned, daemon, history
  <2>2. pc'[c] = "initialize" /\ \A d \in Threads \ {c} : pc'[d] = pc[d]
    BY <2>1, Moved
  <2>3. /\ \A t \in Threads \ {c} : job'[t] = job[t]
        /\ job'[c].task = job[c].task
        /\ job'[c].client = job[c].client /\ job'[c].created = Nobody
    BY <2>1, <1>1 DEF Set, TypeOK, Jobs
  <2>4. StartInv(c)'
    BY <2>1, <2>2, <2>3, <1>2 DEF StartInv, Recording, Making, Holding, Borrowing
  <2>5. \A d \in Callers \ {c} : ApartInv(c, d)'
    BY <2>1, <2>2, <2>3, <1>2 DEF ApartInv, Holding, Borrowing
  <2>6. /\ "initialize" \notin DetachSteps /\ "initialize" \notin InClose /\ made <= made'
        /\ job'[c].client <= made' /\ job'[c].created <= made' /\ pc[c] \in Borrowing
    BY <2>1, <2>3, <1>1 DEF DetachSteps, InClose, Borrowing, Nobody
  <2> QED
    BY <2>1, <2>3, <2>4, <2>5, <2>6, StartMoves
<1>8. CASE BorrowRaised(c)
  <2>1. /\ Goto(c, "undo") /\ pc[c] \in Borrowing /\ ~reserved'
        /\ UNCHANGED <<references, given, pooled, tasks, stolen, made, job>>
    BY <1>8 DEF BorrowRaised, daemon, history, Borrowing
  <2>2. pc'[c] = "undo" /\ \A d \in Threads \ {c} : pc'[d] = pc[d]
    BY <2>1, Moved
  <2>3. StartInv(c)'
    BY <2>1, <2>2, <1>2 DEF StartInv, Recording, Making, Holding, Borrowing
  <2>4. \A d \in Callers \ {c} : ApartInv(c, d)'
    <3>1. pc[c] # "held" => job[c].task = NoTask
      BY <2>1, <1>2 DEF StartInv, Recording, Making, Borrowing
    <3>2. pc[c] \notin {"made", "held"} => job[c].created = Nobody
      BY <2>1, <1>2 DEF StartInv, Making, Borrowing
    <3> QED
      BY <2>1, <2>2, <3>1, <3>2, <1>2 DEF ApartInv, Holding, Borrowing
  <2>5. "undo" \notin DetachSteps /\ "undo" \notin InClose /\ made <= made' /\ pc[c] # "detached"
    BY <2>1, <1>1 DEF DetachSteps, InClose, Borrowing
  <2> QED
    BY <2>1, <2>3, <2>4, <2>5, <1>1, StartMoves
<1> QED
  BY <1>3, <1>4, <1>5, <1>6, <1>7, <1>8

(* A step of another thread that leaves the pool and the registry alone.   *)
LEMMA OtherMoves ==
    ASSUME TypeOK, TypeOK', Sharing, NEW t \in Threads \ Callers, NEW x, Goto(t, x),
           UNCHANGED <<references, given, pooled, tasks, stolen, made, reserved>>,
           x \notin DetachSteps, pc[t] # "detached",
           \A u \in Threads \ {t} : job'[u] = job[u],
           job'[t].client <= made /\ job'[t].created <= made,
           ToClose' \subseteq ToClose
    PROVE  Sharing'
<1> USE Roles
<1>1. pc'[t] = x /\ \A u \in Threads \ {t} : pc'[u] = pc[u]
  BY Moved
<1>2. \A c \in Callers : c \in Threads \ {t}
  OBVIOUS
<1>3. \A d \in Callers : pc'[d] = pc[d] /\ job'[d] = job[d]
  BY <1>1, <1>2
<1>4. \A d \in Callers : pc[d] \in Borrowing => reserved'
  BY DEF Sharing, BorrowInv, StartInv
<1>5. \A u \in Threads : job'[u].client <= made' /\ job'[u].created <= made'
  <2>1. \A u \in Threads : job[u].client <= made /\ job[u].created <= made
    BY ClientsAreMade
  <2> QED
    BY <2>1
<1>6. \A u \in Detachers :
         /\ pc'[u] = "detached" <=> pc[u] = "detached"
         /\ pc[u] = "detached" => job'[u].todo = job[u].todo
         /\ pc'[u] = "owed" => pc[u] = "owed" /\ job'[u].owed \subseteq job[u].owed
  <2>1. ASSUME NEW u \in Detachers, u # t PROVE pc'[u] = pc[u] /\ job'[u] = job[u]
    BY <1>1, <2>1
  <2>2. x # "detached" /\ x # "owed"
    BY DEF DetachSteps
  <2> QED
    BY <1>1, <2>1, <2>2
<1>7. made <= made'
  BY DEF TypeOK, PoolTypeOK
<1> QED
  BY <1>3, <1>4, <1>5, <1>6, <1>7, SharingKept

(* client.close().                                                         *)
LEMMA SharingClose ==
    ASSUME TypeOK, TypeOK', Sharing, PlaceInv, NEW t \in Openers, CloseStep(t) \/ StopRaised(t)
    PROVE  Sharing'
<1> USE Roles
<1>1. /\ pc[t] \in InClose
      /\ UNCHANGED <<references, given, pooled, tasks, stolen, made, reserved, job>>
  BY DEF CloseStep, HandleDropped, ChildStopped, StopRaised, daemon, history, InClose
<1>2. PICK x \in {"announcing", "stopping", "done", "failed", "leave"} : Goto(t, x)
  BY DEF CloseStep, HandleDropped, ChildStopped, StopRaised, Closed, CloseRaised
<1>3. pc'[t] = x /\ \A u \in Threads \ {t} : pc'[u] = pc[u]
  BY <1>2, Moved
<1>4. ToClose' \subseteq ToClose
  BY <1>1, <1>3, ToCloseKept
<1>5. /\ x \notin DetachSteps /\ pc[t] # "detached"
      /\ x \notin Recording \cup Holding \cup {"undo"}
  BY <1>1 DEF DetachSteps, InClose, Recording, Making, Holding
<1>6. job[t].client <= made /\ job[t].created <= made
  BY ClientsAreMade
<1>7. CASE t \in Callers
  BY <1>1, <1>2, <1>5, <1>6, <1>7, StartIdles
<1>8. CASE t \notin Callers
  BY <1>1, <1>2, <1>4, <1>5, <1>6, <1>8, OtherMoves
<1> QED
  BY <1>7, <1>8

(* Admissions, and the wait for the closer.                                *)
LEMMA SharingAdmission ==
    ASSUME TypeOK, TypeOK', Sharing, PlaceInv, NEW t \in Threads, AdmissionStep(t)
    PROVE  Sharing'
<1> USE Roles
<1>1. UNCHANGED <<references, given, pooled, tasks, stolen, made, reserved, job>>
  BY DEF AdmissionStep, EndAdmission, WaitClosed, pool, daemon, history
<1>2. PICK x \in {"await", "idle", "blocked", "stopping", "leave", "done", "failed"} :
        /\ Goto(t, x) /\ pc[t] \in {"end", "announcing", "await", "blocked"}
        /\ x \in InClose => pc[t] \in InClose
  <2>1. CASE EndAdmission(t)
    <3>1. Goto(t, AfterAdmission(t)) /\ pc[t] \in {"end", "announcing"}
      BY <2>1 DEF EndAdmission
    <3>2. /\ AfterAdmission(t) \in {"await", "idle", "blocked", "stopping", "leave", "failed"}
          /\ pc[t] = "end" => AfterAdmission(t) \in {"await", "idle"}
      BY DEF AfterAdmission, CloseRaised
    <3> HIDE DEF AfterAdmission
    <3> QED
      BY <3>1, <3>2 DEF InClose
  <2>2. CASE WaitClosed(t)
    BY <2>2 DEF WaitClosed, InClose
  <2> QED
    BY <2>1, <2>2 DEF AdmissionStep
<1>3. pc'[t] = x /\ \A u \in Threads \ {t} : pc'[u] = pc[u]
  BY <1>2, Moved
<1>4. ToClose' \subseteq ToClose
  BY <1>1, <1>2, <1>3, ToCloseKept
<1>5. /\ x \notin DetachSteps /\ pc[t] # "detached"
      /\ x \notin Recording \cup Holding \cup {"undo"}
  BY <1>2 DEF DetachSteps, Recording, Making, Holding
<1>6. job[t].client <= made /\ job[t].created <= made
  BY ClientsAreMade
<1>7. CASE t \in Callers
  BY <1>1, <1>2, <1>5, <1>6, <1>7, StartIdles
<1>8. CASE t \notin Callers
  BY <1>1, <1>2, <1>4, <1>5, <1>6, <1>8, OtherMoves
<1> QED
  BY <1>7, <1>8

(* The other steps of a start that leave the pool and the registry alone.  *)
LEMMA SharingStart ==
    ASSUME TypeOK, TypeOK', Sharing, NEW c \in Callers,
           \/ SessionReserved(c) \/ LeaseTaken(c) \/ TaskBegun(c) \/ BeginExpired(c)
           \/ BeginRaised(c) \/ TaskScheduled(c) \/ TaskClosed(c) \/ StartLeft(c)
           \/ \E s \in Sessions : StartAdmitted(c, s)
    PROVE  Sharing'
<1> USE Roles
<1>1. UNCHANGED <<references, given, pooled, tasks, stolen, made, reserved>>
  BY DEF SessionReserved, LeaseTaken, TaskBegun, BeginExpired, BeginRaised, TaskScheduled,
         TaskClosed, StartLeft, StartAdmitted, pool, daemon, history
<1>2. /\ made \in Nat /\ job[c].client <= made /\ job[c].created <= made
      /\ NoJob.client = Nobody /\ NoJob.created = Nobody
      /\ \A s : [NoJob EXCEPT !.session = s].client = Nobody /\ [NoJob EXCEPT !.session = s].created = Nobody
  BY ClientsAreMade DEF NoJob
<1>3. CASE SessionReserved(c) \/ LeaseTaken(c) \/ TaskBegun(c) \/ BeginExpired(c)
           \/ BeginRaised(c) \/ TaskClosed(c)
  <2>1. UNCHANGED job /\ pc[c] # "detached"
    BY <1>3 DEF SessionReserved, LeaseTaken, TaskBegun, BeginExpired, BeginRaised, TaskClosed
  <2>2. \E x : /\ Goto(c, x)
               /\ \/ pc[c] = "reserve" /\ x = "lookup"
                  \/ pc[c] = "initialize" /\ x \in {"begin", "release"}
                  \/ pc[c] = "begin" /\ x \in {"install", "closeTask"}
                  \/ pc[c] = "closeTask" /\ x = "release"
    BY <1>3 DEF SessionReserved, LeaseTaken, TaskBegun, BeginExpired, BeginRaised, TaskClosed
  <2> QED
    BY <1>1, <2>1, <2>2, StartContinues
<1>4. CASE TaskScheduled(c) \/ StartLeft(c)
  <2>1. \A t \in Threads \ {c} : job'[t] = job[t]
    BY <1>4 DEF TaskScheduled, StartLeft, Set, TypeOK
  <2>2. job'[c] = job[c] \/ job'[c] = NoJob
    BY <1>4 DEF TaskScheduled, StartLeft, Set, TypeOK
  <2>3. PICK x \in {"leave", "end"} : Goto(c, x)
    BY <1>4 DEF TaskScheduled, StartLeft
  <2>4. pc[c] # "detached"
    BY <1>4 DEF TaskScheduled, StartLeft
  <2>5. x \notin DetachSteps /\ x \notin InClose /\ x \notin Recording \cup Holding \cup {"undo"}
    BY DEF DetachSteps, InClose, Recording, Making, Holding
  <2>6. job'[c].client <= made /\ job'[c].created <= made
    BY <2>2, <1>2 DEF Nobody
  <2> QED
    BY <1>1, <2>1, <2>3, <2>4, <2>5, <2>6, StartIdles
<1>5. ASSUME NEW s \in Sessions, StartAdmitted(c, s) PROVE Sharing'
  <2>1. Goto(c, "reserve") /\ pc[c] = "idle" /\ Set(c, [NoJob EXCEPT !.session = s])
    BY <1>5 DEF StartAdmitted
  <2>2. /\ \A t \in Threads \ {c} : job'[t] = job[t]
        /\ job'[c].client = Nobody /\ job'[c].created = Nobody
    BY <2>1, <1>2 DEF Set, TypeOK
  <2>3. pc'[c] = "reserve"
    BY <2>1, Moved
  <2>4. StartInv(c)'
    BY <2>2, <2>3 DEF StartInv, Recording, Making, Holding, Borrowing
  <2>5. \A d \in Callers \ {c} : ApartInv(c, d)'
    BY <2>3 DEF ApartInv, Holding, Borrowing
  <2>6. "reserve" \notin DetachSteps /\ "reserve" \notin InClose /\ made <= made'
    BY <1>1, <1>2 DEF DetachSteps, InClose
  <2>7. job'[c].client <= made' /\ job'[c].created <= made'
    BY <2>2, <1>1, <1>2 DEF Nobody
  <2> QED
    BY <1>1, <2>1, <2>2, <2>4, <2>5, <2>6, <2>7, StartMoves
<1> QED
  BY <1>3, <1>4, <1>5

(* The steps of the worker, of the closers and of the reader that leave    *)
(* the pool and the registry alone.                                        *)
LEMMA SharingOther ==
    ASSUME TypeOK, TypeOK', Sharing,
           \/ Answered \/ WorkerExits \/ WorkerDies \/ ReaderAdmitted
           \/ \E s \in Sessions : Drive(s)
           \/ \E m \in Closers : CloseBegins(m) \/ Drained(m) \/ CloseEnds(m)
    PROVE  Sharing'
<1> USE Roles
<1>1. UNCHANGED <<references, given, pooled, tasks, stolen, made, reserved>>
  BY DEF Answered, WorkerExits, WorkerDies, ReaderAdmitted, Drive, CloseBegins, Drained,
         CloseEnds, pool, daemon, history
<1>2. /\ made \in Nat /\ \A t \in Threads : job[t].client <= made /\ job[t].created <= made
      /\ NoJob.client = Nobody /\ NoJob.created = Nobody
      /\ \A n : [NoJob EXCEPT !.task = n].client = Nobody /\ [NoJob EXCEPT !.task = n].created = Nobody
  BY ClientsAreMade DEF NoJob
<1>3. ASSUME NEW t \in Threads \ Callers, NEW x, Goto(t, x), x \notin DetachSteps,
             pc[t] # "detached", x \notin InClose \/ t \notin Openers,
             \/ UNCHANGED job
             \/ \E j : Set(t, j) /\ j.client = Nobody /\ j.created = Nobody
      PROVE  Sharing'
  <2>1. pc'[t] = x /\ \A u \in Threads \ {t} : pc'[u] = pc[u]
    BY <1>3, Moved
  <2>2. /\ \A u \in Threads \ {t} : job'[u] = job[u]
        /\ job'[t].client <= made /\ job'[t].created <= made
    BY <1>2, <1>3 DEF Set, TypeOK, Nobody
  <2>3. \A u \in Openers : pc'[u] \in InClose => pc[u] \in InClose /\ job'[u].client = job[u].client
    BY <1>3, <2>1, <2>2
  <2>4. ToClose' \subseteq ToClose
    BY <1>1, <2>3, ToCloseKept
  <2> QED
    BY <1>1, <1>3, <2>2, <2>4, OtherMoves
<1>4. CASE Answered \/ WorkerExits \/ WorkerDies
  <2>1. Worker \notin Openers
    BY DEF Openers
  <2> QED
    BY <1>2, <1>3, <1>4, <2>1 DEF Answered, WorkerExits, WorkerDies, DetachSteps
<1>5. ASSUME NEW s \in Sessions, Drive(s) PROVE Sharing'
  <2>1. Worker \notin Openers
    BY DEF Openers
  <2> QED
    BY <1>2, <1>3, <1>5, <2>1 DEF Drive, DetachSteps
<1>6. CASE ReaderAdmitted
  <2>1. Reader \notin Openers
    BY DEF Openers
  <2> QED
    BY <1>3, <1>6, <2>1 DEF ReaderAdmitted, DetachSteps
<1>7. ASSUME NEW m \in Closers, CloseBegins(m) \/ Drained(m) \/ CloseEnds(m) PROVE Sharing'
  <2>1. m \notin Callers /\ m \notin Openers
    BY DEF Openers
  <2>2. \E x \in {"await", "drain", "join", "idle"} : Goto(m, x)
    BY <1>7 DEF CloseBegins, Drained, CloseEnds
  <2>3. UNCHANGED job /\ pc[m] # "detached"
    BY <1>7 DEF CloseBegins, Drained, CloseEnds
  <2> QED
    BY <1>3, <2>1, <2>2, <2>3 DEF DetachSteps
<1> QED
  BY <1>4, <1>5, <1>6, <1>7

(* Tasks leave the registry: they still count, with who detaches them.     *)
LEMMA SharingDetach ==
    ASSUME TypeOK, TypeOK', Sharing, NEW t \in Detachers, NEW T, Detach(t, T), UNCHANGED made,
           pc[t] \in {"schedule", "asking", "idle", "join"}
    PROVE  Sharing'
<1> USE Roles
<1> DEFINE taken == T \cap Published
<1>1. /\ tasks' = [s \in Sessions |-> IF tasks[s] \in T THEN NoTask ELSE tasks[s]]
      /\ Set(t, [job[t] EXCEPT !.todo = taken]) /\ Goto(t, "detached")
      /\ UNCHANGED <<references, given, pooled, stolen, reserved>>
  BY DEF Detach, pool, history
<1>2. /\ pc'[t] = "detached" /\ \A u \in Threads \ {t} : pc'[u] = pc[u]
  BY <1>1, Moved
<1>3. \A u \in Threads : job[u] \in Jobs
  BY ClientsAreMade
<1> HIDE DEF taken
<1>4. /\ \A u \in Threads \ {t} : job'[u] = job[u]
      /\ job'[t].todo = taken /\ job'[t].client = job[t].client /\ job'[t].created = job[t].created
  BY <1>1, <1>3 DEF Set, TypeOK, Jobs
<1>5. Published' = Published \ taken /\ taken \subseteq Published
  <2>1. Published' = Published \ T
    <3>1. ASSUME NEW r \in Published' PROVE r \in Published \ T
      <4>1. PICK s \in Sessions : r = tasks'[s] /\ r # NoTask
        BY <3>1 DEF Published
      <4>2. tasks[s] \notin T /\ r = tasks[s]
        BY <4>1, <1>1
      <4> QED
        BY <4>1, <4>2 DEF Published
    <3>2. ASSUME NEW r \in Published \ T PROVE r \in Published'
      <4>1. PICK s \in Sessions : r = tasks[s] /\ r # NoTask
        BY <3>2 DEF Published
      <4>2. tasks'[s] = r
        BY <4>1, <1>1, <3>2
      <4> QED
        BY <4>1, <4>2 DEF Published
    <3> QED
      BY <3>1, <3>2
  <2> QED
    BY <2>1 DEF taken
<1>6. Leaving' = Leaving \cup taken
  <2>1. {u \in Detachers : pc'[u] = "detached"} = {u \in Detachers : pc[u] = "detached"} \cup {t}
    BY <1>2
  <2>2. t \notin {u \in Detachers : pc[u] = "detached"}
    OBVIOUS
  <2> QED
    BY <2>1, <2>2, <1>4 DEF Leaving
<1>7. Counted' = Counted /\ Active' = Active /\ Installed' = Installed
  BY <1>1, <1>5, <1>6 DEF Counted, Active, Installed, InState
<1>8. ToClose' \subseteq ToClose
  BY <1>1, <1>2, <1>4, ToCloseKept DEF InClose
<1>9. ReferenceInv'
  BY <1>1, <1>4, <1>7 DEF Sharing, ReferenceInv
<1>10. BorrowInv'
  <2>1. \A c \in Callers : pc'[c] # pc[c] \/ job'[c] # job[c] => pc'[c] = "detached"
    BY <1>2, <1>4
  <2>2. \A c \in Callers : StartInv(c)'
    BY <2>1, <1>1, <1>8 DEF Sharing, BorrowInv, StartInv, Recording, Making, Holding, Borrowing
  <2>3. \A c, d \in Callers : c # d => ApartInv(c, d)'
    BY <2>1 DEF Sharing, BorrowInv, ApartInv, Holding, Borrowing
  <2> QED
    BY <2>2, <2>3 DEF BorrowInv
<1>11. DetachInv'
  <2>1. \A u \in Detachers \ {t} : pc'[u] = "detached" => job'[u].todo \cap Published = {}
    BY <1>2, <1>4 DEF Sharing, DetachInv
  <2>2. \A u \in Detachers : pc'[u] = "detached" => job'[u].todo \cap Published' = {}
    BY <2>1, <1>4, <1>5
  <2>3. \A u, v \in Detachers :
          u # v /\ pc'[u] = "detached" /\ pc'[v] = "detached" => job'[u].todo \cap job'[v].todo = {}
    <3>1. \A u, v \in Detachers \ {t} :
            u # v /\ pc'[u] = "detached" /\ pc'[v] = "detached" =>
              job'[u].todo \cap job'[v].todo = {}
      BY <1>2, <1>4 DEF Sharing, DetachInv
    <3> QED
      BY <3>1, <2>1, <1>4, <1>5
  <2>4. OneCountPerTask'
    <3>1. OneCountPerTask <=> Cardinality(Installed) = Cardinality(Counted)
      BY DEF OneCountPerTask, Counted
    <3>2. OneCountPerTask' <=> Cardinality(Installed') = Cardinality(Counted')
      BY DEF OneCountPerTask, Counted
    <3> QED
      BY <3>1, <3>2, <1>7 DEF Sharing, DetachInv
  <2>5. \A u \in Detachers : pc'[u] = "owed" =>
          \A r \in job'[u].owed : r <= given' /\ references'[r].state \in {"closing", "gone"}
    BY <1>1, <1>2, <1>4 DEF Sharing, DetachInv
  <2> QED
    BY <2>2, <2>3, <2>4, <2>5 DEF DetachInv
<1>12. ~stolen' => PoolInv'
  BY <1>1, <1>7, <1>8 DEF Sharing, PoolInv
<1> QED
  BY <1>9, <1>10, <1>11, <1>12 DEF Sharing

(* The obligations of a detachment, and its end.                           *)
LEMMA SharingOwed ==
    ASSUME TypeOK, TypeOK', Sharing, PlaceInv, NEW t \in Detachers,
           AttemptStarted(t) \/ ObligationMet(t) \/ ObligationFailed(t) \/ DetachOver(t)
    PROVE  Sharing'
<1> USE Roles
<1>1. /\ made \in Nat
      /\ \A u \in Threads : job[u] \in Jobs /\ job[u].client <= made /\ job[u].created <= made
  BY ClientsAreMade
<1>2. pc[t] = "owed"
  BY DEF AttemptStarted, ObligationMet, ObligationFailed, DetachOver
<1> DEFINE r == FirstOwed(t)
<1>3. job[t].owed # {} => r \in job[t].owed /\ r \in References /\ r \in Threads \ Callers
  BY FirstOwedOwed
<1>4. /\ Settled(t).client = job[t].client /\ Settled(t).created = job[t].created
      /\ Settled(t).todo = job[t].todo /\ Settled(t).owed = job[t].owed \ {r}
      /\ [Settled(t) EXCEPT !.failed = TRUE].client = job[t].client
      /\ [Settled(t) EXCEPT !.failed = TRUE].created = job[t].created
      /\ [Settled(t) EXCEPT !.failed = TRUE].todo = job[t].todo
      /\ [Settled(t) EXCEPT !.failed = TRUE].owed = job[t].owed \ {r}
  BY <1>1 DEF Settled, Jobs
<1>5. pc'[t] \in {"owed", "leave", "ending", "idle"} =>
         StartInv(t)' /\ \A d \in Callers \ {t} : ApartInv(t, d)'
  BY DEF StartInv, ApartInv, Recording, Making, Holding, Borrowing
<1> HIDE DEF r, FirstOwed, Settled
<1>6. CASE AttemptStarted(t)
  <2>1. /\ job[t].owed # {} /\ references[r].state = "closing"
        /\ job' = [job EXCEPT ![r].client = references[r].client]
        /\ Goto(r, "closing") /\ pc[r] = "idle"
        /\ UNCHANGED <<references, given, pooled, tasks, stolen, made, reserved>>
    BY <1>6 DEF AttemptStarted, pool, daemon, history, r
  <2>2. r \in References /\ r \in Threads \ Callers
    BY <1>3, <2>1
  <2>3. pc'[r] = "closing" /\ \A u \in Threads \ {r} : pc'[u] = pc[u]
    BY <2>1, <2>2, Moved
  <2>4. /\ \A u \in Threads \ {r} : job'[u] = job[u]
        /\ job'[r].client = references[r].client /\ job'[r].created = job[r].created
    BY <2>1, <2>2, <1>1 DEF TypeOK, Jobs
  <2>5. job'[r].client <= made /\ job'[r].created <= made
    BY <2>2, <2>4, <1>1 DEF TypeOK, PoolTypeOK
  <2>6. ToClose' \subseteq ToClose
    <3>1. Owing' = Owing
      BY <2>1 DEF Owing, InState
    <3>2. r \in Owing
      BY <2>1, <2>2 DEF Owing, InState
    <3>3. BeingClosed' \subseteq BeingClosed \cup {references[r].client}
      BY <2>3, <2>4 DEF BeingClosed
    <3> QED
      BY <3>1, <3>2, <3>3, <2>1 DEF ToClose
  <2>7. "closing" \notin DetachSteps
    BY DEF DetachSteps
  <2> QED
    BY <2>1, <2>2, <2>4, <2>5, <2>6, <2>7, OtherMoves
<1>7. CASE ObligationFailed(t)
  <2>1. /\ job[t].owed # {} /\ Goto(r, "idle") /\ pc[r] = "failed"
        /\ Set(t, [Settled(t) EXCEPT !.failed = TRUE])
        /\ UNCHANGED <<references, given, pooled, tasks, stolen, made, reserved>>
    BY <1>7 DEF ObligationFailed, pool, daemon, history, r
  <2>2. r \in References /\ r \in Threads \ Callers /\ r \notin Detachers
    BY <1>3, <2>1 DEF Detachers
  <2>3. pc'[r] = "idle" /\ \A u \in Threads \ {r} : pc'[u] = pc[u]
    BY <2>1, <2>2, Moved
  <2>4. /\ \A u \in Threads \ {t} : job'[u] = job[u]
        /\ job'[t].client = job[t].client /\ job'[t].created = job[t].created
        /\ job'[t].todo = job[t].todo /\ job'[t].owed = job[t].owed \ {r}
    BY <2>1, <1>4 DEF Set, TypeOK
  <2>5. ToClose' \subseteq ToClose
    <3>1. \A u \in Openers : pc'[u] \in InClose =>
            pc[u] \in InClose /\ job'[u].client = job[u].client
      BY <2>3, <2>4 DEF InClose
    <3> QED
      BY <2>1, <3>1, ToCloseKept
  <2>6. pc'[t] = "owed"
    BY <2>2, <2>3, <1>2
  <2>7. \A d \in Callers : pc[d] \in Borrowing => reserved'
    BY <2>1 DEF Sharing, BorrowInv, StartInv
  <2>8. \A d \in Callers \ {t} : pc'[d] = pc[d] /\ job'[d] = job[d]
    BY <2>2, <2>3, <2>4
  <2>9. \A u \in Detachers :
          /\ pc'[u] = pc[u]
          /\ pc[u] = "detached" => job'[u].todo = job[u].todo
          /\ job'[u].owed \subseteq job[u].owed
    BY <2>2, <2>3, <2>4
  <2>10. made <= made' /\ \A u \in Threads : job'[u].client <= made' /\ job'[u].created <= made'
    BY <2>1, <2>4, <1>1
  <2> QED
    BY <2>1, <2>5, <2>6, <2>7, <2>8, <2>9, <2>10, <1>5, SharingKept
<1>8. CASE DetachOver(t)
  <2>1. /\ Set(t, [NoJob EXCEPT !.session = job[t].session])
        /\ UNCHANGED <<references, given, pooled, tasks, stolen, made, reserved>>
    BY <1>8 DEF DetachOver, pool
  <2>2. PICK x \in {"leave", "ending", "idle"} : Goto(t, x)
    <3>1. Goto(t, CASE t \in Callers -> "leave" [] t \in Closers -> "ending" [] t = Worker -> "idle")
      BY <1>8 DEF DetachOver
    <3>2. t \in Callers \/ t \in Closers \/ t = Worker
      BY DEF Detachers
    <3> QED
      BY <3>1, <3>2
  <2>3. /\ \A u \in Threads \ {t} : job'[u] = job[u]
        /\ job'[t].client = Nobody /\ job'[t].created = Nobody
    BY <2>1 DEF Set, TypeOK, NoJob
  <2>4. pc'[t] = x /\ \A u \in Threads \ {t} : pc'[u] = pc[u]
    BY <2>2, Moved
  <2>5. ToClose' \subseteq ToClose
    <3>1. \A u \in Openers : pc'[u] \in InClose =>
            pc[u] \in InClose /\ job'[u].client = job[u].client
      BY <2>3, <2>4 DEF InClose
    <3> QED
      BY <2>1, <3>1, ToCloseKept
  <2>6. /\ x \notin DetachSteps /\ x \notin InClose
        /\ x \notin Recording \cup Holding \cup {"undo"}
        /\ job'[t].client <= made /\ job'[t].created <= made
    BY <2>3, <1>1 DEF DetachSteps, InClose, Recording, Making, Holding, Nobody
  <2>7. CASE t \in Callers
    BY <1>2, <2>1, <2>2, <2>3, <2>6, <2>7, StartIdles
  <2>8. CASE t \notin Callers
    BY <1>2, <2>1, <2>2, <2>3, <2>5, <2>6, <2>8, OtherMoves
  <2> QED
    BY <2>7, <2>8
<1>9. CASE ObligationMet(t)
  <2>1. /\ job[t].owed # {} /\ Set(t, Settled(t)) /\ references' = Released({}, {r})
        /\ UNCHANGED <<given, pooled, tasks, stolen, made, reserved, pc>>
    BY <1>9 DEF ObligationMet, daemon, history, r
  <2>2. r \in References /\ r <= given /\ references[r].state \in {"closing", "gone"}
    BY <1>2, <1>3, <2>1 DEF Sharing, DetachInv
  <2>3. /\ \A u \in Threads \ {t} : job'[u] = job[u]
        /\ job'[t].client = job[t].client /\ job'[t].created = job[t].created
        /\ job'[t].todo = job[t].todo /\ job'[t].owed = job[t].owed \ {r}
    BY <2>1, <1>4 DEF Set, TypeOK
  <2>4. /\ \A q \in References \ {r} : references'[q] = references[q]
        /\ references'[r].client = references[r].client /\ references'[r].state = "gone"
    BY <2>1, <2>2 DEF Released, TypeOK, PoolTypeOK
  <2>5. Active' = Active /\ Installed' = Installed
    BY <2>2, <2>4 DEF Active, Installed, InState
  <2>6. Published' = Published /\ Leaving' = Leaving /\ Counted' = Counted
    <3>1. Published' = Published
      BY <2>1 DEF Published
    <3>2. \A u \in {v \in Detachers : pc[v] = "detached"} : job'[u].todo = job[u].todo
      BY <2>3
    <3>3. Leaving' = Leaving
      BY <2>1, <3>2 DEF Leaving
    <3> QED
      BY <3>1, <3>3 DEF Counted
  <2>7. ToClose' \subseteq ToClose
    <3>1. BeingClosed' = BeingClosed
      <4>1. \A u \in Threads : job'[u].client = job[u].client
        BY <2>3
      <4> QED
        BY <2>1, <4>1 DEF BeingClosed
    <3>2. Owing' \subseteq Owing /\ \A q \in Owing' : references'[q].client = references[q].client
      BY <2>2, <2>4 DEF Owing, InState
    <3> QED
      BY <3>1, <3>2 DEF ToClose
  <2>8. ReferenceInv'
    <3>1. \A q \in References :
            IF q <= given' THEN references'[q].client # Nobody ELSE references'[q].state = "gone"
      BY <2>1, <2>2, <2>4 DEF Sharing, ReferenceInv
    <3>2. \A q \in Counted' : q <= given' /\ references'[q].state # "borrowed"
      <4>1. Counted \subseteq References
        BY DEF Counted, Published, Leaving, TypeOK, Jobs, References, NoTask
      <4> QED
        BY <4>1, <2>1, <2>4, <2>6 DEF Sharing, ReferenceInv
    <3> QED
      BY <3>1, <3>2, <2>1, <2>3 DEF Sharing, ReferenceInv
  <2>9. BorrowInv'
    <3>1. \A c \in Callers : c # t => job'[c] = job[c]
      BY <2>3
    <3>2. \A c \in Callers \ {t} : StartInv(c)'
      <4>1. ASSUME NEW c \in Callers \ {t} PROVE StartInv(c)'
        <5>1. StartInv(c) /\ job'[c] = job[c] /\ pc'[c] = pc[c]
          BY <2>1, <3>1 DEF Sharing, BorrowInv
        <5>2. job[c].task # NoTask => job[c].task \in References
          BY <1>1 DEF Jobs, References, NoTask
        <5>3. references'[job[c].task] = references[job[c].task]
              \/ references[job[c].task].state # "borrowed" \/ job[c].task = NoTask
          BY <5>2, <2>2, <2>4
        <5> QED
          BY <5>1, <5>3, <2>1, <2>7 DEF StartInv, Holding
      <4> QED
        BY <4>1
    <3>3. \A c, d \in Callers \ {t} : c # d => ApartInv(c, d)'
      BY <2>1, <3>1 DEF Sharing, BorrowInv, ApartInv
    <3>4. \A c \in Callers \ {t} : ApartInv(t, c)' /\ ApartInv(c, t)'
      BY <2>1, <1>2 DEF ApartInv, Holding, Borrowing
    <3> QED
      BY <3>2, <3>3, <3>4, <1>2, <1>5, <2>1 DEF BorrowInv
  <2>10. DetachInv'
    <3>1. \A u \in Detachers : job'[u].todo = job[u].todo /\ job'[u].owed \subseteq job[u].owed
      BY <2>3
    <3>2. \A u \in Detachers : pc'[u] = "owed" =>
            \A q \in job'[u].owed : q <= given' /\ references'[q].state \in {"closing", "gone"}
      <4>1. \A u \in Detachers : job[u].owed \subseteq References
        BY <1>1 DEF Jobs
      <4> QED
        BY <2>1, <2>4, <3>1, <4>1 DEF Sharing, DetachInv
    <3>3. OneCountPerTask'
      BY <2>5, <2>6 DEF Sharing, DetachInv, OneCountPerTask
    <3> QED
      BY <3>1, <3>2, <3>3, <2>1, <2>6 DEF Sharing, DetachInv
  <2>11. ~stolen' => PoolInv'
    <3>1. Counted \subseteq References /\ Active \subseteq References
      BY DEF Counted, Published, Leaving, TypeOK, Jobs, References, NoTask, Active, InState
    <3>2. \A q \in References : references'[q].client = references[q].client
      BY <2>4
    <3> QED
      BY <3>1, <3>2, <2>1, <2>5, <2>6, <2>7 DEF Sharing, PoolInv
  <2> QED
    BY <2>8, <2>9, <2>10, <2>11 DEF Sharing
<1> QED
  BY <1>6, <1>7, <1>8, <1>9

(* What counts on a reference, and who holds one.                          *)
LEMMA CountedReferences ==
    ASSUME TypeOK
    PROVE  /\ Counted \subseteq References /\ Active \subseteq References
           /\ Installed \subseteq Active /\ Owing \subseteq References
           /\ \A t \in Detachers : job[t].owed \subseteq References /\ job[t].todo \subseteq References
           /\ \A c \in Callers : job[c].task # NoTask => job[c].task \in References
           /\ IsFiniteSet(Counted) /\ IsFiniteSet(Installed)
           /\ Cardinality(Counted) \in Nat /\ Cardinality(Installed) \in Nat
<1> USE Roles
<1>1. Counted \subseteq References
  BY DEF Counted, Published, Leaving, TypeOK, Jobs, References, NoTask
<1>2. /\ Active \subseteq References /\ Installed \subseteq Active /\ Owing \subseteq References
      /\ \A t \in Detachers : job[t].owed \subseteq References /\ job[t].todo \subseteq References
      /\ \A c \in Callers : job[c].task # NoTask => job[c].task \in References
  BY DEF Active, Installed, Owing, InState, TypeOK, Jobs, References, NoTask
<1>3. Installed \subseteq References
  BY <1>2
<1> QED
  BY <1>1, <1>2, <1>3, ReferencesFinite

(* No reference is installed when no task counts on one.                   *)
LEMMA NoneCounts ==
    ASSUME TypeOK, OneCountPerTask, Installed = {}
    PROVE  Counted = {}
<1>1. Cardinality(Counted) = 0
  BY FS_EmptySet DEF OneCountPerTask, Counted
<1> QED
  BY <1>1, CountedReferences, FS_EmptySet

(* A start that takes a reference has otherwise what it had.               *)
LEMMA JobBorrows ==
    ASSUME NEW j \in Jobs, NEW n, NEW k
    PROVE  /\ [j EXCEPT !.task = n, !.client = k].task = n
           /\ [j EXCEPT !.task = n, !.client = k].client = k
           /\ [j EXCEPT !.task = n, !.client = k].created = j.created
           /\ [j EXCEPT !.task = n, !.client = k].todo = j.todo
           /\ [j EXCEPT !.task = n, !.client = k].owed = j.owed
           /\ [j EXCEPT !.task = n].task = n
           /\ [j EXCEPT !.task = n].client = j.client
           /\ [j EXCEPT !.task = n].created = j.created
           /\ [j EXCEPT !.task = n].todo = j.todo
           /\ [j EXCEPT !.task = n].owed = j.owed
BY DEF Jobs

(* A borrow records its reference, to the client that is pooled.           *)
LEMMA SharingRecord ==
    ASSUME TypeOK, TypeOK', Sharing, CountInv, NEW c \in Callers,
           PooledClientFound(c) \/ ClientPooled(c)
    PROVE  Sharing'
<1> USE Roles
<1> DEFINE k == IF PooledClientFound(c) THEN pooled ELSE job[c].client
           n == given + 1
<1>1. /\ \A t \in Threads : job[t] \in Jobs /\ job[t].client <= made /\ job[t].created <= made
      /\ made \in Nat /\ given \in Nat /\ pooled \in Nat /\ pooled <= made
      /\ job[c].client \in Nat
  BY ClientsAreMade
<1>2. StartInv(c) /\ \A d \in Callers \ {c} : ApartInv(c, d) /\ StartInv(d)
  BY DEF Sharing, BorrowInv
<1>3. /\ Goto(c, "held") /\ Record(k) /\ UNCHANGED <<tasks, made, reserved, stolen>>
      /\ pc[c] \in {"probe", "made"} /\ pooled' = k
      /\ \/ Set(c, [job[c] EXCEPT !.task = n, !.client = k])
         \/ Set(c, [job[c] EXCEPT !.task = n]) /\ k = job[c].client
  <2>1. ~ (PooledClientFound(c) /\ ClientPooled(c))
    BY DEF PooledClientFound, ClientPooled
  <2> QED
    BY <2>1 DEF PooledClientFound, ClientPooled, daemon, history
<1>4. /\ k = pooled \/ (pooled = Nobody /\ k \notin ToClose)
      /\ k # Nobody /\ k <= made
  <2>1. CASE PooledClientFound(c)
    BY <2>1, <1>1 DEF PooledClientFound
  <2>2. CASE ~PooledClientFound(c)
    BY <2>2, <1>1, <1>2 DEF ClientPooled, StartInv
  <2> QED
    BY <2>1, <2>2
<1>5. n \in References /\ given < n
  <2>1. given < MaxReferences
    BY <1>3, Room DEF Recording, Making
  <2> QED
    BY <2>1, <1>1, PoolTyped
<1> HIDE DEF k
<1>6. /\ \A u \in Threads \ {c} : job'[u] = job[u]
      /\ job'[c].task = n /\ job'[c].client = k /\ job'[c].created = job[c].created
      /\ job'[c].todo = job[c].todo /\ job'[c].owed = job[c].owed
  <2>1. ASSUME NEW q, Set(c, q),
               q.task = n, q.client = k, q.created = job[c].created,
               q.todo = job[c].todo, q.owed = job[c].owed
        PROVE  /\ \A u \in Threads \ {c} : job'[u] = job[u]
               /\ job'[c].task = n /\ job'[c].client = k /\ job'[c].created = job[c].created
               /\ job'[c].todo = job[c].todo /\ job'[c].owed = job[c].owed
    BY <2>1 DEF Set, TypeOK
  <2>2. job[c] \in Jobs
    BY <1>1
  <2>3. CASE Set(c, [job[c] EXCEPT !.task = n, !.client = k])
    <3> DEFINE q == [job[c] EXCEPT !.task = n, !.client = k]
    <3>1. /\ q.task = n /\ q.client = k /\ q.created = job[c].created
          /\ q.todo = job[c].todo /\ q.owed = job[c].owed
      BY <2>2, JobBorrows
    <3>2. Set(c, q)
      BY <2>3
    <3> HIDE DEF q
    <3> QED
      BY <2>1, <3>1, <3>2
  <2>4. CASE Set(c, [job[c] EXCEPT !.task = n]) /\ k = job[c].client
    <3> DEFINE q == [job[c] EXCEPT !.task = n]
    <3>1. /\ q.task = n /\ q.client = k /\ q.created = job[c].created
          /\ q.todo = job[c].todo /\ q.owed = job[c].owed
      BY <2>2, <2>4, JobBorrows
    <3>2. Set(c, q)
      BY <2>4
    <3> HIDE DEF q
    <3> QED
      BY <2>1, <3>1, <3>2
  <2> QED
    BY <1>3, <2>3, <2>4
<1>7. pc'[c] = "held" /\ \A u \in Threads \ {c} : pc'[u] = pc[u]
  BY <1>3, Moved
<1>8. /\ references'[n].client = k /\ references'[n].state = "borrowed" /\ given' = n
      /\ \A r \in References \ {n} : references'[r] = references[r]
  BY <1>3, <1>5 DEF Record, TypeOK, PoolTypeOK
<1> HIDE DEF n
<1>9. references[n].state = "gone"
  BY <1>5, <1>1 DEF Sharing, ReferenceInv, References
<1>10. Active' = Active \cup {n} /\ Installed' = Installed /\ Owing' = Owing
  BY <1>5, <1>8, <1>9 DEF Active, Installed, Owing, InState
<1>11. Counted' = Counted /\ Published' = Published
  <2>1. Published' = Published
    BY <1>3 DEF Published
  <2>2. {u \in Detachers : pc'[u] = "detached"} = {u \in Detachers : pc[u] = "detached"}
    BY <1>3, <1>7
  <2>3. Leaving' = Leaving
    BY <1>6, <1>3, <2>2 DEF Leaving
  <2> QED
    BY <2>1, <2>3 DEF Counted
<1>12. ToClose' \subseteq ToClose
  <2>1. BeingClosed' \subseteq BeingClosed
    BY <1>6, <1>7 DEF BeingClosed
  <2>2. \A r \in Owing : references'[r] = references[r]
    BY <1>8, <1>9 DEF Owing, InState
  <2> QED
    BY <2>1, <2>2, <1>10 DEF ToClose
<1>13. n \notin Counted
  BY <1>5, <1>1 DEF Sharing, ReferenceInv, References
<1>14. ReferenceInv'
  <2>1. \A r \in References :
          IF r <= given' THEN references'[r].client # Nobody ELSE references'[r].state = "gone"
    <3>1. \A r \in References : r <= n => r <= given \/ r = n
      BY <1>1 DEF References, n
    <3>2. \A r \in References : ~ (r <= n) => ~ (r <= given) /\ r # n
      BY <1>1 DEF References, n
    <3> QED
      BY <3>1, <3>2, <1>4, <1>8 DEF Sharing, ReferenceInv
  <2>2. \A r \in Counted' : r <= given' /\ references'[r].state # "borrowed"
    <3>1. \A r \in References : r <= given => r <= n
      BY <1>1 DEF References, n
    <3> QED
      BY <3>1, <1>8, <1>11, <1>13, CountedReferences DEF Sharing, ReferenceInv
  <2>3. \A u \in Threads : job'[u].client <= made' /\ job'[u].created <= made'
    BY <1>1, <1>3, <1>4, <1>6
  <2> QED
    BY <2>1, <2>2, <2>3 DEF ReferenceInv
<1>15. \A d \in Callers : pc[d] \in Holding \cup {"undo"} /\ job[d].task # NoTask =>
          job[d].task \in References \ {n}
  BY <1>9, CountedReferences DEF Sharing, BorrowInv, StartInv
<1>16. BorrowInv'
  <2>1. StartInv(c)'
    BY <1>3, <1>5, <1>6, <1>7, <1>8, <1>2
       DEF StartInv, Recording, Making, Holding, Borrowing, References, NoTask
  <2>2. ASSUME NEW d \in Callers \ {c} PROVE StartInv(d)'
    <3>1. pc'[d] = pc[d] /\ job'[d] = job[d] /\ pc[d] \notin Borrowing
      BY <1>2, <1>3, <1>6, <1>7 DEF ApartInv, Borrowing
    <3>2. pc[d] \in Holding \cup {"undo"} /\ job[d].task # NoTask =>
            references'[job[d].task] = references[job[d].task]
      BY <1>15, <1>8
    <3> QED
      BY <3>1, <3>2, <1>2 DEF StartInv, Making, Recording, Holding, Borrowing
  <2>3. \A d \in Callers \ {c} : ApartInv(c, d)'
    <3>1. pc[c] = "probe" => job[c].created = Nobody
      BY <1>2 DEF StartInv, Making
    <3> QED
      BY <3>1, <1>2, <1>3, <1>6, <1>7, <1>15 DEF ApartInv, Holding, Borrowing
  <2>4. \A d, e \in Callers \ {c} : d # e => ApartInv(d, e)'
    BY <1>6, <1>7 DEF Sharing, BorrowInv, ApartInv
  <2>5. \A d \in Callers \ {c} : ApartInv(d, c)'
    BY <2>3 DEF ApartInv
  <2> QED
    BY <2>1, <2>2, <2>3, <2>4, <2>5 DEF BorrowInv
<1>17. DetachInv'
  <2>1. \A u \in Detachers :
          /\ pc'[u] = "detached" => pc[u] = "detached" /\ job'[u].todo = job[u].todo
          /\ pc'[u] = "owed" => pc[u] = "owed" /\ job'[u].owed = job[u].owed
    BY <1>6, <1>7
  <2>2. OneCountPerTask'
    <3>1. OneCountPerTask' <=> Cardinality(Installed') = Cardinality(Counted')
      BY DEF OneCountPerTask, Counted
    <3> QED
      BY <3>1, <1>10, <1>11 DEF Sharing, DetachInv, OneCountPerTask, Counted
  <2>3. \A u \in Detachers : pc'[u] = "owed" =>
          \A r \in job'[u].owed : r <= given' /\ references'[r].state \in {"closing", "gone"}
    <3>1. \A r \in References : r <= given => r <= n /\ r # n
      BY <1>1 DEF References, n
    <3> QED
      BY <2>1, <3>1, <1>8, CountedReferences DEF Sharing, DetachInv
  <2> QED
    BY <2>1, <2>2, <2>3, <1>11 DEF Sharing, DetachInv
<1>18. ~stolen' => PoolInv'
  <2> SUFFICES ASSUME ~stolen PROVE PoolInv'
    BY <1>3
  <2>1. PoolInv
    BY DEF Sharing
  <2>2. \A r \in Active \cup Counted : r # n /\ r \in References
    BY <1>9, <1>13, CountedReferences DEF Active, InState
  <2>3. \A r \in Active \cup Counted : references'[r].client = k
    BY <2>1, <2>2, <1>4, <1>8 DEF PoolInv
  <2>4. k \notin ToClose'
    BY <2>1, <1>4, <1>12 DEF PoolInv
  <2> QED
    BY <2>3, <2>4, <1>3, <1>4, <1>8, <1>10, <1>11 DEF PoolInv
<1> QED
  BY <1>14, <1>16, <1>17, <1>18 DEF Sharing

(* A start that raised takes back its reference, and what is pooled.       *)
LEMMA SharingUndone ==
    ASSUME TypeOK, TypeOK', Sharing, NEW c \in Callers, BorrowUndone(c)
    PROVE  Sharing'
<1> USE Roles
<1> DEFINE own == {job[c].task} \ {NoTask}
           victim == IF pooled # Nobody THEN pooled ELSE job[c].created
           x == IF victim = Nobody THEN "leave" ELSE "closing"
<1>1. /\ \A t \in Threads : job[t] \in Jobs /\ job[t].client <= made /\ job[t].created <= made
      /\ made \in Nat /\ given \in Nat /\ pooled \in Nat /\ pooled <= made
      /\ job[c].created \in Nat
  BY ClientsAreMade
<1>2. StartInv(c) /\ \A d \in Callers \ {c} : ApartInv(c, d) /\ StartInv(d)
  BY DEF Sharing, BorrowInv
<1>3. /\ pc[c] = "undo" /\ references' = Released({}, own) /\ pooled' = Nobody
      /\ stolen' = (stolen \/ (pooled # Nobody /\ Active \ own # {}))
      /\ Set(c, [job[c] EXCEPT !.client = victim]) /\ Goto(c, x)
      /\ UNCHANGED <<tasks, made, given, reserved>>
  BY DEF BorrowUndone, daemon
<1>4. victim \in Nat /\ victim <= made
  BY <1>1
<1>5. own \subseteq References /\ \A r \in own : references[r].state = "borrowed"
  <2>1. own \subseteq References
    BY CountedReferences
  <2> QED
    BY <2>1, <1>2, <1>3 DEF StartInv
<1>6. x \in {"leave", "closing"} /\ (x = "closing" => victim # Nobody)
  OBVIOUS
<1>7. pooled = Nobody => victim = job[c].created
  OBVIOUS
<1> HIDE DEF victim, x
<1>8. /\ \A u \in Threads \ {c} : job'[u] = job[u]
      /\ job'[c].task = job[c].task /\ job'[c].client = victim /\ job'[c].created = job[c].created
      /\ job'[c].todo = job[c].todo /\ job'[c].owed = job[c].owed
  BY <1>1, <1>3 DEF Set, TypeOK, Jobs
<1>9. pc'[c] = x /\ \A u \in Threads \ {c} : pc'[u] = pc[u]
  BY <1>3, Moved
<1>10. \A d \in Callers \ {c} : pc[d] \in Holding \cup {"undo"} /\ job[d].task # NoTask =>
          job[d].task \in References \ own
  BY <1>2, <1>3, CountedReferences DEF ApartInv, Holding
<1>11. /\ \A r \in References \ own : references'[r] = references[r]
       /\ \A r \in own : references'[r].client = references[r].client /\ references'[r].state = "gone"
  <2>1. {} \in SUBSET References /\ own \in SUBSET References
    BY <1>5
  <2> HIDE DEF own
  <2>2. references' = Released({}, own)
    BY <1>3
  <2>3. /\ \A r \in References \ ({} \cup own) : references'[r] = references[r]
        /\ \A r \in own \ {} : references'[r].client = references[r].client /\ references'[r].state = "gone"
    BY <2>1, <2>2 DEF Released, TypeOK, PoolTypeOK
  <2> QED
    BY <2>3
<1> HIDE DEF own
<1>12. Active' = Active \ own /\ Installed' = Installed /\ Owing' = Owing
  BY <1>5, <1>11 DEF Active, Installed, Owing, InState
<1>13. Counted' = Counted /\ Published' = Published
  <2>1. Published' = Published
    BY <1>3 DEF Published
  <2>2. {u \in Detachers : pc'[u] = "detached"} = {u \in Detachers : pc[u] = "detached"}
    BY <1>3, <1>6, <1>9
  <2>3. Leaving' = Leaving
    BY <1>8, <1>3, <2>2 DEF Leaving
  <2> QED
    BY <2>1, <2>3 DEF Counted
<1>14. ToClose' \subseteq ToClose \cup ({victim} \ {Nobody})
  <2>1. BeingClosed' \subseteq BeingClosed \cup ({victim} \ {Nobody})
    BY <1>6, <1>8, <1>9 DEF BeingClosed
  <2>2. \A r \in Owing : references'[r] = references[r]
    BY <1>5, <1>11 DEF Owing, InState
  <2> QED
    BY <2>1, <2>2, <1>12 DEF ToClose
<1>15. \A r \in Counted : r \in References \ own
  BY <1>5, CountedReferences DEF Sharing, ReferenceInv
<1>16. \A r \in References : references'[r].client = references[r].client
  BY <1>11
<1>17. ReferenceInv'
  <2>1. \A r \in References :
          IF r <= given' THEN references'[r].client # Nobody ELSE references'[r].state = "gone"
    BY <1>3, <1>11, <1>16 DEF Sharing, ReferenceInv
  <2>2. \A r \in Counted' : r <= given' /\ references'[r].state # "borrowed"
    BY <1>3, <1>11, <1>13, <1>15 DEF Sharing, ReferenceInv
  <2>3. \A u \in Threads : job'[u].client <= made' /\ job'[u].created <= made'
    BY <1>1, <1>3, <1>4, <1>8
  <2> QED
    BY <2>1, <2>2, <2>3 DEF ReferenceInv
<1>18. BorrowInv'
  <2>1. StartInv(c)'
    BY <1>6, <1>9 DEF StartInv, Recording, Making, Holding, Borrowing
  <2>2. ASSUME NEW d \in Callers \ {c} PROVE StartInv(d)'
    <3>1. pc'[d] = pc[d] /\ job'[d] = job[d] /\ StartInv(d) /\ ApartInv(c, d)
      BY <1>2, <1>8, <1>9
    <3>2. pc[d] \in Holding \cup {"undo"} /\ job[d].task # NoTask =>
            references'[job[d].task] = references[job[d].task]
      BY <1>10, <1>11
    <3>3. pc[d] = "made" => job[d].client \notin ToClose'
      <4> SUFFICES ASSUME pc[d] = "made" PROVE job[d].client \notin ToClose'
        OBVIOUS
      <4>1. /\ pooled = Nobody /\ job[d].client = job[d].created /\ job[d].client # Nobody
            /\ job[d].client \notin ToClose
        BY <3>1 DEF StartInv
      <4>2. victim = job[c].created
        BY <4>1, <1>7
      <4>3. job[c].created = job[d].created => job[c].created = Nobody
        BY <3>1, <1>3 DEF ApartInv
      <4> QED
        BY <4>1, <4>2, <4>3, <1>14
    <3> QED
      BY <3>1, <3>2, <3>3, <1>3 DEF StartInv, Making, Recording, Holding, Borrowing
  <2>3. \A d \in Callers \ {c} : ApartInv(c, d)'
    BY <1>6, <1>9 DEF ApartInv, Holding, Borrowing
  <2>4. \A d, e \in Callers \ {c} : d # e => ApartInv(d, e)'
    BY <1>8, <1>9 DEF Sharing, BorrowInv, ApartInv
  <2>5. \A d \in Callers \ {c} : ApartInv(d, c)'
    BY <2>3 DEF ApartInv
  <2> QED
    BY <2>1, <2>2, <2>3, <2>4, <2>5 DEF BorrowInv
<1>19. DetachInv'
  <2>1. \A u \in Detachers :
          /\ pc'[u] = "detached" => pc[u] = "detached" /\ job'[u].todo = job[u].todo
          /\ pc'[u] = "owed" => pc[u] = "owed" /\ job'[u].owed = job[u].owed
    BY <1>6, <1>8, <1>9
  <2>2. OneCountPerTask'
    <3>1. OneCountPerTask' <=> Cardinality(Installed') = Cardinality(Counted')
      BY DEF OneCountPerTask, Counted
    <3> QED
      BY <3>1, <1>12, <1>13 DEF Sharing, DetachInv, OneCountPerTask, Counted
  <2>3. \A u \in Detachers : pc'[u] = "owed" =>
          \A r \in job'[u].owed : r <= given' /\ references'[r].state \in {"closing", "gone"}
    BY <2>1, <1>3, <1>11, CountedReferences DEF Sharing, DetachInv
  <2> QED
    BY <2>1, <2>2, <2>3, <1>13 DEF Sharing, DetachInv
<1>20. ~stolen' => PoolInv'
  <2> SUFFICES ASSUME ~stolen' PROVE Active' \cup Counted' = {}
    BY <1>3 DEF PoolInv
  <2>1. PoolInv /\ (pooled = Nobody \/ Active \subseteq own)
    BY <1>3 DEF Sharing
  <2>2. CASE pooled = Nobody
    BY <2>1, <2>2, <1>12, <1>13 DEF PoolInv
  <2>3. CASE Active \subseteq own
    <3>1. Installed = {}
      BY <2>3, <1>5 DEF Active, Installed, InState
    <3>2. Counted = {}
      BY <3>1, NoneCounts DEF Sharing, DetachInv
    <3> QED
      BY <2>3, <3>2, <1>12, <1>13
  <2> QED
    BY <2>1, <2>2, <2>3
<1> QED
  BY <1>17, <1>18, <1>19, <1>20 DEF Sharing

(* References are released, by a start or by who detaches tasks: the last  *)
(* ones to go leave the obligation to close what was pooled.               *)
LEMMA SharingReleased ==
    ASSUME TypeOK, TypeOK', Sharing, NEW t \in Detachers, NEW S \in SUBSET Active, Release(S),
           pc[t] \in {"release", "detached"}, Goto(t, "owed"),
           UNCHANGED <<tasks, given, made, reserved, stolen>>,
           \A u \in Threads \ {t} : job'[u] = job[u],
           job'[t].client = job[t].client, job'[t].created = job[t].created,
           \A r \in job'[t].owed : references'[r].state = "closing",
           \A d \in Callers \ {t} : pc[d] \in Holding \cup {"undo"} /\ job[d].task # NoTask =>
              job[d].task \notin S,
           OneCountPerTask'
    PROVE  Sharing'
<1> USE Roles
<1> DEFINE last == S # {} /\ Active \subseteq S /\ pooled # Nobody
           kept == IF last THEN {Greatest(S)} ELSE {}
<1>1. /\ \A u \in Threads : job[u] \in Jobs /\ job[u].client <= made /\ job[u].created <= made
      /\ made \in Nat /\ given \in Nat /\ pooled \in Nat
  BY ClientsAreMade
<1>2. S \subseteq References /\ \A r \in S : references[r].state \in {"borrowed", "installed"}
  BY DEF Active, InState
<1>3. kept \subseteq S
  BY <1>2, GreatestIsMember
<1>4. references' = Released(kept, S) /\ pooled' = IF last THEN Nobody ELSE pooled
  BY DEF Release
<1>5. kept # {} => last
  OBVIOUS
<1>6. last => Active \subseteq S /\ pooled # Nobody
  OBVIOUS
<1> HIDE DEF last, kept
<1>7. /\ \A r \in References \ S : references'[r] = references[r]
      /\ \A r \in S : references'[r].state \in {"closing", "gone"}
      /\ \A r \in S : references'[r].state = "closing" => last /\ references'[r].client = pooled
      /\ \A r \in S : references'[r].client = references[r].client \/ (last /\ references'[r].client = pooled)
  <2>1. ASSUME NEW r \in References \ S PROVE references'[r] = references[r]
    BY <1>3, <1>4, <2>1 DEF Released
  <2>2. ASSUME NEW r \in kept
        PROVE  references'[r].state = "closing" /\ references'[r].client = pooled /\ last
    BY <1>2, <1>3, <1>4, <1>5 DEF Released
  <2>3. ASSUME NEW r \in S \ kept
        PROVE  references'[r].state = "gone" /\ references'[r].client = references[r].client
    BY <1>2, <1>4 DEF Released, TypeOK, PoolTypeOK
  <2> QED
    BY <2>1, <2>2, <2>3
<1>8. pc'[t] = "owed" /\ \A u \in Threads \ {t} : pc'[u] = pc[u]
  BY Moved
<1>9. Active' = Active \ S /\ Installed' = Installed \ S
  BY <1>2, <1>7 DEF Active, Installed, InState
<1>10. Published' = Published /\ Leaving' \subseteq Leaving /\ Counted' \subseteq Counted
  <2>1. Published' = Published
    BY DEF Published
  <2>2. \A u \in Detachers : pc'[u] = "detached" => pc[u] = "detached" /\ job'[u] = job[u]
    BY <1>8
  <2>3. Leaving' \subseteq Leaving
    BY <2>2 DEF Leaving
  <2> QED
    BY <2>1, <2>3 DEF Counted
<1>11. /\ ToClose' \subseteq ToClose \cup {pooled}
       /\ ~last => ToClose' \subseteq ToClose
  <2>1. BeingClosed' \subseteq BeingClosed
    BY <1>8 DEF BeingClosed
  <2>2. \A r \in Owing' : \/ r \in Owing /\ references'[r] = references[r]
                          \/ last /\ references'[r].client = pooled
    <3>1. ASSUME NEW r \in Owing', r \in S PROVE last /\ references'[r].client = pooled
      BY <1>7, <3>1 DEF Owing, InState
    <3>2. ASSUME NEW r \in Owing', r \notin S PROVE r \in Owing /\ references'[r] = references[r]
      BY <1>7, <3>2 DEF Owing, InState
    <3> QED
      BY <3>1, <3>2
  <2> QED
    BY <2>1, <2>2 DEF ToClose
<1>12. ReferenceInv'
  <2>1. ASSUME NEW r \in References
        PROVE  IF r <= given' THEN references'[r].client # Nobody ELSE references'[r].state = "gone"
    <3>1. CASE r \in S
      <4>1. r <= given /\ references[r].client # Nobody
        BY <1>2, <3>1 DEF Sharing, ReferenceInv
      <4>2. references'[r].client # Nobody
        BY <1>6, <1>7, <3>1, <4>1
      <4> QED
        BY <4>1, <4>2
    <3>2. CASE r \notin S
      BY <1>7, <3>2 DEF Sharing, ReferenceInv
    <3> QED
      BY <3>1, <3>2
  <2>2. ASSUME NEW r \in Counted' PROVE r <= given' /\ references'[r].state # "borrowed"
    <3>1. r \in References /\ r <= given /\ references[r].state # "borrowed"
      BY <1>10, CountedReferences DEF Sharing, ReferenceInv
    <3> QED
      BY <3>1, <1>7
  <2>3. \A u \in Threads : job'[u].client <= made' /\ job'[u].created <= made'
    BY <1>1
  <2> QED
    BY <2>1, <2>2, <2>3 DEF ReferenceInv
<1>13. BorrowInv'
  <2>1. t \in Callers => StartInv(t)' /\ \A d \in Callers \ {t} : ApartInv(t, d)' /\ ApartInv(d, t)'
    BY <1>8 DEF StartInv, ApartInv, Recording, Making, Holding, Borrowing
  <2>2. ASSUME NEW d \in Callers \ {t} PROVE StartInv(d)'
    <3>1. pc'[d] = pc[d] /\ job'[d] = job[d] /\ StartInv(d)
      BY <1>8 DEF Sharing, BorrowInv
    <3>2. pc[d] \in Holding \cup {"undo"} /\ job[d].task # NoTask =>
            references'[job[d].task] = references[job[d].task]
      BY <1>7, CountedReferences
    <3>3. pc[d] = "made" => job[d].client \notin ToClose'
      BY <3>1, <1>6, <1>11 DEF StartInv
    <3>4. pooled = Nobody => pooled' = Nobody
      BY <1>4
    <3> QED
      BY <3>1, <3>2, <3>3, <3>4 DEF StartInv, Making, Recording, Holding, Borrowing
  <2>3. \A d, e \in Callers \ {t} : d # e => ApartInv(d, e)'
    BY <1>8 DEF Sharing, BorrowInv, ApartInv
  <2> QED
    BY <2>1, <2>2, <2>3 DEF BorrowInv
<1>14. DetachInv'
  <2>1. \A u \in Detachers : pc'[u] = "detached" => pc[u] = "detached" /\ job'[u] = job[u]
    BY <1>8
  <2>2. ASSUME NEW u \in Detachers, pc'[u] = "owed", NEW r \in job'[u].owed
        PROVE  r <= given' /\ references'[r].state \in {"closing", "gone"}
    <3>1. r \in References
      BY <2>2 DEF TypeOK, Jobs
    <3>2. CASE u = t
      <4>1. references'[r].state = "closing"
        BY <2>2, <3>2
      <4>2. r <= given'
        BY <3>1, <4>1, <1>12 DEF ReferenceInv
      <4> QED
        BY <4>1, <4>2
    <3>3. CASE u # t
      <4>1. job'[u] = job[u] /\ pc[u] = "owed"
        BY <3>3, <2>2, <1>8
      <4>2. r <= given /\ references[r].state \in {"closing", "gone"}
        BY <4>1, <2>2 DEF Sharing, DetachInv
      <4>3. references'[r] = references[r]
        BY <3>1, <4>2, <1>2, <1>7
      <4> QED
        BY <4>2, <4>3
    <3> QED
      BY <3>2, <3>3
  <2> QED
    BY <2>1, <2>2, <1>10 DEF Sharing, DetachInv
<1>15. ~stolen' => PoolInv'
  <2> SUFFICES ASSUME ~stolen PROVE PoolInv'
    OBVIOUS
  <2>1. PoolInv
    BY DEF Sharing
  <2>2. CASE last
    <3>1. Active' = {} /\ Installed' = {}
      BY <2>2, <1>6, <1>9, CountedReferences
    <3>2. Counted' = {}
      <4>1. Cardinality(Installed') = Cardinality(Counted')
        BY DEF OneCountPerTask, Counted
      <4>2. Counted' \subseteq References
        BY <1>10, CountedReferences
      <4> QED
        BY <3>1, <4>1, <4>2, ReferencesFinite, FS_EmptySet
    <3> QED
      BY <2>2, <3>1, <3>2, <1>4 DEF PoolInv
  <2>3. CASE ~last
    <3>1. pooled' = pooled /\ ToClose' \subseteq ToClose
      BY <2>3, <1>4, <1>11
    <3>2. \A r \in Active' \cup Counted' : r \in Active \cup Counted /\ r \in References
      BY <1>9, <1>10, CountedReferences
    <3>3. \A r \in References : references'[r].client = references[r].client
      BY <2>3, <1>7
    <3> QED
      BY <2>1, <3>1, <3>2, <3>3 DEF PoolInv
  <2> QED
    BY <2>2, <2>3
<1> QED
  BY <1>12, <1>13, <1>14, <1>15 DEF Sharing

(* A start that failed releases the reference it borrowed.                 *)
LEMMA SharingReferenceReleased ==
    ASSUME TypeOK, TypeOK', Sharing, NEW c \in Callers, ReferenceReleased(c)
    PROVE  Sharing'
<1> USE Roles
<1> DEFINE r == job[c].task
           S == {r} \cap Active
           O == {q \in {r} : references'[q].state = "closing"}
<1>1. /\ pc[c] = "release" /\ Release(S) /\ Goto(c, "owed")
      /\ Set(c, [job[c] EXCEPT !.owed = O])
      /\ UNCHANGED <<tasks, given, made, reserved, stolen>>
  BY DEF ReferenceReleased, daemon, history
<1>2. r # NoTask /\ references[r].state = "borrowed" /\ c \in Detachers
  BY <1>1 DEF Sharing, BorrowInv, StartInv, Holding, Detachers
<1>3. job[c] \in Jobs
  BY ClientsAreMade
<1> HIDE DEF O
<1>4. /\ \A u \in Threads \ {c} : job'[u] = job[u]
      /\ job'[c].client = job[c].client /\ job'[c].created = job[c].created
      /\ job'[c].todo = job[c].todo /\ job'[c].owed = O
  BY <1>1, <1>3 DEF Set, TypeOK, Jobs
<1>5. \A q \in job'[c].owed : references'[q].state = "closing"
  BY <1>4 DEF O
<1>6. \A d \in Callers \ {c} : pc[d] \in Holding \cup {"undo"} /\ job[d].task # NoTask =>
         job[d].task \notin S
  BY <1>1, <1>2 DEF Sharing, BorrowInv, ApartInv, Holding
<1>7. Installed' = Installed
  <2>1. r \in References
    BY <1>2, CountedReferences
  <2>2. S = {r} /\ S \in SUBSET References /\ S # {}
    BY <1>2, <2>1 DEF Active, InState
  <2> DEFINE kept == IF S # {} /\ Active \subseteq S /\ pooled # Nobody THEN {Greatest(S)} ELSE {}
  <2>3. references' = Released(kept, S)
    BY <1>1 DEF Release
  <2> HIDE DEF S, r
  <2>4. kept \subseteq S
    BY <2>2, GreatestIsMember
  <2> HIDE DEF kept
  <2>5. \A q \in References : q # r => references'[q] = references[q]
    BY <2>2, <2>3, <2>4 DEF Released
  <2>6. references'[r].state \in {"closing", "gone"}
    BY <2>1, <2>2, <2>3 DEF Released, TypeOK, PoolTypeOK
  <2> QED
    BY <2>1, <2>5, <2>6, <1>2 DEF Installed, InState
<1>8. Counted' = Counted
  <2>1. Published' = Published
    BY <1>1 DEF Published
  <2>2. pc'[c] = "owed" /\ \A u \in Threads \ {c} : pc'[u] = pc[u]
    BY <1>1, Moved
  <2>3. {u \in Detachers : pc'[u] = "detached"} = {u \in Detachers : pc[u] = "detached"}
    BY <1>1, <2>2
  <2>4. Leaving' = Leaving
    BY <1>4, <2>3 DEF Leaving
  <2> QED
    BY <2>1, <2>4 DEF Counted
<1>9. OneCountPerTask'
  <2>1. OneCountPerTask' <=> Cardinality(Installed') = Cardinality(Counted')
    BY DEF OneCountPerTask, Counted
  <2> QED
    BY <2>1, <1>7, <1>8 DEF Sharing, DetachInv, OneCountPerTask, Counted
<1> HIDE DEF r
<1>10. S \in SUBSET Active
  OBVIOUS
<1> HIDE DEF S
<1> QED
  BY <1>1, <1>2, <1>4, <1>5, <1>6, <1>9, <1>10, SharingReleased

(* Detached tasks release as many references as they are.                  *)
LEMMA SharingTasksReleased ==
    ASSUME TypeOK, TypeOK', Sharing, NEW t \in Detachers, TasksReleased(t)
    PROVE  Sharing'
<1> USE Roles
<1> DEFINE n == Cardinality(job[t].todo)
           S == FirstInstalled(n)
           O == {q \in References : references'[q].state = "closing"}
<1>1. /\ pc[t] = "detached" /\ Release(S) /\ Goto(t, "owed")
      /\ Set(t, [job[t] EXCEPT !.owed = O])
      /\ UNCHANGED <<tasks, given, made, reserved, stolen>>
  BY DEF TasksReleased, daemon, history
<1>2. job[t] \in Jobs
  BY ClientsAreMade
<1> HIDE DEF O
<1>3. /\ \A u \in Threads \ {t} : job'[u] = job[u]
      /\ job'[t].client = job[t].client /\ job'[t].created = job[t].created
      /\ job'[t].todo = job[t].todo /\ job'[t].owed = O
  BY <1>1, <1>2 DEF Set, TypeOK, Jobs
<1>4. \A q \in job'[t].owed : references'[q].state = "closing"
  BY <1>3 DEF O
<1>5. /\ job[t].todo \subseteq Counted /\ IsFiniteSet(job[t].todo) /\ n \in Nat
      /\ n <= Cardinality(Counted) /\ Cardinality(Counted) \in Nat /\ IsFiniteSet(Counted)
      /\ Cardinality(Installed) = Cardinality(Counted) /\ IsFiniteSet(Installed)
  <2>1. job[t].todo \subseteq Leaving
    BY <1>1 DEF Leaving
  <2>2. IsFiniteSet(Counted) /\ job[t].todo \subseteq Counted
    BY <2>1, CountedReferences DEF Counted
  <2>3. Cardinality(Installed) = Cardinality(Counted)
    BY DEF Sharing, DetachInv, OneCountPerTask, Counted
  <2> QED
    BY <2>2, <2>3, FS_Subset, FS_CardinalityType, CountedReferences
<1>6. S \subseteq Installed /\ Cardinality(S) = n
  BY <1>5, FirstExist
<1> HIDE DEF S, n
<1>7. S \in SUBSET Active /\ S \in SUBSET References
  BY <1>6, CountedReferences
<1>8. \A d \in Callers \ {t} : pc[d] \in Holding \cup {"undo"} /\ job[d].task # NoTask =>
         job[d].task \notin S
  BY <1>6 DEF Sharing, BorrowInv, StartInv, Installed, InState
<1>9. Installed' = Installed \ S
  <2> DEFINE kept == IF S # {} /\ Active \subseteq S /\ pooled # Nobody THEN {Greatest(S)} ELSE {}
  <2>1. references' = Released(kept, S)
    BY <1>1 DEF Release
  <2>2. kept \subseteq S
    BY <1>7, GreatestIsMember
  <2> HIDE DEF kept
  <2>3. \A q \in References \ S : references'[q] = references[q]
    BY <2>1, <2>2 DEF Released
  <2>4. \A q \in S : references'[q].state \in {"closing", "gone"}
    BY <2>1, <1>7 DEF Released, TypeOK, PoolTypeOK
  <2> QED
    BY <2>3, <2>4, <1>7 DEF Installed, InState
<1>10. Counted' = Counted \ job[t].todo
  <2>1. Published' = Published
    BY <1>1 DEF Published
  <2>2. pc'[t] = "owed" /\ \A u \in Threads \ {t} : pc'[u] = pc[u]
    BY <1>1, Moved
  <2>3. \A u \in Detachers : pc'[u] = "detached" <=> pc[u] = "detached" /\ u # t
    BY <2>2
  <2>4. Leaving' = UNION {job[u].todo : u \in {v \in Detachers : pc[v] = "detached" /\ v # t}}
    BY <1>3, <2>3 DEF Leaving
  <2>5. Leaving' = Leaving \ job[t].todo
    <3>1. \A u \in Detachers : pc[u] = "detached" /\ u # t => job[u].todo \cap job[t].todo = {}
      BY <1>1 DEF Sharing, DetachInv
    <3> QED
      BY <2>4, <3>1 DEF Leaving
  <2>6. Published \cap job[t].todo = {}
    BY <1>1 DEF Sharing, DetachInv
  <2> QED
    BY <2>1, <2>5, <2>6 DEF Counted
<1>11. OneCountPerTask'
  <2>1. OneCountPerTask' <=> Cardinality(Installed') = Cardinality(Counted')
    BY DEF OneCountPerTask, Counted
  <2>2. Cardinality(Installed \ S) = Cardinality(Installed) - Cardinality(S)
    <3>1. IsFiniteSet(S) /\ Installed \cap S = S
      BY <1>5, <1>6, FS_Subset
    <3>2. Cardinality(Installed \ S) = Cardinality(Installed) - Cardinality(Installed \cap S)
      BY <1>5, FS_Difference
    <3> QED
      BY <3>1, <3>2
  <2>3. Cardinality(Counted \ job[t].todo) = Cardinality(Counted) - n
    <3>1. Counted \cap job[t].todo = job[t].todo
      BY <1>5
    <3>2. Cardinality(Counted \ job[t].todo) = Cardinality(Counted) - Cardinality(Counted \cap job[t].todo)
      BY <1>5, FS_Difference
    <3> QED
      BY <3>1, <3>2 DEF n
  <2> QED
    BY <2>1, <2>2, <2>3, <1>5, <1>6, <1>9, <1>10
<1> QED
  BY <1>1, <1>3, <1>4, <1>7, <1>8, <1>11, SharingReleased

(* A task is published: its reference counts.                              *)
LEMMA SharingPublished ==
    ASSUME TypeOK, TypeOK', Sharing, SessionInv, NEW c \in Callers, TaskPublished(c)
    PROVE  Sharing'
<1> USE Roles
<1> DEFINE r == job[c].task
           s == job[c].session
<1>1. /\ pc[c] = "install" /\ references' = Committed(r) /\ tasks' = [tasks EXCEPT ![s] = r]
      /\ Goto(c, "schedule") /\ Set(c, [job[c] EXCEPT !.client = Nobody])
      /\ UNCHANGED <<given, pooled, made, reserved, stolen>>
  BY DEF TaskPublished, history
<1>2. /\ \A u \in Threads : job[u] \in Jobs /\ job[u].client <= made /\ job[u].created <= made
      /\ made \in Nat /\ given \in Nat
  BY ClientsAreMade
<1>3. /\ r \in References /\ r # NoTask /\ references[r].state = "borrowed"
      /\ s \in Sessions /\ tasks[s] = NoTask
  <2>1. r # NoTask /\ references[r].state = "borrowed"
    BY <1>1 DEF Sharing, BorrowInv, StartInv, Holding
  <2>2. tasks[s] = NoTask
    BY <1>1 DEF SessionInv, At, Alone
  <2> QED
    BY <2>1, <2>2, <1>2, CountedReferences DEF Jobs
<1>4. /\ \A u \in Threads \ {c} : job'[u] = job[u]
      /\ job'[c].client = Nobody /\ job'[c].created = job[c].created /\ job'[c].todo = job[c].todo
  BY <1>1, <1>2 DEF Set, TypeOK, Jobs
<1>5. pc'[c] = "schedule" /\ \A u \in Threads \ {c} : pc'[u] = pc[u]
  BY <1>1, Moved
<1> HIDE DEF r, s
<1>6. /\ \A q \in References \ {r} : references'[q] = references[q]
      /\ references'[r].client = references[r].client /\ references'[r].state = "installed"
  BY <1>1, <1>3 DEF Committed, TypeOK, PoolTypeOK
<1>7. /\ Active' = Active /\ Installed' = Installed \cup {r} /\ r \notin Installed
      /\ Owing' = Owing /\ r \in Active
  BY <1>3, <1>6 DEF Active, Installed, Owing, InState
<1>8. Published' = Published \cup {r}
  <2>1. \A z \in Sessions : tasks'[z] = IF z = s THEN r ELSE tasks[z]
    BY <1>1 DEF TypeOK
  <2> QED
    BY <2>1, <1>3 DEF Published
<1>9. Leaving' = Leaving
  <2>1. {u \in Detachers : pc'[u] = "detached"} = {u \in Detachers : pc[u] = "detached"}
    BY <1>1, <1>5
  <2> QED
    BY <2>1, <1>4 DEF Leaving
<1>10. Counted' = Counted \cup {r} /\ r \notin Counted
  BY <1>3, <1>8, <1>9 DEF Counted, Sharing, ReferenceInv
<1>11. ToClose' \subseteq ToClose
  <2>1. BeingClosed' \subseteq BeingClosed
    BY <1>4, <1>5 DEF BeingClosed
  <2>2. \A q \in Owing : references'[q] = references[q]
    BY <1>3, <1>6 DEF Owing, InState
  <2> QED
    BY <2>1, <2>2, <1>7 DEF ToClose
<1>12. \A q \in References : references'[q].client = references[q].client
  BY <1>6
<1>13. ReferenceInv'
  <2>1. r <= given
    BY <1>3 DEF Sharing, ReferenceInv
  <2>2. \A q \in References :
          IF q <= given' THEN references'[q].client # Nobody ELSE references'[q].state = "gone"
    BY <2>1, <1>1, <1>6, <1>12 DEF Sharing, ReferenceInv
  <2>3. \A q \in Counted' : q <= given' /\ references'[q].state # "borrowed"
    BY <2>1, <1>1, <1>6, <1>10, CountedReferences DEF Sharing, ReferenceInv
  <2>4. \A u \in Threads : job'[u].client <= made' /\ job'[u].created <= made'
    BY <1>1, <1>2, <1>4 DEF Nobody
  <2> QED
    BY <2>2, <2>3, <2>4 DEF ReferenceInv
<1>14. BorrowInv'
  <2>1. StartInv(c)'
    BY <1>5 DEF StartInv, Recording, Making, Holding, Borrowing
  <2>2. ASSUME NEW d \in Callers \ {c} PROVE StartInv(d)'
    <3>1. pc'[d] = pc[d] /\ job'[d] = job[d] /\ StartInv(d) /\ ApartInv(c, d)
      BY <1>4, <1>5 DEF Sharing, BorrowInv
    <3>2. pc[d] \in Holding \cup {"undo"} /\ job[d].task # NoTask =>
            references'[job[d].task] = references[job[d].task]
      BY <3>1, <1>1, <1>3, <1>6, CountedReferences DEF ApartInv, Holding, r
    <3> QED
      BY <3>1, <3>2, <1>1, <1>11 DEF StartInv, Making, Recording, Holding, Borrowing
  <2>3. \A d \in Callers \ {c} : ApartInv(c, d)' /\ ApartInv(d, c)'
    BY <1>5 DEF ApartInv, Holding, Borrowing
  <2>4. \A d, e \in Callers \ {c} : d # e => ApartInv(d, e)'
    BY <1>4, <1>5 DEF Sharing, BorrowInv, ApartInv
  <2> QED
    BY <2>1, <2>2, <2>3, <2>4 DEF BorrowInv
<1>15. DetachInv'
  <2>1. \A u \in Detachers :
          /\ pc'[u] = "detached" => /\ pc[u] = "detached" /\ job'[u].todo = job[u].todo
                                    /\ r \notin job[u].todo
          /\ pc'[u] = "owed" => pc[u] = "owed" /\ job'[u] = job[u]
    <3>1. \A u \in Detachers : pc[u] = "detached" => r \notin job[u].todo
      BY <1>10 DEF Counted, Leaving
    <3> QED
      BY <3>1, <1>4, <1>5
  <2>2. OneCountPerTask'
    <3>1. OneCountPerTask' <=> Cardinality(Installed') = Cardinality(Counted')
      BY DEF OneCountPerTask, Counted
    <3>2. /\ Cardinality(Installed \cup {r}) = Cardinality(Installed) + 1
          /\ Cardinality(Counted \cup {r}) = Cardinality(Counted) + 1
      BY <1>7, <1>10, CountedReferences, FS_AddElement
    <3> QED
      BY <3>1, <3>2, <1>7, <1>10 DEF Sharing, DetachInv, OneCountPerTask, Counted
  <2>3. \A u \in Detachers : pc'[u] = "owed" =>
          \A q \in job'[u].owed : q <= given' /\ references'[q].state \in {"closing", "gone"}
    BY <2>1, <1>1, <1>3, <1>6, CountedReferences DEF Sharing, DetachInv
  <2> QED
    BY <2>1, <2>2, <2>3, <1>8 DEF Sharing, DetachInv
<1>16. ~stolen' => PoolInv'
  BY <1>1, <1>7, <1>10, <1>11, <1>12, CountedReferences DEF Sharing, PoolInv
<1> QED
  BY <1>13, <1>14, <1>15, <1>16 DEF Sharing

(* Every step keeps what is shared.                                      *)
LEMMA SharingNext == ASSUME IInv, TypeOK', [Next]_vars PROVE Sharing'
<1> USE Roles
<1>1. TypeOK /\ PlaceInv /\ CountInv /\ SessionInv /\ Sharing
  BY DEF IInv
<1>2. ASSUME NEW t \in Detachers, NEW T, Detach(t, T), UNCHANGED made,
             pc[t] \in {"schedule", "asking", "idle", "join"}
      PROVE  Sharing'
  BY <1>1, <1>2, SharingDetach
<1>3. ASSUME NEW t \in Detachers, NEW T, Detach(t, T) PROVE UNCHANGED made
  BY <1>3 DEF Detach, pool
<1>4. ASSUME NEW c \in Callers, StartStep(c) PROVE Sharing'
  <2>1. CASE SchedulingFailed(c)
    BY <2>1, <1>2, <1>3 DEF SchedulingFailed, Detachers
  <2>2. CASE Lookup(c) \/ PoolReserved(c) \/ NoPooledClient(c) \/ ClientCreated(c) \/ BorrowReturned(c)
    BY <2>2, <1>1, SharingBorrow
  <2>3. CASE PooledClientFound(c) \/ ClientPooled(c)
    BY <2>3, <1>1, SharingRecord
  <2>4. CASE SessionReserved(c) \/ LeaseTaken(c) \/ TaskBegun(c) \/ BeginExpired(c)
             \/ TaskScheduled(c) \/ TaskClosed(c) \/ StartLeft(c)
    BY <2>4, <1>1, SharingStart
  <2>5. CASE BorrowUndone(c)
    BY <2>5, <1>1, SharingUndone
  <2>6. CASE TaskPublished(c)
    BY <2>6, <1>1, SharingPublished
  <2>7. CASE ReferenceReleased(c)
    BY <2>7, <1>1, SharingReferenceReleased
  <2> QED
    BY <1>4, <2>1, <2>2, <2>3, <2>4, <2>5, <2>6, <2>7 DEF StartStep
<1>5. ASSUME NEW t \in Detachers, DetachStep(t) PROVE Sharing'
  <2>1. CASE TasksReleased(t)
    BY <2>1, <1>1, SharingTasksReleased
  <2>2. CASE AttemptStarted(t) \/ ObligationMet(t) \/ ObligationFailed(t) \/ DetachOver(t)
    BY <2>2, <1>1, SharingOwed
  <2> QED
    BY <1>5, <2>1, <2>2 DEF DetachStep
<1>6. ASSUME NEW t \in Openers, CloseStep(t) \/ StopRaised(t) PROVE Sharing'
  BY <1>6, <1>1, SharingClose
<1>7. ASSUME NEW t \in Threads, AdmissionStep(t) PROVE Sharing'
  BY <1>7, <1>1, SharingAdmission
<1>8. CASE WorkerStep
  <2>1. CASE RequestFailed
    BY <2>1, <1>2, <1>3 DEF RequestFailed, Detachers
  <2>2. CASE Answered \/ WorkerExits
    BY <2>2, <1>1, SharingOther
  <2> QED
    BY <1>8, <2>1, <2>2 DEF WorkerStep
<1>9. ASSUME NEW m \in Closers, ShutdownStep(m) PROVE Sharing'
  <2>1. CASE Joined(m)
    BY <2>1, <1>2, <1>3 DEF Joined, Detachers
  <2>2. CASE Drained(m) \/ CloseEnds(m)
    BY <2>2, <1>1, SharingOther
  <2> QED
    BY <1>9, <2>1, <2>2 DEF ShutdownStep
<1>10. CASE Requested
  <2>1. ASSUME NEW c \in Callers, NEW s \in Sessions, StartAdmitted(c, s) PROVE Sharing'
    BY <2>1, <1>1, SharingStart
  <2>2. ASSUME NEW T \in SUBSET Published, Retire(T) PROVE Sharing'
    BY <2>2, <1>2, <1>3 DEF Retire, Detachers
  <2>3. CASE ReaderAdmitted \/ (\E s \in Sessions : Drive(s)) \/ (\E m \in Closers : CloseBegins(m))
    BY <2>3, <1>1, SharingOther
  <2> QED
    BY <1>10, <2>1, <2>2, <2>3 DEF Requested
<1>11. CASE Failure
  <2>1. ASSUME NEW c \in Callers, BorrowRaised(c) PROVE Sharing'
    BY <2>1, <1>1, SharingBorrow
  <2>2. ASSUME NEW c \in Callers, BeginRaised(c) PROVE Sharing'
    BY <2>2, <1>1, SharingStart
  <2>3. CASE WorkerDies
    BY <2>3, <1>1, SharingOther
  <2> QED
    BY <1>11, <1>6, <2>1, <2>2, <2>3 DEF Failure
<1>12. CASE UNCHANGED vars
  BY <1>1, <1>12
     DEF vars, pool, daemon, history, Sharing, ReferenceInv, BorrowInv, StartInv, ApartInv,
         DetachInv, PoolInv, OneCountPerTask, Counted, Published, Leaving, ToClose, BeingClosed,
         Owing, Active, Installed, InState
<1> QED
  BY <1>4, <1>5, <1>6, <1>7, <1>8, <1>9, <1>10, <1>11, <1>12 DEF Next, Progress

-----------------------------------------------------------------------------

(* The invariant holds at first.                                         *)
LEMMA InvInit == ASSUME Init PROVE IInv
<1> USE Roles DEF NoTask, Nobody
<1>1. /\ pc = [t \in Threads |-> "idle"] /\ job = [t \in Threads |-> NoJob] /\ active = 0
      /\ tasks = [s \in Sessions |-> 0] /\ lease = [s \in Sessions |-> 0] /\ sessions = {}
      /\ closeStarted = FALSE /\ closeFinished = FALSE /\ faults = 0 /\ stolen = FALSE
      /\ dropped = {} /\ PoolInit
  BY DEF Init
<1>2. /\ MaxReferences \in Nat /\ MaxFaults \in Nat
      /\ 0 \in 0 .. MaxReferences /\ 0 \in 0 .. MaxFaults /\ 0 \in 0 .. 0 /\ 0 \in Nat
  OBVIOUS
<1>3. NoJob \in Jobs
  BY <1>2 DEF NoJob, Jobs
<1>4. PoolTypeOK
  <2>1. [client |-> 0, state |-> "gone"] \in [client : 0 .. 0, state : States]
    BY DEF States
  <2>2. references \in [References -> [client : 0 .. 0, state : States]]
    BY <2>1, <1>1 DEF PoolInit
  <2>3. made = 0 /\ given = 0 /\ pooled = 0 /\ reserved = FALSE /\ running = {} /\ handles = {}
    BY <1>1 DEF PoolInit
  <2>4. references \in [References -> [client : 0 .. made, state : States]]
    BY <2>2, <2>3
  <2>5. made \in 0 .. MaxReferences /\ given \in 0 .. MaxReferences /\ pooled \in 0 .. made
    BY <2>3, <1>2
  <2>6. running \subseteq 1 .. made /\ handles \subseteq 1 .. made /\ reserved \in BOOLEAN
    BY <2>3
  <2> QED
    BY <2>4, <2>5, <2>6 DEF PoolTypeOK
<1>5. TypeOK
  <2> DEFINE Places == {"idle", "asking", "await", "exited"} \cup StartSteps \cup DetachSteps
                       \cup CloseSteps \cup ShutdownSteps
  <2>1. pc \in [Threads -> Places] /\ job \in [Threads -> Jobs]
    BY <1>1, <1>3
  <2>2. tasks \in [Sessions -> 0 .. MaxReferences] /\ lease \in [Sessions -> 0 .. MaxReferences]
    BY <1>1, <1>2
  <2>3. active \in Nat /\ faults \in 0 .. MaxFaults
    BY <1>1, <1>2
  <2>4. sessions \subseteq Sessions /\ dropped \subseteq References
    BY <1>1
  <2>5. closeStarted \in BOOLEAN /\ closeFinished \in BOOLEAN /\ stolen \in BOOLEAN
    BY <1>1
  <2> QED
    BY <2>1, <2>2, <2>3, <2>4, <2>5, <1>4, Zenon DEF TypeOK
<1>6. PlaceInv
  BY <1>1 DEF PlaceInv
<1>7. \A P : "idle" \notin P => At(P) = {}
  BY <1>1 DEF At
<1>8. CountInv
  <2>1. At(Admitted) = {} /\ At(Recording) = {} /\ At(Making) = {} /\ Announcing = {}
    <3>1. "idle" \notin Admitted /\ "idle" \notin Recording /\ "idle" \notin Making
      BY DEF Admitted, InSession, StartSteps, DetachSteps, InClose, Recording, Making
    <3> QED
      BY <3>1, <1>1, <1>7 DEF Announcing
  <2>2. Cardinality({}) = 0
    BY FS_EmptySet
  <2>3. made = 0 /\ given = 0
    BY <1>1 DEF PoolInit
  <2> QED
    BY <2>1, <2>2, <2>3, <1>1, <1>2 DEF CountInv
<1>9. SessionInv
  BY <1>1 DEF SessionInv, At, InSession, Alone, StartSteps, DetachSteps, InClose
<1>10. Sharing
  <2>1. Published = {} /\ Leaving = {} /\ Counted = {} /\ Active = {} /\ Installed = {} /\ Owing = {}
    BY <1>1 DEF Published, Leaving, Counted, Active, Installed, Owing, InState, PoolInit
  <2>2. ReferenceInv
    <3>1. \A r \in References : ~ (r <= given) /\ references[r].state = "gone"
      BY <1>1, <1>2 DEF PoolInit, References
    <3>2. \A t \in Threads : job[t].client <= made /\ job[t].created <= made
      BY <1>1 DEF PoolInit, NoJob
    <3> QED
      BY <2>1, <3>1, <3>2 DEF ReferenceInv
  <2>3. BorrowInv
    BY <1>1 DEF BorrowInv, StartInv, ApartInv, Recording, Making, Holding, Borrowing
  <2>4. DetachInv
    BY <1>1, <2>1 DEF DetachInv, OneCountPerTask, Counted
  <2>5. PoolInv
    BY <1>1, <2>1 DEF PoolInv, PoolInit
  <2> QED
    BY <2>2, <2>3, <2>4, <2>5 DEF Sharing
<1> QED
  BY <1>5, <1>6, <1>8, <1>9, <1>10 DEF IInv

(* Every step keeps the invariant.                                       *)
LEMMA InvNext == ASSUME IInv, [Next]_vars PROVE IInv'
<1>1. TypeOK /\ PlaceInv /\ CountInv /\ SessionInv /\ ReferenceInv /\ BorrowInv
  BY DEF IInv, Sharing
<1>2. TypeOK'
  BY <1>1, TypeNext
<1>3. PlaceInv'
  BY <1>1, PlaceNext
<1>4. CountInv'
  BY <1>1, CountNext
<1>5. SessionInv'
  BY <1>1, <1>2, SessionNext
<1>6. Sharing'
  BY <1>2, SharingNext
<1> QED
  BY <1>2, <1>3, <1>4, <1>5, <1>6 DEF IInv

(* Nobody closes a client that a reference in use is to.                   *)
LEMMA UsedClients == ASSUME IInv PROVE UsedClientStaysOpen
<1>1. TypeOK /\ OneCountPerTask /\ (~stolen => PoolInv)
  BY DEF IInv, Sharing, DetachInv
<1>2. ClosedClientIsIdle
  BY <1>1 DEF ClosedClientIsIdle, PoolInv, ToClose
<1> QED
  BY <1>1, <1>2 DEF UsedClientStaysOpen

(* The references that count as installed are as many as the tasks that    *)
(* use one, and unless a borrow that raised took the client from others,   *)
(* nobody is inside client.close() of a client that a start or a task      *)
(* still refers to (release_installed and borrow of                        *)
(* daemon_client_pool.py).  The pool forgets a client at once when its     *)
(* last reference goes, so all references in use are to the pooled one.    *)
THEOREM SharedClientStaysOpen == Spec => []UsedClientStaysOpen
<1>1. Init => IInv
  BY InvInit
<1>2. IInv /\ [Next]_vars => IInv'
  BY InvNext
<1>3. IInv => UsedClientStaysOpen
  BY UsedClients
<1> QED
  BY <1>1, <1>2, <1>3, PTL DEF Spec
-----------------------------------------------------------------------------
(* What is taken is given back. *)

(* A start that has taken the lease of its session; a thread that has      *)
(* dropped the handle of the client it closes.                             *)
Leasing == {"begin", "install", "closeTask"}
Dropping == InClose \ {"closing"}

\* A closer is in one of the places, or close() is over.
Past(places) == closeFinished \/ \E m \in Closers : pc[m] \in places

(* An obligation that is attempted stays one until the client is closed,   *)
(* and the attempt closes the client that is owed.                         *)
AttemptInv ==
  \A r \in References : pc[r] # "idle" =>
    /\ r <= given
    /\ references[r].state = "closing" \/ (references[r].state = "gone" /\ pc[r] = "done")
    /\ references[r].state = "closing" => job[r].client = references[r].client

(* Each borrowed reference has a start that will commit or release it, and *)
(* the pool keeps no client without a reference.                           *)
BorrowerInv ==
  /\ \A r \in InState("borrowed") :
        \E c \in Callers : pc[c] \in Holding \cup {"undo"} /\ job[c].task = r
  /\ pooled # Nobody => Active # {}

(* A client with a handle is pooled or to be closed; one being closed, or  *)
(* one that was, has none.                                                 *)
HandleInv ==
  /\ handles \subseteq {pooled} \cup ToClose
  /\ \A t \in Openers : pc[t] \in Dropping => job[t].client \notin handles
  /\ \A r \in Owing : pc[r] = "done" => references[r].client \notin handles

(* A lease is the published task's, or a start's or a detacher's to give   *)
(* back.                                                                   *)
LeaseInv ==
  \A s \in Sessions : lease[s] # NoTask =>
    \/ lease[s] \in {tasks[s]} \cup dropped
    \/ \E c \in Callers :
          pc[c] \in Leasing /\ job[c].task = lease[s] /\ job[c].session = s
    \/ \E t \in Detachers : pc[t] \in DetachSteps /\ lease[s] \in job[t].todo

(* One closer at a time, while close() is not over; sessions are reserved  *)
(* by starts.                                                              *)
CloserInv ==
  /\ \A m \in Closers : pc[m] \in ShutdownSteps \cup DetachSteps => closeStarted /\ ~closeFinished
  /\ \A m, n \in Closers :
        {pc[m], pc[n]} \subseteq ShutdownSteps \cup DetachSteps => m = n
  /\ closeFinished => closeStarted
  /\ \A s \in sessions : \E c \in At(InSession) : job[c].session = s

(* Without a fault no obligation is left unmet, and a child runs only as   *)
(* long as its client has the handle or is being closed.                   *)
FaultFree ==
  /\ ~stolen /\ dropped = {}
  /\ \A t \in Threads : pc[t] \notin {"undo", "failed"} /\ ~job[t].failed
  /\ pc[Worker] = "exited" => closeStarted
  /\ \A k \in running \ handles : \E t \in Openers : pc[t] \in Dropping /\ job[t].client = k

(* Each stage of close() finds what the one before has left.               *)
ShutdownInv ==
  /\ SchedulerClosed => closeStarted /\ active = 0
  /\ Past({"ending"} \cup DetachSteps) => Published = {} /\ pc[Worker] = "exited"
  /\ Past({"owed", "ending"}) => Active = {}
  /\ \A m \in Closers : pc[m] = "owed" => job[m].failed \/ Owing \subseteq job[m].owed
  /\ Past({"ending"}) /\ faults = 0 => Owing = {}

Giving ==
  /\ AttemptInv /\ BorrowerInv /\ LeaseInv /\ CloserInv /\ ShutdownInv
  /\ ~stolen => HandleInv
  /\ faults = 0 => FaultFree

(* What is of use of the step of a thread that changes no other's work.    *)
LEMMA LeaseKept ==
    ASSUME TypeOK, LeaseInv, NEW t \in Threads, NEW x, Goto(t, x),
           \A u \in Threads \ {t} : job'[u] = job[u],
           UNCHANGED <<tasks, lease, dropped>>,
           pc[t] \in Leasing => x \in Leasing /\ job'[t] = job[t],
           pc[t] \in DetachSteps => x \in DetachSteps /\ job'[t].todo = job[t].todo
    PROVE  LeaseInv'
<1> USE Roles
<1>1. pc'[t] = x /\ \A u \in Threads \ {t} : pc'[u] = pc[u]
  BY Moved
<1>2. \A c \in Callers : pc[c] \in Leasing => pc'[c] \in Leasing /\ job'[c] = job[c]
  BY <1>1
<1>3. \A u \in Detachers : pc[u] \in DetachSteps => pc'[u] \in DetachSteps /\ job'[u].todo = job[u].todo
  BY <1>1
<1> QED
  BY <1>2, <1>3 DEF LeaseInv

(* The registry gives up tasks: who detaches them has their leases too.    *)
LEMMA LeaseDetached ==
    ASSUME TypeOK, LeaseInv, NEW t \in Detachers, NEW T, Detach(t, T),
           pc[t] \notin Leasing, pc[t] \notin DetachSteps
    PROVE  LeaseInv'
<1> USE Roles
<1>1. /\ \A s \in Sessions : tasks'[s] = IF tasks[s] \in T THEN NoTask ELSE tasks[s]
      /\ UNCHANGED <<lease, dropped>>
      /\ Set(t, [job[t] EXCEPT !.todo = T \cap Published])
      /\ Goto(t, "detached")
  BY DEF Detach, history
<1>2. pc'[t] = "detached" /\ \A u \in Threads \ {t} : pc'[u] = pc[u]
  BY <1>1, Moved
<1>3. /\ job'[t].todo = T \cap Published
      /\ \A u \in Threads \ {t} : job'[u] = job[u]
  <2>1. job'[t] = [job[t] EXCEPT !.todo = T \cap Published] /\ \A u \in Threads \ {t} : job'[u] = job[u]
    BY <1>1 DEF Set, TypeOK
  <2>2. job[t] \in Jobs
    BY DEF TypeOK
  <2> QED
    BY <2>1, <2>2 DEF Jobs
<1>4. \A c \in Callers : pc[c] \in Leasing => pc'[c] \in Leasing /\ job'[c] = job[c]
  BY <1>2, <1>3
<1>5. \A u \in Detachers : pc[u] \in DetachSteps => pc'[u] \in DetachSteps /\ job'[u] = job[u]
  BY <1>2, <1>3
<1>6. "detached" \in DetachSteps
  BY DEF DetachSteps
<1>7. ASSUME NEW s \in Sessions, lease[s] # NoTask, lease[s] = tasks[s], tasks'[s] # tasks[s]
      PROVE  lease[s] \in job'[t].todo
  BY <1>1, <1>3, <1>7 DEF Published
<1> QED
  BY <1>1, <1>2, <1>4, <1>5, <1>6, <1>7 DEF LeaseInv

(* Every step keeps the leases somebody's.                                 *)
LEMMA LeaseNext ==
    ASSUME TypeOK, PlaceInv, SessionInv, LeaseInv, [Next]_vars
    PROVE  LeaseInv'
<1> USE Roles
<1>1. \A t \in Threads : job[t] \in Jobs
  BY DEF TypeOK
<1>2. ASSUME NEW t \in Threads, NEW j, Set(t, j)
      PROVE  job'[t] = j /\ \A u \in Threads \ {t} : job'[u] = job[u]
  BY <1>2 DEF Set, TypeOK
<1>3. ASSUME NEW t \in Threads, NEW x, Goto(t, x), UNCHANGED <<tasks, lease, dropped>>,
             UNCHANGED job \/ \E j : Set(t, j), pc[t] \notin DetachSteps, pc[t] \notin Leasing
      PROVE  LeaseInv'
  <2>1. \A u \in Threads \ {t} : job'[u] = job[u]
    BY <1>2, <1>3
  <2> QED
    BY <1>3, <2>1, LeaseKept
<1>4. ASSUME NEW c \in Callers, StartStep(c) \/ BorrowRaised(c) \/ BeginRaised(c) PROVE LeaseInv'
  <2>1. CASE \/ SessionReserved(c) \/ Lookup(c) \/ PoolReserved(c) \/ PooledClientFound(c)
             \/ NoPooledClient(c) \/ ClientCreated(c) \/ ClientPooled(c) \/ BorrowReturned(c)
    <3>1. /\ pc[c] \notin DetachSteps /\ pc[c] \notin Leasing
          /\ UNCHANGED <<tasks, lease, dropped>>
          /\ UNCHANGED job \/ \E j : Set(c, j)
      BY <2>1
         DEF SessionReserved, Lookup, PoolReserved, PooledClientFound, NoPooledClient,
             ClientCreated, ClientPooled, BorrowReturned, DetachSteps, Leasing, daemon, history
    <3>2. \E x : Goto(c, x)
      BY <2>1
         DEF SessionReserved, Lookup, PoolReserved, PooledClientFound, NoPooledClient,
             ClientCreated, ClientPooled, BorrowReturned
    <3> QED
      BY <3>1, <3>2, <1>3
  <2>2. CASE \/ BorrowUndone(c) \/ BorrowRaised(c) \/ TaskScheduled(c) \/ ReferenceReleased(c)
             \/ StartLeft(c)
    <3>1. /\ pc[c] \notin DetachSteps /\ pc[c] \notin Leasing
          /\ UNCHANGED <<tasks, lease, dropped>>
          /\ UNCHANGED job \/ \E j : Set(c, j)
      BY <2>2
         DEF BorrowUndone, BorrowRaised, TaskScheduled, ReferenceReleased, StartLeft,
             DetachSteps, Leasing, daemon, history
    <3>2. \E x : Goto(c, x)
      BY <2>2 DEF BorrowUndone, BorrowRaised, TaskScheduled, ReferenceReleased, StartLeft
    <3> QED
      BY <3>1, <3>2, <1>3
  <2>3. CASE LeaseTaken(c)
    <3>1. pc[c] = "initialize" /\ UNCHANGED <<tasks, dropped, job>>
      BY <2>3 DEF LeaseTaken, history
    <3>2. CASE lease[job[c].session] = NoTask
      <4>1. /\ lease' = [lease EXCEPT ![job[c].session] = job[c].task] /\ Goto(c, "begin")
        BY <2>3, <3>2 DEF LeaseTaken
      <4>2. pc'[c] = "begin" /\ \A u \in Threads \ {c} : pc'[u] = pc[u]
        BY <4>1, Moved
      <4>3. /\ lease'[job[c].session] = job[c].task
            /\ \A s \in Sessions \ {job[c].session} : lease'[s] = lease[s]
        BY <4>1, <1>1 DEF TypeOK, Jobs
      <4>4. \A d \in Callers : pc[d] \in Leasing => pc'[d] \in Leasing
        BY <3>1, <4>2 DEF Leasing
      <4>5. \A u \in Detachers : pc[u] \in DetachSteps => pc'[u] \in DetachSteps
        BY <3>1, <4>2 DEF DetachSteps
      <4>6. pc'[c] \in Leasing
        BY <4>2 DEF Leasing
      <4> QED
        BY <3>1, <4>3, <4>4, <4>5, <4>6 DEF LeaseInv
    <3>3. CASE lease[job[c].session] # NoTask
      <4>1. UNCHANGED lease /\ Goto(c, "release")
        BY <2>3, <3>3 DEF LeaseTaken
      <4>2. pc[c] \notin DetachSteps /\ pc[c] \notin Leasing
        BY <3>1 DEF DetachSteps, Leasing
      <4> QED
        BY <3>1, <4>1, <4>2, <1>3
    <3> QED
      BY <3>2, <3>3
  <2>4. CASE TaskBegun(c) \/ BeginExpired(c) \/ BeginRaised(c)
    <3>1. pc[c] \notin DetachSteps /\ UNCHANGED <<tasks, lease, dropped, job>>
      BY <2>4 DEF TaskBegun, BeginExpired, BeginRaised, DetachSteps, daemon, history
    <3>2. \E x \in Leasing : Goto(c, x)
      BY <2>4 DEF TaskBegun, BeginExpired, BeginRaised, Leasing
    <3> QED
      BY <3>1, <3>2, LeaseKept
  <2>5. CASE TaskPublished(c)
    <3>1. /\ pc[c] = "install" /\ UNCHANGED <<lease, dropped>> /\ Goto(c, "schedule")
          /\ tasks' = [tasks EXCEPT ![job[c].session] = job[c].task]
          /\ Set(c, [job[c] EXCEPT !.client = Nobody])
      BY <2>5 DEF TaskPublished, history
    <3>2. pc'[c] = "schedule" /\ \A u \in Threads \ {c} : pc'[u] = pc[u]
      BY <3>1, Moved
    <3>3. \A u \in Threads \ {c} : job'[u] = job[u]
      BY <3>1, <1>2
    <3>4. /\ tasks'[job[c].session] = job[c].task
          /\ \A s \in Sessions \ {job[c].session} : tasks'[s] = tasks[s]
      BY <3>1, <1>1 DEF TypeOK, Jobs
    <3>5. tasks[job[c].session] = NoTask
      BY <3>1 DEF SessionInv, At, Alone
    <3>6. \A d \in Callers \ {c} : pc'[d] = pc[d] /\ job'[d] = job[d]
      BY <3>2, <3>3
    <3>7. \A u \in Detachers : pc[u] \in DetachSteps => pc'[u] = pc[u] /\ job'[u] = job[u]
      BY <3>1, <3>2, <3>3 DEF DetachSteps
    <3>8. ASSUME NEW s \in Sessions, lease[s] # NoTask
          PROVE  \/ lease[s] \in {tasks'[s]} \cup dropped
                 \/ \E d \in Callers : pc'[d] \in Leasing /\ job'[d].task = lease[s] /\ job'[d].session = s
                 \/ \E t \in Detachers : pc'[t] \in DetachSteps /\ lease[s] \in job'[t].todo
      <4>1. CASE lease[s] \in {tasks[s]} \cup dropped
        BY <4>1, <3>4, <3>5, <3>8
      <4>2. ASSUME NEW d \in Callers, pc[d] \in Leasing, job[d].task = lease[s], job[d].session = s
            PROVE  lease[s] = tasks'[s] \/ (pc'[d] \in Leasing /\ job'[d].task = lease[s] /\ job'[d].session = s)
        BY <4>2, <3>4, <3>6
      <4>3. ASSUME NEW t \in Detachers, pc[t] \in DetachSteps, lease[s] \in job[t].todo
            PROVE  pc'[t] \in DetachSteps /\ lease[s] \in job'[t].todo
        BY <4>3, <3>7
      <4> QED
        BY <3>8, <4>1, <4>2, <4>3 DEF LeaseInv
    <3> QED
      BY <3>1, <3>8 DEF LeaseInv
  <2>6. CASE TaskClosed(c)
    <3> DEFINE s0 == job[c].session
    <3>1. /\ pc[c] = "closeTask" /\ UNCHANGED <<tasks, dropped, job>> /\ Goto(c, "release")
          /\ lease' = [lease EXCEPT ![s0] = IF @ = job[c].task THEN NoTask ELSE @]
      BY <2>6 DEF TaskClosed, history
    <3>2. pc'[c] = "release" /\ \A u \in Threads \ {c} : pc'[u] = pc[u]
      BY <3>1, Moved
    <3>3. /\ lease'[s0] = IF lease[s0] = job[c].task THEN NoTask ELSE lease[s0]
          /\ \A s \in Sessions \ {s0} : lease'[s] = lease[s]
      BY <3>1, <1>1 DEF TypeOK, Jobs
    <3>4. \A u \in Detachers : pc[u] \in DetachSteps => pc'[u] \in DetachSteps
      BY <3>1, <3>2 DEF DetachSteps
    <3>5. \A d \in Callers \ {c} : pc'[d] = pc[d]
      BY <3>2
    <3>6. ASSUME NEW s \in Sessions, lease'[s] # NoTask
          PROVE  /\ lease'[s] = lease[s]
                 /\ ~ (job[c].task = lease[s] /\ job[c].session = s)
      BY <3>3, <3>6
    <3> HIDE DEF s0
    <3> QED
      BY <3>1, <3>4, <3>5, <3>6 DEF LeaseInv
  <2>7. CASE SchedulingFailed(c)
    <3>1. Detach(c, {job[c].task}) /\ pc[c] = "schedule" /\ c \in Detachers
      BY <2>7 DEF SchedulingFailed, Detachers
    <3> QED
      BY <3>1, LeaseDetached DEF Leasing, DetachSteps
  <2> QED
    BY <1>4, <2>1, <2>2, <2>3, <2>4, <2>5, <2>6, <2>7 DEF StartStep
<1>5. ASSUME NEW t \in Detachers, DetachStep(t) PROVE LeaseInv'
  <2>1. CASE TasksReleased(t)
    <3> DEFINE j == [job[t] EXCEPT !.owed = {r \in References : references'[r].state = "closing"}]
    <3>1. /\ pc[t] = "detached" /\ Goto(t, "owed") /\ UNCHANGED <<tasks, lease, dropped>> /\ Set(t, j)
      BY <2>1 DEF TasksReleased, daemon, history
    <3>2. j.todo = job[t].todo
      BY <1>1 DEF Jobs
    <3> HIDE DEF j
    <3>3. job'[t].todo = job[t].todo /\ \A u \in Threads \ {t} : job'[u] = job[u]
      BY <3>1, <3>2, <1>2
    <3> QED
      BY <3>1, <3>3, LeaseKept DEF Leasing, DetachSteps
  <2>2. CASE AttemptStarted(t)
    <3> DEFINE r == FirstOwed(t)
    <3>1. r \in References
      BY <2>2, <1>1, FirstOwedOwed DEF AttemptStarted, Jobs, TypeOK
    <3>2. /\ pc[r] = "idle" /\ Goto(r, "closing") /\ UNCHANGED <<tasks, lease, dropped>>
          /\ job' = [job EXCEPT ![r].client = references[r].client]
      BY <2>2 DEF AttemptStarted, daemon, history
    <3> HIDE DEF r
    <3>3. \A u \in Threads \ {r} : job'[u] = job[u]
      BY <3>1, <3>2 DEF TypeOK
    <3> QED
      BY <3>1, <3>2, <3>3, LeaseKept DEF Leasing, DetachSteps
  <2>3. CASE ObligationMet(t) \/ ObligationFailed(t)
    <3>1. /\ pc[t] = "owed" /\ UNCHANGED <<tasks, lease, dropped>>
          /\ Set(t, Settled(t)) \/ Set(t, [Settled(t) EXCEPT !.failed = TRUE])
          /\ \/ UNCHANGED pc
             \/ Goto(FirstOwed(t), "idle") /\ pc[FirstOwed(t)] = "failed"
          /\ job[t].owed # {}
      BY <2>3 DEF ObligationMet, ObligationFailed, daemon, history
    <3>2. /\ Settled(t).todo = job[t].todo /\ Settled(t).task = job[t].task
          /\ [Settled(t) EXCEPT !.failed = TRUE].todo = job[t].todo
      BY <1>1 DEF Settled, Jobs
    <3>3. job'[t].todo = job[t].todo /\ \A u \in Threads \ {t} : job'[u] = job[u]
      BY <3>1, <3>2, <1>2
    <3>4. \A u \in Threads : pc[u] # "failed" => pc'[u] = pc[u]
      BY <3>1 DEF Goto, TypeOK
    <3>5. \A d \in Callers : pc[d] \in Leasing => pc'[d] = pc[d] /\ job'[d] = job[d]
      BY <3>1, <3>3, <3>4 DEF Leasing
    <3>6. \A u \in Detachers : pc[u] \in DetachSteps => pc'[u] = pc[u] /\ job'[u].todo = job[u].todo
      BY <3>3, <3>4 DEF DetachSteps
    <3> QED
      BY <3>1, <3>5, <3>6 DEF LeaseInv
  <2>4. CASE DetachOver(t)
    <3>1. /\ pc[t] = "owed" /\ UNCHANGED tasks
          /\ Set(t, [NoJob EXCEPT !.session = job[t].session])
          /\ dropped' = IF job[t].failed THEN dropped \cup job[t].todo ELSE dropped
          /\ \A s \in Sessions :
                lease'[s] = IF lease[s] \in (IF job[t].failed THEN {} ELSE job[t].todo) THEN NoTask
                            ELSE lease[s]
      BY <2>4 DEF DetachOver
    <3>2. PICK x : Goto(t, x)
      BY <2>4 DEF DetachOver
    <3>3. \A u \in Threads \ {t} : pc'[u] = pc[u] /\ job'[u] = job[u]
      BY <3>1, <3>2, <1>2, Moved
    <3>4. \A d \in Callers : pc[d] \in Leasing => pc'[d] = pc[d] /\ job'[d] = job[d]
      BY <3>1, <3>3 DEF Leasing
    <3>5. ASSUME NEW s \in Sessions, lease'[s] # NoTask
          PROVE  /\ lease'[s] = lease[s]
                 /\ lease[s] \in job[t].todo => lease[s] \in dropped'
                 /\ lease[s] \in dropped => lease[s] \in dropped'
      BY <3>1, <3>5
    <3> QED
      BY <3>1, <3>3, <3>4, <3>5 DEF LeaseInv
  <2> QED
    BY <1>5, <2>1, <2>2, <2>3, <2>4 DEF DetachStep
<1>6. ASSUME NEW t \in Threads, AdmissionStep(t) \/ (t \in Openers /\ (CloseStep(t) \/ StopRaised(t)))
      PROVE  LeaseInv'
  <2>1. /\ pc[t] \in {"end", "await"} \cup InClose /\ UNCHANGED <<tasks, lease, dropped, job>>
    BY <1>6
       DEF AdmissionStep, EndAdmission, WaitClosed, CloseStep, HandleDropped, ChildStopped,
           StopRaised, InClose, daemon, history
  <2>2. \E x : Goto(t, x)
    BY <1>6
       DEF AdmissionStep, EndAdmission, WaitClosed, CloseStep, HandleDropped, ChildStopped, StopRaised
  <2>3. pc[t] \notin DetachSteps /\ pc[t] \notin Leasing
    BY <2>1 DEF DetachSteps, Leasing, InClose
  <2> QED
    BY <2>1, <2>2, <2>3, <1>3
<1>7. CASE \/ Answered \/ WorkerExits \/ WorkerDies \/ \E s \in Sessions : Drive(s)
  <2>1. /\ pc[Worker] \in {"idle", "asking"} /\ UNCHANGED <<tasks, lease, dropped>>
        /\ UNCHANGED job \/ \E j : Set(Worker, j)
    BY <1>7 DEF Answered, WorkerExits, WorkerDies, Drive, daemon, history
  <2>2. \E x : Goto(Worker, x)
    BY <1>7 DEF Answered, WorkerExits, WorkerDies, Drive
  <2>3. pc[Worker] \notin DetachSteps /\ pc[Worker] \notin Leasing
    BY <2>1 DEF DetachSteps, Leasing
  <2> QED
    BY <2>1, <2>2, <2>3, <1>3
<1>8. CASE RequestFailed \/ \E T \in SUBSET Published : Retire(T)
  <2>1. PICK T : Detach(Worker, T) /\ pc[Worker] \in {"idle", "asking"}
    BY <1>8 DEF RequestFailed, Retire
  <2> QED
    BY <2>1, LeaseDetached DEF Leasing, DetachSteps, Detachers
<1>9. ASSUME NEW m \in Closers, ShutdownStep(m) \/ CloseBegins(m) PROVE LeaseInv'
  <2>1. CASE Joined(m)
    <3>1. Detach(m, Published) /\ pc[m] = "join" /\ m \in Detachers
      BY <2>1 DEF Joined, Detachers
    <3> QED
      BY <3>1, LeaseDetached DEF Leasing, DetachSteps
  <2>2. CASE Drained(m) \/ CloseEnds(m) \/ CloseBegins(m)
    <3>1. /\ pc[m] \in {"idle", "drain", "ending"} /\ UNCHANGED <<tasks, lease, dropped, job>>
      BY <2>2 DEF Drained, CloseEnds, CloseBegins, daemon, history
    <3>2. \E x : Goto(m, x)
      BY <2>2 DEF Drained, CloseEnds, CloseBegins
    <3>3. pc[m] \notin DetachSteps /\ pc[m] \notin Leasing
      BY <3>1 DEF DetachSteps, Leasing
    <3> QED
      BY <3>1, <3>2, <3>3, <1>3
  <2> QED
    BY <1>9, <2>1, <2>2 DEF ShutdownStep
<1>10. ASSUME NEW t \in Threads,
              \/ t \in Callers /\ \E s \in Sessions : StartAdmitted(t, s)
              \/ t = Reader /\ ReaderAdmitted
       PROVE  LeaseInv'
  <2>1. /\ pc[t] = "idle" /\ UNCHANGED <<tasks, lease, dropped>>
        /\ UNCHANGED job \/ \E j : Set(t, j)
    BY <1>10 DEF StartAdmitted, ReaderAdmitted, history
  <2>2. \E x : Goto(t, x)
    BY <1>10 DEF StartAdmitted, ReaderAdmitted
  <2> QED
    BY <2>1, <2>2, <1>3 DEF DetachSteps, Leasing
<1>11. CASE UNCHANGED vars
  BY <1>11 DEF vars, daemon, history, LeaseInv
<1> QED
  <2>1. CASE Requested
    BY <2>1, <1>7, <1>8, <1>9, <1>10 DEF Requested
  <2>2. CASE Failure
    BY <2>2, <1>4, <1>6, <1>7 DEF Failure, Openers
  <2>3. ASSUME NEW t \in Threads, Progress(t) PROVE LeaseInv'
    BY <2>3, <1>4, <1>5, <1>6, <1>7, <1>8, <1>9 DEF Progress, WorkerStep
  <2> QED
    BY <2>1, <2>2, <2>3, <1>11 DEF Next

(* A step of a thread's own; or of one that waits at the gate whose thread *)
(* it is.                                                                  *)
OwnStep(u) ==
  \/ u \in Callers /\ (StartStep(u) \/ BorrowRaised(u) \/ BeginRaised(u))
  \/ u \in Callers /\ \E s \in Sessions : StartAdmitted(u, s)
  \/ u \in Detachers /\ DetachStep(u)
  \/ u \in Openers /\ (CloseStep(u) \/ StopRaised(u))
  \/ AdmissionStep(u)
  \/ u = Worker /\ (WorkerStep \/ WorkerDies \/ \E s \in Sessions : Drive(s))
  \/ u = Worker /\ \E T \in SUBSET Published : Retire(T)
  \/ u \in Closers /\ (ShutdownStep(u) \/ CloseBegins(u))
  \/ u = Reader /\ ReaderAdmitted
  \/ \E t \in Detachers :
        u = FirstOwed(t) /\ job[t].owed # {} /\ (AttemptStarted(t) \/ ObligationFailed(t))

(* Whoever changes place or work does it in a step of its own.             *)
LEMMA OwnSteps ==
    ASSUME TypeOK, [Next]_vars, NEW u \in Threads
    PROVE  (pc'[u] = pc[u] /\ job'[u] = job[u]) \/ OwnStep(u)
<1> USE Roles
<1> SUFFICES ASSUME ~OwnStep(u) PROVE pc'[u] = pc[u] /\ job'[u] = job[u]
  OBVIOUS
<1>1. ASSUME NEW t, u # t, UNCHANGED pc \/ \E x : Goto(t, x), UNCHANGED job \/ \E j : Set(t, j)
      PROVE  pc'[u] = pc[u] /\ job'[u] = job[u]
  BY <1>1 DEF Goto, Set, TypeOK
<1>2. ASSUME NEW c \in Callers, StartStep(c) \/ BorrowRaised(c) \/ BeginRaised(c)
      PROVE  pc'[u] = pc[u] /\ job'[u] = job[u]
  <2>1. /\ UNCHANGED pc \/ \E x : Goto(c, x)
        /\ UNCHANGED job \/ \E j : Set(c, j)
    BY <1>2
       DEF StartStep, SessionReserved, Lookup, PoolReserved, PooledClientFound, NoPooledClient,
           ClientCreated, ClientPooled, BorrowReturned, BorrowUndone, BorrowRaised, LeaseTaken,
           TaskBegun, BeginExpired, BeginRaised, TaskPublished, TaskScheduled, TaskClosed,
           ReferenceReleased, StartLeft, SchedulingFailed, Detach
  <2>2. u # c
    BY <1>2 DEF OwnStep
  <2> QED
    BY <2>1, <2>2, <1>1
<1>3. ASSUME NEW t \in Detachers, DetachStep(t) PROVE pc'[u] = pc[u] /\ job'[u] = job[u]
  <2>1. u # t
    BY <1>3 DEF OwnStep
  <2>2. CASE TasksReleased(t) \/ DetachOver(t) \/ ObligationMet(t)
    <3>1. /\ UNCHANGED pc \/ \E x : Goto(t, x)
          /\ UNCHANGED job \/ \E j : Set(t, j)
      BY <2>2 DEF TasksReleased, DetachOver, ObligationMet
    <3> QED
      BY <2>1, <3>1, <1>1
  <2>3. CASE AttemptStarted(t)
    <3> DEFINE q == FirstOwed(t)
    <3>1. /\ job[t].owed # {} /\ Goto(q, "closing")
          /\ job' = [job EXCEPT ![q].client = references[q].client]
      BY <2>3 DEF AttemptStarted
    <3>2. u # q
      BY <2>3, <3>1 DEF OwnStep
    <3> HIDE DEF q
    <3> QED
      BY <3>1, <3>2 DEF Goto, TypeOK
  <2>4. CASE ObligationFailed(t)
    <3> DEFINE q == FirstOwed(t)
    <3>1. /\ job[t].owed # {} /\ Goto(q, "idle")
          /\ Set(t, [Settled(t) EXCEPT !.failed = TRUE])
      BY <2>4 DEF ObligationFailed
    <3>2. u # q
      BY <2>4, <3>1 DEF OwnStep
    <3> HIDE DEF q
    <3> QED
      BY <2>1, <3>1, <3>2 DEF Goto, Set, TypeOK
  <2> QED
    BY <1>3, <2>2, <2>3, <2>4 DEF DetachStep
<1>4. ASSUME NEW t \in Threads, AdmissionStep(t) \/ (t \in Openers /\ (CloseStep(t) \/ StopRaised(t)))
      PROVE  pc'[u] = pc[u] /\ job'[u] = job[u]
  <2>1. UNCHANGED job /\ \E x : Goto(t, x)
    BY <1>4
       DEF AdmissionStep, EndAdmission, WaitClosed, CloseStep, HandleDropped, ChildStopped,
           StopRaised
  <2>2. u # t
    BY <1>4 DEF OwnStep
  <2> QED
    BY <2>1, <2>2, <1>1
<1>5. ASSUME \/ WorkerStep \/ WorkerDies \/ (\E s \in Sessions : Drive(s))
             \/ \E T \in SUBSET Published : Retire(T)
      PROVE  pc'[u] = pc[u] /\ job'[u] = job[u]
  <2>1. /\ \E x : Goto(Worker, x)
        /\ UNCHANGED job \/ \E j : Set(Worker, j)
    BY <1>5
       DEF WorkerStep, Answered, RequestFailed, WorkerExits, WorkerDies, Drive, Retire, Detach
  <2>2. u # Worker
    BY <1>5 DEF OwnStep
  <2> QED
    BY <2>1, <2>2, <1>1
<1>6. ASSUME NEW m \in Closers, ShutdownStep(m) \/ CloseBegins(m)
      PROVE  pc'[u] = pc[u] /\ job'[u] = job[u]
  <2>1. /\ \E x : Goto(m, x)
        /\ UNCHANGED job \/ \E j : Set(m, j)
    BY <1>6 DEF ShutdownStep, Drained, Joined, CloseEnds, CloseBegins, Detach
  <2>2. u # m
    BY <1>6 DEF OwnStep
  <2> QED
    BY <2>1, <2>2, <1>1
<1>7. ASSUME NEW t \in Threads,
             \/ t \in Callers /\ \E s \in Sessions : StartAdmitted(t, s)
             \/ t = Reader /\ ReaderAdmitted
      PROVE  pc'[u] = pc[u] /\ job'[u] = job[u]
  <2>1. /\ \E x : Goto(t, x)
        /\ UNCHANGED job \/ \E j : Set(t, j)
    BY <1>7 DEF StartAdmitted, ReaderAdmitted
  <2>2. u # t
    BY <1>7 DEF OwnStep
  <2> QED
    BY <2>1, <2>2, <1>1
<1>8. CASE UNCHANGED vars
  BY <1>8 DEF vars
<1>9. CASE Requested
  BY <1>9, <1>5, <1>6, <1>7 DEF Requested
<1>10. CASE Failure
  BY <1>10, <1>2, <1>4, <1>5 DEF Failure, Openers
<1>11. ASSUME NEW t \in Threads, Progress(t) PROVE pc'[u] = pc[u] /\ job'[u] = job[u]
  BY <1>11, <1>2, <1>3, <1>4, <1>5, <1>6 DEF Progress
<1> QED
  BY <1>8, <1>9, <1>10, <1>11 DEF Next

(* What steps change the pool's references.                                *)
LEMMA PoolSteps ==
    ASSUME [Next]_vars
    PROVE  \/ UNCHANGED <<references, pooled, given>>
           \/ \E c \in Callers : \/ PooledClientFound(c) \/ ClientPooled(c) \/ BorrowUndone(c)
                                 \/ TaskPublished(c) \/ ReferenceReleased(c)
           \/ \E t \in Detachers : TasksReleased(t) \/ ObligationMet(t)
<1> DEFINE Ok == \/ UNCHANGED <<references, pooled, given>>
                 \/ \E c \in Callers : \/ PooledClientFound(c) \/ ClientPooled(c) \/ BorrowUndone(c)
                                       \/ TaskPublished(c) \/ ReferenceReleased(c)
                 \/ \E t \in Detachers : TasksReleased(t) \/ ObligationMet(t)
<1>1. ASSUME UNCHANGED <<references, pooled, given>> PROVE Ok
  BY <1>1
<1>2. ASSUME NEW c \in Callers, StartStep(c) \/ BorrowRaised(c) \/ BeginRaised(c) PROVE Ok
  <2>1. CASE \/ SessionReserved(c) \/ Lookup(c) \/ PoolReserved(c) \/ NoPooledClient(c)
             \/ ClientCreated(c) \/ BorrowReturned(c) \/ BorrowRaised(c) \/ LeaseTaken(c)
             \/ TaskBegun(c) \/ BeginExpired(c) \/ BeginRaised(c) \/ TaskScheduled(c)
             \/ TaskClosed(c) \/ StartLeft(c) \/ SchedulingFailed(c)
    <3>1. UNCHANGED <<references, pooled, given>>
      BY <2>1
         DEF SessionReserved, Lookup, PoolReserved, NoPooledClient, ClientCreated,
             BorrowReturned, BorrowRaised, LeaseTaken, TaskBegun, BeginExpired, BeginRaised,
             TaskScheduled, TaskClosed, StartLeft, SchedulingFailed, Detach, pool
    <3> QED
      BY <3>1, <1>1
  <2>2. CASE \/ PooledClientFound(c) \/ ClientPooled(c) \/ BorrowUndone(c)
             \/ TaskPublished(c) \/ ReferenceReleased(c)
    BY <2>2
  <2> QED
    BY <1>2, <2>1, <2>2 DEF StartStep
<1>3. ASSUME NEW t \in Detachers, DetachStep(t) PROVE Ok
  <2>1. CASE AttemptStarted(t) \/ ObligationFailed(t) \/ DetachOver(t)
    BY <2>1, <1>1 DEF AttemptStarted, ObligationFailed, DetachOver, pool
  <2>2. CASE TasksReleased(t) \/ ObligationMet(t)
    BY <2>2
  <2> QED
    BY <1>3, <2>1, <2>2 DEF DetachStep
<1> HIDE DEF Ok
<1>4. ASSUME NEW t \in Threads, AdmissionStep(t) \/ CloseStep(t) \/ StopRaised(t) PROVE Ok
  BY <1>4, <1>1
     DEF AdmissionStep, EndAdmission, WaitClosed, CloseStep, HandleDropped, ChildStopped,
         StopRaised, pool
<1>5. ASSUME WorkerStep \/ WorkerDies PROVE Ok
  BY <1>5, <1>1 DEF WorkerStep, Answered, RequestFailed, WorkerExits, WorkerDies, Detach, pool
<1>6. ASSUME NEW m \in Closers, ShutdownStep(m) PROVE Ok
  BY <1>6, <1>1 DEF ShutdownStep, Drained, Joined, CloseEnds, Detach, pool
<1>7. ASSUME Requested PROVE Ok
  <2>1. ASSUME NEW T \in SUBSET Published, Retire(T) PROVE Ok
    BY <2>1, <1>1 DEF Retire, Detach, pool
  <2> QED
    BY <1>7, <2>1, <1>1 DEF Requested, StartAdmitted, Drive, CloseBegins, ReaderAdmitted, pool
<1>8. ASSUME UNCHANGED vars PROVE Ok
  BY <1>8, <1>1 DEF vars, pool
<1>9. Ok
  BY <1>2, <1>3, <1>4, <1>5, <1>6, <1>7, <1>8, Roles DEF Next, Progress, Failure
<1> QED
  BY <1>9 DEF Ok

(* What a released reference becomes.                                      *)
LEMMA ReleaseEffect ==
    ASSUME TypeOK, NEW S \in SUBSET Active, Release(S)
    PROVE  /\ \A r \in References \ S : references'[r] = references[r]
           /\ \A r \in S : \/ references'[r].state = "gone"
                           \/ /\ references'[r] = [client |-> pooled, state |-> "closing"]
                              /\ Active \subseteq S /\ pooled # Nobody
           /\ Active' = Active \ S
           /\ \/ pooled' = pooled
              \/ /\ pooled' = Nobody /\ Active \subseteq S
                 /\ \E r \in S : references'[r] = [client |-> pooled, state |-> "closing"]
           /\ S # {} /\ Active \subseteq S => pooled' = Nobody
<1> DEFINE last == S # {} /\ Active \subseteq S /\ pooled # Nobody
           kept == IF last THEN {Greatest(S)} ELSE {}
<1>1. S \subseteq References
  BY DEF Active, InState
<1>2. kept \subseteq S
  BY <1>1, GreatestIsMember
<1>3. references' = Released(kept, S) /\ pooled' = IF last THEN Nobody ELSE pooled
  BY DEF Release
<1>4. /\ last => S # {} /\ Active \subseteq S /\ pooled # Nobody /\ kept # {}
      /\ ~last => kept = {}
      /\ S # {} /\ Active \subseteq S => last \/ pooled = Nobody
  OBVIOUS
<1> HIDE DEF last, kept
<1>5. \A r \in References \ S : references'[r] = references[r]
  BY <1>2, <1>3 DEF Released
<1>6. \A r \in kept : references'[r] = [client |-> pooled, state |-> "closing"]
  BY <1>1, <1>2, <1>3 DEF Released
<1>7. \A r \in S \ kept : references'[r].state = "gone"
  BY <1>1, <1>3 DEF Released, TypeOK, PoolTypeOK
<1>8. Active' = Active \ S
  <2>1. \A r \in S : references'[r].state \notin {"borrowed", "installed"}
    BY <1>6, <1>7
  <2> QED
    BY <2>1, <1>1, <1>5 DEF Active, InState
<1> QED
  BY <1>2, <1>3, <1>4, <1>5, <1>6, <1>7, <1>8

(* What the start releases that could not begin, and a detachment.         *)
LEMMA ReleasedSets ==
    ASSUME IInv
    PROVE  /\ \A c \in Callers : {job[c].task} \cap Active \in SUBSET Active
           /\ \A t \in Detachers : pc[t] = "detached" =>
                /\ FirstInstalled(Cardinality(job[t].todo)) \in SUBSET Active
                /\ FirstInstalled(Cardinality(job[t].todo)) \in SUBSET Installed
                /\ Cardinality(FirstInstalled(Cardinality(job[t].todo))) = Cardinality(job[t].todo)
<1>1. TypeOK /\ OneCountPerTask
  BY DEF IInv, Sharing, DetachInv
<1>2. ASSUME NEW t \in Detachers, pc[t] = "detached"
      PROVE  /\ FirstInstalled(Cardinality(job[t].todo)) \in SUBSET Installed
             /\ Cardinality(FirstInstalled(Cardinality(job[t].todo))) = Cardinality(job[t].todo)
  <2>1. job[t].todo \subseteq Counted
    BY <1>2 DEF Leaving, Counted
  <2>2. Cardinality(job[t].todo) \in Nat /\ Cardinality(job[t].todo) <= Cardinality(Installed)
    BY <2>1, <1>1, FS_Subset, FS_CardinalityType, CountedReferences DEF OneCountPerTask, Counted
  <2> QED
    BY <2>2, FirstExist
<1> QED
  BY <1>1, <1>2, CountedReferences

(* What a step may do to a reference.                                      *)
LEMMA ReferenceSteps ==
    ASSUME IInv, [Next]_vars, NEW r \in References
    PROVE  /\ \/ references'[r] = references[r]
              \/ references[r].state = "gone" /\ r = given + 1
              \/ references[r].state \in {"borrowed", "installed"}
              \/ references[r].state = "closing" /\ pc[r] = "done" /\ references'[r].state = "gone"
           /\ given \in Nat /\ given' \in {given, given + 1}
<1> USE Roles
<1>1. TypeOK /\ PlaceInv /\ CountInv /\ Sharing
  BY DEF IInv
<1>2. given \in Nat /\ references[r] \in [client : 0 .. made, state : States]
  BY <1>1 DEF TypeOK, PoolTypeOK
<1> DEFINE Ok == /\ \/ references'[r] = references[r]
                    \/ references[r].state = "gone" /\ r = given + 1
                    \/ references[r].state \in {"borrowed", "installed"}
                    \/ references[r].state = "closing" /\ pc[r] = "done" /\ references'[r].state = "gone"
                 /\ given' \in {given, given + 1}
<1> SUFFICES Ok
  BY <1>2
<1>3. ASSUME UNCHANGED <<references, given>> PROVE Ok
  BY <1>3
<1>4. ASSUME NEW S \in SUBSET Active, Release(S), UNCHANGED given PROVE Ok
  BY <1>1, <1>4, ReleaseEffect DEF Active, InState
<1>5. ASSUME NEW c \in Callers, PooledClientFound(c) \/ ClientPooled(c) PROVE Ok
  <2>1. PICK k : Record(k)
    BY <1>5 DEF PooledClientFound, ClientPooled
  <2>2. /\ given' = given + 1
        /\ references' = [references EXCEPT ![given + 1] = [client |-> k, state |-> "borrowed"]]
    BY <2>1 DEF Record
  <2>3. r # given + 1 => references'[r] = references[r]
    BY <2>2, <1>1 DEF TypeOK, PoolTypeOK
  <2>4. r = given + 1 => ~ (r <= given)
    BY <1>2
  <2>5. r = given + 1 => references[r].state = "gone"
    BY <2>4, <1>1 DEF Sharing, ReferenceInv
  <2> QED
    BY <2>2, <2>3, <2>5
<1>6. ASSUME NEW c \in Callers, BorrowUndone(c) PROVE Ok
  <2>1. references' = Released({}, {job[c].task} \ {NoTask}) /\ UNCHANGED given /\ pc[c] = "undo"
    BY <1>6 DEF BorrowUndone
  <2>2. r = job[c].task /\ r # NoTask => references[r].state = "borrowed"
    BY <2>1, <1>1 DEF Sharing, BorrowInv, StartInv
  <2> QED
    BY <2>1, <2>2 DEF Released
<1>7. ASSUME NEW c \in Callers, TaskPublished(c) PROVE Ok
  <2>1. references' = Committed(job[c].task) /\ UNCHANGED given /\ pc[c] = "install"
    BY <1>7 DEF TaskPublished
  <2>2. r = job[c].task => references[r].state = "borrowed"
    BY <2>1, <1>1 DEF Sharing, BorrowInv, StartInv, Holding
  <2>3. r # job[c].task => references'[r] = references[r]
    BY <2>1, <1>1 DEF Committed, TypeOK, PoolTypeOK
  <2> QED
    BY <2>1, <2>2, <2>3
<1>8. ASSUME NEW t \in Detachers, ObligationMet(t) PROVE Ok
  <2> DEFINE q == FirstOwed(t)
  <2>1. /\ pc[t] = "owed" /\ job[t].owed # {}
        /\ references[q].state # "closing" \/ pc[q] = "done"
        /\ references' = Released({}, {q}) /\ UNCHANGED given
    BY <1>8 DEF ObligationMet
  <2>2. q \in job[t].owed
    BY <1>1, <2>1, FirstOwedOwed
  <2>3. references[q].state \in {"closing", "gone"}
    BY <1>1, <2>1, <2>2 DEF Sharing, DetachInv
  <2> HIDE DEF q
  <2>4. r # q => references'[r] = references[r]
    BY <2>1 DEF Released
  <2>5. r = q => references'[r] = [references[r] EXCEPT !.state = "gone"]
    BY <2>1 DEF Released
  <2>6. r = q => /\ references'[r].state = "gone"
                 /\ references[r].state = "gone" => references'[r] = references[r]
    BY <2>5, <1>2
  <2> QED
    BY <2>1, <2>3, <2>4, <2>6
<1>9. ASSUME NEW c \in Callers, ReferenceReleased(c) PROVE Ok
  BY <1>4, <1>9, ReleasedSets DEF ReferenceReleased
<1>10. ASSUME NEW t \in Detachers, TasksReleased(t) PROVE Ok
  BY <1>4, <1>10, ReleasedSets DEF TasksReleased
<1> HIDE DEF Ok
<1> QED
  BY <1>3, <1>5, <1>6, <1>7, <1>8, <1>9, <1>10, PoolSteps

(* What a step may do to the thread of a reference's gate.                 *)
LEMMA GateSteps ==
    ASSUME IInv, [Next]_vars, NEW r \in References
    PROVE  \/ pc'[r] = pc[r] /\ job'[r] = job[r]
           \/ /\ UNCHANGED references
              /\ \/ /\ pc[r] = "idle" /\ pc'[r] = "closing" /\ r <= given
                    /\ references[r].state = "closing" /\ job'[r].client = references[r].client
                 \/ pc[r] \in InClose /\ pc'[r] \in CloseSteps /\ job'[r] = job[r]
                 \/ pc[r] = "failed" /\ pc'[r] = "idle"
<1> USE Roles
<1>1. TypeOK /\ PlaceInv /\ Sharing
  BY DEF IInv
<1> DEFINE Same == pc'[r] = pc[r] /\ job'[r] = job[r]
           Moves == /\ UNCHANGED references
                    /\ \/ /\ pc[r] = "idle" /\ pc'[r] = "closing" /\ r <= given
                          /\ references[r].state = "closing" /\ job'[r].client = references[r].client
                       \/ pc[r] \in InClose /\ pc'[r] \in CloseSteps /\ job'[r] = job[r]
                       \/ pc[r] = "failed" /\ pc'[r] = "idle"
<1>2. ASSUME NEW t \in Detachers, AttemptStarted(t), r = FirstOwed(t), job[t].owed # {} PROVE Moves
  <2>1. /\ pc[t] = "owed" /\ references[r].state = "closing"
        /\ pc[r] = "idle" /\ Goto(r, "closing") /\ UNCHANGED references
        /\ job' = [job EXCEPT ![r].client = references[r].client]
    BY <1>2 DEF AttemptStarted, pool
  <2>2. r \in job[t].owed
    BY <1>1, <1>2, FirstOwedOwed
  <2>3. r <= given
    BY <1>1, <2>1, <2>2 DEF Sharing, DetachInv
  <2>4. pc'[r] = "closing" /\ job'[r].client = references[r].client
    BY <2>1, <1>1 DEF Goto, TypeOK, Jobs
  <2> QED
    BY <2>1, <2>3, <2>4
<1>3. ASSUME NEW t \in Detachers, ObligationFailed(t), r = FirstOwed(t) PROVE Moves
  BY <1>1, <1>3 DEF ObligationFailed, Goto, TypeOK, pool
<1>4. ASSUME CloseStep(r) \/ StopRaised(r) \/ AdmissionStep(r) PROVE Moves
  <2>1. UNCHANGED <<references, job>>
    BY <1>4
       DEF CloseStep, HandleDropped, ChildStopped, StopRaised, AdmissionStep, EndAdmission,
           WaitClosed, pool
  <2>2. pc[r] # "await" /\ pc[r] # "end" /\ r \in Openers
    BY <1>1 DEF PlaceInv, CloseSteps, Openers
  <2>3. pc[r] \in InClose
    BY <1>4, <2>2
       DEF CloseStep, HandleDropped, ChildStopped, StopRaised, AdmissionStep, EndAdmission,
           WaitClosed, InClose
  <2>4. \E x \in CloseSteps : Goto(r, x)
    BY <1>4, <2>2
       DEF CloseStep, HandleDropped, ChildStopped, StopRaised, AdmissionStep, EndAdmission,
           WaitClosed, AfterAdmission, Closed, CloseRaised, CloseSteps
  <2> QED
    BY <2>1, <2>3, <2>4, <1>1 DEF Goto, TypeOK
<1> HIDE DEF Moves
<1>5. OwnStep(r) => Moves
  BY <1>2, <1>3, <1>4 DEF OwnStep, Detachers
<1>6. Same \/ Moves
  BY <1>1, <1>5, OwnSteps
<1> QED
  BY <1>6 DEF Moves

(* Every step keeps the attempts about what is owed.                       *)
LEMMA AttemptNext ==
    ASSUME IInv, AttemptInv, [Next]_vars
    PROVE  AttemptInv'
<1> SUFFICES ASSUME NEW r \in References, pc'[r] # "idle"
             PROVE  /\ r <= given'
                    /\ \/ references'[r].state = "closing"
                       \/ references'[r].state = "gone" /\ pc'[r] = "done"
                    /\ references'[r].state = "closing" => job'[r].client = references'[r].client
  BY DEF AttemptInv
<1>1. pc[r] # "idle" =>
        /\ r <= given
        /\ references[r].state = "closing" \/ (references[r].state = "gone" /\ pc[r] = "done")
        /\ references[r].state = "closing" => job[r].client = references[r].client
  BY DEF AttemptInv
<1>2. r <= given => r <= given' /\ r # given + 1
  BY ReferenceSteps DEF References
<1>3. CASE pc'[r] = pc[r] /\ job'[r] = job[r]
  BY <1>1, <1>2, <1>3, ReferenceSteps
<1>4. CASE UNCHANGED references
  BY <1>1, <1>2, <1>4, GateSteps DEF InClose
<1> QED
  BY <1>3, <1>4, GateSteps

(* A start keeps its reference until it commits or returns it.             *)
LEMMA BorrowerSteps ==
    ASSUME IInv, [Next]_vars, NEW c \in Callers, pc[c] \in Holding \cup {"undo"}
    PROVE  \/ pc'[c] \in Holding \cup {"undo"} /\ job'[c].task = job[c].task
           \/ BorrowUndone(c) \/ TaskPublished(c) \/ ReferenceReleased(c)
<1> USE Roles
<1>1. TypeOK /\ job[c] \in Jobs
  BY DEF IInv, TypeOK
<1>2. CASE BorrowRaised(c) \/ BeginRaised(c)
  <2>1. UNCHANGED job /\ \E x \in {"undo", "closeTask"} : Goto(c, x)
    BY <1>2 DEF BorrowRaised, BeginRaised
  <2> QED
    BY <2>1, <1>1 DEF Goto, TypeOK, Holding
<1>3. CASE StartStep(c)
  <2>1. CASE BorrowReturned(c)
    <3>1. Goto(c, "initialize") /\ Set(c, [job[c] EXCEPT !.created = Nobody])
      BY <2>1 DEF BorrowReturned
    <3>2. job'[c] = [job[c] EXCEPT !.created = Nobody] /\ pc'[c] = "initialize"
      BY <3>1, <1>1 DEF Goto, Set, TypeOK
    <3> QED
      BY <3>2, <1>1 DEF Holding, Jobs
  <2>2. CASE LeaseTaken(c) \/ TaskBegun(c) \/ BeginExpired(c) \/ TaskClosed(c)
    <3>1. UNCHANGED job /\ \E x \in {"begin", "release", "install", "closeTask"} : Goto(c, x)
      BY <2>2 DEF LeaseTaken, TaskBegun, BeginExpired, TaskClosed
    <3> QED
      BY <3>1, <1>1 DEF Goto, TypeOK, Holding
  <2> QED
    BY <1>3, <2>1, <2>2
       DEF StartStep, SessionReserved, Lookup, PoolReserved, PooledClientFound, NoPooledClient,
           ClientCreated, ClientPooled, TaskScheduled, SchedulingFailed, StartLeft, Holding
<1>4. pc[c] \notin {"idle", "detached", "owed", "end", "await", "blocked", "announcing"} \cup InClose
  BY DEF Holding, InClose
<1>5. ~ DetachStep(c) /\ ~ AdmissionStep(c) /\ ~ CloseStep(c) /\ ~ StopRaised(c)
  BY <1>4
     DEF DetachStep, TasksReleased, AttemptStarted, ObligationMet, ObligationFailed, DetachOver,
         AdmissionStep, EndAdmission, WaitClosed, CloseStep, HandleDropped, ChildStopped,
         StopRaised, InClose
<1>6. \A s \in Sessions : ~StartAdmitted(c, s)
  BY <1>4 DEF StartAdmitted
<1>7. c # Worker /\ c \notin Closers /\ c # Reader
      /\ \A t \in Detachers : job[t].owed # {} => c # FirstOwed(t)
  BY <1>1, FirstOwedOwed
<1>8. OwnStep(c) => StartStep(c) \/ BorrowRaised(c) \/ BeginRaised(c)
  BY <1>5, <1>6, <1>7 DEF OwnStep
<1> QED
  BY <1>1, <1>2, <1>3, <1>8, OwnSteps

(* Every step keeps the borrowers, and the pool from keeping a client that *)
(* nobody refers to.                                                       *)
LEMMA BorrowerNext ==
    ASSUME IInv, IInv', BorrowerInv, [Next]_vars
    PROVE  BorrowerInv'
<1> USE Roles
<1>1. TypeOK /\ TypeOK' /\ CountInv /\ Sharing
  BY DEF IInv
<1> DEFINE Hold == Holding \cup {"undo"}
           Held(r) == \E c \in Callers : pc[c] \in Hold /\ job[c].task = r
           Kept == \A r \in References : references'[r].state = "borrowed" =>
                      \/ references[r].state = "borrowed"
                      \/ \E c \in Callers : pc'[c] \in Hold /\ job'[c].task = r
           Given == \A c \in Callers : (BorrowUndone(c) \/ TaskPublished(c) \/ ReferenceReleased(c)) /\ job[c].task \in References =>
                       references'[job[c].task].state # "borrowed"
           Used == pooled' # Nobody => Active' # {}
<1>2. ASSUME UNCHANGED <<references, pooled>> PROVE Kept /\ Used
  BY <1>2 DEF BorrowerInv, Active, InState
<1>3. ASSUME NEW S \in SUBSET Active, Release(S) PROVE Kept /\ Used
  <2>1. Kept
    BY <1>1, <1>3, ReleaseEffect
  <2>2. Used
    BY <1>1, <1>3, ReleaseEffect DEF BorrowerInv
  <2> QED
    BY <2>1, <2>2
<1>4. ASSUME NEW c \in Callers, PooledClientFound(c) \/ ClientPooled(c) PROVE Kept /\ Used
  <2>1. PICK k : Record(k)
    BY <1>4 DEF PooledClientFound, ClientPooled
  <2>2. /\ Goto(c, "held")
        /\ \/ Set(c, [job[c] EXCEPT !.task = given + 1, !.client = pooled])
           \/ Set(c, [job[c] EXCEPT !.task = given + 1])
    BY <1>4 DEF PooledClientFound, ClientPooled
  <2>3. pc'[c] = "held" /\ job'[c].task = given + 1
    <3>1. job[c] \in Jobs
      BY <1>1 DEF TypeOK
    <3>2. \A n : [job[c] EXCEPT !.task = given + 1, !.client = n].task = given + 1
      BY <3>1, JobBorrows
    <3>3. [job[c] EXCEPT !.task = given + 1].task = given + 1
      BY <3>1, JobBorrows
    <3>4. \E j : Set(c, j) /\ j.task = given + 1
      BY <2>2, <3>2, <3>3
    <3> QED
      BY <2>2, <3>4, <1>1 DEF Goto, Set, TypeOK
  <2>4. given + 1 \in References
    <3>1. given < MaxReferences
      BY <1>1, <1>4, Room DEF PooledClientFound, ClientPooled, Recording, Making
    <3> QED
      BY <3>1, <1>1, PoolTyped
  <2>5. /\ references'[given + 1] = [client |-> k, state |-> "borrowed"]
        /\ \A r \in References \ {given + 1} : references'[r] = references[r]
    BY <2>1, <2>4, <1>1 DEF Record, TypeOK, PoolTypeOK
  <2> HIDE DEF Hold
  <2>6. "held" \in Hold
    BY DEF Hold, Holding
  <2> QED
    BY <2>3, <2>4, <2>5, <2>6 DEF Active, InState
<1>5. ASSUME NEW c \in Callers, BorrowUndone(c) PROVE Kept /\ Used
  <2>1. references' = Released({}, {job[c].task} \ {NoTask}) /\ pooled' = Nobody
    BY <1>5 DEF BorrowUndone
  <2>2. \A r \in References : references'[r] = references[r] \/ references'[r].state = "gone"
    BY <2>1, <1>1 DEF Released, TypeOK, PoolTypeOK
  <2> QED
    BY <2>1, <2>2
<1>6. ASSUME NEW c \in Callers, TaskPublished(c) PROVE Kept /\ Used
  <2>1. references' = Committed(job[c].task) /\ UNCHANGED pooled /\ pc[c] = "install"
    BY <1>6 DEF TaskPublished
  <2>2. references[job[c].task].state = "borrowed"
    BY <2>1, <1>1 DEF Sharing, BorrowInv, StartInv, Holding
  <2>3. \A r \in References : \/ references'[r] = references[r]
                              \/ r = job[c].task /\ references'[r].state = "installed"
    BY <2>1, <1>1 DEF Committed, TypeOK, PoolTypeOK
  <2>4. Kept
    BY <2>3
  <2>5. Active \subseteq Active'
    BY <2>2, <2>3 DEF Active, InState
  <2> QED
    BY <2>1, <2>4, <2>5 DEF BorrowerInv
<1>7. ASSUME NEW t \in Detachers, ObligationMet(t) PROVE Kept /\ Used
  <2> DEFINE q == FirstOwed(t)
  <2>1. /\ pc[t] = "owed" /\ job[t].owed # {}
        /\ references' = Released({}, {q}) /\ UNCHANGED pooled
    BY <1>7 DEF ObligationMet
  <2>2. q \in job[t].owed
    BY <1>1, <2>1, FirstOwedOwed
  <2>3. references[q].state \in {"closing", "gone"}
    BY <1>1, <2>1, <2>2 DEF Sharing, DetachInv
  <2> HIDE DEF q
  <2>4. \A r \in References : references'[r] = references[r] \/ (r = q /\ references'[r].state = "gone")
    BY <2>1, <1>1 DEF Released, TypeOK, PoolTypeOK
  <2>5. Active \subseteq Active'
    BY <2>3, <2>4 DEF Active, InState
  <2> QED
    BY <2>1, <2>4, <2>5 DEF BorrowerInv
<1> HIDE DEF Kept, Used
<1>8. Kept /\ Used
  <2>1. ASSUME NEW c \in Callers, ReferenceReleased(c) PROVE Kept /\ Used
    BY <2>1, <1>3, ReleasedSets DEF ReferenceReleased
  <2>2. ASSUME NEW t \in Detachers, TasksReleased(t) PROVE Kept /\ Used
    BY <2>2, <1>3, ReleasedSets DEF TasksReleased
  <2> QED
    BY <2>1, <2>2, <1>2, <1>4, <1>5, <1>6, <1>7, PoolSteps
<1>9. Given
  <2>1. ASSUME NEW c \in Callers, BorrowUndone(c), job[c].task \in References
        PROVE  references'[job[c].task].state # "borrowed"
    <3>1. references' = Released({}, {job[c].task} \ {NoTask})
      BY <2>1 DEF BorrowUndone
    <3>2. job[c].task # NoTask
      BY <2>1 DEF References, NoTask
    <3>3. references'[job[c].task].state = "gone"
      BY <2>1, <3>1, <3>2, <1>1 DEF Released, TypeOK, PoolTypeOK
    <3> QED
      BY <3>3
  <2>2. ASSUME NEW c \in Callers, TaskPublished(c), job[c].task \in References
        PROVE  references'[job[c].task].state # "borrowed"
    <3>1. references' = [references EXCEPT ![job[c].task].state = "installed"]
      BY <2>2 DEF TaskPublished, Committed
    <3>2. references'[job[c].task].state = "installed"
      BY <2>2, <3>1, <1>1 DEF TypeOK, PoolTypeOK
    <3> QED
      BY <3>2
  <2>3. ASSUME NEW c \in Callers, ReferenceReleased(c), job[c].task \in References
        PROVE  references'[job[c].task].state # "borrowed"
    <3>1. Release({job[c].task} \cap Active) /\ pc[c] = "release"
      BY <2>3 DEF ReferenceReleased
    <3>2. references[job[c].task].state = "borrowed"
      BY <3>1, <1>1 DEF Sharing, BorrowInv, StartInv, Holding
    <3>3. job[c].task \in {job[c].task} \cap Active
      BY <2>3, <3>2 DEF Active, InState
    <3>4. {job[c].task} \cap Active \in SUBSET Active
      OBVIOUS
    <3>5. job[c].task \notin Active'
      BY <3>1, <3>3, <3>4, <1>1, ReleaseEffect
    <3> QED
      BY <2>3, <3>5 DEF Active, InState
  <2> QED
    BY <2>1, <2>2, <2>3
<1>10. ASSUME NEW r \in References, references'[r].state = "borrowed"
       PROVE  \E c \in Callers : pc'[c] \in Hold /\ job'[c].task = r
  <2>1. CASE references[r].state # "borrowed"
    BY <1>8, <1>10, <2>1 DEF Kept
  <2>2. CASE references[r].state = "borrowed"
    <3>1. PICK c \in Callers : pc[c] \in Hold /\ job[c].task = r
      BY <2>2 DEF BorrowerInv, InState
    <3>2. pc'[c] \in Hold /\ job'[c].task = job[c].task
      BY <3>1, <1>9, <1>10, BorrowerSteps
    <3> QED
      BY <3>1, <3>2
  <2> QED
    BY <2>1, <2>2
<1> QED
  BY <1>8, <1>10 DEF Used, BorrowerInv, InState

(* What steps start and finish a close, and what steps reserve a session.  *)
LEMMA FlagSteps ==
    ASSUME [Next]_vars
    PROVE  /\ \/ UNCHANGED <<closeStarted, closeFinished>>
              \/ \E m \in Closers : CloseBegins(m) \/ CloseEnds(m)
           /\ \/ UNCHANGED sessions
              \/ \E c \in Callers : SessionReserved(c) \/ StartLeft(c)
<1> DEFINE Ok == /\ \/ UNCHANGED <<closeStarted, closeFinished>>
                    \/ \E m \in Closers : CloseBegins(m) \/ CloseEnds(m)
                 /\ \/ UNCHANGED sessions
                    \/ \E c \in Callers : SessionReserved(c) \/ StartLeft(c)
<1>1. ASSUME UNCHANGED <<sessions, closeStarted, closeFinished>> PROVE Ok
  BY <1>1
<1>2. ASSUME NEW c \in Callers, StartStep(c) \/ BorrowRaised(c) \/ BeginRaised(c) PROVE Ok
  <2>1. CASE SessionReserved(c) \/ StartLeft(c)
    BY <2>1 DEF SessionReserved, StartLeft
  <2>2. CASE ~ (SessionReserved(c) \/ StartLeft(c))
    <3>1. UNCHANGED <<sessions, closeStarted, closeFinished>>
      BY <1>2, <2>2
         DEF StartStep, Lookup, PoolReserved, PooledClientFound, NoPooledClient, ClientCreated,
             ClientPooled, BorrowReturned, BorrowUndone, BorrowRaised, LeaseTaken, TaskBegun,
             BeginExpired, BeginRaised, TaskPublished, TaskScheduled, TaskClosed,
             ReferenceReleased, SchedulingFailed, Detach, daemon
    <3> QED
      BY <3>1, <1>1
  <2> QED
    BY <2>1, <2>2
<1>3. ASSUME NEW m \in Closers, ShutdownStep(m) \/ CloseBegins(m) PROVE Ok
  <2>1. CASE CloseBegins(m) \/ CloseEnds(m)
    BY <2>1 DEF CloseBegins, CloseEnds
  <2>2. CASE Drained(m) \/ Joined(m)
    BY <2>2, <1>1 DEF Drained, Joined, Detach, daemon
  <2> QED
    BY <1>3, <2>1, <2>2 DEF ShutdownStep
<1> HIDE DEF Ok
<1>4. ASSUME NEW t, DetachStep(t) \/ AdmissionStep(t) \/ CloseStep(t) \/ StopRaised(t) PROVE Ok
  <2>1. UNCHANGED <<sessions, closeStarted, closeFinished>>
    BY <1>4
       DEF DetachStep, TasksReleased, AttemptStarted, ObligationMet, ObligationFailed,
           DetachOver, AdmissionStep, EndAdmission, WaitClosed, CloseStep, HandleDropped,
           ChildStopped, StopRaised, daemon
  <2> QED
    BY <2>1, <1>1
<1>5. ASSUME \/ WorkerStep \/ WorkerDies \/ ReaderAdmitted \/ (\E s \in Sessions : Drive(s))
             \/ (\E T \in SUBSET Published : Retire(T))
             \/ \E c \in Callers, s \in Sessions : StartAdmitted(c, s)
      PROVE  Ok
  <2>1. UNCHANGED <<sessions, closeStarted, closeFinished>>
    <3>1. ASSUME NEW T \in SUBSET Published, Retire(T)
          PROVE  UNCHANGED <<sessions, closeStarted, closeFinished>>
      BY <3>1 DEF Retire, Detach
    <3> QED
      BY <1>5, <3>1
         DEF WorkerStep, Answered, RequestFailed, WorkerExits, WorkerDies, ReaderAdmitted,
             Drive, StartAdmitted, Detach, daemon
  <2> QED
    BY <2>1, <1>1
<1>6. ASSUME UNCHANGED vars PROVE Ok
  BY <1>6, <1>1 DEF vars, daemon
<1>7. Ok
  BY <1>2, <1>3, <1>4, <1>5, <1>6 DEF Next, Requested, Failure, Progress
<1> QED
  BY <1>7 DEF Ok

(* A closer gets under way by a first close().                             *)
LEMMA CloserSteps ==
    ASSUME TypeOK, PlaceInv, [Next]_vars, NEW m \in Closers
    PROVE  /\ \/ pc'[m] = pc[m] /\ job'[m] = job[m]
              \/ ShutdownStep(m) \/ CloseBegins(m) \/ DetachStep(m) \/ WaitClosed(m)
           /\ \/ pc'[m] \in ShutdownSteps \cup DetachSteps =>
                   pc[m] \in ShutdownSteps \cup DetachSteps
              \/ CloseBegins(m) /\ ~closeStarted
<1> USE Roles
<1>1. pc[m] \in {"idle", "await"} \cup ShutdownSteps \cup DetachSteps
  BY DEF PlaceInv
<1>2. /\ m \notin Callers /\ m # Worker /\ m # Reader
      /\ \A t \in Detachers : job[t].owed # {} => m # FirstOwed(t)
  BY FirstOwedOwed
<1>3. m \notin Openers /\ ~EndAdmission(m)
  BY <1>1 DEF Openers, EndAdmission, ShutdownSteps, DetachSteps
<1>4. OwnStep(m) => DetachStep(m) \/ WaitClosed(m) \/ ShutdownStep(m) \/ CloseBegins(m)
  BY <1>2, <1>3 DEF OwnStep, AdmissionStep
<1>5. CASE CloseBegins(m) \/ WaitClosed(m)
  <2>1. \/ pc'[m] \in {"await", "idle", "stopping"}
        \/ CloseBegins(m) /\ ~closeStarted
    BY <1>5 DEF CloseBegins, WaitClosed, Goto, TypeOK
  <2> QED
    BY <1>5, <2>1 DEF ShutdownSteps, DetachSteps
<1>6. CASE ShutdownStep(m)
  <2>1. pc[m] \in ShutdownSteps
    BY <1>6 DEF ShutdownStep, Drained, Joined, CloseEnds, ShutdownSteps
  <2> QED
    BY <1>6, <2>1
<1>7. CASE DetachStep(m)
  <2>1. pc[m] \in DetachSteps
    BY <1>7
       DEF DetachStep, TasksReleased, AttemptStarted, ObligationMet, ObligationFailed,
           DetachOver, DetachSteps
  <2> QED
    BY <1>7, <2>1
<1>8. CASE pc'[m] = pc[m] /\ job'[m] = job[m]
  BY <1>8
<1> QED
  BY <1>4, <1>5, <1>6, <1>7, <1>8, OwnSteps

(* A start keeps its session until it leaves it.                           *)
LEMMA SessionSteps ==
    ASSUME TypeOK, PlaceInv, [Next]_vars, NEW c \in Callers, pc[c] \in InSession
    PROVE  \/ pc'[c] \in InSession /\ job'[c].session = job[c].session
           \/ StartLeft(c)
<1> USE Roles
<1>1. job[c] \in Jobs
  BY DEF TypeOK
<1>2. ASSUME NEW x \in InSession, Goto(c, x),
             UNCHANGED job \/ \E j : Set(c, j) /\ j.session = job[c].session
      PROVE  pc'[c] \in InSession /\ job'[c].session = job[c].session
  BY <1>2 DEF Goto, Set, TypeOK
<1>9. /\ \A n, k : Set(c, [job[c] EXCEPT !.task = n, !.client = k]) => job'[c].session = job[c].session
      /\ \A n, k : Set(c, [job[c] EXCEPT !.client = n, !.created = k]) => job'[c].session = job[c].session
      /\ \A n : Set(c, [job[c] EXCEPT !.task = n]) => job'[c].session = job[c].session
      /\ \A n : Set(c, [job[c] EXCEPT !.client = n]) => job'[c].session = job[c].session
      /\ \A n : Set(c, [job[c] EXCEPT !.created = n]) => job'[c].session = job[c].session
      /\ \A S : Set(c, [job[c] EXCEPT !.todo = S]) => job'[c].session = job[c].session
      /\ \A S : Set(c, [job[c] EXCEPT !.owed = S]) => job'[c].session = job[c].session
      /\ \A S : Set(c, [job[c] EXCEPT !.owed = S, !.failed = TRUE]) => job'[c].session = job[c].session
  <2>1. \A j : Set(c, j) => job'[c] = j
    BY DEF Set, TypeOK
  <2>2. \A n, k : Set(c, [job[c] EXCEPT !.task = n, !.client = k]) => job'[c].session = job[c].session
    <3>1. \A n, k : [job[c] EXCEPT !.task = n, !.client = k].session = job[c].session
      BY <1>1, JobSession
    <3> QED
      BY <2>1, <3>1
  <2>3. \A n, k : Set(c, [job[c] EXCEPT !.client = n, !.created = k]) => job'[c].session = job[c].session
    <3>1. \A n, k : [job[c] EXCEPT !.client = n, !.created = k].session = job[c].session
      BY <1>1, JobSession
    <3> QED
      BY <2>1, <3>1
  <2>4. \A n : Set(c, [job[c] EXCEPT !.task = n]) => job'[c].session = job[c].session
    <3>1. \A n : [job[c] EXCEPT !.task = n].session = job[c].session
      BY <1>1, JobSession
    <3> QED
      BY <2>1, <3>1
  <2>5. \A n : Set(c, [job[c] EXCEPT !.client = n]) => job'[c].session = job[c].session
    <3>1. \A n : [job[c] EXCEPT !.client = n].session = job[c].session
      BY <1>1, JobSession
    <3> QED
      BY <2>1, <3>1
  <2>6. \A n : Set(c, [job[c] EXCEPT !.created = n]) => job'[c].session = job[c].session
    <3>1. \A n : [job[c] EXCEPT !.created = n].session = job[c].session
      BY <1>1, JobSession
    <3> QED
      BY <2>1, <3>1
  <2>7. \A S : Set(c, [job[c] EXCEPT !.todo = S]) => job'[c].session = job[c].session
    <3>1. \A S : [job[c] EXCEPT !.todo = S].session = job[c].session
      BY <1>1, JobSession
    <3> QED
      BY <2>1, <3>1
  <2>8. \A S : Set(c, [job[c] EXCEPT !.owed = S]) => job'[c].session = job[c].session
    <3>1. \A S : [job[c] EXCEPT !.owed = S].session = job[c].session
      BY <1>1, JobSession
    <3> QED
      BY <2>1, <3>1
  <2>9. \A S : Set(c, [job[c] EXCEPT !.owed = S, !.failed = TRUE]) => job'[c].session = job[c].session
    <3>1. \A S : [job[c] EXCEPT !.owed = S, !.failed = TRUE].session = job[c].session
      BY <1>1, JobSession
    <3> QED
      BY <2>1, <3>1
  <2> QED
    BY <2>2, <2>3, <2>4, <2>5, <2>6, <2>7, <2>8, <2>9
<1>10. ASSUME NEW x \in InSession, Goto(c, x), job'[c].session = job[c].session
       PROVE  pc'[c] \in InSession /\ job'[c].session = job[c].session
  BY <1>10 DEF Goto, TypeOK
<1> USE DEF InSession, StartSteps, DetachSteps, InClose
<1>3. CASE BorrowRaised(c) \/ BeginRaised(c)
  <2>1. UNCHANGED job /\ \E x \in InSession : Goto(c, x)
    BY <1>3 DEF BorrowRaised, BeginRaised
  <2> QED
    BY <2>1, <1>2
<1>4. CASE StartStep(c)
  <2>1. CASE \/ NoPooledClient(c) \/ PoolReserved(c) \/ LeaseTaken(c) \/ TaskBegun(c)
             \/ BeginExpired(c) \/ TaskScheduled(c) \/ TaskClosed(c)
    <3>1. UNCHANGED job /\ \E x \in InSession : Goto(c, x)
      BY <2>1
         DEF NoPooledClient, PoolReserved, LeaseTaken, TaskBegun, BeginExpired, TaskScheduled,
             TaskClosed
    <3> QED
      BY <3>1, <1>2
  <2>2. CASE \/ Lookup(c) \/ PooledClientFound(c) \/ ClientCreated(c) \/ ClientPooled(c)
    <3>1. /\ \E x \in InSession : Goto(c, x)
          /\ \/ \E n, k : Set(c, [job[c] EXCEPT !.task = n, !.client = k])
             \/ \E n : Set(c, [job[c] EXCEPT !.task = n])
             \/ \E n, k : Set(c, [job[c] EXCEPT !.client = n, !.created = k])
      BY <2>2 DEF Lookup, PooledClientFound, ClientCreated, ClientPooled
    <3> QED
      BY <3>1, <1>9, <1>10
  <2>3. CASE \/ BorrowReturned(c) \/ BorrowUndone(c) \/ TaskPublished(c) \/ ReferenceReleased(c)
    <3>1. /\ \E x \in InSession : Goto(c, x)
          /\ \/ \E n : Set(c, [job[c] EXCEPT !.client = n])
             \/ \E n : Set(c, [job[c] EXCEPT !.created = n])
             \/ \E S : Set(c, [job[c] EXCEPT !.owed = S])
      BY <2>3 DEF BorrowReturned, BorrowUndone, TaskPublished, ReferenceReleased
    <3> QED
      BY <3>1, <1>9, <1>10
  <2>4. CASE SchedulingFailed(c)
    <3>1. Goto(c, "detached") /\ \E S : Set(c, [job[c] EXCEPT !.todo = S])
      BY <2>4 DEF SchedulingFailed, Detach
    <3> QED
      BY <3>1, <1>9, <1>10
  <2> QED
    BY <1>4, <2>1, <2>2, <2>3, <2>4 DEF StartStep, SessionReserved
<1>5. CASE DetachStep(c)
  <2>1. CASE TasksReleased(c)
    <3>1. Goto(c, "owed") /\ \E S : Set(c, [job[c] EXCEPT !.owed = S])
      BY <2>1 DEF TasksReleased
    <3> QED
      BY <3>1, <1>9, <1>10
  <2>2. CASE AttemptStarted(c) \/ ObligationMet(c) \/ ObligationFailed(c)
    <3>1. job[c].owed # {} /\ FirstOwed(c) \in References /\ c # FirstOwed(c)
      BY <2>2, FirstOwedOwed DEF AttemptStarted, ObligationMet, ObligationFailed
    <3>2. pc'[c] = pc[c]
      BY <2>2, <3>1 DEF AttemptStarted, ObligationMet, ObligationFailed, Goto, TypeOK
    <3>3. \/ job'[c] = job[c]
          \/ \E S : Set(c, [job[c] EXCEPT !.owed = S])
          \/ \E S : Set(c, [job[c] EXCEPT !.owed = S, !.failed = TRUE])
      <4>1. CASE AttemptStarted(c)
        BY <4>1, <3>1 DEF AttemptStarted, TypeOK
      <4>2. CASE ObligationMet(c)
        BY <4>2 DEF ObligationMet, Settled
      <4>3. CASE ObligationFailed(c)
        <5>1. [Settled(c) EXCEPT !.failed = TRUE]
                = [job[c] EXCEPT !.owed = job[c].owed \ {FirstOwed(c)}, !.failed = TRUE]
          BY <1>1, Zenon DEF Settled, Jobs
        <5> QED
          BY <4>3, <5>1 DEF ObligationFailed
      <4> QED
        BY <2>2, <4>1, <4>2, <4>3
    <3>4. job'[c].session = job[c].session
      BY <3>3, <1>9
    <3> QED
      BY <3>2, <3>4
  <2>3. CASE DetachOver(c)
    <3>1. Goto(c, "leave") /\ Set(c, [NoJob EXCEPT !.session = job[c].session])
      BY <2>3 DEF DetachOver
    <3>2. [NoJob EXCEPT !.session = job[c].session].session = job[c].session
      BY <1>1, JobSession
    <3> QED
      BY <3>1, <3>2, <1>2
  <2> QED
    BY <1>5, <2>1, <2>2, <2>3 DEF DetachStep
<1>6. CASE CloseStep(c) \/ StopRaised(c) \/ AdmissionStep(c)
  <2>1. c \in Openers /\ c \notin References
    BY DEF Openers
  <2>2. UNCHANGED job /\ \E x \in InSession : Goto(c, x)
    BY <1>6, <2>1
       DEF CloseStep, HandleDropped, ChildStopped, StopRaised, AdmissionStep, EndAdmission,
           WaitClosed, AfterAdmission, Closed, CloseRaised
  <2> QED
    BY <2>2, <1>2
<1>7. c # Worker /\ c \notin Closers /\ c # Reader
      /\ \A t \in Detachers : job[t].owed # {} => c # FirstOwed(t)
  BY FirstOwedOwed
<1>8. \A s \in Sessions : ~StartAdmitted(c, s)
  BY DEF StartAdmitted
<1> QED
  BY <1>3, <1>4, <1>5, <1>6, <1>7, <1>8, OwnSteps DEF OwnStep

(* Every step keeps the closers apart, and sessions reserved by starts.    *)
LEMMA CloserNext ==
    ASSUME IInv, CloserInv, [Next]_vars
    PROVE  CloserInv'
<1> USE Roles
<1>1. TypeOK /\ PlaceInv
  BY DEF IInv
<1> DEFINE Under == ShutdownSteps \cup DetachSteps
<1>2. /\ "ending" \in Under /\ "idle" \notin Under
  BY DEF ShutdownSteps, DetachSteps
<1> HIDE DEF Under
<1>3. \A m \in Closers :
         \/ pc'[m] \in Under => pc[m] \in Under
         \/ CloseBegins(m) /\ ~closeStarted
  BY <1>1, CloserSteps DEF Under
<1>4. /\ \A m \in Closers : pc[m] \in Under => closeStarted /\ ~closeFinished
      /\ \A m, n \in Closers : pc[m] \in Under /\ pc[n] \in Under => m = n
      /\ closeFinished => closeStarted
  BY DEF CloserInv, Under
<1>5. ASSUME NEW m \in Closers, CloseBegins(m)
      PROVE  /\ closeStarted' /\ UNCHANGED closeFinished /\ ~closeFinished /\ pc[m] = "idle"
             /\ \A n \in Closers \ {m} : pc'[n] = pc[n]
  BY <1>1, <1>5 DEF CloseBegins, Goto, TypeOK
<1>6. ASSUME NEW m \in Closers, CloseEnds(m)
      PROVE  /\ closeFinished' /\ UNCHANGED closeStarted /\ pc[m] \in Under /\ pc'[m] \notin Under
  BY <1>1, <1>2, <1>6 DEF CloseEnds, Goto, TypeOK
<1>7. UNCHANGED <<closeStarted, closeFinished>> \/ \E m \in Closers : CloseBegins(m) \/ CloseEnds(m)
  BY FlagSteps
<1>8. ASSUME NEW m \in Closers, pc'[m] \in Under PROVE closeStarted' /\ ~closeFinished'
  <2>1. CASE CloseBegins(m) /\ ~closeStarted
    BY <2>1, <1>5
  <2>2. CASE pc[m] \in Under
    BY <2>2, <1>4, <1>5, <1>6, <1>7, <1>8
  <2> QED
    BY <2>1, <2>2, <1>3, <1>8
<1>9. ASSUME NEW m \in Closers, NEW n \in Closers, pc'[m] \in Under, pc'[n] \in Under
      PROVE  m = n
  BY <1>2, <1>3, <1>4, <1>5, <1>9
<1>10. closeFinished' => closeStarted'
  BY <1>4, <1>5, <1>6, <1>7
<1>11. ASSUME NEW s \in sessions'
       PROVE  \E c \in Callers : pc'[c] \in InSession /\ job'[c].session = s
  <2>1. CASE s \in sessions
    <3>1. PICK c \in Callers : pc[c] \in InSession /\ job[c].session = s
      BY <2>1 DEF CloserInv, At
    <3>2. ~StartLeft(c)
      BY <3>1, <1>11 DEF StartLeft
    <3> QED
      BY <3>1, <3>2, <1>1, SessionSteps
  <2>2. CASE s \notin sessions
    <3>1. PICK c \in Callers : SessionReserved(c)
      BY <2>2, <1>11, FlagSteps DEF StartLeft
    <3>2. /\ sessions' = sessions \cup {job[c].session} /\ UNCHANGED job /\ Goto(c, "lookup")
      BY <3>1 DEF SessionReserved
    <3>3. pc'[c] = "lookup" /\ job'[c].session = s
      BY <3>2, <2>2, <1>11, <1>1 DEF Goto, TypeOK
    <3> QED
      BY <3>3 DEF InSession, StartSteps
  <2> QED
    BY <2>1, <2>2
<1>12. \A m, n \in Closers : {pc'[m], pc'[n]} \subseteq Under => m = n
  BY <1>9
<1> QED
  BY <1>8, <1>10, <1>11, <1>12 DEF CloserInv, Under, At

(* What steps change which children run and which clients have a handle.   *)
LEMMA ChildSteps ==
    ASSUME [Next]_vars
    PROVE  \/ UNCHANGED <<running, handles>>
           \/ \E c \in Callers : TaskBegun(c) \/ BeginExpired(c) \/ BeginRaised(c)
           \/ \E s \in Sessions : Drive(s)
           \/ \E t \in Openers : HandleDropped(t) \/ ChildStopped(t) \/ StopRaised(t)
<1> DEFINE Ok == \/ UNCHANGED <<running, handles>>
                 \/ \E c \in Callers : TaskBegun(c) \/ BeginExpired(c) \/ BeginRaised(c)
                 \/ \E s \in Sessions : Drive(s)
                 \/ \E t \in Openers : HandleDropped(t) \/ ChildStopped(t) \/ StopRaised(t)
<1>1. ASSUME UNCHANGED <<running, handles>> PROVE Ok
  BY <1>1
<1>2. ASSUME NEW c \in Callers, StartStep(c) \/ BorrowRaised(c) \/ BeginRaised(c) PROVE Ok
  <2>1. CASE TaskBegun(c) \/ BeginExpired(c) \/ BeginRaised(c)
    BY <2>1
  <2>2. CASE ~ (TaskBegun(c) \/ BeginExpired(c) \/ BeginRaised(c))
    <3>1. UNCHANGED <<running, handles>>
      BY <1>2, <2>2
         DEF StartStep, SessionReserved, Lookup, PoolReserved, PooledClientFound,
             NoPooledClient, ClientCreated, ClientPooled, BorrowReturned, BorrowUndone,
             BorrowRaised, LeaseTaken, TaskPublished, TaskScheduled, TaskClosed,
             ReferenceReleased, StartLeft, SchedulingFailed, Detach, pool
    <3> QED
      BY <3>1, <1>1
  <2> QED
    BY <2>1, <2>2
<1>3. ASSUME NEW t \in Openers, CloseStep(t) \/ StopRaised(t) PROVE Ok
  BY <1>3 DEF CloseStep
<1>4. ASSUME NEW s \in Sessions, Drive(s) PROVE Ok
  BY <1>4
<1> HIDE DEF Ok
<1>5. ASSUME NEW t, DetachStep(t) \/ AdmissionStep(t) PROVE Ok
  <2>1. UNCHANGED <<running, handles>>
    BY <1>5
       DEF DetachStep, TasksReleased, AttemptStarted, ObligationMet, ObligationFailed,
           DetachOver, AdmissionStep, EndAdmission, WaitClosed, pool
  <2> QED
    BY <2>1, <1>1
<1>6. ASSUME \/ WorkerStep \/ WorkerDies \/ ReaderAdmitted
             \/ (\E T \in SUBSET Published : Retire(T))
             \/ (\E m \in Closers : ShutdownStep(m) \/ CloseBegins(m))
             \/ \E c \in Callers, s \in Sessions : StartAdmitted(c, s)
      PROVE  Ok
  <2>1. UNCHANGED <<running, handles>>
    <3>1. ASSUME NEW T \in SUBSET Published, Retire(T) PROVE UNCHANGED <<running, handles>>
      BY <3>1 DEF Retire, Detach, pool
    <3> QED
      BY <1>6, <3>1
         DEF WorkerStep, Answered, RequestFailed, WorkerExits, WorkerDies, ReaderAdmitted,
             ShutdownStep, Drained, Joined, CloseEnds, CloseBegins, StartAdmitted, Detach, pool
  <2> QED
    BY <2>1, <1>1
<1>7. ASSUME UNCHANGED vars PROVE Ok
  BY <1>7, <1>1 DEF vars, pool
<1>8. Ok
  BY <1>2, <1>3, <1>4, <1>5, <1>6, <1>7 DEF Next, Requested, Failure, Progress, Openers
<1> QED
  BY <1>8 DEF Ok

(* A child is started for the pooled client.                               *)
LEMMA StartedPooled ==
    ASSUME IInv, ~stolen
    PROVE  /\ \A c \in Callers : pc[c] = "begin" => job[c].client = pooled /\ pooled # Nobody
           /\ \A s \in Sessions : tasks[s] # NoTask =>
                 references[tasks[s]].client = pooled /\ pooled # Nobody
           /\ pooled # Nobody => pooled \notin ToClose
<1>1. TypeOK /\ Sharing /\ PoolInv
  BY DEF IInv, Sharing
<1>2. ASSUME NEW c \in Callers, pc[c] = "begin"
      PROVE  job[c].client = pooled /\ pooled # Nobody
  <2>1. /\ job[c].task # NoTask /\ references[job[c].task].state = "borrowed"
        /\ references[job[c].task].client = job[c].client
    BY <1>1, <1>2 DEF Sharing, BorrowInv, StartInv, Holding
  <2>2. job[c].task \in Active
    BY <2>1, <1>1, CountedReferences DEF Active, InState
  <2> QED
    BY <2>1, <2>2, <1>1 DEF PoolInv
<1>3. ASSUME NEW s \in Sessions, tasks[s] # NoTask
      PROVE  references[tasks[s]].client = pooled /\ pooled # Nobody
  <2>1. tasks[s] \in Counted
    BY <1>3 DEF Counted, Published
  <2> QED
    BY <2>1, <1>1 DEF PoolInv
<1> QED
  BY <1>1, <1>2, <1>3 DEF PoolInv

(* Handles are taken for the pooled client, and dropped to close another.  *)
LEMMA HandleSteps ==
    ASSUME IInv, ~stolen, [Next]_vars
    PROVE  \/ UNCHANGED handles
           \/ handles' = handles \cup {pooled} /\ pooled # Nobody /\ UNCHANGED <<pooled, references>>
           \/ \E t \in Openers : HandleDropped(t)
<1>1. ASSUME NEW c \in Callers, TaskBegun(c) \/ BeginExpired(c) \/ BeginRaised(c)
      PROVE  \/ UNCHANGED handles
             \/ handles' = handles \cup {pooled} /\ pooled # Nobody /\ UNCHANGED <<pooled, references>>
  <2>1. /\ pc[c] = "begin" /\ UNCHANGED <<pooled, references>>
        /\ Started(job[c].client) \/ UNCHANGED handles
    BY <1>1 DEF TaskBegun, BeginExpired, BeginRaised
  <2> QED
    BY <2>1, StartedPooled DEF Started
<1>2. ASSUME NEW s \in Sessions, Drive(s)
      PROVE  handles' = handles \cup {pooled} /\ pooled # Nobody /\ UNCHANGED <<pooled, references>>
  <2>1. tasks[s] # NoTask /\ Started(references[tasks[s]].client) /\ UNCHANGED <<pooled, references>>
    BY <1>2 DEF Drive
  <2> QED
    BY <2>1, StartedPooled DEF Started
<1>3. ASSUME NEW t, ChildStopped(t) \/ StopRaised(t) PROVE UNCHANGED handles
  BY <1>3 DEF ChildStopped, StopRaised
<1> QED
  BY <1>1, <1>2, <1>3, ChildSteps

(* The steps of a thread that closes a client.                             *)
LEMMA OpenerSteps ==
    ASSUME IInv, [Next]_vars, NEW t \in Openers
    PROVE  /\ pc[t] \in InClose =>
                \/ /\ pc'[t] \in InClose /\ job'[t] = job[t]
                   /\ pc[t] \in Dropping => pc'[t] \in Dropping
                \/ HandleDropped(t) /\ job[t].client \notin handles /\ UNCHANGED handles
                \/ ChildStopped(t) \/ StopRaised(t)
                \/ /\ pc[t] = "announcing" /\ pc[Worker] = "exited" /\ ~closeStarted
                   /\ UNCHANGED handles /\ pc'[t] \in {"failed", "leave"}
           /\ pc'[t] \in Dropping =>
                (pc[t] \in Dropping \/ HandleDropped(t)) /\ job'[t] = job[t]
           /\ t \in References /\ pc'[t] = "done" =>
                \/ pc[t] = "done" /\ job'[t] = job[t]
                \/ job'[t] = job[t] /\ HandleDropped(t) /\ job[t].client \notin handles
                \/ job'[t] = job[t] /\ pc[t] \in Dropping
<1> USE Roles
<1>1. TypeOK /\ PlaceInv /\ t \in Threads
  BY DEF IInv
<1> DEFINE Ok == /\ pc[t] \in InClose =>
                      \/ /\ pc'[t] \in InClose /\ job'[t] = job[t]
                         /\ pc[t] \in Dropping => pc'[t] \in Dropping
                      \/ HandleDropped(t) /\ job[t].client \notin handles /\ UNCHANGED handles
                      \/ ChildStopped(t) \/ StopRaised(t)
                      \/ /\ pc[t] = "announcing" /\ pc[Worker] = "exited" /\ ~closeStarted
                         /\ UNCHANGED handles /\ pc'[t] \in {"failed", "leave"}
                 /\ pc'[t] \in Dropping =>
                      (pc[t] \in Dropping \/ HandleDropped(t)) /\ job'[t] = job[t]
                 /\ t \in References /\ pc'[t] = "done" =>
                      \/ pc[t] = "done" /\ job'[t] = job[t]
                      \/ job'[t] = job[t] /\ HandleDropped(t) /\ job[t].client \notin handles
                      \/ job'[t] = job[t] /\ pc[t] \in Dropping
<1> SUFFICES Ok
  OBVIOUS
<1>2. ASSUME pc'[t] = pc[t], job'[t] = job[t] PROVE Ok
  BY <1>2
<1>3. ASSUME HandleDropped(t) PROVE Ok
  <2>1. pc[t] = "closing" /\ UNCHANGED job /\ handles' = handles \ {job[t].client}
    BY <1>3 DEF HandleDropped
  <2>2. \/ job[t].client \notin handles /\ Goto(t, Closed(t))
        \/ job[t].client \in handles /\ Goto(t, "stopping")
        \/ job[t].client \in handles /\ Goto(t, "announcing")
    BY <1>3 DEF HandleDropped
  <2>3. \/ job[t].client \notin handles /\ pc'[t] \in {"done", "leave"}
        \/ pc'[t] \in {"stopping", "announcing"}
    BY <2>2, <1>1 DEF Goto, Closed, TypeOK
  <2> QED
    BY <1>3, <2>1, <2>3 DEF InClose, Dropping
<1>4. ASSUME ChildStopped(t) \/ StopRaised(t) PROVE Ok
  <2>1. /\ pc[t] = "stopping" /\ UNCHANGED job
        /\ Goto(t, Closed(t)) \/ Goto(t, CloseRaised(t))
    BY <1>4 DEF ChildStopped, StopRaised
  <2>2. pc'[t] \in {"done", "leave", "failed"}
    BY <2>1, <1>1 DEF Goto, Closed, CloseRaised, TypeOK
  <2> QED
    BY <1>4, <2>1, <2>2 DEF InClose, Dropping
<1>5. ASSUME EndAdmission(t) PROVE Ok
  <2>1. /\ pc[t] \in {"end", "announcing"} /\ UNCHANGED <<job, handles>> /\ Goto(t, AfterAdmission(t))
    BY <1>5 DEF EndAdmission, pool
  <2>2. /\ pc[t] = "end" => pc'[t] \in {"await", "idle"}
        /\ pc[t] = "announcing" => \/ pc'[t] \in {"blocked", "stopping"}
                                   \/ /\ pc[Worker] = "exited" /\ ~closeStarted
                                      /\ pc'[t] \in {"failed", "leave"}
    BY <2>1, <1>1 DEF Goto, AfterAdmission, CloseRaised, TypeOK
  <2> QED
    BY <2>1, <2>2 DEF InClose, Dropping
<1>6. ASSUME WaitClosed(t) PROVE Ok
  <2>1. /\ pc[t] \in {"await", "blocked"} /\ UNCHANGED job
        /\ Goto(t, IF pc[t] = "await" THEN "idle" ELSE "stopping")
    BY <1>6 DEF WaitClosed
  <2>2. pc'[t] = IF pc[t] = "await" THEN "idle" ELSE "stopping"
    BY <2>1, <1>1 DEF Goto, TypeOK
  <2> QED
    BY <2>1, <2>2 DEF InClose, Dropping
<1>7. CASE t \in References
  <2>1. pc'[t] \in {"closing", "idle"} /\ pc[t] \notin InClose => Ok
    BY DEF Dropping, InClose
  <2>2. ASSUME NEW u \in Detachers, AttemptStarted(u) \/ ObligationFailed(u), t = FirstOwed(u) PROVE Ok
    <3>1. pc'[t] \in {"closing", "idle"} /\ pc[t] \in {"idle", "failed"}
      BY <2>2, <1>1 DEF AttemptStarted, ObligationFailed, Goto, TypeOK
    <3> QED
      BY <3>1, <2>1 DEF InClose
  <2> HIDE DEF Ok
  <2>3. OwnStep(t) => Ok
    BY <1>3, <1>4, <1>5, <1>6, <1>7, <2>2 DEF OwnStep, CloseStep, AdmissionStep, Detachers
  <2> QED
    BY <1>1, <1>2, <2>3, OwnSteps
<1>8. CASE t \in Callers
  <2>1. ASSUME pc[t] \notin InClose, pc'[t] \notin Dropping PROVE Ok
    BY <1>8, <2>1
  <2>2. ASSUME \/ StartStep(t) \/ BorrowRaised(t) \/ BeginRaised(t)
               \/ \E s \in Sessions : StartAdmitted(t, s)
        PROVE  Ok
    <3>1. pc[t] \in StartSteps \cup {"idle"}
      BY <2>2
         DEF StartStep, SessionReserved, Lookup, PoolReserved, PooledClientFound,
             NoPooledClient, ClientCreated, ClientPooled, BorrowReturned, BorrowUndone,
             BorrowRaised, LeaseTaken, TaskBegun, BeginExpired, BeginRaised, TaskPublished,
             TaskScheduled, TaskClosed, ReferenceReleased, StartLeft, SchedulingFailed,
             StartAdmitted, StartSteps
    <3>2. \E x \in StartSteps \cup {"detached", "owed", "closing"} : Goto(t, x)
      <4>1. CASE BorrowUndone(t)
        BY <4>1 DEF BorrowUndone, StartSteps
      <4>2. CASE LeaseTaken(t) \/ Lookup(t)
        BY <4>2 DEF LeaseTaken, Lookup, StartSteps
      <4>3. CASE ~ (BorrowUndone(t) \/ LeaseTaken(t) \/ Lookup(t))
        BY <2>2, <4>3
           DEF StartStep, SessionReserved, PoolReserved, PooledClientFound, NoPooledClient,
               ClientCreated, ClientPooled, BorrowReturned, BorrowRaised, TaskBegun,
               BeginExpired, BeginRaised, TaskPublished, TaskScheduled, TaskClosed,
               ReferenceReleased, StartLeft, SchedulingFailed, StartAdmitted, Detach, StartSteps
      <4> QED
        BY <4>1, <4>2, <4>3
    <3>3. pc[t] \notin InClose /\ pc'[t] \notin Dropping
      BY <3>1, <3>2, <1>1 DEF Goto, TypeOK, InClose, Dropping, StartSteps
    <3> QED
      BY <3>3, <2>1
  <2>3. ASSUME DetachStep(t) PROVE Ok
    <3>1. pc[t] \in DetachSteps
      BY <2>3
         DEF DetachStep, TasksReleased, AttemptStarted, ObligationMet, ObligationFailed,
             DetachOver, DetachSteps
    <3>2. pc'[t] = pc[t] \/ pc'[t] \in {"owed", "leave"}
      <4>1. CASE TasksReleased(t) \/ DetachOver(t) \/ ObligationMet(t)
        BY <4>1, <1>1, <1>8 DEF TasksReleased, DetachOver, ObligationMet, Goto, TypeOK
      <4>2. CASE AttemptStarted(t) \/ ObligationFailed(t)
        <5>1. t # FirstOwed(t)
          BY <4>2, <1>1, <1>8, FirstOwedOwed DEF AttemptStarted, ObligationFailed
        <5> QED
          BY <4>2, <5>1, <1>1 DEF AttemptStarted, ObligationFailed, Goto, TypeOK
      <4> QED
        BY <2>3, <4>1, <4>2 DEF DetachStep
    <3>3. pc[t] \notin InClose /\ pc'[t] \notin Dropping
      BY <3>1, <3>2 DEF InClose, Dropping, DetachSteps
    <3> QED
      BY <3>3, <2>1
  <2>4. t # Worker /\ t \notin Closers /\ t # Reader
        /\ \A u \in Detachers : job[u].owed # {} => t # FirstOwed(u)
    BY <1>1, <1>8, FirstOwedOwed
  <2> HIDE DEF Ok
  <2>5. OwnStep(t) => Ok
    BY <1>3, <1>4, <1>5, <1>6, <2>2, <2>3, <2>4 DEF OwnStep, CloseStep, AdmissionStep
  <2> QED
    BY <1>1, <1>2, <2>5, OwnSteps
<1> QED
  BY <1>7, <1>8 DEF Openers

(* Every step keeps the clients with a handle in somebody's hands.         *)
LEMMA HandleNext ==
    ASSUME IInv, IInv', AttemptInv, ~stolen, HandleInv, [Next]_vars
    PROVE  HandleInv'
<1> USE Roles
<1>1. TypeOK /\ TypeOK' /\ Sharing
  BY DEF IInv
<1>2. /\ made \in Nat /\ \A k \in handles : k # Nobody
      /\ \A t \in Openers : t \in Threads
  BY <1>1 DEF TypeOK, PoolTypeOK, Nobody
<1>3. /\ \A k \in handles : k = pooled \/ k \in ToClose
      /\ \A t \in Openers : pc[t] \in Dropping => job[t].client \notin handles
      /\ \A r \in Owing : pc[r] = "done" => references[r].client \notin handles
  BY DEF HandleInv
<1>4. /\ \A t \in Openers : pc[t] \in InClose => job[t].client \in ToClose
      /\ \A r \in Owing : references[r].client \in ToClose
      /\ pooled # Nobody => pooled \notin ToClose
      /\ Dropping \subseteq InClose
  BY StartedPooled DEF ToClose, BeingClosed, InClose, Dropping
<1>5. \A k \in ToClose : k \notin handles => k \notin handles'
  BY <1>4, HandleSteps DEF HandleDropped
<1>6. \A k \in handles' : k \in handles \/ (k = pooled /\ UNCHANGED pooled)
  BY HandleSteps DEF HandleDropped
<1>7. ASSUME NEW t \in Openers, HandleDropped(t)
      PROVE  handles' = handles \ {job[t].client} /\ UNCHANGED job /\ pc[t] = "closing"
  BY <1>7 DEF HandleDropped
<1>8. pooled # Nobody => pooled' = pooled \/ pooled \in ToClose'
  <2>1. ASSUME NEW S \in SUBSET Active, Release(S), pooled # Nobody
        PROVE  pooled' = pooled \/ pooled \in ToClose'
    <3>1. CASE pooled' # pooled
      <4>1. PICK r \in S : references'[r] = [client |-> pooled, state |-> "closing"]
        BY <1>1, <2>1, <3>1, ReleaseEffect
      <4>2. r \in Owing' /\ references'[r].client = pooled
        BY <4>1 DEF Owing, InState, Active
      <4> QED
        BY <4>2 DEF ToClose
    <3> QED
      BY <3>1
  <2>2. ASSUME NEW c \in Callers, ReferenceReleased(c), pooled # Nobody
        PROVE  pooled' = pooled \/ pooled \in ToClose'
    BY <2>1, <2>2, ReleasedSets DEF ReferenceReleased
  <2>3. ASSUME NEW t \in Detachers, TasksReleased(t), pooled # Nobody
        PROVE  pooled' = pooled \/ pooled \in ToClose'
    BY <2>1, <2>3, ReleasedSets DEF TasksReleased
  <2>4. ASSUME NEW c \in Callers, BorrowUndone(c), pooled # Nobody
        PROVE  pooled \in ToClose'
    <3>1. Goto(c, "closing") /\ Set(c, [job[c] EXCEPT !.client = pooled])
      BY <2>4 DEF BorrowUndone
    <3>2. pc'[c] = "closing" /\ job'[c].client = pooled
      BY <3>1, <1>1 DEF Goto, Set, TypeOK, Jobs
    <3>3. pooled \in BeingClosed'
      BY <3>2 DEF BeingClosed, Openers
    <3> QED
      BY <3>3 DEF ToClose
  <2>5. ASSUME NEW c \in Callers, PooledClientFound(c) \/ TaskPublished(c) \/ ClientPooled(c),
               pooled # Nobody
        PROVE  pooled' = pooled
    <3>1. ~ClientPooled(c)
      BY <1>1, <2>5 DEF ClientPooled, Sharing, BorrowInv, StartInv
    <3> QED
      BY <2>5, <3>1 DEF PooledClientFound, TaskPublished
  <2>6. ASSUME NEW t \in Detachers, ObligationMet(t) PROVE pooled' = pooled
    BY <2>6 DEF ObligationMet
  <2> QED
    BY <2>2, <2>3, <2>4, <2>5, <2>6, PoolSteps
<1>9. ASSUME NEW k \in ToClose, k \in handles', k \in handles PROVE k \in ToClose'
  <2>1. ASSUME NEW t \in Openers, pc[t] \in InClose, job[t].client = k PROVE k \in ToClose'
    <3>1. pc[t] \notin Dropping
      BY <1>3, <1>9, <2>1
    <3>2. pc'[t] \in InClose /\ job'[t] = job[t]
      <4>1. ~ (ChildStopped(t) \/ StopRaised(t)) /\ pc[t] # "announcing"
        BY <3>1 DEF ChildStopped, StopRaised, Dropping, InClose
      <4> QED
        BY <1>9, <2>1, <4>1, OpenerSteps
    <3>3. k \in BeingClosed'
      BY <2>1, <3>2 DEF BeingClosed, InClose
    <3> QED
      BY <3>3 DEF ToClose
  <2>2. ASSUME NEW r \in Owing, references[r].client = k PROVE k \in ToClose'
    <3>1. r \in References /\ references[r].state = "closing"
      BY DEF Owing, InState
    <3>2. pc[r] # "done"
      BY <1>3, <1>9, <2>2
    <3>3. references'[r] = references[r]
      BY <3>1, <3>2, ReferenceSteps
    <3>4. r \in Owing'
      BY <3>1, <3>3 DEF Owing, InState
    <3> QED
      BY <2>2, <3>3, <3>4 DEF ToClose
  <2> QED
    BY <1>9, <2>1, <2>2 DEF ToClose, BeingClosed, InClose
<1>10. ASSUME NEW k \in handles' PROVE k = pooled' \/ k \in ToClose'
  BY <1>2, <1>3, <1>6, <1>8, <1>9, <1>10
<1>11. ASSUME NEW t \in Openers, pc'[t] \in Dropping PROVE job'[t].client \notin handles'
  <2>1. job'[t] = job[t] /\ (pc[t] \in Dropping \/ HandleDropped(t))
    BY <1>11, OpenerSteps
  <2>2. CASE pc[t] \in Dropping
    BY <1>3, <1>4, <1>5, <2>1, <2>2
  <2>3. CASE HandleDropped(t)
    BY <1>7, <2>1, <2>3
  <2> QED
    BY <2>1, <2>2, <2>3
<1>12. ASSUME NEW r \in Owing', pc'[r] = "done" PROVE references'[r].client \notin handles'
  <2>1. r \in References /\ references'[r].state = "closing" /\ r \in Openers
    BY DEF Owing, InState, Openers
  <2>2. /\ \/ pc[r] = "done"
           \/ HandleDropped(r) /\ job[r].client \notin handles
           \/ pc[r] \in Dropping
    BY <1>12, <2>1, OpenerSteps
  <2>3. pc[r] # "idle"
    BY <2>2 DEF HandleDropped, Dropping, InClose
  <2>4. r <= given /\ references[r].state \in {"closing", "gone"}
    BY <2>1, <2>3 DEF AttemptInv
  <2>5. r # given + 1
    BY <2>4, ReferenceSteps, <2>1 DEF References
  <2>6. references'[r] = references[r] /\ r \in Owing
    BY <2>1, <2>4, <2>5, ReferenceSteps DEF Owing, InState
  <2>7. job[r].client = references[r].client
    BY <2>1, <2>3, <2>6 DEF AttemptInv
  <2>8. references[r].client \notin handles
    BY <1>3, <2>1, <2>2, <2>6, <2>7
  <2> QED
    BY <1>4, <1>5, <2>6, <2>8
<1> QED
  BY <1>10, <1>11, <1>12 DEF HandleInv

(* What steps fail, and what steps are recorded in the history.            *)
LEMMA HistorySteps ==
    ASSUME [Next]_vars
    PROVE  /\ UNCHANGED faults \/ faults' = faults + 1
           /\ UNCHANGED stolen \/ \E c \in Callers : BorrowUndone(c)
           /\ UNCHANGED dropped \/ \E t \in Detachers : DetachOver(t)
<1> DEFINE Ok == /\ UNCHANGED faults \/ faults' = faults + 1
                 /\ UNCHANGED stolen \/ \E c \in Callers : BorrowUndone(c)
                 /\ UNCHANGED dropped \/ \E t \in Detachers : DetachOver(t)
<1>1. ASSUME UNCHANGED faults \/ faults' = faults + 1, UNCHANGED history PROVE Ok
  BY <1>1 DEF history
<1>2. ASSUME NEW c \in Callers, StartStep(c) \/ BorrowRaised(c) \/ BeginRaised(c) PROVE Ok
  <2>1. CASE BorrowUndone(c)
    BY <2>1 DEF BorrowUndone
  <2>2. CASE ~BorrowUndone(c)
    <3>1. (UNCHANGED faults \/ faults' = faults + 1) /\ UNCHANGED history
      BY <1>2, <2>2
         DEF StartStep, SessionReserved, Lookup, PoolReserved, PooledClientFound, NoPooledClient,
             ClientCreated, ClientPooled, BorrowReturned, BorrowRaised, LeaseTaken, TaskBegun,
             BeginExpired, BeginRaised, TaskPublished, TaskScheduled, TaskClosed,
             ReferenceReleased, StartLeft, SchedulingFailed, Detach, Fault
    <3> QED
      BY <3>1, <1>1
  <2> QED
    BY <2>1, <2>2
<1>3. ASSUME NEW t \in Detachers, DetachStep(t) PROVE Ok
  <2>1. CASE DetachOver(t)
    BY <2>1 DEF DetachOver
  <2>2. CASE ~DetachOver(t)
    <3>1. UNCHANGED <<faults, history>>
      BY <1>3, <2>2 DEF DetachStep, TasksReleased, AttemptStarted, ObligationMet, ObligationFailed
    <3> QED
      BY <3>1, <1>1
  <2> QED
    BY <2>1, <2>2
<1> HIDE DEF Ok
<1>4. ASSUME NEW t, AdmissionStep(t) \/ CloseStep(t) \/ StopRaised(t) \/ ShutdownStep(t) \/ CloseBegins(t)
      PROVE  Ok
  <2>1. (UNCHANGED faults \/ faults' = faults + 1) /\ UNCHANGED history
    BY <1>4
       DEF AdmissionStep, EndAdmission, WaitClosed, CloseStep, HandleDropped, ChildStopped,
           StopRaised, ShutdownStep, Drained, Joined, CloseEnds, CloseBegins, Detach, Fault
  <2> QED
    BY <2>1, <1>1
<1>5. ASSUME \/ WorkerStep \/ WorkerDies \/ ReaderAdmitted \/ (\E s \in Sessions : Drive(s))
             \/ (\E T \in SUBSET Published : Retire(T))
             \/ \E c \in Callers, s \in Sessions : StartAdmitted(c, s)
      PROVE  Ok
  <2>1. (UNCHANGED faults \/ faults' = faults + 1) /\ UNCHANGED history
    <3>1. ASSUME NEW T \in SUBSET Published, Retire(T) PROVE UNCHANGED <<faults, history>>
      BY <3>1 DEF Retire, Detach
    <3> QED
      BY <1>5, <3>1
         DEF WorkerStep, Answered, RequestFailed, WorkerExits, WorkerDies, ReaderAdmitted,
             Drive, StartAdmitted, Detach, Fault
  <2> QED
    BY <2>1, <1>1
<1>6. ASSUME UNCHANGED vars PROVE Ok
  BY <1>6, <1>1 DEF vars
<1>7. Ok
  BY <1>2, <1>3, <1>4, <1>5, <1>6 DEF Next, Requested, Failure, Progress
<1> QED
  BY <1>7 DEF Ok

(* What a thread notes of its work leaves the mark of a failure alone.     *)
LEMMA JobFailed ==
    ASSUME NEW j \in Jobs
    PROVE  /\ \A n : [j EXCEPT !.task = n].failed = j.failed
           /\ \A n : [j EXCEPT !.client = n].failed = j.failed
           /\ \A n, k : [j EXCEPT !.task = n, !.client = k].failed = j.failed
           /\ \A n, k : [j EXCEPT !.client = n, !.created = k].failed = j.failed
           /\ \A n : [j EXCEPT !.created = n].failed = j.failed
           /\ \A S : [j EXCEPT !.todo = S].failed = j.failed
           /\ \A S : [j EXCEPT !.owed = S].failed = j.failed
           /\ \A s : ~[NoJob EXCEPT !.session = s].failed
           /\ \A n : ~[NoJob EXCEPT !.task = n].failed
           /\ ~NoJob.failed
BY DEF Jobs, NoJob

(* Only an obligation that is not met is marked as failed.                 *)
LEMMA FailedSteps ==
    ASSUME TypeOK, PlaceInv, [Next]_vars, NEW u \in Threads, job'[u].failed, ~job[u].failed
    PROVE  ObligationFailed(u) /\ u \in Detachers
<1> USE Roles
<1>1. /\ job[u] \in Jobs
      /\ \A j : Set(u, j) => job'[u] = j
  BY DEF TypeOK, Set
<1>2. /\ \A n : ~Set(u, [job[u] EXCEPT !.task = n])
      /\ \A n : ~Set(u, [job[u] EXCEPT !.client = n])
      /\ \A n : ~Set(u, [job[u] EXCEPT !.created = n])
      /\ \A S : ~Set(u, [job[u] EXCEPT !.todo = S])
      /\ \A S : ~Set(u, [job[u] EXCEPT !.owed = S])
      /\ \A n, k : ~Set(u, [job[u] EXCEPT !.task = n, !.client = k])
      /\ \A n, k : ~Set(u, [job[u] EXCEPT !.client = n, !.created = k])
      /\ \A s : ~Set(u, [NoJob EXCEPT !.session = s])
      /\ \A n : ~Set(u, [NoJob EXCEPT !.task = n])
      /\ ~Set(u, NoJob)
  <2>1. \A n : ~Set(u, [job[u] EXCEPT !.task = n])
    <3>1. \A n : [job[u] EXCEPT !.task = n].failed = job[u].failed
      BY <1>1, JobFailed
    <3> QED
      BY <1>1, <3>1
  <2>2. \A n : ~Set(u, [job[u] EXCEPT !.client = n])
    <3>1. \A n : [job[u] EXCEPT !.client = n].failed = job[u].failed
      BY <1>1, JobFailed
    <3> QED
      BY <1>1, <3>1
  <2>3. \A n : ~Set(u, [job[u] EXCEPT !.created = n])
    <3>1. \A n : [job[u] EXCEPT !.created = n].failed = job[u].failed
      BY <1>1, JobFailed
    <3> QED
      BY <1>1, <3>1
  <2>4. \A S : ~Set(u, [job[u] EXCEPT !.todo = S])
    <3>1. \A S : [job[u] EXCEPT !.todo = S].failed = job[u].failed
      BY <1>1, JobFailed
    <3> QED
      BY <1>1, <3>1
  <2>5. \A S : ~Set(u, [job[u] EXCEPT !.owed = S])
    <3>1. \A S : [job[u] EXCEPT !.owed = S].failed = job[u].failed
      BY <1>1, JobFailed
    <3> QED
      BY <1>1, <3>1
  <2>6. \A n, k : ~Set(u, [job[u] EXCEPT !.task = n, !.client = k])
    <3>1. \A n, k : [job[u] EXCEPT !.task = n, !.client = k].failed = job[u].failed
      BY <1>1, JobFailed
    <3> QED
      BY <1>1, <3>1
  <2>7. \A n, k : ~Set(u, [job[u] EXCEPT !.client = n, !.created = k])
    <3>1. \A n, k : [job[u] EXCEPT !.client = n, !.created = k].failed = job[u].failed
      BY <1>1, JobFailed
    <3> QED
      BY <1>1, <3>1
  <2>8. \A s : ~Set(u, [NoJob EXCEPT !.session = s])
    <3>1. \A s : ~[NoJob EXCEPT !.session = s].failed
      BY <1>1, JobFailed
    <3> QED
      BY <1>1, <3>1
  <2>9. \A n : ~Set(u, [NoJob EXCEPT !.task = n])
    <3>1. \A n : ~[NoJob EXCEPT !.task = n].failed
      BY <1>1, JobFailed
    <3> QED
      BY <1>1, <3>1
  <2>10. ~Set(u, NoJob)
    BY <1>1, JobFailed
  <2> QED
    BY <2>1, <2>2, <2>3, <2>4, <2>5, <2>6, <2>7, <2>8, <2>9, <2>10
<1>3. job'[u] # job[u]
  OBVIOUS
<1>4. ASSUME u \in Callers, StartStep(u) \/ BorrowRaised(u) \/ BeginRaised(u) PROVE FALSE
  BY <1>4, <1>2, <1>3
     DEF StartStep, SessionReserved, Lookup, PoolReserved, PooledClientFound, NoPooledClient,
         ClientCreated, ClientPooled, BorrowReturned, BorrowUndone, BorrowRaised, LeaseTaken,
         TaskBegun, BeginExpired, BeginRaised, TaskPublished, TaskScheduled, TaskClosed,
         ReferenceReleased, StartLeft, SchedulingFailed, Detach
<1>5. ASSUME u \in Detachers, DetachStep(u), ~ObligationFailed(u) PROVE FALSE
  <2>1. CASE TasksReleased(u) \/ ObligationMet(u) \/ DetachOver(u)
    BY <2>1, <1>2 DEF TasksReleased, ObligationMet, DetachOver, Settled
  <2>2. CASE AttemptStarted(u)
    <3>1. /\ job' = [job EXCEPT ![FirstOwed(u)].client = references[FirstOwed(u)].client]
          /\ FirstOwed(u) \in Threads
      BY <2>2, FirstOwedOwed DEF AttemptStarted
    <3>2. job'[u] = job[u] \/ job'[u] = [job[u] EXCEPT !.client = references[u].client]
      BY <3>1 DEF TypeOK
    <3>3. [job[u] EXCEPT !.client = references[u].client].failed = job[u].failed
      BY <1>1, JobFailed
    <3> QED
      BY <3>2, <3>3
  <2> QED
    BY <1>5, <2>1, <2>2 DEF DetachStep
<1>6. ASSUME NEW t \in Detachers, u = FirstOwed(t), job[t].owed # {},
             AttemptStarted(t) \/ ObligationFailed(t), ~ObligationFailed(u) PROVE FALSE
  <2>1. CASE AttemptStarted(t)
    <3>1. job' = [job EXCEPT ![u].client = references[u].client]
      BY <1>6, <2>1 DEF AttemptStarted
    <3>2. job'[u] = [job[u] EXCEPT !.client = references[u].client]
      BY <3>1 DEF TypeOK
    <3>3. [job[u] EXCEPT !.client = references[u].client].failed = job[u].failed
      BY <1>1, JobFailed
    <3> QED
      BY <3>2, <3>3
  <2>2. CASE ObligationFailed(t)
    <3>1. u # t
      BY <1>6, <2>2
    <3>2. \E j : Set(t, j)
      BY <2>2 DEF ObligationFailed
    <3> QED
      BY <3>1, <3>2, <1>3 DEF Set, TypeOK
  <2> QED
    BY <1>6, <2>1, <2>2
<1>7. ~ (AdmissionStep(u) \/ CloseStep(u) \/ StopRaised(u) \/ ReaderAdmitted)
  BY <1>3
     DEF AdmissionStep, EndAdmission, WaitClosed, CloseStep, HandleDropped, ChildStopped,
         StopRaised, ReaderAdmitted
<1>8. ~ (ShutdownStep(u) \/ CloseBegins(u))
  BY <1>2, <1>3 DEF ShutdownStep, Drained, Joined, CloseEnds, CloseBegins, Detach
<1>9. \A s \in Sessions : ~StartAdmitted(u, s)
  BY <1>2 DEF StartAdmitted
<1>10. u = Worker => ~ (WorkerStep \/ WorkerDies \/ \E s \in Sessions : Drive(s))
  BY <1>2, <1>3 DEF WorkerStep, Answered, RequestFailed, WorkerExits, WorkerDies, Drive, Detach
<1>11. ASSUME NEW T \in SUBSET Published, u = Worker, Retire(T) PROVE FALSE
  BY <1>11, <1>2 DEF Retire, Detach
<1>12. OwnStep(u)
  BY <1>3, OwnSteps
<1>13. ObligationFailed(u) => u \in Detachers
  BY DEF ObligationFailed, PlaceInv, CloseSteps, Threads, Detachers
<1> QED
  BY <1>4, <1>5, <1>6, <1>7, <1>8, <1>9, <1>10, <1>11, <1>12, <1>13 DEF OwnStep

(* A thread goes where it never is without a fault by a step that fails.   *)
LEMMA PlaceSteps ==
    ASSUME IInv, CloserInv, FaultFree, [Next]_vars, faults' = faults, NEW u \in Threads
    PROVE  pc'[u] \notin {"undo", "failed"}
<1> USE Roles
<1>1. TypeOK /\ PlaceInv /\ PlaceInv'
  BY InvNext DEF IInv
<1>2. faults + 1 # faults
  BY <1>1 DEF TypeOK
<1>3. pc[u] \notin {"undo", "failed"}
  BY DEF FaultFree
<1>4. ASSUME u \in Callers PROVE pc'[u] # "undo"
  <2>1. ASSUME NEW x, Goto(u, x), x # "undo" PROVE pc'[u] # "undo"
    BY <2>1, <1>1 DEF Goto, TypeOK
  <2>2. ~BorrowRaised(u) /\ ~BeginRaised(u) /\ ~StopRaised(u) /\ ~BorrowUndone(u)
    BY <1>2, <1>3 DEF BorrowRaised, BeginRaised, StopRaised, BorrowUndone, Fault
  <2>3. ASSUME StartStep(u) \/ \E s \in Sessions : StartAdmitted(u, s)
        PROVE  \E x \in (StartSteps \ {"undo"}) \cup {"detached", "owed"} : Goto(u, x)
    <3>1. CASE LeaseTaken(u) \/ Lookup(u)
      BY <3>1 DEF LeaseTaken, Lookup, StartSteps
    <3>2. CASE ~ (LeaseTaken(u) \/ Lookup(u))
      BY <2>2, <2>3, <3>2
         DEF StartStep, SessionReserved, PoolReserved, PooledClientFound, NoPooledClient,
             ClientCreated, ClientPooled, BorrowReturned, TaskBegun, BeginExpired, TaskPublished,
             TaskScheduled, TaskClosed, ReferenceReleased, StartLeft, SchedulingFailed, Detach,
             StartAdmitted, StartSteps
    <3> QED
      BY <3>1, <3>2
  <2>4. ASSUME DetachStep(u) PROVE pc'[u] # "undo"
    <3>1. CASE TasksReleased(u)
      BY <3>1, <2>1 DEF TasksReleased
    <3>2. CASE DetachOver(u)
      <4>1. Goto(u, "leave")
        BY <1>4, <3>2 DEF DetachOver
      <4> QED
        BY <4>1, <2>1
    <3>3. CASE ObligationMet(u) \/ AttemptStarted(u) \/ ObligationFailed(u)
      <4>1. u # FirstOwed(u) \/ UNCHANGED pc
        BY <1>1, <1>4, <3>3, FirstOwedOwed DEF ObligationMet, AttemptStarted, ObligationFailed
      <4> QED
        BY <4>1, <3>3, <1>1, <1>3 DEF ObligationMet, AttemptStarted, ObligationFailed, Goto, TypeOK
    <3> QED
      BY <2>4, <3>1, <3>2, <3>3 DEF DetachStep
  <2>5. ASSUME CloseStep(u) \/ AdmissionStep(u) PROVE \E x : Goto(u, x) /\ x # "undo"
    <3>1. CASE CloseStep(u)
      BY <3>1, <1>4 DEF CloseStep, HandleDropped, ChildStopped, Closed
    <3>2. CASE EndAdmission(u)
      BY <3>2, <1>4 DEF EndAdmission, AfterAdmission, CloseRaised
    <3>3. CASE WaitClosed(u)
      BY <3>3 DEF WaitClosed
    <3> QED
      BY <2>5, <3>1, <3>2, <3>3 DEF AdmissionStep
  <2>6. u # Worker /\ u \notin Closers /\ u # Reader
        /\ \A t \in Detachers : job[t].owed # {} => u # FirstOwed(t)
    BY <1>1, <1>4, FirstOwedOwed
  <2> QED
    BY <1>1, <1>3, <2>1, <2>2, <2>3, <2>4, <2>5, <2>6, OwnSteps DEF OwnStep
<1>5. ASSUME u \in References, pc'[u] = "failed" PROVE FALSE
  <2>1. pc[u] \in InClose
    BY <1>3, <1>5, GateSteps DEF InClose
  <2>2. ~ HandleDropped(u)
    <3>1. ASSUME HandleDropped(u) PROVE FALSE
      <4>1. \E x \in {"done", "stopping", "announcing"} : Goto(u, x)
        BY <3>1, <1>5 DEF HandleDropped, Closed
      <4> QED
        BY <4>1, <1>5, <1>1 DEF Goto, TypeOK
    <3> QED
      BY <3>1
  <2>3. ~ ChildStopped(u) /\ ~StopRaised(u)
    <3>1. ~ StopRaised(u)
      BY <1>2 DEF StopRaised, Fault
    <3>2. ASSUME ChildStopped(u) PROVE FALSE
      <4>1. Goto(u, "done")
        BY <3>2, <1>5 DEF ChildStopped, Closed
      <4> QED
        BY <4>1, <1>5, <1>1 DEF Goto, TypeOK
    <3> QED
      BY <3>1, <3>2
  <2>4. ~ (pc[Worker] = "exited" /\ ~closeStarted)
    BY DEF FaultFree
  <2>5. u \in Openers
    BY <1>5 DEF Openers
  <2> QED
    BY <1>5, <2>1, <2>2, <2>3, <2>4, <2>5, OpenerSteps DEF InClose
<1>6. /\ pc'[u] = "undo" => u \in Callers
      /\ pc'[u] = "failed" => u \in References
  BY <1>1
     DEF PlaceInv, Threads, Admitted, InSession, StartSteps, DetachSteps, ShutdownSteps,
         CloseSteps, InClose
<1> QED
  BY <1>4, <1>5, <1>6

(* The worker is gone after a fault, or when the scheduler is closed.      *)
LEMMA WorkerSteps ==
    ASSUME IInv, [Next]_vars, faults' = faults, pc'[Worker] = "exited"
    PROVE  pc[Worker] = "exited" \/ SchedulerClosed
<1> USE Roles
<1>1. TypeOK /\ PlaceInv
  BY DEF IInv
<1>2. ASSUME NEW x, Goto(Worker, x) PROVE x = "exited"
  BY <1>1, <1>2 DEF Goto, TypeOK
<1>3. ASSUME pc[Worker] # "exited", ~SchedulerClosed PROVE ~OwnStep(Worker)
  <2>1. Worker \notin Openers /\ Worker # Reader
    BY DEF Openers
  <2>2. ~AdmissionStep(Worker)
    BY <1>1 DEF PlaceInv, AdmissionStep, EndAdmission, WaitClosed, DetachSteps
  <2>3. ~WorkerStep /\ ~WorkerDies /\ \A s \in Sessions : ~Drive(s)
    <3>1. faults + 1 # faults
      BY <1>1 DEF TypeOK
    <3> QED
      BY <3>1, <1>2, <1>3
         DEF WorkerStep, Answered, RequestFailed, WorkerExits, WorkerDies, Drive, Detach, Fault
  <2>4. \A T \in SUBSET Published : ~Retire(T)
    BY <1>2 DEF Retire, Detach
  <2>5. ASSUME DetachStep(Worker) PROVE FALSE
    <3>1. CASE TasksReleased(Worker)
      BY <3>1, <1>2 DEF TasksReleased
    <3>2. CASE DetachOver(Worker)
      <4>1. Goto(Worker, "idle")
        BY <3>2 DEF DetachOver
      <4> QED
        BY <4>1, <1>2
    <3>3. CASE ObligationMet(Worker) \/ AttemptStarted(Worker) \/ ObligationFailed(Worker)
      <4>1. Worker # FirstOwed(Worker) \/ UNCHANGED pc
        BY <1>1, <3>3, FirstOwedOwed DEF ObligationMet, AttemptStarted, ObligationFailed
      <4> QED
        BY <4>1, <3>3, <1>1, <1>3 DEF ObligationMet, AttemptStarted, ObligationFailed, Goto, TypeOK
    <3> QED
      BY <2>5, <3>1, <3>2, <3>3 DEF DetachStep
  <2>6. \A t \in Detachers : job[t].owed # {} => Worker # FirstOwed(t)
    BY <1>1, FirstOwedOwed
  <2> QED
    BY <2>1, <2>2, <2>3, <2>4, <2>5, <2>6 DEF OwnStep
<1>4. pc'[Worker] = pc[Worker] \/ OwnStep(Worker)
  BY <1>1, OwnSteps
<1> QED
  BY <1>3, <1>4

(* Steps without a fault leave nothing unmet.                              *)
LEMMA FaultFreeNext ==
    ASSUME IInv, CloserInv, FaultFree, [Next]_vars, faults' = faults
    PROVE  FaultFree'
<1> USE Roles
<1>1. TypeOK /\ PlaceInv
  BY DEF IInv
<1>2. faults + 1 # faults
  BY <1>1 DEF TypeOK
<1>3. /\ ~stolen /\ dropped = {}
      /\ \A t \in Threads : pc[t] \notin {"undo", "failed"} /\ ~job[t].failed
      /\ pc[Worker] = "exited" => closeStarted
      /\ \A k \in running : k \notin handles =>
            \E t \in Openers : pc[t] \in Dropping /\ job[t].client = k
  BY DEF FaultFree
<1>4. UNCHANGED stolen
  BY <1>3, HistorySteps DEF BorrowUndone
<1>5. dropped' = {}
  <2>1. ASSUME NEW t \in Detachers, DetachOver(t) PROVE dropped' = {}
    <3>1. ~job[t].failed
      BY <1>3
    <3> QED
      BY <2>1, <3>1, <1>3 DEF DetachOver
  <2> QED
    BY <2>1, <1>3, HistorySteps
<1>6. ASSUME NEW u \in Threads PROVE pc'[u] \notin {"undo", "failed"} /\ ~job'[u].failed
  <2>1. pc'[u] \notin {"undo", "failed"}
    BY PlaceSteps
  <2>2. ASSUME job'[u].failed PROVE FALSE
    <3>1. ObligationFailed(u) /\ u \in Detachers
      BY <2>2, <1>1, <1>3, FailedSteps
    <3>2. FirstOwed(u) \in Threads /\ pc[FirstOwed(u)] = "failed"
      BY <3>1, <1>1, FirstOwedOwed DEF ObligationFailed
    <3> QED
      BY <3>2, <1>3
  <2> QED
    BY <2>1, <2>2
<1>7. pc'[Worker] = "exited" => closeStarted'
  <2>1. SchedulerClosed => closeStarted
    BY DEF SchedulerClosed, CloserInv, ShutdownSteps, DetachSteps
  <2>2. closeStarted => closeStarted'
    BY FlagSteps DEF CloseBegins, CloseEnds
  <2> QED
    BY <2>1, <2>2, <1>3, WorkerSteps
<1>8. ASSUME NEW k \in running', k \notin handles'
      PROVE  \E t \in Openers : pc'[t] \in Dropping /\ job'[t].client = k
  <2>1. ASSUME NEW t \in Openers, StopRaised(t) PROVE FALSE
    BY <2>1, <1>2 DEF StopRaised, Fault
  <2>2. CASE k \in running /\ k \notin handles
    <3>1. PICK t \in Openers : pc[t] \in Dropping /\ job[t].client = k
      BY <2>2, <1>3
    <3>2. pc[t] \in InClose /\ ~HandleDropped(t)
      BY <3>1 DEF Dropping, InClose, HandleDropped
    <3>3. ~ChildStopped(t)
      BY <1>8, <3>1 DEF ChildStopped
    <3>4. pc'[t] \in Dropping /\ job'[t] = job[t]
      BY <1>3, <2>1, <3>1, <3>2, <3>3, OpenerSteps
    <3> QED
      BY <3>1, <3>4
  <2>3. CASE ~ (k \in running /\ k \notin handles)
    <3>1. ~ UNCHANGED <<running, handles>>
      BY <1>8, <2>3
    <3>2. ASSUME NEW c \in Callers, TaskBegun(c) \/ BeginExpired(c) \/ BeginRaised(c) PROVE FALSE
      BY <1>2, <1>8, <2>3, <3>2 DEF TaskBegun, BeginExpired, BeginRaised, Started, Fault
    <3>3. ASSUME NEW s \in Sessions, Drive(s) PROVE FALSE
      BY <1>8, <2>3, <3>3 DEF Drive, Started
    <3>4. ASSUME NEW t \in Openers, ChildStopped(t) PROVE FALSE
      BY <1>8, <2>3, <3>4 DEF ChildStopped
    <3>5. PICK t \in Openers : HandleDropped(t)
      BY <2>1, <3>1, <3>2, <3>3, <3>4, ChildSteps
    <3>6. k = job[t].client /\ k \in handles /\ UNCHANGED job
      BY <1>8, <2>3, <3>5 DEF HandleDropped
    <3>7. Goto(t, "stopping") \/ Goto(t, "announcing")
      BY <3>5, <3>6 DEF HandleDropped
    <3>8. pc'[t] \in Dropping
      BY <3>7, <1>1 DEF Goto, TypeOK, Dropping, InClose
    <3> QED
      BY <3>6, <3>8
  <2> QED
    BY <2>2, <2>3
<1> QED
  BY <1>3, <1>4, <1>5, <1>6, <1>7, <1>8 DEF FaultFree

(* What steps admit or publish anything.                                   *)
LEMMA CountedSteps ==
    ASSUME [Next]_vars
    PROVE  /\ UNCHANGED active \/ ~closeStarted \/ \E t \in Threads : EndAdmission(t)
           /\ \/ \A s \in Sessions : tasks'[s] \in {tasks[s], NoTask}
              \/ \E c \in Callers : TaskPublished(c)
<1> DEFINE Ok == /\ UNCHANGED active \/ ~closeStarted \/ \E t \in Threads : EndAdmission(t)
                 /\ \/ \A s \in Sessions : tasks'[s] \in {tasks[s], NoTask}
                    \/ \E c \in Callers : TaskPublished(c)
<1>1. ASSUME UNCHANGED active \/ ~closeStarted, UNCHANGED tasks PROVE Ok
  BY <1>1
<1>2. ASSUME NEW t, NEW T, Detach(t, T) PROVE Ok
  BY <1>2 DEF Detach
<1>3. ASSUME NEW c \in Callers, TaskPublished(c) PROVE Ok
  BY <1>3 DEF TaskPublished
<1>4. ASSUME NEW t \in Threads, EndAdmission(t) PROVE Ok
  BY <1>4 DEF EndAdmission
<1> HIDE DEF Ok
<1>5. ASSUME NEW c \in Callers, StartStep(c) \/ BorrowRaised(c) \/ BeginRaised(c) PROVE Ok
  <2>1. CASE TaskPublished(c) \/ SchedulingFailed(c)
    BY <2>1, <1>2, <1>3 DEF SchedulingFailed
  <2>2. CASE ~ (TaskPublished(c) \/ SchedulingFailed(c))
    <3>1. UNCHANGED <<active, tasks>>
      BY <1>5, <2>2
         DEF StartStep, SessionReserved, Lookup, PoolReserved, PooledClientFound, NoPooledClient,
             ClientCreated, ClientPooled, BorrowReturned, BorrowUndone, BorrowRaised, LeaseTaken,
             TaskBegun, BeginExpired, BeginRaised, TaskScheduled, TaskClosed, ReferenceReleased,
             StartLeft, daemon
    <3> QED
      BY <3>1, <1>1
  <2> QED
    BY <2>1, <2>2
<1>6. ASSUME NEW t, \/ DetachStep(t) \/ WaitClosed(t) \/ CloseStep(t) \/ StopRaised(t)
                    \/ Drained(t) \/ CloseEnds(t) \/ CloseBegins(t)
      PROVE  Ok
  <2>1. /\ UNCHANGED active \/ ~closeStarted
        /\ UNCHANGED tasks
    BY <1>6
       DEF DetachStep, TasksReleased, AttemptStarted, ObligationMet, ObligationFailed,
           DetachOver, WaitClosed, CloseStep, HandleDropped, ChildStopped, StopRaised, Drained,
           CloseEnds, CloseBegins, daemon
  <2> QED
    BY <2>1, <1>1
<1>7. ASSUME \/ Answered \/ WorkerExits \/ WorkerDies \/ ReaderAdmitted \/ (\E s \in Sessions : Drive(s))
             \/ \E c \in Callers, s \in Sessions : StartAdmitted(c, s)
      PROVE  Ok
  <2>1. /\ UNCHANGED active \/ ~closeStarted
        /\ UNCHANGED tasks
    BY <1>7
       DEF Answered, WorkerExits, WorkerDies, ReaderAdmitted, Drive, StartAdmitted,
           AdmissionBegins, daemon
  <2> QED
    BY <2>1, <1>1
<1>8. ASSUME RequestFailed \/ (\E m \in Closers : Joined(m)) \/ \E T \in SUBSET Published : Retire(T)
      PROVE  Ok
  BY <1>2, <1>8 DEF RequestFailed, Joined, Retire
<1>9. ASSUME UNCHANGED vars PROVE Ok
  BY <1>9, <1>1 DEF vars, daemon
<1>10. Ok
  BY <1>4, <1>5, <1>6, <1>7, <1>8, <1>9
     DEF Next, Requested, Failure, Progress, AdmissionStep, ShutdownStep, WorkerStep
<1> QED
  BY <1>10 DEF Ok

(* When the scheduler is closed no start is under way and no loss is being *)
(* announced.                                                              *)
LEMMA SealedPlaces ==
    ASSUME IInv, ShutdownInv, SchedulerClosed
    PROVE  /\ \A c \in Callers : pc[c] \in {"idle", "await"}
           /\ \A t \in Threads : pc[t] \notin {"announcing", "end"}
<1> USE Roles
<1>1. TypeOK /\ PlaceInv /\ CountInv
  BY DEF IInv
<1>2. active = 0
  BY DEF ShutdownInv
<1>3. IsFiniteSet(At(Admitted)) /\ Cardinality(At(Admitted)) \in Nat
  BY CallersFinite
<1>4. IsFiniteSet(Announcing) /\ Cardinality(Announcing) \in Nat
  BY <1>1, AnnouncingFinite
<1>5. Cardinality(At(Admitted)) = 0 /\ Cardinality(Announcing) = 0
  BY <1>1, <1>2, <1>3, <1>4 DEF CountInv
<1>6. At(Admitted) = {} /\ Announcing = {}
  BY <1>3, <1>4, <1>5, FS_EmptySet
<1>7. \A c \in Callers : pc[c] \in {"idle", "await"}
  BY <1>1, <1>6 DEF At, PlaceInv
<1>8. \A t \in Threads : pc[t] # "announcing"
  BY <1>6 DEF Announcing
<1>9. \A t \in Threads : pc[t] # "end"
  BY <1>1, <1>7 DEF PlaceInv, Threads, ShutdownSteps, DetachSteps, CloseSteps
<1> QED
  BY <1>7, <1>8, <1>9

(* Then nothing is admitted or published any more, and only the worker and *)
(* the closer release references.                                          *)
LEMMA SealedSteps ==
    ASSUME IInv, ShutdownInv, SchedulerClosed, [Next]_vars
    PROVE  /\ UNCHANGED active
           /\ Published' \subseteq Published
           /\ \/ UNCHANGED <<references, pooled>>
              \/ \E t \in Closers \cup {Worker} : TasksReleased(t) \/ ObligationMet(t)
<1> USE Roles
<1>1. /\ \A c \in Callers : pc[c] \in {"idle", "await"}
      /\ \A t \in Threads : pc[t] \notin {"announcing", "end"}
  BY SealedPlaces
<1>2. \A c \in Callers :
         /\ ~TaskPublished(c) /\ ~PooledClientFound(c) /\ ~ClientPooled(c) /\ ~BorrowUndone(c)
         /\ ~ReferenceReleased(c) /\ ~TasksReleased(c) /\ ~ObligationMet(c)
  BY <1>1
     DEF TaskPublished, PooledClientFound, ClientPooled, BorrowUndone, ReferenceReleased,
         TasksReleased, ObligationMet
<1>3. \A t \in Threads : ~EndAdmission(t)
  BY <1>1 DEF EndAdmission
<1>4. UNCHANGED active
  BY <1>3, CountedSteps DEF ShutdownInv
<1>5. Published' \subseteq Published
  BY <1>2, CountedSteps DEF Published
<1>6. \/ UNCHANGED <<references, pooled>>
      \/ \E t \in Closers \cup {Worker} : TasksReleased(t) \/ ObligationMet(t)
  BY <1>2, PoolSteps DEF Detachers
<1> QED
  BY <1>4, <1>5, <1>6

(* The worker that is gone does not come back.                             *)
LEMMA WorkerGone ==
    ASSUME IInv, [Next]_vars, pc[Worker] = "exited"
    PROVE  pc'[Worker] = "exited"
<1> USE Roles
<1>1. TypeOK
  BY DEF IInv
<1>2. ~AdmissionStep(Worker) /\ ~DetachStep(Worker) /\ Worker \notin Openers
  BY DEF AdmissionStep, EndAdmission, WaitClosed, DetachStep, TasksReleased, AttemptStarted,
         ObligationMet, ObligationFailed, DetachOver, Openers
<1>3. /\ ~WorkerStep /\ ~WorkerDies /\ \A s \in Sessions : ~Drive(s)
      /\ \A T \in SUBSET Published : ~Retire(T)
  BY DEF WorkerStep, Answered, RequestFailed, WorkerExits, WorkerDies, Drive, Retire
<1>4. \A t \in Detachers : job[t].owed # {} => Worker # FirstOwed(t)
  BY <1>1, FirstOwedOwed
<1> QED
  BY <1>1, <1>2, <1>3, <1>4, OwnSteps DEF OwnStep

(* Each stage of close() is entered from the one before.                   *)
LEMMA StageSteps ==
    ASSUME IInv, [Next]_vars, NEW m \in Closers
    PROVE  /\ pc'[m] = "join" => pc[m] = "join" \/ Drained(m)
           /\ pc'[m] = "detached" => pc[m] = "detached" \/ Joined(m)
           /\ pc'[m] = "owed" =>
                \/ TasksReleased(m)
                \/ /\ pc[m] = "owed"
                   /\ job'[m] = job[m] \/ ObligationMet(m) \/ ObligationFailed(m)
           /\ pc'[m] = "ending" => pc[m] = "ending" \/ DetachOver(m)
<1> USE Roles
<1>1. TypeOK /\ PlaceInv
  BY DEF IInv
<1> DEFINE Ok == /\ pc'[m] = "join" => pc[m] = "join" \/ Drained(m)
                 /\ pc'[m] = "detached" => pc[m] = "detached" \/ Joined(m)
                 /\ pc'[m] = "owed" =>
                      \/ TasksReleased(m)
                      \/ /\ pc[m] = "owed"
                         /\ job'[m] = job[m] \/ ObligationMet(m) \/ ObligationFailed(m)
                 /\ pc'[m] = "ending" => pc[m] = "ending" \/ DetachOver(m)
<1>2. ASSUME pc'[m] = pc[m], job'[m] = job[m] PROVE Ok
  BY <1>2
<1>3. ASSUME CloseBegins(m) \/ WaitClosed(m) \/ CloseEnds(m) PROVE Ok
  <2>1. pc'[m] \in {"await", "idle", "stopping", "drain"}
    BY <1>1, <1>3 DEF CloseBegins, WaitClosed, CloseEnds, Goto, TypeOK
  <2> QED
    BY <2>1
<1>4. ASSUME Drained(m) \/ Joined(m) PROVE Ok
  <2>1. \/ Drained(m) /\ pc'[m] = "join"
        \/ Joined(m) /\ pc'[m] = "detached"
    BY <1>1, <1>4 DEF Drained, Joined, Detach, Goto, TypeOK
  <2> QED
    BY <2>1
<1>5. ASSUME DetachStep(m) PROVE Ok
  <2>1. CASE TasksReleased(m)
    <3>1. pc'[m] = "owed"
      BY <1>1, <2>1 DEF TasksReleased, Goto, TypeOK
    <3> QED
      BY <2>1, <3>1
  <2>2. CASE DetachOver(m)
    <3>1. Goto(m, "ending")
      BY <2>2 DEF DetachOver
    <3>2. pc'[m] = "ending"
      BY <1>1, <3>1 DEF Goto, TypeOK
    <3> QED
      BY <2>2, <3>2
  <2>3. CASE ObligationMet(m) \/ AttemptStarted(m) \/ ObligationFailed(m)
    <3>1. /\ pc[m] = "owed" /\ m # FirstOwed(m) /\ FirstOwed(m) \in Threads
      BY <1>1, <2>3, FirstOwedOwed DEF ObligationMet, AttemptStarted, ObligationFailed
    <3>2. pc'[m] = "owed"
      BY <1>1, <2>3, <3>1 DEF ObligationMet, AttemptStarted, ObligationFailed, Goto, TypeOK
    <3>3. AttemptStarted(m) => job'[m] = job[m]
      BY <1>1, <3>1 DEF AttemptStarted, TypeOK
    <3> QED
      BY <2>3, <3>1, <3>2, <3>3
  <2> QED
    BY <1>5, <2>1, <2>2, <2>3 DEF DetachStep
<1> HIDE DEF Ok
<1>6. Ok
  BY <1>1, <1>2, <1>3, <1>4, <1>5, CloserSteps DEF ShutdownStep
<1> QED
  BY <1>6 DEF Ok

(* The scheduler is closed by a closer that found nothing admitted, and    *)
(* nothing is from then on.                                                *)
LEMMA SealedNext ==
    ASSUME IInv, CloserInv, ShutdownInv, [Next]_vars, SchedulerClosed'
    PROVE  /\ closeStarted' /\ active' = 0
           /\ SchedulerClosed \/ \E m \in Closers : Drained(m)
<1> USE Roles
<1> DEFINE Places == {"join", "ending"} \cup DetachSteps
<1>1. ASSUME NEW m \in Closers, pc'[m] \in Places
      PROVE  pc[m] \in Places \/ Drained(m)
  BY <1>1, StageSteps DEF DetachSteps, Joined, DetachOver, TasksReleased
<1>2. closeFinished' => closeFinished \/ \E m \in Closers : pc[m] = "ending"
  BY FlagSteps DEF CloseBegins, CloseEnds
<1>3. closeStarted => closeStarted'
  BY FlagSteps DEF CloseBegins, CloseEnds
<1>4. SchedulerClosed \/ \E m \in Closers : Drained(m)
  BY <1>1, <1>2 DEF SchedulerClosed
<1>5. CASE SchedulerClosed
  BY <1>3, <1>5, SealedSteps DEF ShutdownInv
<1>6. ASSUME NEW m \in Closers, Drained(m) PROVE closeStarted' /\ active' = 0
  <2>1. pc[m] = "drain" /\ active = 0 /\ UNCHANGED active
    BY <1>6 DEF Drained, daemon
  <2>2. closeStarted
    BY <2>1 DEF CloserInv, ShutdownSteps
  <2> QED
    BY <2>1, <2>2, <1>3
<1> QED
  BY <1>4, <1>5, <1>6

(* Who can be where when close() is past a stage.                          *)
LEMMA PastStages ==
    ASSUME CloserInv
    PROVE  /\ Past({"ending"} \cup DetachSteps) => SchedulerClosed
           /\ Past({"owed", "ending"}) => Past({"ending"} \cup DetachSteps)
           /\ Past({"ending"}) => Past({"owed", "ending"})
           /\ Past({"ending"}) => \A m \in Closers : pc[m] \notin DetachSteps
           /\ \A m, n \in Closers :
                 pc[m] \in DetachSteps => n = m \/ pc[n] \notin DetachSteps
BY DEF CloserInv, Past, SchedulerClosed, ShutdownSteps, DetachSteps

(* Every stage of close() finds what the one before has left.              *)
LEMMA ShutdownNext ==
    ASSUME IInv, BorrowerInv, CloserInv, ShutdownInv, faults = 0 => FaultFree, [Next]_vars
    PROVE  ShutdownInv'
<1> USE Roles
<1>1. TypeOK /\ TypeOK' /\ PlaceInv /\ Sharing
  BY InvNext DEF IInv
<1>2. /\ Past({"ending"} \cup DetachSteps) => Published = {} /\ pc[Worker] = "exited"
      /\ Past({"owed", "ending"}) => Active = {}
      /\ \A m \in Closers : pc[m] = "owed" => job[m].failed \/ Owing \subseteq job[m].owed
      /\ Past({"ending"}) /\ faults = 0 => Owing = {}
  BY DEF ShutdownInv
<1>3. closeFinished' => Past({"ending"})
  BY FlagSteps DEF CloseBegins, CloseEnds, Past
<1>4. /\ Past({"ending"} \cup DetachSteps)' =>
            Past({"ending"} \cup DetachSteps) \/ \E m \in Closers : Joined(m)
      /\ Past({"owed", "ending"})' => Past({"owed", "ending"}) \/ \E m \in Closers : TasksReleased(m)
      /\ Past({"ending"})' => Past({"ending"}) \/ \E m \in Closers : DetachOver(m)
  BY <1>3, StageSteps DEF Past, DetachSteps, TasksReleased, DetachOver
<1>5. ASSUME NEW m \in Closers, pc[m] \in DetachSteps
      PROVE  /\ SchedulerClosed /\ pc[Worker] = "exited"
             /\ \A n \in Closers : n = m \/ pc[n] \notin DetachSteps
             /\ \/ UNCHANGED <<references, pooled>>
                \/ TasksReleased(m) \/ ObligationMet(m)
  <2>1. Past({"ending"} \cup DetachSteps)
    BY <1>5 DEF Past
  <2>2. SchedulerClosed /\ \A n \in Closers : n = m \/ pc[n] \notin DetachSteps
    BY <2>1, <1>5, PastStages
  <2>3. pc[Worker] = "exited"
    BY <2>1, <1>2
  <2>4. \A t \in Closers \cup {Worker} : TasksReleased(t) \/ ObligationMet(t) => t = m
    BY <2>2, <2>3 DEF TasksReleased, ObligationMet, DetachSteps
  <2> QED
    BY <2>2, <2>3, <2>4, SealedSteps
<1>6. Past({"ending"}) => UNCHANGED <<references, pooled>>
  <2>1. SUFFICES ASSUME Past({"ending"}) PROVE UNCHANGED <<references, pooled>>
    OBVIOUS
  <2>2. SchedulerClosed /\ pc[Worker] = "exited" /\ \A m \in Closers : pc[m] \notin DetachSteps
    BY <2>1, <1>2, PastStages
  <2> QED
    BY <2>2, SealedSteps DEF TasksReleased, ObligationMet, DetachSteps
<1>7. SchedulerClosed' => closeStarted' /\ active' = 0
  BY SealedNext
<1>8. ASSUME Past({"ending"} \cup DetachSteps)' PROVE Published' = {} /\ pc'[Worker] = "exited"
  <2>1. CASE Past({"ending"} \cup DetachSteps)
    <3>1. SchedulerClosed
      BY <2>1, PastStages
    <3> QED
      BY <2>1, <3>1, <1>2, SealedSteps, WorkerGone
  <2>2. ASSUME NEW m \in Closers, Joined(m) PROVE Published' = {} /\ pc'[Worker] = "exited"
    <3>1. /\ pc[Worker] = "exited"
          /\ tasks' = [s \in Sessions |-> IF tasks[s] \in Published THEN NoTask ELSE tasks[s]]
      BY <2>2 DEF Joined, Detach
    <3>2. \A s \in Sessions : tasks'[s] = NoTask
      BY <3>1 DEF Published
    <3> QED
      BY <3>1, <3>2, WorkerGone DEF Published
  <2> QED
    BY <1>4, <1>8, <2>1, <2>2
<1>9. ASSUME NEW m \in Closers, TasksReleased(m)
      PROVE  Active' = {} /\ job'[m].owed = Owing'
  <2> DEFINE S == FirstInstalled(Cardinality(job[m].todo))
             j == [job[m] EXCEPT !.owed = {r \in References : references'[r].state = "closing"}]
  <2>1. /\ pc[m] = "detached" /\ Release(S) /\ Set(m, j)
    BY <1>9 DEF TasksReleased
  <2>2. /\ S \subseteq Installed /\ S \in SUBSET Active
        /\ Cardinality(S) = Cardinality(job[m].todo)
    BY <2>1, ReleasedSets DEF Detachers
  <2>3. Published = {} /\ pc[Worker] = "exited" /\ SchedulerClosed
        /\ \A n \in Closers : n = m \/ pc[n] # "detached"
    <3>1. pc[m] \in DetachSteps
      BY <2>1 DEF DetachSteps
    <3>2. Past({"ending"} \cup DetachSteps)
      BY <3>1 DEF Past
    <3> QED
      BY <3>1, <3>2, <1>2, <1>5 DEF DetachSteps
  <2>4. \A c \in Callers : pc[c] \in {"idle", "await"}
    BY <2>3, SealedPlaces
  <2>5. Leaving = job[m].todo
    <3>1. {u \in Detachers : pc[u] = "detached"} = {m}
      BY <2>1, <2>3, <2>4 DEF Detachers
    <3>2. Leaving = UNION {job[m].todo}
      BY <3>1 DEF Leaving
    <3> QED
      BY <3>2
  <2>6. Cardinality(Installed) = Cardinality(S)
    <3>1. Published \cup Leaving = job[m].todo
      BY <2>3, <2>5
    <3> QED
      BY <2>2, <3>1, <1>1 DEF Sharing, DetachInv, OneCountPerTask
  <2>7. S = Installed
    <3>1. IsFiniteSet(Installed)
      BY ReferencesFinite, FS_Subset DEF Installed, InState
    <3> HIDE DEF S
    <3> QED
      BY <2>2, <2>6, <3>1, FS_Subset
  <2>8. InState("borrowed") = {}
    BY <2>4 DEF BorrowerInv, Holding
  <2>9. Active = S
    BY <2>7, <2>8 DEF Active, Installed
  <2>10. Active' = {}
    <3> HIDE DEF S
    <3> QED
      BY <1>1, <2>1, <2>2, <2>9, ReleaseEffect
  <2>11. job'[m].owed = Owing'
    <3>1. j.owed = {r \in References : references'[r].state = "closing"}
      BY <1>1 DEF TypeOK, Jobs
    <3>2. job'[m] = j
      BY <2>1, <1>1 DEF Set, TypeOK
    <3> QED
      BY <3>1, <3>2 DEF Owing, InState
  <2> QED
    BY <2>10, <2>11
<1>10. ASSUME NEW m \in Closers, ObligationMet(m)
       PROVE  /\ \A r \in Active' : r \in Active
              /\ \A r \in Owing' : r \in Owing /\ r # FirstOwed(m)
              /\ job'[m].owed = job[m].owed \ {FirstOwed(m)} /\ job'[m].failed = job[m].failed
  <2>1. /\ references' = Released({}, {FirstOwed(m)}) /\ Set(m, Settled(m))
        /\ job[m].owed # {}
    BY <1>10 DEF ObligationMet
  <2>2. FirstOwed(m) \in References
    BY <1>1, <2>1, FirstOwedOwed
  <2>3. /\ references'[FirstOwed(m)].state = "gone"
        /\ \A r \in References : r = FirstOwed(m) \/ references'[r] = references[r]
    BY <1>1, <2>1, <2>2 DEF Released, TypeOK, PoolTypeOK
  <2>4. Settled(m).owed = job[m].owed \ {FirstOwed(m)} /\ Settled(m).failed = job[m].failed
    BY <1>1 DEF Settled, TypeOK, Jobs
  <2>5. job'[m] = Settled(m)
    BY <1>1, <2>1 DEF Set, TypeOK
  <2> QED
    BY <2>3, <2>4, <2>5 DEF Active, Owing, InState
<1>11. Past({"owed", "ending"})' => Active' = {}
  <2>1. ASSUME Past({"owed", "ending"}) PROVE Active' = {}
    <3>1. Active = {}
      BY <2>1, <1>2
    <3>2. CASE UNCHANGED <<references, pooled>>
      BY <3>1, <3>2 DEF Active, InState
    <3>3. CASE ~UNCHANGED <<references, pooled>>
      <4>1. PICK m \in Closers : pc[m] = "owed"
        BY <2>1, <3>3, <1>6 DEF Past
      <4>2. ObligationMet(m)
        BY <4>1, <3>3, <1>5 DEF DetachSteps, TasksReleased
      <4> QED
        BY <4>2, <3>1, <1>10
    <3> QED
      BY <3>2, <3>3
  <2> QED
    BY <2>1, <1>4, <1>9
<1>12. ASSUME NEW m \in Closers, pc'[m] = "owed"
       PROVE  job'[m].failed \/ Owing' \subseteq job'[m].owed
  <2>1. CASE TasksReleased(m)
    BY <2>1, <1>9
  <2>2. CASE ObligationMet(m)
    <3>1. job[m].failed \/ Owing \subseteq job[m].owed
      BY <2>2, <1>2 DEF ObligationMet
    <3> QED
      BY <2>2, <3>1, <1>10
  <2>3. CASE ObligationFailed(m)
    <3>1. Set(m, [Settled(m) EXCEPT !.failed = TRUE])
      BY <2>3 DEF ObligationFailed
    <3>2. job'[m] = [Settled(m) EXCEPT !.failed = TRUE] /\ job[m] \in Jobs
      BY <3>1, <1>1 DEF Set, TypeOK
    <3>3. job'[m].failed
      BY <3>2, Zenon DEF Settled, Jobs
    <3> QED
      BY <3>3
  <2>4. CASE job'[m] = job[m] /\ pc[m] = "owed" /\ ~ObligationMet(m)
    <3>1. UNCHANGED references
      BY <2>4, <1>5 DEF DetachSteps, TasksReleased
    <3>2. Owing' = Owing
      BY <3>1 DEF Owing, InState
    <3> QED
      BY <2>4, <3>2, <1>2
  <2> QED
    BY <1>12, <2>1, <2>2, <2>3, <2>4, StageSteps
<1>13. ASSUME Past({"ending"})', faults' = 0 PROVE Owing' = {}
  <2>1. faults = 0
    BY <1>1, <1>13, HistorySteps DEF TypeOK
  <2>2. CASE Past({"ending"})
    BY <2>1, <2>2, <1>2, <1>6 DEF Owing, InState
  <2>3. ASSUME NEW m \in Closers, DetachOver(m) PROVE Owing' = {}
    <3>1. pc[m] = "owed" /\ job[m].owed = {} /\ UNCHANGED references
      BY <2>3 DEF DetachOver, pool
    <3>2. ~job[m].failed
      BY <2>1 DEF FaultFree
    <3>3. Owing = {}
      BY <3>1, <3>2, <1>2
    <3> QED
      BY <3>1, <3>3 DEF Owing, InState
  <2> QED
    BY <1>4, <1>13, <2>2, <2>3
<1> QED
  BY <1>7, <1>8, <1>11, <1>12, <1>13 DEF ShutdownInv

(* At first there is nothing to give back.                                 *)
LEMMA GivingInit == ASSUME Init PROVE Giving
<1> USE Roles
<1>1. /\ \A t \in Threads : pc[t] = "idle" /\ job[t] = NoJob
      /\ \A s \in Sessions : tasks[s] = NoTask /\ lease[s] = NoTask
      /\ sessions = {} /\ ~closeStarted /\ ~closeFinished /\ ~stolen /\ dropped = {}
      /\ running = {} /\ handles = {} /\ pooled = Nobody
      /\ \A r \in References : references[r].state = "gone"
  BY DEF Init, PoolInit
<1>2. /\ Owing = {} /\ InState("borrowed") = {}
      /\ \A m \in Closers : pc[m] \notin {"join", "ending"} \cup DetachSteps \cup ShutdownSteps
  BY <1>1 DEF Owing, InState, DetachSteps, ShutdownSteps
<1>3. AttemptInv /\ BorrowerInv /\ LeaseInv
  BY <1>1, <1>2 DEF AttemptInv, BorrowerInv, LeaseInv
<1>4. CloserInv
  BY <1>1, <1>2 DEF CloserInv
<1>5. ShutdownInv
  BY <1>1, <1>2 DEF ShutdownInv, SchedulerClosed, Past, DetachSteps
<1>6. HandleInv
  BY <1>1, <1>2 DEF HandleInv, Dropping, InClose
<1>7. FaultFree
  <2>1. ~NoJob.failed
    BY DEF NoJob
  <2>2. running \ handles = {}
    BY <1>1
  <2> QED
    BY <1>1, <2>1, <2>2 DEF FaultFree
<1> QED
  BY <1>3, <1>4, <1>5, <1>6, <1>7 DEF Giving

(* Every step keeps what is taken in the hands of who gives it back.       *)
LEMMA GivingNext == ASSUME IInv, Giving, [Next]_vars PROVE Giving'
<1>1. /\ AttemptInv /\ BorrowerInv /\ LeaseInv /\ CloserInv /\ ShutdownInv
      /\ ~stolen => HandleInv
      /\ faults = 0 => FaultFree
  BY DEF Giving
<1>2. IInv' /\ TypeOK /\ PlaceInv /\ SessionInv
  BY InvNext DEF IInv
<1>3. ~stolen' => ~stolen
  BY HistorySteps DEF BorrowUndone
<1>4. faults' = 0 => faults = 0 /\ faults' = faults
  BY <1>2, HistorySteps DEF TypeOK
<1>5. AttemptInv' /\ BorrowerInv' /\ LeaseInv' /\ CloserInv'
  BY <1>1, <1>2, AttemptNext, BorrowerNext, LeaseNext, CloserNext
<1>6. ShutdownInv'
  BY <1>1, ShutdownNext
<1>7. ~stolen' => HandleInv'
  BY <1>1, <1>2, <1>3, HandleNext
<1>8. faults' = 0 => FaultFree'
  BY <1>1, <1>4, FaultFreeNext
<1> QED
  BY <1>5, <1>6, <1>7, <1>8 DEF Giving

(* Nothing is lost on the way, and nothing is left at the end.             *)
LEMMA NothingLost == ASSUME IInv, Giving PROVE NothingIsOrphaned
<1> USE Roles
<1>1. /\ AttemptInv /\ BorrowerInv /\ LeaseInv /\ CloserInv /\ ShutdownInv
      /\ ~stolen => HandleInv
      /\ faults = 0 => FaultFree
  BY DEF Giving
<1>2. NoOrphanClient
  BY <1>1 DEF NoOrphanClient, HandleInv, ToClose
<1>3. LeaseIsOwned
  <2>1. ASSUME NEW s \in Sessions, lease[s] # NoTask
        PROVE  \/ tasks[s] = lease[s]
               \/ lease[s] \in dropped
               \/ \E t \in Detachers :
                     pc[t] # "idle" /\ (job[t].task = lease[s] \/ lease[s] \in job[t].todo)
    BY <1>1, <2>1 DEF LeaseInv, Leasing, DetachSteps, Detachers
  <2> QED
    BY <2>1 DEF LeaseIsOwned
<1>4. ASSUME closeFinished
      PROVE  /\ Published = {} /\ active = 0 /\ sessions = {} /\ Active = {}
             /\ faults = 0 => Owing = {} /\ running = {} /\ \A s \in Sessions : lease[s] = NoTask
  <2>1. SchedulerClosed /\ Past({"ending"} \cup DetachSteps) /\ Past({"owed", "ending"}) /\ Past({"ending"})
    BY <1>4 DEF SchedulerClosed, Past
  <2>2. /\ active = 0 /\ Published = {} /\ pc[Worker] = "exited" /\ Active = {}
        /\ faults = 0 => Owing = {}
    BY <1>1, <2>1 DEF ShutdownInv
  <2>3. \A c \in Callers : pc[c] \in {"idle", "await"}
    BY <1>1, <2>1, SealedPlaces
  <2>4. sessions = {}
    BY <1>1, <2>3 DEF CloserInv, At, InSession, StartSteps, DetachSteps, InClose
  <2>5. ASSUME faults = 0, NEW t \in Openers PROVE pc[t] \notin InClose
    <3>1. CASE t \in Callers
      BY <2>3, <3>1 DEF InClose
    <3>2. CASE t \in References
      BY <1>1, <2>2, <2>5, <3>2 DEF AttemptInv, Owing, InState, InClose
    <3> QED
      BY <3>1, <3>2 DEF Openers
  <2>6. ASSUME faults = 0, NEW k \in running PROVE FALSE
    <3>1. HandleInv /\ FaultFree
      BY <1>1, <2>6 DEF FaultFree
    <3>2. ToClose = {}
      BY <2>2, <2>5, <2>6 DEF ToClose, BeingClosed, InClose
    <3>3. pooled = Nobody
      BY <1>1, <2>2 DEF BorrowerInv
    <3>4. Nobody \notin handles
      BY DEF IInv, TypeOK, PoolTypeOK, Nobody
    <3>5. k \notin handles
      BY <3>1, <3>2, <3>3, <3>4 DEF HandleInv
    <3> QED
      BY <2>5, <2>6, <3>1, <3>5 DEF FaultFree, Dropping
  <2>7. ASSUME faults = 0, NEW s \in Sessions PROVE lease[s] = NoTask
    <3>1. tasks[s] = NoTask /\ dropped = {}
      BY <1>1, <2>2, <2>7 DEF Published, FaultFree
    <3>2. \A t \in Detachers : pc[t] \notin DetachSteps
      BY <1>1, <1>4, <2>2, <2>3 DEF Detachers, CloserInv, DetachSteps
    <3> QED
      BY <1>1, <2>3, <3>1, <3>2 DEF LeaseInv, Leasing
  <2> QED
    BY <2>2, <2>4, <2>6, <2>7
<1>5. NothingAfterClose
  BY <1>4 DEF NothingAfterClose
<1> QED
  BY <1>2, <1>3, <1>5 DEF NothingIsOrphaned

(* What a start or a detachment takes has somebody who gives it back, and  *)
(* close() leaves nothing of it (release, remove_tasks, shutdown): every   *)
(* client whose child runs is pooled or owed a close, every lease belongs  *)
(* to a task or to who detaches it; when close() returns no task, no       *)
(* admission and no reference in use is left and, unless something failed, *)
(* no obligation, no child and no lease.                                   *)
THEOREM NothingTakenIsLost == Spec => []NothingIsOrphaned
<1>1. Init => IInv /\ Giving
  BY InvInit, GivingInit
<1>2. IInv /\ Giving /\ [Next]_vars => (IInv /\ Giving)'
  BY InvNext, GivingNext
<1>3. IInv /\ Giving => NothingIsOrphaned
  BY NothingLost
<1> QED
  BY <1>1, <1>2, <1>3, PTL DEF Spec
================================================================================
