--------------------------- MODULE SessionTaskProofs ---------------------------
(***************************************************************************)
(* The daemon that owns a session has its lease and is the manager its file*)
(* names, for any number of daemons, turns, start requests and faults.     *)
(***************************************************************************)
EXTENDS SessionTask, WellFoundedInduction, TLAPS

(* A start or a recovery in progress, and a daemon that is not there: the  *)
(* registry does not have the session.                                     *)
Apart ==
    {"down", "gone", "checked", "init", "bind", "resume", "publish", "undo", "undone",
     "found", "claimed", "settle", "load", "restore", "record", "release"}

Attempt == {"init", "bind", "resume", "publish", "undo",
            "claimed", "settle", "load", "restore", "record", "release"}

(* Who has the lease: the owner, an attempt past its claim, and no daemon  *)
(* that has nothing in progress.                                           *)
LeaseInv ==
    /\ OwnerHasLease
    /\ \A d \in Daemon :
          /\ pc[d] \in {"bind", "resume", "publish", "claimed"} => lease = d
          /\ pc[d] \in Apart => ~owns[d]
          /\ pc[d] \in {"started", "complete", "fail", "remove"} => owns[d]
          /\ lease = d => owns[d] \/ pc[d] \in Attempt

\* What a transaction captured fits the place it has come to.
JobInv(d) ==
    /\ pc[d] = "checked" => job[d].kind \in {"create", "reuse"} /\ job[d].file = NoFile
    /\ pc[d] = "bind" => job[d].kind \in {"create", "reuse"}
    /\ pc[d] \in {"init", "resume"} => job[d].kind # "none"
    /\ pc[d] \in {"undo", "undone"} => job[d].kind \in {"create", "reuse"}
    /\ job[d].kind = "create" => job[d].file = NoFile
    /\ pc[d] \in {"found", "claimed"} => job[d].kind = "recover" /\ job[d].file # NoFile
    /\ pc[d] \in {"settle", "load", "restore"} => job[d].kind = "recover"

-----------------------------------------------------------------------------
(* While no two daemons run at once.                                       *)

(* A document the daemons write or keep: it is handed off after the end of *)
(* its parent, a stop that is deferred has a turn to wait for, and         *)
(* otherwise the manager's turn is its own parent.                         *)
Coherent(f) ==
    f # NoFile =>
        /\ f.handoff => f.parent # None /\ EndedIn(rollout, f.parent)
        /\ f.shutdown => ~f.handoff /\ f.managed # None
        /\ f.managed # None /\ ~f.shutdown => f.parent = f.managed

(* A file that is left without an owner is of no use to a start.           *)
Spoiled(f) == f # NoFile => f.failed \/ f.shutdown

Stopping(f) == f # NoFile => f.shutdown

(* The document a start found, and what it leaves.                         *)
StartInv(d) ==
    /\ pc[d] \in {"checked", "release", "remove"} => Spoiled(file)
    /\ pc[d] = "idle" /\ ~owns[d] => Spoiled(file)
    /\ pc[d] \in {"init", "bind", "resume", "undo", "undone"} /\ job[d].kind = "reuse" =>
          Spoiled(file) /\ Stopping(job[d].file)
    /\ pc[d] \in {"init", "bind"} /\ job[d].kind = "reuse" => inherited /\ Stopping(file)
    /\ pc[d] \in {"init", "bind"} /\ job[d].kind = "create" /\ file # NoFile => WasPending(file)

(* The document a recovery found.                                          *)
RecoveryInv(d) ==
    /\ pc[d] = "found" /\ file # NoFile =>
          \/ file = job[d].file
          \/ file.shutdown /\ file.revision > job[d].file.revision
    /\ pc[d] = "claimed" /\ file # NoFile /\ WasPending(job[d].file) =>
          WasPending(file) /\ file.parent = job[d].file.parent

(* A daemon has a fence while it waits, with its turn and the file's       *)
(* agreeing, and completes one whose turn is over.                         *)
FenceInv(d) ==
    /\ fence[d] # NoFence =>
          \/ owns[d]
          \/ pc[d] = "init" /\ job[d].kind = "recover"
          \/ pc[d] \in {"resume", "publish", "settle", "load", "restore", "record",
                        "release", "undo"}
    /\ fence[d] # NoFence /\ file # NoFile /\ ~inherited
       /\ pc[d] \in {"load", "settle", "init", "resume", "publish", "idle", "started"} =>
          file.parent = fence[d].turn /\ WasPending(file)
    /\ pc[d] \in {"settle", "complete"} =>
          fence[d] # NoFence /\ EndedIn(rollout, fence[d].turn)

WorkInv(d) ==
    /\ file # NoFile /\ pc[d] \in {"bind", "resume", "publish"} => file.pid = d
    /\ file # NoFile /\ owns[d] /\ pc[d] # "remove" => file.pid = d
    /\ file # NoFile /\ pc[d] = "started" =>
          file.handoff /\ file.pending # None /\ file.managed = None

AloneInv ==
    /\ \A c, d \in Alive : c = d
    /\ Coherent(file)
    /\ \A d \in Daemon : Coherent(job[d].file)
    /\ \A d \in Daemon : StartInv(d) /\ RecoveryInv(d) /\ FenceInv(d) /\ WorkInv(d)

IInv ==
    /\ TypeOK /\ LeaseInv
    /\ \A d \in Daemon : JobInv(d)
    /\ ~shared => AloneInv

USE TurnAssumption, TaskAssumption

-----------------------------------------------------------------------------
(* What the fence reads in a rollout.                                      *)

(* A set of numbers has a least one.                                       *)
LEMMA MinIsMember ==
    ASSUME NEW S \in SUBSET Nat, S # {}
    PROVE  Min(S) \in S
<1> DEFINE R == {ss \in Nat \X Nat : ss[1] < ss[2]}
<1>1. IsWellFoundedOn(R, Nat)
  BY NatLessThanWellFounded DEF OpToRel
<1>2. PICK x \in S : \A y \in S : <<y, x>> \notin R
  <2> HIDE DEF R
  <2> QED
    BY WFMin, <1>1
<1>3. ASSUME NEW y \in S PROVE x <= y
  <2>1. y \in Nat /\ x \in Nat
    OBVIOUS
  <2>2. <<y, x>> \in Nat \X Nat /\ <<y, x>> \notin R
    BY <2>1, <1>2
  <2>3. ~ (y < x)
    BY <2>2
  <2> QED
    BY <2>1, <2>3
<1> QED
  BY <1>3 DEF Min

(* A poll that calls the turn over has met its end.                        *)
LEMMA PolledStatus ==
    ASSUME NEW events \in Seq(TurnEvent), NEW f \in Fence
    PROVE  /\ Polled(events, f) \in {"pending", "completed", "aborted", "superseded"}
           /\ Polled(events, f) \in {"completed", "aborted"} => EndedIn(events, f.turn)
<1> DEFINE found == {i \in (f.cursor + 1)..Len(events) : Decides(events[i], f.turn)}
<1>1. f.cursor \in Nat /\ Len(events) \in Nat
  BY DEF Fence
<1>2. found \in SUBSET Nat /\ found \subseteq DOMAIN events
  BY <1>1
<1>3. Polled(events, f) = IF found = {} THEN "pending" ELSE Verdict(events[Min(found)])
  BY DEF Polled
<1>4. CASE found = {}
  BY <1>3, <1>4
<1>5. CASE found # {}
  <2>1. PICK i \in found : i = Min(found)
    BY <1>2, <1>5, MinIsMember
  <2>2. i \in DOMAIN events /\ events[i] \in TurnEvent /\ Decides(events[i], f.turn)
    BY <2>1, <1>2
  <2>3. Polled(events, f) = Verdict(events[i])
    BY <1>3, <1>5, <2>1
  <2> QED
    BY <2>2, <2>3 DEF Verdict, Decides, EndedIn, Has, TurnEvent
<1> QED
  BY <1>4, <1>5

(* A recovery that calls the turn over has found its end.                  *)
LEMMA RecoveredStatus ==
    ASSUME NEW events, NEW t
    PROVE  /\ Recovered(events, t) \in
                 {"missing", "completed", "aborted", "superseded", "pending"}
           /\ Recovered(events, t) \in {"completed", "aborted"} => EndedIn(events, t)
<1>1. EndedIn(events, t) <=> Has(events, {"completed"}, t) \/ Has(events, {"aborted"}, t)
  BY DEF EndedIn, Has
<1> QED
  BY <1>1 DEF Recovered

(* The rollout only grows, so that a turn that is over stays over.         *)
LEMMA EndStays ==
    ASSUME NEW events \in Seq(TurnEvent), NEW event \in TurnEvent, NEW t,
           EndedIn(events, t)
    PROVE  EndedIn(Append(events, event), t)
BY DEF EndedIn, Has

-----------------------------------------------------------------------------
(* Types.                                                                  *)

SameButRevision(f, g) ==
    /\ f.handoff = g.handoff /\ f.parent = g.parent /\ f.managed = g.managed
    /\ f.pending = g.pending /\ f.pid = g.pid /\ f.failed = g.failed
    /\ f.shutdown = g.shutdown

(* A bumped file differs in its revision only.                             *)
LEMMA BumpedFile ==
    ASSUME NEW f \in RuntimeFile
    PROVE  /\ Bumped(f) \in RuntimeFile /\ Bumped(f) # NoFile
           /\ SameButRevision(Bumped(f), f)
           /\ Bumped(f).revision = f.revision + 1
<1>1. Bumped(f) = [f EXCEPT !.revision = f.revision + 1]
  BY DEF Bumped
<1>2. f.revision + 1 \in Nat /\ f.revision + 1 # -1
  BY DEF RuntimeFile
<1>3. Bumped(f) \in RuntimeFile
  BY <1>1, <1>2 DEF RuntimeFile
<1>4. Bumped(f).revision = f.revision + 1 /\ SameButRevision(Bumped(f), f)
  BY <1>1 DEF RuntimeFile, SameButRevision
<1>5. NoFile.revision = -1
  BY DEF NoFile
<1> QED
  BY <1>2, <1>3, <1>4, <1>5

(* An update writes the file that is there, and none that is gone.         *)
LEMMA Updated ==
    ASSUME NEW new, file \in RuntimeFile \cup {NoFile},
           file # NoFile => new \in RuntimeFile, Update(new)
    PROVE  /\ file' \in RuntimeFile \cup {NoFile}
           /\ file = NoFile <=> file' = NoFile
           /\ file # NoFile =>
                 SameButRevision(file', new) /\ file'.revision = new.revision + 1
BY BumpedFile DEF Update

(* A daemon that leaves is no longer the manager the file names.           *)
LEMMA StoppedFile ==
    ASSUME NEW d \in Daemon, file \in RuntimeFile \cup {NoFile}
    PROVE  /\ Stopped(d) \in RuntimeFile \cup {NoFile}
           /\ file = NoFile <=> Stopped(d) = NoFile
           /\ file # NoFile => SameButRevision(Stopped(d), [file EXCEPT !.pid = Stopped(d).pid])
<1>1. CASE file # NoFile /\ file.pid = d
  <2>1. [file EXCEPT !.pid = None] \in RuntimeFile
    BY <1>1 DEF RuntimeFile
  <2>2. Stopped(d) = Bumped([file EXCEPT !.pid = None])
    BY <1>1 DEF Stopped
  <2> QED
    BY <1>1, <2>1, <2>2, BumpedFile DEF SameButRevision, RuntimeFile
<1>2. CASE ~ (file # NoFile /\ file.pid = d)
  BY <1>2 DEF Stopped, SameButRevision, RuntimeFile
<1> QED
  BY <1>1, <1>2

LEMMA TransactionType ==
    ASSUME TypeOK, NEW d \in Daemon, JobInv(d), Transaction(d)
    PROVE  TypeOK'
<1> USE DEF TypeOK, Place, Goto, SetJob, SetFence
<1>1. CASE Enabled(d)
  <2>1. NewFile \in RuntimeFile
    BY DEF NewFile, RuntimeFile
  <2>2. file # NoFile => [job[d] EXCEPT !.file = file] \in Job
    BY DEF Job
  <2> QED
    BY <1>1, <2>1, <2>2 DEF Enabled, Refused
<1>2. CASE Initialized(d)
  <2>1. file # NoFile => [file EXCEPT !.pid = d, !.failed = FALSE] \in RuntimeFile
    BY DEF RuntimeFile
  <2>2. file' \in RuntimeFile \cup {NoFile}
    BY <1>2, <2>1, Updated DEF Initialized
  <2> QED
    BY <1>2, <2>2 DEF Initialized
<1>3. CASE LeaseTaken(d)
  BY <1>3 DEF LeaseTaken, Rollback
<1>4. CASE Bound(d)
  <2>1. job[d].fence \in Fence \cup {NoFence} /\ job[d].fence.turn \in Turn \cup {None}
    BY DEF Job, Fence, NoFence
  <2>2. file # NoFile => [file EXCEPT !.parent = job[d].fence.turn] \in RuntimeFile
    BY <2>1 DEF RuntimeFile
  <2>3. file' \in RuntimeFile \cup {NoFile}
    BY <1>4, <2>2, Updated DEF Bound
  <2> QED
    BY <1>4, <2>1, <2>3 DEF Bound
<1>5. CASE Resumed(d)
  BY <1>5 DEF Resumed
<1>6. CASE Published(d)
  <2>1. Idle \in Job
    BY DEF Idle, Job
  <2> QED
    BY <1>6, <2>1 DEF Published
<1>7. CASE TaskClosed(d)
  <2>1. Idle \in Job
    BY DEF Idle, Job
  <2>2. Released(d) \in Daemon \cup {None}
    BY DEF Released
  <2> QED
    BY <1>7, <2>1, <2>2, StoppedFile DEF TaskClosed
<1>8. CASE RolledBack(d)
  <2>1. Idle \in Job /\ job[d].file \in RuntimeFile \cup {NoFile}
    BY DEF Idle, Job
  <2> QED
    BY <1>8, <2>1 DEF RolledBack
<1>9. CASE Claimed(d)
  <2>1. Idle \in Job
    BY DEF Idle, Job
  <2> QED
    BY <1>9, <2>1, BumpedFile DEF Claimed
<1>10. CASE FenceRecovered(d)
  <2>1. Idle \in Job /\ [job[d] EXCEPT !.file = NoFile] \in Job
    BY DEF Idle, Job
  <2>2. job[d].file \in RuntimeFile
    BY <1>10 DEF FenceRecovered, JobInv, Job
  <2>3. job[d].file.parent # None => Read(rollout, job[d].file.parent) \in Fence
    BY <2>2 DEF RuntimeFile, Read, Fence
  <2> QED
    BY <1>10, <2>1, <2>3 DEF FenceRecovered, Dropped, Fenced
<1>11. CASE Loaded(d)
  <2>1. [job[d] EXCEPT !.file = file] \in Job
    BY DEF Job
  <2> QED
    BY <1>11, <2>1 DEF Loaded
<1>12. CASE Restored(d)
  <2>1. job[d].file \in RuntimeFile \cup {NoFile}
    BY DEF Job
  <2> QED
    BY <1>12, <2>1 DEF Restored
<1>13. CASE FailureRecorded(d)
  <2>1. file # NoFile => [file EXCEPT !.pid = None, !.failed = TRUE] \in RuntimeFile
    BY DEF RuntimeFile
  <2>2. file' \in RuntimeFile \cup {NoFile}
    BY <1>13, <2>1, Updated DEF FailureRecorded
  <2> QED
    BY <1>13, <2>2 DEF FailureRecorded
<1> QED
  BY <1>1, <1>2, <1>3, <1>4, <1>5, <1>6, <1>7, <1>8, <1>9, <1>10, <1>11, <1>12, <1>13
  DEF Transaction

LEMMA WorkType ==
    ASSUME TypeOK, NEW d \in Daemon, Work(d)
    PROVE  TypeOK'
<1> USE DEF TypeOK, Place, Goto, SetJob, SetFence
<1>1. CASE Poll(d)
  <2>1. fence[d] \in Fence
    BY <1>1 DEF Poll, Owner
  <2>2. Read(rollout, fence[d].turn) \in Fence
    BY <2>1 DEF Fence, Read
  <2> QED
    BY <1>1, <2>2 DEF Poll
<1>2. CASE FenceCompleted(d)
  <2>1. [job[d] EXCEPT !.file = NoFile] \in Job
    BY DEF Job
  <2>2. file # NoFile => [file EXCEPT !.handoff = TRUE] \in RuntimeFile
    BY DEF RuntimeFile
  <2>3. Update([file EXCEPT !.handoff = TRUE]) => file' \in RuntimeFile \cup {NoFile}
    BY <2>2, Updated
  <2> QED
    BY <1>2, <2>1, <2>3 DEF FenceCompleted
<1>3. CASE Removed(d)
  BY <1>3, StoppedFile DEF Removed, Released
<1>4. CASE StartRecorded(d)
  <2>1. file # NoFile =>
          [file EXCEPT !.managed = file.pending, !.parent = file.pending,
                       !.pending = None, !.handoff = FALSE] \in RuntimeFile
    BY DEF RuntimeFile
  <2>2. file' \in RuntimeFile \cup {NoFile}
    BY <1>4, <2>1, Updated DEF StartRecorded
  <2> QED
    BY <1>4, <2>2 DEF StartRecorded
<1>5. CASE TurnFinished(d)
  <2>1. file # NoFile => [file EXCEPT !.managed = None, !.handoff = TRUE] \in RuntimeFile
    BY DEF RuntimeFile
  <2>2. file' \in RuntimeFile \cup {NoFile}
    BY <1>5, <2>1, Updated DEF TurnFinished
  <2> QED
    BY <1>5, <2>2 DEF TurnFinished
<1> QED
  BY <1>1, <1>2, <1>3, <1>4, <1>5 DEF Work

(* What a daemon does with a turn.                                         *)
LEMMA TurnType ==
    ASSUME TypeOK, NEW d \in Daemon, NEW t \in Turn,
           StartChecked(d, t) \/ TurnStarted(d, t) \/ Adopted(d, t)
    PROVE  TypeOK'
<1> USE DEF TypeOK, Place, Goto, SetJob, SetFence
<1>1. Read(rollout, t) \in Fence
  BY DEF Read, Fence
<1>2. CASE StartChecked(d, t)
  <2>1. [kind |-> IF file = NoFile THEN "create" ELSE "reuse",
         fence |-> Read(rollout, t), file |-> NoFile] \in Job
    BY <1>1 DEF Job
  <2> QED
    BY <1>2, <2>1 DEF StartChecked
<1>3. CASE TurnStarted(d, t)
  <2>1. Append(rollout, [kind |-> "started", turn |-> t]) \in Seq(TurnEvent)
    BY DEF TurnEvent
  <2>2. file # NoFile => [file EXCEPT !.pending = t] \in RuntimeFile
    BY DEF RuntimeFile
  <2>3. file' \in RuntimeFile \cup {NoFile}
    BY <1>3, <2>2, Updated DEF TurnStarted
  <2> QED
    BY <1>3, <2>1, <2>3 DEF TurnStarted
<1>4. CASE Adopted(d, t)
  <2>1. file # NoFile => [file EXCEPT !.parent = t, !.handoff = FALSE] \in RuntimeFile
    BY DEF RuntimeFile
  <2>2. file' \in RuntimeFile \cup {NoFile}
    BY <1>4, <2>1, Updated DEF Adopted
  <2> QED
    BY <1>1, <1>4, <2>2 DEF Adopted
<1> QED
  BY <1>2, <1>3, <1>4

(* The beginning and the end of a daemon, and a request that fails.        *)
LEMMA DaemonType ==
    ASSUME TypeOK, NEW d \in Daemon,
           Discovered(d) \/ Raised(d) \/ Crashed(d) \/ Closed(d)
    PROVE  TypeOK'
<1> USE DEF TypeOK, Place, Goto, SetJob, SetFence
<1>1. Idle \in Job /\ [Idle EXCEPT !.kind = "recover", !.file = file] \in Job
  BY DEF Idle, Job
<1>2. CASE Discovered(d)
  BY <1>1, <1>2 DEF Discovered
<1>3. CASE Raised(d)
  BY <1>3 DEF Raised, Rollback, Fails
<1>4. CASE Crashed(d)
  BY <1>1, <1>4 DEF Crashed, Forgotten, Fails, Released
<1>5. CASE Closed(d)
  BY <1>1, <1>5, StoppedFile DEF Closed, Forgotten, Released
<1> QED
  BY <1>2, <1>3, <1>4, <1>5

UserStep ==
    \/ \E t \in Turn : UserTurnStarts(t) \/ \E kind \in {"completed", "aborted"} : TurnEnds(t, kind)
    \/ UserStops

LEMMA UserType ==
    ASSUME TypeOK, UserStep
    PROVE  TypeOK'
<1> USE DEF TypeOK
<1>1. ASSUME NEW t \in Turn, UserTurnStarts(t) PROVE TypeOK'
  <2>1. Append(rollout, [kind |-> "started", turn |-> t]) \in Seq(TurnEvent)
    BY DEF TurnEvent
  <2> QED
    BY <1>1, <2>1 DEF UserTurnStarts
<1>2. ASSUME NEW t \in Turn, NEW kind \in {"completed", "aborted"}, TurnEnds(t, kind)
      PROVE  TypeOK'
  <2>1. Append(rollout, [kind |-> kind, turn |-> t]) \in Seq(TurnEvent)
    BY DEF TurnEvent
  <2> QED
    BY <1>2, <2>1 DEF TurnEnds
<1>3. CASE UserStops
  <2>1. file # NoFile => [file EXCEPT !.shutdown = TRUE, !.handoff = FALSE] \in RuntimeFile
    BY DEF RuntimeFile
  <2>2. Update([file EXCEPT !.shutdown = TRUE, !.handoff = FALSE]) =>
          file' \in RuntimeFile \cup {NoFile}
    BY <2>1, Updated
  <2> QED
    BY <1>3, <2>2 DEF UserStops
<1> QED
  BY <1>1, <1>2, <1>3 DEF UserStep

-----------------------------------------------------------------------------
(* The lease.                                                              *)

(* A transaction captures what its next place needs.                       *)
LEMMA JobStep ==
    ASSUME TypeOK, \A d \in Daemon : JobInv(d), [Next]_vars
    PROVE  \A d \in Daemon : JobInv(d)'
<1> SUFFICES ASSUME NEW e \in Daemon PROVE JobInv(e)'
  OBVIOUS
<1> USE DEF TypeOK, JobInv, Goto, SetJob, SetFence
<1>1. ASSUME NEW d \in Daemon, Transaction(d) PROVE JobInv(e)'
  <2>1. CASE Enabled(d)
    BY <2>1 DEF Enabled, Refused, Job
  <2>2. CASE Initialized(d)
    BY <2>2 DEF Initialized, Job
  <2>3. CASE LeaseTaken(d)
    BY <2>3 DEF LeaseTaken, Rollback, Job
  <2>4. CASE Bound(d)
    BY <2>4 DEF Bound, Job
  <2>5. CASE Resumed(d)
    BY <2>5 DEF Resumed, Job
  <2>6. CASE Published(d)
    BY <2>6 DEF Published, Idle, Job
  <2>7. CASE TaskClosed(d)
    BY <2>7 DEF TaskClosed, Released, Idle, Job
  <2>8. CASE RolledBack(d)
    BY <2>8 DEF RolledBack, Idle, Job
  <2>9. CASE Claimed(d)
    BY <2>9 DEF Claimed, Idle, Job
  <2>10. CASE FenceRecovered(d)
    BY <2>10 DEF FenceRecovered, Dropped, Fenced, Idle, Job
  <2>11. CASE Loaded(d)
    BY <2>11 DEF Loaded, Job
  <2>12. CASE Restored(d)
    BY <2>12 DEF Restored, Job
  <2>13. CASE FailureRecorded(d)
    BY <2>13 DEF FailureRecorded, Job
  <2> QED
    BY <1>1, <2>1, <2>2, <2>3, <2>4, <2>5, <2>6, <2>7, <2>8, <2>9, <2>10, <2>11, <2>12, <2>13 DEF Transaction
<1>2. ASSUME NEW d \in Daemon, Work(d) PROVE JobInv(e)'
  <2>1. CASE Poll(d)
    BY <2>1 DEF Poll, Owner, Job
  <2>2. CASE FenceCompleted(d)
    <3> DEFINE new == [job[d] EXCEPT !.file = NoFile]
    <3>1. new.kind = job[d].kind /\ new.file = NoFile
      BY DEF Job
    <3>2. /\ UNCHANGED job \/ job' = [job EXCEPT ![d] = new]
          /\ \E place \in {"restore", "fail", "load", "idle"} : pc' = [pc EXCEPT ![d] = place]
          /\ pc'[d] \in {"restore", "load"} => pc[d] = "settle"
      BY <2>2 DEF FenceCompleted
    <3> HIDE DEF new
    <3> QED
      BY <3>1, <3>2
  <2>3. CASE Removed(d)
    BY <2>3 DEF Removed, Owner, Released, Job
  <2>4. CASE StartRecorded(d)
    BY <2>4 DEF StartRecorded, Job
  <2>5. CASE TurnFinished(d)
    BY <2>5 DEF TurnFinished, Owner, Job
  <2> QED
    BY <1>2, <2>1, <2>2, <2>3, <2>4, <2>5 DEF Work
<1>3. ASSUME NEW d \in Daemon, NEW t \in Turn,
             StartChecked(d, t) \/ TurnStarted(d, t) \/ Adopted(d, t)
      PROVE  JobInv(e)'
  BY <1>3 DEF StartChecked, TurnStarted, Adopted, Owner
<1>4. ASSUME NEW d \in Daemon, Discovered(d) \/ Raised(d) \/ Crashed(d) \/ Closed(d) PROVE JobInv(e)'
  <2>1. CASE Discovered(d)
    <3> DEFINE new == [Idle EXCEPT !.kind = "recover", !.file = file]
    <3>1. new.kind = "recover" /\ new.file = file
      BY DEF Idle
    <3>2. \/ pc' = [pc EXCEPT ![d] = "idle"] /\ UNCHANGED job
          \/ pc' = [pc EXCEPT ![d] = "found"] /\ job' = [job EXCEPT ![d] = new] /\ file # NoFile
      BY <2>1 DEF Discovered
    <3> HIDE DEF new
    <3> QED
      BY <3>1, <3>2
  <2>2. CASE Raised(d)
    BY <2>2 DEF Raised, Rollback, Job
  <2>3. CASE Crashed(d)
    BY <2>3 DEF Crashed, Forgotten, Released, Alive, Idle, Job
  <2>4. CASE Closed(d)
    BY <2>4 DEF Closed, Forgotten, Released, Idle, Job
  <2> QED
    BY <1>4, <2>1, <2>2, <2>3, <2>4
<1>5. CASE UserStep
  BY <1>5 DEF UserStep, UserTurnStarts, TurnEnds, UserStops
<1>6. CASE UNCHANGED vars
  BY <1>6 DEF vars
<1> QED
  BY <1>1, <1>2, <1>3, <1>4, <1>5, <1>6 DEF Next, UserStep

(* The lease is taken when it is free, and given up by its holder, before   *)
(* anything that needs it is done and after it is undone.                  *)
LEMMA LeaseStep ==
    ASSUME TypeOK, LeaseInv, [Next]_vars
    PROVE  LeaseInv'
<1> USE DEF TypeOK, LeaseInv, OwnerHasLease, Apart, Attempt, Goto, SetJob, SetFence
<1> None \notin Daemon
  BY DEF None
<1>1. ASSUME NEW d \in Daemon, Transaction(d) PROVE LeaseInv'
  <2>1. CASE Enabled(d)
    BY <2>1 DEF Enabled, Refused
  <2>2. CASE Initialized(d)
    BY <2>2 DEF Initialized
  <2>3. CASE LeaseTaken(d)
    BY <2>3 DEF LeaseTaken, Rollback
  <2>4. CASE Bound(d)
    BY <2>4 DEF Bound
  <2>5. CASE Resumed(d)
    BY <2>5 DEF Resumed
  <2>6. CASE Published(d)
    BY <2>6 DEF Published, Idle
  <2>7. CASE TaskClosed(d)
    BY <2>7 DEF TaskClosed, Released, Idle
  <2>8. CASE RolledBack(d)
    BY <2>8 DEF RolledBack, Idle
  <2>9. CASE Claimed(d)
    BY <2>9 DEF Claimed, Idle
  <2>10. CASE FenceRecovered(d)
    BY <2>10 DEF FenceRecovered, Dropped, Fenced, Idle
  <2>11. CASE Loaded(d)
    BY <2>11 DEF Loaded
  <2>12. CASE Restored(d)
    BY <2>12 DEF Restored
  <2>13. CASE FailureRecorded(d)
    BY <2>13 DEF FailureRecorded
  <2> QED
    BY <1>1, <2>1, <2>2, <2>3, <2>4, <2>5, <2>6, <2>7, <2>8, <2>9, <2>10, <2>11, <2>12, <2>13 DEF Transaction
<1>2. ASSUME NEW d \in Daemon, Work(d) PROVE LeaseInv'
  <2>1. CASE Poll(d)
    BY <2>1 DEF Poll, Owner
  <2>2. CASE FenceCompleted(d)
    BY <2>2 DEF FenceCompleted
  <2>3. CASE Removed(d)
    BY <2>3 DEF Removed, Owner, Released
  <2>4. CASE StartRecorded(d)
    BY <2>4 DEF StartRecorded
  <2>5. CASE TurnFinished(d)
    BY <2>5 DEF TurnFinished, Owner
  <2> QED
    BY <1>2, <2>1, <2>2, <2>3, <2>4, <2>5 DEF Work
<1>3. ASSUME NEW d \in Daemon, NEW t \in Turn,
             StartChecked(d, t) \/ TurnStarted(d, t) \/ Adopted(d, t)
      PROVE  LeaseInv'
  BY <1>3 DEF StartChecked, TurnStarted, Adopted, Owner
<1>4. ASSUME NEW d \in Daemon, Discovered(d) \/ Raised(d) \/ Crashed(d) \/ Closed(d) PROVE LeaseInv'
  <2>1. CASE Discovered(d)
    BY <2>1 DEF Discovered, Alive, Idle
  <2>2. CASE Raised(d)
    BY <2>2 DEF Raised, Rollback
  <2>3. CASE Crashed(d)
    BY <2>3 DEF Crashed, Forgotten, Released, Alive, Idle
  <2>4. CASE Closed(d)
    BY <2>4 DEF Closed, Forgotten, Released, Idle
  <2> QED
    BY <1>4, <2>1, <2>2, <2>3, <2>4
<1>5. CASE UserStep
  BY <1>5 DEF UserStep, UserTurnStarts, TurnEnds, UserStops
<1>6. CASE UNCHANGED vars
  BY <1>6 DEF vars
<1> QED
  BY <1>1, <1>2, <1>3, <1>4, <1>5, <1>6 DEF Next, UserStep

-----------------------------------------------------------------------------
(* The file, while no two daemons run at once.                             *)

\* What the invariant says of one daemon that runs alone.
Local(d) ==
    /\ Coherent(file) /\ Coherent(job[d].file)
    /\ StartInv(d) /\ RecoveryInv(d) /\ FenceInv(d) /\ WorkInv(d)

EndsStay == \A t \in Turn : EndedIn(rollout, t) => EndedIn(rollout', t)

\* A step that leaves the other daemons alone.
OnlyBy(d) ==
    \A e \in Daemon \ {d} :
        pc'[e] = pc[e] /\ owns'[e] = owns[e] /\ fence'[e] = fence[e] /\ job'[e] = job[e]

(* A document stays coherent as the rollout grows.                         *)
LEMMA CoherentStays ==
    ASSUME NEW f \in RuntimeFile \cup {NoFile}, Coherent(f), EndsStay
    PROVE  f # NoFile =>
              /\ f.handoff => f.parent # None /\ EndedIn(rollout', f.parent)
              /\ f.shutdown => ~f.handoff /\ f.managed # None
              /\ f.managed # None /\ ~f.shutdown => f.parent = f.managed
BY DEF Coherent, EndsStay, RuntimeFile

(* The daemons that do not run have nothing to lose.                       *)
LEMMA AloneFromLocal ==
    ASSUME IInv, AloneInv, TypeOK', NEW d \in Daemon, Alive \subseteq {d}, OnlyBy(d), EndsStay, Local(d)'
    PROVE  AloneInv'
<1>1. \A e \in Daemon \ {d} : pc[e] \in {"down", "gone"} /\ e \notin Alive'
  BY DEF AloneInv, Alive, OnlyBy
<1>2. ASSUME NEW e \in Daemon \ {d}
      PROVE  StartInv(e)' /\ RecoveryInv(e)' /\ FenceInv(e)' /\ WorkInv(e)'
  <2>1. pc'[e] \in {"down", "gone"} /\ owns'[e] = FALSE
    BY <1>1 DEF OnlyBy, IInv, LeaseInv, Apart, TypeOK
  <2>2. fence'[e] = NoFence
    BY <1>1, <2>1 DEF OnlyBy, AloneInv, FenceInv
  <2> QED
    BY <2>1, <2>2 DEF StartInv, RecoveryInv, FenceInv, WorkInv
<1>3. ASSUME NEW e \in Daemon \ {d} PROVE Coherent(job[e].file)'
  <2>1. job[e].file \in RuntimeFile \cup {NoFile} /\ Coherent(job[e].file)
    BY DEF IInv, TypeOK, Job, AloneInv
  <2> DEFINE f == job[e].file
  <2>2. f # NoFile =>
          /\ f.handoff => f.parent # None /\ EndedIn(rollout', f.parent)
          /\ f.shutdown => ~f.handoff /\ f.managed # None
          /\ f.managed # None /\ ~f.shutdown => f.parent = f.managed
    BY <2>1, CoherentStays
  <2>3. job'[e] = job[e]
    BY DEF OnlyBy
  <2> QED
    BY <2>2, <2>3 DEF Coherent
<1>4. \A b, c \in Alive' : b = c
  BY <1>1 DEF Alive
<1> QED
  BY <1>2, <1>3, <1>4 DEF AloneInv, Local

(* A start.                                                                *)
LEMMA StartLocal ==
    ASSUME IInv, ~shared, NEW d \in Daemon,
           \/ \E t \in Turn : StartChecked(d, t)
           \/ Enabled(d) \/ Initialized(d) \/ LeaseTaken(d) \/ Bound(d) \/ Resumed(d)
           \/ Published(d)
    PROVE  Local(d)'
<1>1. /\ TypeOK /\ LeaseInv /\ JobInv(d) /\ Local(d)
      /\ file \in RuntimeFile \cup {NoFile}
      /\ job[d] \in Job /\ job[d].file \in RuntimeFile \cup {NoFile}
  BY DEF IInv, AloneInv, Local, TypeOK, Job
<1> USE DEF Goto, SetJob, SetFence, JobInv, Local, StartInv, RecoveryInv, FenceInv, WorkInv
<1>2. ASSUME NEW t \in Turn, StartChecked(d, t) PROVE Local(d)'
  BY <1>1, <1>2 DEF StartChecked, TypeOK, Coherent
<1>3. CASE Enabled(d)
  <2> USE <1>1 DEF TypeOK, LeaseInv, Apart, Coherent, Spoiled, Stopping, WasPending
  <2>1. CASE Refused(d)
    BY <1>3, <2>1 DEF Enabled, Refused
  <2>2. CASE /\ job[d].kind = "create" /\ pc' = [pc EXCEPT ![d] = "init"]
             /\ file' = NewFile /\ UNCHANGED job
    BY <1>3, <2>2 DEF Enabled, NewFile
  <2>3. CASE /\ job[d].kind # "create" /\ file # NoFile /\ ~file.failed
             /\ pc' = [pc EXCEPT ![d] = "init"]
             /\ job' = [job EXCEPT ![d] = [job[d] EXCEPT !.file = file]]
    <3> DEFINE new == [job[d] EXCEPT !.file = file]
    <3>1. new.kind = job[d].kind /\ new.file = file
      BY DEF Job
    <3>2. pc[d] = "checked" /\ job' = [job EXCEPT ![d] = new] /\ inherited' = TRUE
          /\ UNCHANGED <<rollout, file, owns, fence>>
      BY <1>3, <2>3 DEF Enabled, Refused
    <3> HIDE DEF new
    <3> QED
      BY <2>3, <3>1, <3>2
  <2> QED
    BY <1>3, <2>1, <2>2, <2>3 DEF Enabled
<1>4. CASE Initialized(d)
  <2> DEFINE new == [file EXCEPT !.pid = d, !.failed = FALSE]
  <2>1. file # NoFile =>
          /\ new \in RuntimeFile
          /\ new.parent = file.parent /\ new.handoff = file.handoff
          /\ new.managed = file.managed /\ new.shutdown = file.shutdown /\ new.pid = d
    BY <1>1 DEF RuntimeFile
  <2>3. Update(new)
    BY <1>4 DEF Initialized
  <2>2. /\ file = NoFile <=> file' = NoFile
        /\ file # NoFile => 
             /\ file'.parent = file.parent /\ file'.handoff = file.handoff
             /\ file'.managed = file.managed /\ file'.shutdown = file.shutdown
             /\ file'.pid = d
    <3> HIDE DEF new
    <3> QED
      BY <2>1, <2>3, <1>1, Updated DEF SameButRevision
  <2> QED
    BY <1>1, <1>4, <2>2 DEF Initialized, TypeOK, Coherent, Spoiled, Stopping, WasPending
<1>5. CASE LeaseTaken(d)
  BY <1>1, <1>5 DEF LeaseTaken, Rollback, TypeOK, Coherent, Spoiled, Stopping, WasPending
<1>6. CASE Bound(d)
  <2>1. /\ job[d].fence \in Fence \cup {NoFence} 
        /\ job[d].fence.turn \in Turn \cup {None}
    BY <1>1 DEF Job, Fence, NoFence
  <2>2. file # NoFile => [file EXCEPT !.parent = job[d].fence.turn] \in RuntimeFile
    BY <1>1, <2>1 DEF RuntimeFile
  <2>3. /\ file = NoFile <=> file' = NoFile
        /\ file # NoFile => 
             /\ file'.parent = job[d].fence.turn /\ file'.handoff = file.handoff
             /\ file'.managed = file.managed /\ file'.shutdown = file.shutdown
             /\ file'.pid = file.pid
    BY <2>2, <1>6, <1>1, Updated DEF Bound, SameButRevision, RuntimeFile
  <2> QED
    BY <1>1, <1>6, <2>1, <2>3 DEF Bound, TypeOK, Coherent, Spoiled, Stopping, WasPending
<1>7. CASE Resumed(d)
  BY <1>1, <1>7 DEF Resumed, TypeOK, Coherent, Spoiled, Stopping, WasPending
<1>8. CASE Published(d)
  BY <1>1, <1>8 DEF Published, TypeOK, Coherent, Spoiled, Stopping, WasPending, Idle
<1> QED
  BY <1>2, <1>3, <1>4, <1>5, <1>6, <1>7, <1>8

(* The end of a start or a recovery that failed.                           *)
LEMMA FailureLocal ==
    ASSUME IInv, ~shared, NEW d \in Daemon,
           TaskClosed(d) \/ RolledBack(d) \/ Restored(d) \/ FailureRecorded(d) \/ Raised(d)
    PROVE  Local(d)'
<1>1. /\ TypeOK /\ LeaseInv /\ JobInv(d) /\ Local(d)
      /\ file \in RuntimeFile \cup {NoFile}
      /\ job[d] \in Job /\ job[d].file \in RuntimeFile \cup {NoFile}
  BY DEF IInv, AloneInv, Local, TypeOK, Job
<1> USE <1>1 DEF Goto, SetJob, SetFence, JobInv, Local, StartInv, RecoveryInv, FenceInv, WorkInv,
      TypeOK, LeaseInv, Apart, Coherent, Spoiled, Stopping, WasPending, Idle
<1>2. CASE TaskClosed(d)
  <2>1. /\ file = NoFile <=> Stopped(d) = NoFile
        /\ file # NoFile => SameButRevision(Stopped(d), [file EXCEPT !.pid = Stopped(d).pid])
    BY StoppedFile
  <2>2. file # NoFile =>
          /\ Stopped(d).parent = file.parent /\ Stopped(d).handoff = file.handoff
          /\ Stopped(d).managed = file.managed /\ Stopped(d).shutdown = file.shutdown
          /\ Stopped(d).failed = file.failed
    BY <2>1 DEF SameButRevision, RuntimeFile
  <2> QED
    BY <1>2, <2>1, <2>2 DEF TaskClosed
<1>3. CASE RolledBack(d)
  BY <1>3 DEF RolledBack
<1>4. CASE Restored(d)
  BY <1>4 DEF Restored
<1>5. CASE FailureRecorded(d)
  <2> DEFINE new == [file EXCEPT !.pid = None, !.failed = TRUE]
  <2>1. file # NoFile =>
          /\ new \in RuntimeFile
          /\ new.parent = file.parent /\ new.handoff = file.handoff
          /\ new.managed = file.managed /\ new.shutdown = file.shutdown /\ new.failed
    BY DEF RuntimeFile
  <2>2. Update(new)
    BY <1>5 DEF FailureRecorded
  <2>3. /\ file = NoFile <=> file' = NoFile
        /\ file # NoFile =>
             /\ file'.parent = file.parent /\ file'.handoff = file.handoff
             /\ file'.managed = file.managed /\ file'.shutdown = file.shutdown
             /\ file'.failed
    <3> HIDE DEF new
    <3> QED
      BY <2>1, <2>2, Updated DEF SameButRevision
  <2> QED
    BY <1>5, <2>3 DEF FailureRecorded
<1>6. CASE Raised(d)
  BY <1>6 DEF Raised, Rollback
<1> QED
  BY <1>2, <1>3, <1>4, <1>5, <1>6

(* A recovery.                                                             *)
LEMMA RecoveryLocal ==
    ASSUME IInv, ~shared', NEW d \in Daemon, Alive \subseteq {d},
           Discovered(d) \/ Claimed(d) \/ FenceRecovered(d) \/ Loaded(d)
    PROVE  Local(d)'
<1>1. ~shared
  BY DEF Discovered, Claimed, FenceRecovered, Loaded, IInv, TypeOK
<1>2. /\ TypeOK /\ LeaseInv /\ JobInv(d) /\ Local(d)
      /\ file \in RuntimeFile \cup {NoFile}
      /\ job[d] \in Job /\ job[d].file \in RuntimeFile \cup {NoFile}
  BY <1>1 DEF IInv, AloneInv, Local, TypeOK, Job
<1> USE <1>2 DEF Goto, SetJob, SetFence, JobInv, Local, StartInv, RecoveryInv, FenceInv, WorkInv,
      TypeOK, LeaseInv, Apart, Coherent, Spoiled, Stopping, WasPending
<1>3. CASE Discovered(d)
  <2> DEFINE new == [Idle EXCEPT !.kind = "recover", !.file = file]
  <2>1. new.kind = "recover" /\ new.file = file
    BY DEF Idle
  <2>2. \/ /\ pc' = [pc EXCEPT ![d] = "idle"] /\ UNCHANGED job
           /\ file = NoFile \/ file.failed
        \/ pc' = [pc EXCEPT ![d] = "found"] /\ job' = [job EXCEPT ![d] = new] /\ file # NoFile
    BY <1>3 DEF Discovered
  <2> HIDE DEF new
  <2> QED
    BY <1>3, <2>1, <2>2 DEF Discovered
<1>4. CASE Claimed(d)
  <2>1. lease = None
    <3>1. lease # None => lease = d
      BY <1>1 DEF Alive, Attempt
    <3> QED
      BY <1>4, <3>1 DEF Claimed, Attempt
  <2>2. file # NoFile =>
          /\ Bumped(file) # NoFile
          /\ Bumped(file).parent = file.parent /\ Bumped(file).handoff = file.handoff
          /\ Bumped(file).managed = file.managed /\ Bumped(file).shutdown = file.shutdown
    BY BumpedFile DEF SameButRevision
  <2>3. file # NoFile => file.revision \in Nat /\ job[d].file.revision \in Int
    BY DEF RuntimeFile, NoFile
  <2> QED
    BY <1>4, <2>1, <2>2, <2>3 DEF Claimed, Idle
<1>5. CASE FenceRecovered(d)
  <2>1. job[d].file \in RuntimeFile
    BY <1>5 DEF FenceRecovered
  <2>2. ASSUME job[d].file.parent # None
        PROVE  /\ Read(rollout, job[d].file.parent) # NoFence
               /\ Read(rollout, job[d].file.parent).turn = job[d].file.parent
    BY <2>2 DEF Read, NoFence
  <2>3. Recovered(rollout, job[d].file.parent) \in {"completed", "aborted"} =>
          EndedIn(rollout, job[d].file.parent)
    BY RecoveredStatus
  <2> QED
    BY <1>5, <2>1, <2>2, <2>3 DEF FenceRecovered, Dropped, Fenced, Idle, Job
<1>6. CASE Loaded(d)
  BY <1>6 DEF Loaded, Job
<1> QED
  BY <1>3, <1>4, <1>5, <1>6

(* The worker of the owner.                                                *)
LEMMA WorkLocal ==
    ASSUME IInv, ~shared, NEW d \in Daemon,
           Work(d) \/ \E t \in Turn : TurnStarted(d, t) \/ Adopted(d, t)
    PROVE  Local(d)'
<1>1. /\ TypeOK /\ LeaseInv /\ JobInv(d) /\ Local(d)
      /\ file \in RuntimeFile \cup {NoFile}
      /\ job[d] \in Job /\ job[d].file \in RuntimeFile \cup {NoFile}
      /\ fence[d] \in Fence \cup {NoFence}
  BY DEF IInv, AloneInv, Local, TypeOK, Job
<1> USE <1>1 DEF Goto, SetJob, SetFence, JobInv, Local, StartInv, RecoveryInv, FenceInv, WorkInv,
      TypeOK, LeaseInv, Apart, Coherent, Spoiled, Stopping, WasPending, Owner
<1>2. CASE Poll(d)
  <2>1. fence[d] \in Fence /\ rollout \in Seq(TurnEvent)
    BY <1>2 DEF Poll
  <2>2. /\ Polled(rollout, fence[d]) \in {"pending", "completed", "aborted", "superseded"}
        /\ Polled(rollout, fence[d]) \in {"completed", "aborted"} =>
              EndedIn(rollout, fence[d].turn)
    BY <2>1, PolledStatus
  <2>3. /\ Read(rollout, fence[d].turn) # NoFence
        /\ Read(rollout, fence[d].turn).turn = fence[d].turn
    BY <2>1 DEF Read, NoFence, None, Fence, Turn
  <2> QED
    BY <1>2, <2>2, <2>3 DEF Poll
<1>3. CASE FenceCompleted(d)
  <2> DEFINE new == [file EXCEPT !.handoff = TRUE]
             left == [job[d] EXCEPT !.file = NoFile]
             lost == file # NoFile /\ (file.parent # fence[d].turn \/ file.managed # None)
  <2>1. left.kind = job[d].kind /\ left.file = NoFile
    BY DEF Job
  <2>2. file # NoFile =>
          /\ new \in RuntimeFile /\ new.handoff = TRUE
          /\ new.parent = file.parent /\ new.pid = file.pid
          /\ new.managed = file.managed /\ new.shutdown = file.shutdown
    BY DEF RuntimeFile
  <2>3. fence[d].turn # None /\ EndedIn(rollout, fence[d].turn)
    BY <1>3 DEF FenceCompleted, Fence, Turn, None
  <2>4. CASE lost
    <3>1. /\ job' = [job EXCEPT ![d] = left]
          /\ pc' = [pc EXCEPT ![d] = IF pc[d] = "settle" THEN "restore" ELSE "fail"]
          /\ UNCHANGED <<rollout, file, owns, fence, inherited>>
          /\ pc[d] \in {"complete", "settle"}
      BY <1>3, <2>4 DEF FenceCompleted
    <3> HIDE DEF left
    <3> QED
      BY <2>1, <3>1
  <2>5. CASE ~lost
    <3>1. /\ Update(new) /\ fence' = [fence EXCEPT ![d] = NoFence]
          /\ pc' = [pc EXCEPT ![d] = IF pc[d] = "settle" THEN "load" ELSE "idle"]
          /\ UNCHANGED <<rollout, job, owns, inherited>>
          /\ pc[d] \in {"complete", "settle"}
      BY <1>3, <2>5 DEF FenceCompleted
    <3>2. /\ file = NoFile <=> file' = NoFile
          /\ file # NoFile =>
               /\ file'.parent = file.parent /\ file'.handoff = TRUE
               /\ file'.managed = file.managed /\ file'.shutdown = file.shutdown
               /\ file'.pid = file.pid
      <4> HIDE DEF new
      <4> QED
        BY <2>2, <3>1, Updated DEF SameButRevision
    <3> QED
      BY <2>3, <2>5, <3>1, <3>2
  <2> QED
    BY <2>4, <2>5
<1>4. CASE Removed(d)
  <2>1. /\ file = NoFile <=> Stopped(d) = NoFile
        /\ file # NoFile => SameButRevision(Stopped(d), [file EXCEPT !.pid = Stopped(d).pid])
    BY StoppedFile
  <2>2. file # NoFile =>
          /\ Stopped(d).parent = file.parent /\ Stopped(d).handoff = file.handoff
          /\ Stopped(d).managed = file.managed /\ Stopped(d).shutdown = file.shutdown
          /\ Stopped(d).failed = file.failed
    BY <2>1 DEF SameButRevision, RuntimeFile
  <2> QED
    BY <1>4, <2>1, <2>2 DEF Removed
<1>5. CASE StartRecorded(d)
  <2> DEFINE new == [file EXCEPT !.managed = file.pending, !.parent = file.pending,
                                 !.pending = None, !.handoff = FALSE]
  <2>1. file # NoFile =>
          /\ new \in RuntimeFile
          /\ new.parent = file.pending /\ new.handoff = FALSE /\ new.pid = file.pid
          /\ new.managed = file.pending /\ new.shutdown = file.shutdown
    BY DEF RuntimeFile
  <2>2. Update(new)
    BY <1>5 DEF StartRecorded
  <2>3. /\ file = NoFile <=> file' = NoFile
        /\ file # NoFile =>
             /\ file'.parent = file.pending /\ file'.handoff = FALSE
             /\ file'.managed = file.pending /\ file'.shutdown = file.shutdown
             /\ file'.pid = file.pid
    <3> HIDE DEF new
    <3> QED
      BY <2>1, <2>2, Updated DEF SameButRevision
  <2> QED
    BY <1>5, <2>3 DEF StartRecorded
<1>6. CASE TurnFinished(d)
  <2> DEFINE new == [file EXCEPT !.managed = None, !.handoff = TRUE]
  <2>1. file # NoFile =>
          /\ new \in RuntimeFile
          /\ new.parent = file.parent /\ new.handoff = TRUE /\ new.pid = file.pid
          /\ new.managed = None /\ new.shutdown = file.shutdown
    BY DEF RuntimeFile
  <2>2. CASE file.shutdown
    BY <1>6, <2>2 DEF TurnFinished
  <2>3. CASE ~file.shutdown
    <3>1. Update(new)
      BY <1>6, <2>3 DEF TurnFinished
    <3>2. /\ file = NoFile <=> file' = NoFile
          /\ file # NoFile =>
               /\ file'.parent = file.parent /\ file'.handoff = TRUE
               /\ file'.managed = None /\ file'.shutdown = file.shutdown
               /\ file'.pid = file.pid
      <4> HIDE DEF new
      <4> QED
        BY <2>1, <3>1, Updated DEF SameButRevision
    <3> QED
      BY <1>6, <2>3, <3>2 DEF TurnFinished
  <2> QED
    BY <2>2, <2>3
<1>7. ASSUME NEW t \in Turn, Adopted(d, t) PROVE Local(d)'
  <2> DEFINE new == [file EXCEPT !.parent = t, !.handoff = FALSE]
  <2>1. file # NoFile =>
          /\ new \in RuntimeFile
          /\ new.parent = t /\ new.handoff = FALSE /\ new.pid = file.pid
          /\ new.managed = file.managed /\ new.shutdown = file.shutdown
    BY DEF RuntimeFile
  <2>2. Update(new)
    BY <1>7 DEF Adopted
  <2>3. /\ file = NoFile <=> file' = NoFile
        /\ file # NoFile =>
             /\ file'.parent = t /\ file'.handoff = FALSE /\ file'.pid = file.pid
             /\ file'.managed = file.managed /\ file'.shutdown = file.shutdown
    <3> HIDE DEF new
    <3> QED
      BY <2>1, <2>2, Updated DEF SameButRevision
  <2>4. Read(rollout, t).turn = t
    BY DEF Read
  <2> QED
    BY <1>7, <2>3, <2>4 DEF Adopted
<1>8. ASSUME NEW t \in Turn, TurnStarted(d, t) PROVE Local(d)'
  <2> DEFINE new == [file EXCEPT !.pending = t]
  <2>1. file # NoFile =>
          /\ new \in RuntimeFile
          /\ new.parent = file.parent /\ new.handoff = file.handoff /\ new.pid = file.pid
          /\ new.managed = file.managed /\ new.shutdown = file.shutdown /\ new.pending = t
    BY DEF RuntimeFile
  <2>2. Update(new)
    BY <1>8 DEF TurnStarted
  <2>3. /\ file = NoFile <=> file' = NoFile
        /\ file # NoFile =>
             /\ file'.parent = file.parent /\ file'.handoff = file.handoff
             /\ file'.managed = file.managed /\ file'.shutdown = file.shutdown
             /\ file'.pid = file.pid /\ file'.pending = t
    <3> HIDE DEF new
    <3> QED
      BY <2>1, <2>2, Updated DEF SameButRevision
  <2>4. \A u : EndedIn(rollout, u) => EndedIn(rollout', u)
    BY <1>8, EndStays DEF TurnStarted, TurnEvent
  <2>5. t # None
    BY DEF Turn, None
  <2> QED
    BY <1>8, <2>3, <2>4, <2>5 DEF TurnStarted
<1> QED
  BY <1>2, <1>3, <1>4, <1>5, <1>6, <1>7, <1>8 DEF Work

(* What the user and the app-server do.                                    *)
LEMMA UserAlone ==
    ASSUME IInv, ~shared, UserStep
    PROVE  AloneInv'
<1> USE DEF IInv, AloneInv
<1>1. TypeOK /\ file \in RuntimeFile \cup {NoFile}
  BY DEF TypeOK
<1>2. \A d \in Daemon : job[d].file \in RuntimeFile \cup {NoFile}
  BY DEF TypeOK, Job
<1>3. UNCHANGED <<pc, owns, fence, job, inherited, lease>>
  BY DEF UserStep, UserTurnStarts, TurnEnds, UserStops
<1>4. \A c, d \in Alive' : c = d
  BY <1>3 DEF Alive
<1>5. EndsStay
  <2>1. CASE rollout' = rollout
    BY <2>1 DEF EndsStay
  <2>2. ASSUME NEW event \in TurnEvent, rollout' = Append(rollout, event) PROVE EndsStay
    BY <1>1, <2>2, EndStays DEF EndsStay, TypeOK
  <2> QED
    BY <2>1, <2>2 DEF UserStep, UserTurnStarts, TurnEnds, UserStops, TurnEvent
<1>6. \A d \in Daemon : Coherent(job[d].file)'
  BY <1>2, <1>3, <1>5, CoherentStays DEF Coherent
<1>7. CASE file' = file
  <2>1. Coherent(file)'
    BY <1>1, <1>5, <1>7, CoherentStays DEF Coherent
  <2>2. ASSUME NEW d \in Daemon
        PROVE  StartInv(d)' /\ RecoveryInv(d)' /\ FenceInv(d)' /\ WorkInv(d)'
    <3>1. pc[d] \in {"settle", "complete"} => EndedIn(rollout', fence[d].turn)
      BY <1>1, <1>5 DEF FenceInv, EndsStay, TypeOK, Fence
    <3> QED
      BY <1>3, <1>7, <3>1 DEF StartInv, RecoveryInv, FenceInv, WorkInv, Spoiled, Stopping, WasPending
  <2> QED
    BY <1>4, <1>6, <2>1, <2>2
<1>8. CASE UserStops
  <2> DEFINE new == [file EXCEPT !.shutdown = TRUE, !.handoff = FALSE]
  <2>1. file # NoFile =>
          /\ new \in RuntimeFile
          /\ new.parent = file.parent /\ new.handoff = FALSE /\ new.pid = file.pid
          /\ new.managed = file.managed /\ new.shutdown = TRUE /\ new.revision = file.revision
          /\ file.revision \in Nat
    BY <1>1 DEF RuntimeFile
  <2>2. CASE file' = NoFile
    BY <1>3, <1>4, <1>6, <1>8, <2>2
    DEF UserStops, StartInv, RecoveryInv, FenceInv, WorkInv, Coherent, Spoiled, Stopping
  <2>3. CASE file' # NoFile
    <3>1. Update(new) /\ file.managed # None /\ file # NoFile /\ rollout' = rollout
      BY <1>8, <2>3 DEF UserStops
    <3>2. /\ file'.parent = file.parent /\ file'.handoff = FALSE /\ file'.pid = file.pid
          /\ file'.managed = file.managed /\ file'.shutdown = TRUE
          /\ file'.revision = file.revision + 1
      <4> HIDE DEF new
      <4> QED
        BY <1>1, <2>1, <3>1, Updated DEF SameButRevision
    <3>3. Coherent(file)'
      BY <3>1, <3>2 DEF Coherent
    <3>4. ASSUME NEW d \in Daemon
          PROVE  StartInv(d)' /\ RecoveryInv(d)' /\ FenceInv(d)' /\ WorkInv(d)'
      <4> USE <1>3, <2>1, <3>1, <3>2 DEF WasPending
      <4>1. StartInv(d)'
        BY DEF StartInv, Spoiled, Stopping
      <4>2. RecoveryInv(d)'
        <5>1. job[d].file.revision \in Int
          BY <1>2 DEF RuntimeFile, NoFile
        <5> QED
          BY <5>1 DEF RecoveryInv
      <4>3. FenceInv(d)'
        BY DEF FenceInv
      <4>4. WorkInv(d)'
        BY DEF WorkInv
      <4> QED
        BY <4>1, <4>2, <4>3, <4>4
    <3> QED
      BY <1>4, <1>6, <3>3, <3>4
  <2> QED
    BY <2>2, <2>3
<1> QED
  BY <1>7, <1>8 DEF UserStep, UserTurnStarts, TurnEnds

(* The end of a daemon.                                                    *)
LEMMA EndLocal ==
    ASSUME IInv, ~shared, NEW d \in Daemon, Crashed(d) \/ Closed(d)
    PROVE  Local(d)'
<1>1. TypeOK /\ Local(d) /\ file \in RuntimeFile \cup {NoFile}
  BY DEF IInv, AloneInv, Local, TypeOK
<1>2. /\ file = NoFile <=> Stopped(d) = NoFile
      /\ file # NoFile =>
            /\ Stopped(d).parent = file.parent /\ Stopped(d).handoff = file.handoff
            /\ Stopped(d).managed = file.managed /\ Stopped(d).shutdown = file.shutdown
  BY <1>1, StoppedFile DEF SameButRevision, RuntimeFile
<1>3. /\ pc'[d] = "gone" /\ owns'[d] = FALSE /\ fence'[d] = NoFence /\ job'[d] = Idle
      /\ rollout' = rollout /\ file' \in {file, Stopped(d)}
  BY <1>1 DEF Crashed, Closed, Forgotten, Goto, SetFence, SetJob, TypeOK
<1>4. Coherent(file)'
  BY <1>1, <1>2, <1>3 DEF Local, Coherent
<1> QED
  BY <1>3, <1>4
  DEF Local, StartInv, RecoveryInv, FenceInv, WorkInv, Coherent, Idle

(* A daemon's steps.                                                       *)
LEMMA DaemonAlone ==
    ASSUME IInv, TypeOK', ~shared', NEW d \in Daemon,
           \/ Discovered(d) \/ Transaction(d) \/ Work(d)
           \/ \E t \in Turn : StartChecked(d, t) \/ TurnStarted(d, t) \/ Adopted(d, t)
           \/ Raised(d) \/ Crashed(d) \/ Closed(d)
    PROVE  AloneInv'
<1>1. ~shared
  BY DEF Discovered, Transaction, Enabled, Initialized, LeaseTaken, Bound, Resumed, Published,
    TaskClosed, RolledBack, Claimed, FenceRecovered, Loaded, Restored, FailureRecorded,
    Work, Poll, FenceCompleted, Removed, StartRecorded, TurnFinished, StartChecked, TurnStarted,
    Adopted, Raised, Crashed, Closed, Forgotten
<1>2. IInv /\ AloneInv /\ TypeOK
  BY <1>1 DEF IInv
<1>3. Alive \subseteq {d}
  <2>1. CASE Discovered(d)
    BY <2>1 DEF Discovered
  <2>2. d \in Alive \/ Discovered(d)
    BY DEF Alive, Transaction, Enabled, Initialized, LeaseTaken, Bound, Resumed, Published,
    TaskClosed, RolledBack, Claimed, FenceRecovered, Loaded, Restored, FailureRecorded,
    Work, Poll, FenceCompleted, Removed, StartRecorded, TurnFinished, StartChecked, TurnStarted,
    Adopted, Owner, Raised, Crashed, Closed
  <2> QED
    BY <1>2, <2>1, <2>2 DEF AloneInv
<1>4. OnlyBy(d)
  BY <1>2 DEF OnlyBy, TypeOK, Goto, SetJob, SetFence, Discovered, Transaction, Enabled, Refused,
    Initialized, LeaseTaken, Rollback, Bound, Resumed, Published, TaskClosed, RolledBack,
    Claimed, FenceRecovered, Dropped, Fenced, Loaded, Restored, FailureRecorded,
    Work, Poll, FenceCompleted, Removed, StartRecorded, TurnFinished, StartChecked, TurnStarted,
    Adopted, Raised, Crashed, Closed, Forgotten
<1>5. EndsStay
  <2>1. CASE rollout' = rollout
    BY <2>1 DEF EndsStay
  <2>2. ASSUME NEW t \in Turn, TurnStarted(d, t) PROVE EndsStay
    BY <1>2, <2>2, EndStays DEF EndsStay, TypeOK, TurnStarted, TurnEvent
  <2> QED
    BY <2>1, <2>2 DEF Discovered, Transaction, Enabled, Initialized, LeaseTaken, Bound, Resumed,
    Published, TaskClosed, RolledBack, Claimed, FenceRecovered, Loaded, Restored, FailureRecorded,
    Work, Poll, FenceCompleted, Removed, StartRecorded, TurnFinished, StartChecked,
    Adopted, Raised, Crashed, Closed, Forgotten
<1>6. Local(d)'
  BY <1>1, <1>2, <1>3, StartLocal, FailureLocal, RecoveryLocal, WorkLocal, EndLocal DEF Transaction
<1> QED
  BY <1>2, <1>3, <1>4, <1>5, <1>6, AloneFromLocal

-----------------------------------------------------------------------------

LEMMA InitInvariant == Init => IInv
<1> SUFFICES ASSUME Init PROVE IInv
  OBVIOUS
<1>1. TypeOK
  <2>1. Idle \in Job
    BY DEF Idle, Job
  <2>2. rollout \in Seq(TurnEvent)
    BY DEF Init
  <2>3. starts \in 0..MaxStarts /\ faults \in 0..MaxFaults
    BY DEF Init
  <2>4. pc \in [Daemon -> Place]
    BY DEF Init, Place
  <2> QED
    BY <2>1, <2>2, <2>3, <2>4 DEF Init, TypeOK
<1>2. LeaseInv /\ \A d \in Daemon : JobInv(d)
  BY DEF Init, LeaseInv, OwnerHasLease, Apart, Attempt, JobInv, Idle, None
<1>3. AloneInv
  BY DEF Init, AloneInv, Alive, Coherent, StartInv, RecoveryInv, FenceInv, WorkInv, Spoiled,
    Stopping, Idle
<1> QED
  BY <1>1, <1>2, <1>3 DEF IInv

LEMMA TypeStep ==
    ASSUME TypeOK, \A d \in Daemon : JobInv(d), [Next]_vars
    PROVE  TypeOK'
<1>1. CASE UNCHANGED vars
  BY <1>1 DEF vars, TypeOK
<1> QED
  BY <1>1, TransactionType, WorkType, TurnType, DaemonType, UserType DEF Next, UserStep

LEMMA NextInvariant == IInv /\ [Next]_vars => IInv'
<1> SUFFICES ASSUME IInv, [Next]_vars PROVE IInv'
  OBVIOUS
<1>1. TypeOK'
  BY TypeStep DEF IInv
<1>2. LeaseInv' /\ \A d \in Daemon : JobInv(d)'
  BY LeaseStep, JobStep DEF IInv
<1>3. ASSUME ~shared' PROVE AloneInv'
  <2>1. CASE UserStep
    <3>1. shared' = shared
      BY <2>1 DEF UserStep, UserTurnStarts, TurnEnds, UserStops
    <3> QED
      BY <1>3, <2>1, <3>1, UserAlone
  <2>2. CASE UNCHANGED vars
    BY <1>3, <2>2 DEF vars, IInv, AloneInv, Alive, Coherent, StartInv, RecoveryInv, FenceInv,
      WorkInv, Spoiled, Stopping, WasPending
  <2>3. ASSUME NEW d \in Daemon,
               \/ Discovered(d) \/ Transaction(d) \/ Work(d)
               \/ \E t \in Turn : StartChecked(d, t) \/ TurnStarted(d, t) \/ Adopted(d, t)
               \/ Raised(d) \/ Crashed(d) \/ Closed(d)
        PROVE  AloneInv'
    BY <1>1, <1>3, <2>3, DaemonAlone
  <2> QED
    BY <2>1, <2>2, <2>3 DEF Next, UserStep
<1> QED
  BY <1>1, <1>2, <1>3 DEF IInv

(* A task that is in a daemon's registry has the session's lease, however   *)
(* many daemons start, recover, fail and crash at once; and as long as no   *)
(* two have run at once, its file names its daemon as the ready manager and *)
(* the turn it waits for, and is handed off only after that turn's end      *)
(* (start, recover and remove_tasks of daemon_registry.py, claim and        *)
(* mark_ready of daemon_task.py, bind and complete of                       *)
(* daemon_activation_fence.py).                                             *)
THEOREM OwnersAreManagers == Spec => []OwnerIsManager
<1>1. IInv => OwnerIsManager
  BY DEF IInv, OwnerIsManager, LeaseInv, AloneInv, OwnerIsReady, FenceIsDurable, HandoffWaits,
    Coherent, FenceInv, WorkInv
<1> QED
  BY <1>1, InitInvariant, NextInvariant, PTL DEF Spec

================================================================================
