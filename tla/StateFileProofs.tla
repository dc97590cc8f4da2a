--------------------------- MODULE StateFileProofs ---------------------------
(***************************************************************************)
(* The locked operations on a session's state files implement AtomicState, *)
(* the publication of config.toml, a file of Codex, loses no setting and   *)
(* rolls back what it can, and the diagnostic log keeps the end of what    *)
(* was written; for any processes, hosts, other writers and bounds.        *)
(***************************************************************************)
EXTENDS MCSharedFiles, FiniteSetTheorems, SequenceTheorems, TLAPS

(* Places where a process has the runtime file's lock.                     *)
InLock == {"locked", "changed", "replaced", "save", "rollback_locked", "removed"}

(* Places where it has the lock of all activations.                        *)
InOperation ==
    {"enable", "publish", "save", "config", "rollback", "rollback_locked",
     "disable", "remove", "removed", "bare"}

(* Places that only the notification daemon's operations reach.            *)
DaemonPlaces == {"start", "start_locked", "started", "stop_cursor"}

LocksHeld ==
    \A p \in Process :
        /\ pc[p] \in InLock => lock = p
        /\ pc[p] \in InOperation => operation = p

(* What a process has looked at under a lock is still so.                  *)
ViewsCurrent ==
    \A p \in Process :
        /\ pc[p] \in {"changed", "replaced"} => runtime # NoFile /\ loaded[p] = runtime
        /\ pc[p] \in {"publish", "save", "bare"} => runtime = NoFile

UpdatesLeft ==
    \A p \in Process : pc[p] \in {"found", "locked", "changed"} => count[p] < MaxUpdate

IInv ==
    /\ TypeOK /\ LocksHeld /\ ViewsCurrent /\ UpdatesLeft
    /\ \A p \in Process : pc[p] \notin DaemonPlaces

USE StateAssumption, FileAssumption

(* The files are absent and every process is idle.                         *)
LEMMA InitInvariant == Init => IInv
BY DEF Init, IInv, TypeOK, LocksHeld, ViewsCurrent, UpdatesLeft, InLock, InOperation,
       DaemonPlaces, Places, Updates, Sessions, Document

(* Taking the runtime file's lock, or giving up.                           *)
LEMMA TakeInvariant ==
    ASSUME IInv, NEW p \in Process, NEW from \in Places, NEW to \in Places,
           Take(p, from, to),
           to \in {"locked", "save", "rollback_locked", "removed"},
           to = "locked" <=> from = "found",
           to = "save" <=> from = "publish",
           to = "rollback_locked" => from = "rollback",
           to = "removed" => from = "remove"
    PROVE  IInv'
<1> USE DEF IInv, TypeOK, Take, Goto, Places
<1>1. TypeOK'
  BY DEF InLock, InOperation
<1>2. LocksHeld'
  BY DEF LocksHeld, InLock, InOperation
<1>3. ViewsCurrent'
  BY DEF ViewsCurrent
<1>4. UpdatesLeft'
  BY DEF UpdatesLeft
<1>5. \A q \in Process : pc'[q] \notin DaemonPlaces
  BY DEF DaemonPlaces
<1>. QED
  BY <1>1, <1>2, <1>3, <1>4, <1>5

(* Leaving an operation, at its end or in a crash.                         *)
LEMMA LeaveInvariant ==
    ASSUME IInv, NEW p \in Process, NEW from \in Places, Leave(p, from)
    PROVE  IInv'
BY DEF IInv, TypeOK, Leave, Goto, Load, Places, LocksHeld, ViewsCurrent, UpdatesLeft,
       InLock, InOperation, DaemonPlaces

(* Every step of the managed session's operations keeps IInv.              *)
LEMMA NextInvariant == IInv /\ [Next]_vars => IInv'
<1> SUFFICES ASSUME IInv, [Next]_vars PROVE IInv'
  OBVIOUS
<1>1. CASE UNCHANGED vars
  BY <1>1 DEF vars, IInv, TypeOK, LocksHeld, ViewsCurrent, UpdatesLeft
<1>2. ASSUME NEW p \in Process, Mutate(p) PROVE IInv'
  <2>1. CASE LockFound(p)
    BY <2>1, TakeInvariant DEF LockFound, Places
  <2>2. CASE Finish(p)
    BY <2>2, LeaveInvariant DEF Finish, Places
  <2>3. CASE Find(p)
    BY <2>3 DEF Find, Goto, IInv, TypeOK, Places, LocksHeld, ViewsCurrent, UpdatesLeft,
                InLock, InOperation, DaemonPlaces
  <2>4. CASE LoadLocked(p)
    BY <2>4 DEF LoadLocked, Load, Goto, IInv, TypeOK, Places, LocksHeld, ViewsCurrent,
                UpdatesLeft, InLock, InOperation, DaemonPlaces
  <2>5. CASE Replace(p)
    <3>1. /\ count[p] < MaxUpdate /\ count' = [count EXCEPT ![p] = count[p] + 1]
          /\ loaded[p] = runtime /\ runtime \in Document
          /\ lock = p
      BY <2>5 DEF Replace, Goto, IInv, TypeOK, UpdatesLeft, ViewsCurrent, LocksHeld, InLock
    <3>2. runtime' \in Document /\ runtime' # NoFile
      BY <3>1, <2>5 DEF Replace, IInv, TypeOK, Document, Updates
    <3>3. TypeOK'
      BY <2>5, <3>1, <3>2 DEF Replace, Load, Goto, IInv, TypeOK, Places
    <3>4. LocksHeld'
      BY <2>5, <3>1 DEF Replace, Goto, IInv, TypeOK, LocksHeld, InLock, InOperation
    <3>5. ViewsCurrent'
      BY <2>5, <3>1, <3>2
         DEF Replace, Load, Goto, IInv, TypeOK, ViewsCurrent, LocksHeld, InLock
    <3>6. UpdatesLeft' /\ \A q \in Process : pc'[q] \notin DaemonPlaces
      BY <2>5, <3>1 DEF Replace, Goto, IInv, TypeOK, UpdatesLeft, DaemonPlaces
    <3>. QED
      BY <3>3, <3>4, <3>5, <3>6 DEF IInv
  <2>6. CASE AfterCommit(p)
    BY <2>6 DEF AfterCommit, Goto, IInv, TypeOK, Places, LocksHeld, ViewsCurrent,
                UpdatesLeft, InLock, InOperation, DaemonPlaces
  <2>. QED
    BY <1>2, <2>1, <2>2, <2>3, <2>4, <2>5, <2>6 DEF Mutate
<1>3. ASSUME NEW p \in Process, Enable(p) PROVE IInv'
  <2>1. CASE RefuseEnabled(p) \/ SaveConfig(p)
    BY <2>1, LeaveInvariant DEF RefuseEnabled, SaveConfig, Places
  <2>2. CASE LockEnabled(p)
    BY <2>2, TakeInvariant DEF LockEnabled, Places
  <2>3. CASE LockRollback(p)
    BY <2>3, TakeInvariant DEF LockRollback, Places
  <2>4. CASE BeginEnable(p)
    BY <2>4 DEF BeginEnable, Goto, IInv, TypeOK, Places, LocksHeld, ViewsCurrent,
                UpdatesLeft, InLock, InOperation, DaemonPlaces
  <2>5. CASE EnableFresh(p)
    BY <2>5 DEF EnableFresh, Goto, IInv, TypeOK, Places, LocksHeld, ViewsCurrent,
                UpdatesLeft, InLock, InOperation, DaemonPlaces
  <2>6. CASE SaveEnabled(p)
    <3>1. created' \in Sessions /\ runtime' \in Document /\ runtime' # NoFile
      BY <2>6 DEF SaveEnabled, Create, IInv, TypeOK, Sessions, Document
    <3>2. lock = p /\ operation = p
      BY <2>6 DEF SaveEnabled, Create, Goto, IInv, LocksHeld, InLock, InOperation
    <3>3. TypeOK'
      BY <2>6, <3>1 DEF SaveEnabled, Create, Goto, IInv, TypeOK, Sessions, Places
    <3>4. LocksHeld'
      BY <2>6, <3>2 DEF SaveEnabled, Create, Goto, IInv, TypeOK, LocksHeld, InLock, InOperation
    <3>5. ViewsCurrent'
      BY <2>6, <3>1, <3>2 DEF SaveEnabled, Create, Goto, IInv, TypeOK, ViewsCurrent,
                              LocksHeld, InLock, InOperation
    <3>6. UpdatesLeft' /\ \A q \in Process : pc'[q] \notin DaemonPlaces
      BY <2>6 DEF SaveEnabled, Create, Goto, IInv, TypeOK, UpdatesLeft, DaemonPlaces
    <3>. QED
      BY <3>3, <3>4, <3>5, <3>6 DEF IInv
  <2>7. CASE TakeBack(p)
    BY <2>7 DEF TakeBack, Goto, IInv, TypeOK, Places, LocksHeld, ViewsCurrent,
                UpdatesLeft, InLock, InOperation, DaemonPlaces
  <2>8. CASE Unpublish(p)
    BY <2>8 DEF Unpublish, Goto, IInv, TypeOK, Places, LocksHeld, ViewsCurrent,
                UpdatesLeft, InLock, InOperation, DaemonPlaces
  <2>. QED
    BY <1>3, <2>1, <2>2, <2>3, <2>4, <2>5, <2>6, <2>7, <2>8 DEF Enable
<1>4. ASSUME NEW p \in Process, Disable(p) PROVE IInv'
  <2>1. CASE LockRemoval(p)
    BY <2>1, TakeInvariant DEF LockRemoval, Places
  <2>2. CASE BeginDisable(p)
    BY <2>2 DEF BeginDisable, Goto, IInv, TypeOK, Places, LocksHeld, ViewsCurrent,
                UpdatesLeft, InLock, InOperation, DaemonPlaces
  <2>3. CASE FindBare(p)
    BY <2>3 DEF FindBare, Goto, IInv, TypeOK, Places, LocksHeld, ViewsCurrent,
                UpdatesLeft, InLock, InOperation, DaemonPlaces
  <2>4. CASE RemoveBareCursor(p)
    BY <2>4 DEF RemoveBareCursor, Goto, IInv, TypeOK, Places, LocksHeld, ViewsCurrent,
                UpdatesLeft, InLock, InOperation, DaemonPlaces
  <2>5. CASE RemoveRuntime(p)
    BY <2>5 DEF RemoveRuntime, Goto, IInv, TypeOK, Places, LocksHeld, ViewsCurrent,
                UpdatesLeft, InLock, InOperation, DaemonPlaces
  <2>. QED
    BY <1>4, <2>1, <2>2, <2>3, <2>4, <2>5 DEF Disable
<1>5. ASSUME NEW p \in Process, Crash(p) PROVE IInv'
  <2>. pc[p] \in Places
    BY DEF IInv, TypeOK
  <2>. QED
    BY <1>5, LeaveInvariant DEF Crash
<1>. QED
  BY <1>1, <1>2, <1>3, <1>4, <1>5 DEF Next

(* Types, locks and what was looked at under them stay right: of every run *)
(* of the managed session's operations, crashes included.                  *)
THEOREM Invariance == Spec => []IInv
BY InitInvariant, NextInvariant, PTL DEF Spec

-----------------------------------------------------------------------------
(* Steps that leave both files alone.                                      *)
Quiet == runtime' = runtime /\ cursor' = cursor

(* Every step is one of AtomicState's, or leaves the files alone.          *)
LEMMA StepImplements ==
    ASSUME IInv, [Next]_vars
    PROVE  Quiet \/ Atomic!Next
<1>1. CASE UNCHANGED vars
  BY <1>1 DEF vars, Quiet
<1>2. ASSUME NEW p \in Process, Mutate(p) PROVE Quiet \/ Atomic!Next
  <2>1. CASE Find(p) \/ LockFound(p) \/ LoadLocked(p) \/ Finish(p)
    BY <2>1 DEF Quiet, Find, LockFound, Take, LoadLocked, Finish, Leave
  <2>2. CASE Replace(p)
    <3>1. runtime # NoFile /\ loaded[p] = runtime
      BY <2>2 DEF Replace, Goto, IInv, ViewsCurrent
    <3>2. <<p, count'[p]>> \in Updates
      BY <2>2 DEF Replace, Goto, IInv, TypeOK, UpdatesLeft, Updates
    <3>3. Atomic!Update
      BY <2>2, <3>1, <3>2 DEF Replace, Atomic!Update
    <3>. QED
      BY <3>3 DEF Atomic!Next
  <2>3. CASE AfterCommit(p)
    <3>1. runtime # NoFile /\ loaded[p] = runtime
      BY <2>3 DEF AfterCommit, Goto, IInv, ViewsCurrent
    <3>2. Quiet \/ Atomic!Advance
      BY <2>3, <3>1 DEF AfterCommit, Quiet, Atomic!Advance
    <3>. QED
      BY <3>2 DEF Atomic!Next
  <2>. QED
    BY <1>2, <2>1, <2>2, <2>3 DEF Mutate
<1>3. ASSUME NEW p \in Process, Enable(p) PROVE Quiet \/ Atomic!Next
  <2>1. CASE SaveEnabled(p)
    <3>1. runtime = NoFile
      BY <2>1 DEF SaveEnabled, Create, Goto, IInv, ViewsCurrent
    <3>2. created' \in Sessions
      BY <2>1 DEF SaveEnabled, Create, IInv, TypeOK, Sessions
    <3>3. Atomic!Create
      BY <2>1, <3>1, <3>2 DEF SaveEnabled, Create, Atomic!Create
    <3>. QED
      BY <3>3 DEF Atomic!Next
  <2>2. CASE Unpublish(p)
    BY <2>2 DEF Unpublish, Atomic!Remove, Atomic!Next
  <2>3. CASE \/ BeginEnable(p) \/ RefuseEnabled(p) \/ EnableFresh(p) \/ LockEnabled(p)
             \/ SaveConfig(p) \/ TakeBack(p) \/ LockRollback(p)
    BY <2>3 DEF Quiet, BeginEnable, RefuseEnabled, EnableFresh, LockEnabled, SaveConfig,
                TakeBack, LockRollback, Take, Leave
  <2>. QED
    BY <1>3, <2>1, <2>2, <2>3 DEF Enable
<1>4. ASSUME NEW p \in Process, Disable(p) PROVE Quiet \/ Atomic!Next
  <2>1. CASE RemoveBareCursor(p)
    <3>1. runtime = NoFile
      BY <2>1 DEF RemoveBareCursor, Goto, IInv, ViewsCurrent
    <3>. QED
      BY <2>1, <3>1 DEF RemoveBareCursor, Atomic!RemoveCursor, Atomic!Next
  <2>2. CASE RemoveRuntime(p)
    BY <2>2 DEF RemoveRuntime, Atomic!Remove, Atomic!Next
  <2>3. CASE BeginDisable(p) \/ FindBare(p) \/ LockRemoval(p)
    BY <2>3 DEF Quiet, BeginDisable, FindBare, LockRemoval, Take
  <2>. QED
    BY <1>4, <2>1, <2>2, <2>3 DEF Disable
<1>5. ASSUME NEW p \in Process, Crash(p) PROVE Quiet
  BY <1>5 DEF Quiet, Crash, Leave
<1>. QED
  BY <1>1, <1>2, <1>3, <1>4, <1>5 DEF Next

(* The locked operations implement the atomic ones: no interleaving and no *)
(* crash of mutate_existing_state, save_state, enable_session and          *)
(* disable_session loses an update, revives a removed session or takes a   *)
(* cursor from one.                                                        *)
THEOREM Implementation == Spec => IsAtomic
<1>1. Init => Atomic!Init
  BY DEF Init, Atomic!Init
<1>2. IInv /\ [Next]_vars => [Atomic!Next]_<<runtime, cursor>>
  BY StepImplements DEF Quiet
<1>. QED
  BY Invariance, <1>1, <1>2, PTL DEF Spec, IsAtomic, Atomic!Spec

-----------------------------------------------------------------------------
(***************************************************************************)
(* Publication of config.toml.                                             *)
(***************************************************************************)
(* The installer's tables are nobody else's setting, and there are hosts   *)
(* of two kinds.                                                           *)
OwnTables == CMW \notin Edits /\ Hosts \subseteq {"posix", "windows"}

(* The inodes of the snapshot and of its replacement.                      *)
Old == pubCall.expected.inode
New == pubCall.temp
Replaced == [inode |-> New, content |-> pubCall.replacement]
Running == Pub!Steps \cup {"comparing"}

Calls ==
    [expected : Pub!Snapshots, replacement : Pub!Contents, temp : Nat, published : BOOLEAN,
     error : {"none", "concurrent", "invalid", "io"}]
PubCounters == [calls : Nat, failures : Nat, crashes : Nat]

(* What the files, the call and the counters can be, and when an error is  *)
(* set.                                                                    *)
Typed ==
    /\ pubHost \in Hosts
    /\ pubDir \in [Pub!Names -> Nat] /\ pubData \in Seq(Pub!Contents) /\ pubLitter \subseteq DOMAIN pubData
    /\ \A n \in Pub!Names : pubDir[n] # Pub!NoInode => pubDir[n] \in DOMAIN pubData
    /\ pubPc \in Running \cup {"idle", "handling", "restoring", "ending"}
    /\ pubCall \in Calls /\ pubSpent \in PubCounters
    /\ pubRaced \subseteq Edits /\ IsFiniteSet(pubRaced)
    /\ pubFailedAt \in {"none", "restoring"} \cup Pub!Steps
    /\ pubPc \in Running => pubFailedAt = "none"
    /\ pubPc \in {"handling", "restoring"} => pubFailedAt \in Pub!Steps
    /\ pubPc # "idle" => (pubCall.error = "none" <=> pubFailedAt = "none")
    /\ pubFailedAt = "none" => pubCall.error = "none"
    /\ pubCall.error = "concurrent" /\ pubPc # "idle" => pubFailedAt \in {"staged", "examining", "displaced", "restoring"}

(* The snapshot and what was rendered from it.                             *)
SnapshotInv ==
    pubPc # "idle" =>
        /\ Old = Pub!NoInode => pubCall.expected = Pub!Missing
        /\ Old # Pub!NoInode => Old \in DOMAIN pubData /\ pubCall.expected.content \subseteq pubData[Old]
        /\ pubCall.replacement \in {pubCall.expected.content \cup {CMW}, pubCall.expected.content \ {CMW}}
        /\ pubRaced \cap pubCall.expected.content = {}
        /\ pubPc # "comparing" => New \in DOMAIN pubData /\ New # Old
        /\ pubPc \in {"replacing", "examining"} \/ pubFailedAt \in {"replacing", "examining"} =>
              Old # Pub!NoInode
        /\ pubPc \in {"displaced", "linked"} \/ pubFailedAt \in {"displaced", "linked"} =>
              Old = Pub!NoInode \/ pubHost = "posix"
        /\ pubPc = "named" \/ pubFailedAt = "named" => Old = Pub!NoInode

Seen(n) == Pub!Capture(n).content

(* What others added is in a file that the next comparison looks at.       *)
RaceInv ==
    /\ pubPc \in Running \ {"examining"} => pubRaced \subseteq Seen("config")
    /\ pubPc = "examining" => pubRaced \subseteq Seen("config") \cup Seen("backup")
    /\ pubPc = "examining" /\ pubHost = "posix" /\ pubDir["config"] # Pub!NoInode =>
          Seen("config") \cap pubRaced # {}
    /\ pubPc = "displaced" /\ Old # Pub!NoInode => Seen("backup") \cap pubRaced = {}

(* Which names share a file, and with what earlier calls left.             *)
ApartInv ==
    /\ pubPc = "idle" => pubDir["temp"] = Pub!NoInode /\ pubDir["backup"] = Pub!NoInode
    /\ pubDir["temp"] # Pub!NoInode => pubDir["temp"] = New /\ New \notin pubLitter
    /\ pubDir["backup"] # Pub!NoInode /\ pubPc # "idle" => pubDir["backup"] # New
    /\ pubPc = "comparing" => pubDir["temp"] = Pub!NoInode
    /\ pubPc \in {"staged", "replacing", "displaced", "linked"} => pubDir["temp"] = New
    /\ pubPc \in {"staged", "replacing"} => pubDir["config"] # New
    /\ pubPc \in {"comparing", "staged", "replacing"} => pubDir["backup"] = Pub!NoInode
    /\ pubPc \in {"comparing", "staged", "replacing"} =>
          pubDir["config"] \notin pubLitter
    /\ pubPc = "examining" => /\ pubDir["backup"] # Pub!NoInode /\ pubDir["backup"] \notin pubLitter
                              /\ pubDir["temp"] = IF pubHost = "posix" THEN New ELSE Pub!NoInode
    /\ pubPc = "linked" \/ pubFailedAt = "linked" => pubHost = "posix"
    /\ pubPc = "restoring" => pubDir["temp"] = Pub!NoInode
    /\ pubDir["backup"] # Pub!NoInode /\ pubDir["backup"] = pubDir["config"] =>
          pubHost = "posix" /\ pubCall.error = "concurrent" /\ pubPc \in {"handling", "ending"}
    /\ pubDir["temp"] # Pub!NoInode /\ pubDir["temp"] = pubDir["config"] => pubPc = "linked" \/ pubFailedAt = "linked"

(* Where the files are while nobody else wrote.                            *)
Layout(config, temp, backup) ==
    pubDir["config"] = config /\ pubDir["temp"] = temp /\ pubDir["backup"] = backup

AtStep(place) ==
    /\ place \in {"staged", "replacing"} => Layout(Old, New, Pub!NoInode)
    /\ place = "examining" /\ pubHost = "posix" => Layout(Pub!NoInode, New, Old)
    /\ place = "examining" /\ pubHost = "windows" => Layout(New, Pub!NoInode, Old)
    /\ place = "displaced" => Layout(Pub!NoInode, New, Old)
    /\ place = "linked" => Layout(New, New, Old)
    /\ place \in {"named", "published"} => Layout(New, Pub!NoInode, Old)

CalmInv ==
    pubRaced = {} /\ pubPc # "idle" =>
        /\ Old # Pub!NoInode => pubData[Old] = pubCall.expected.content
        /\ pubPc # "comparing" => pubData[New] = pubCall.replacement /\ New \notin pubLitter
        /\ Old \notin pubLitter
        /\ pubPc = "comparing" => Layout(Old, Pub!NoInode, Pub!NoInode)
        /\ pubPc \in Pub!Steps => AtStep(pubPc)
        /\ pubPc = "handling" => AtStep(pubFailedAt) /\ pubSpent.failures # 0
        /\ pubPc = "restoring" => Layout(New, Pub!NoInode, Old) /\ pubSpent.failures # 0
        /\ pubPc = "ending" /\ pubCall.error = "none" => Layout(New, Pub!NoInode, Old)
        /\ pubPc = "ending" /\ pubCall.error # "none" /\ ~Pub!CannotRollBack => pubDir["config"] = Old
        /\ pubPc \in {"published", "handling"} /\ pubFailedAt \in {"none", "published"} => pubCall.published
        /\ pubCall.published /\ pubPc \in Running \cup {"handling"} => pubPc = "published" \/ pubFailedAt = "published"

(* A call that failed uncontested has left the very file it read.          *)
IdleInv == Pub!FailedUncontested /\ ~Pub!CannotRollBack => Pub!Capture("config") = pubCall.expected

(* One other setting, no failing call. *)
SingleInv ==
    pubHost = "posix" /\ pubSpent.failures = 0 /\ Cardinality(pubRaced) = 1 =>
        /\ pubPc # "restoring"
        /\ pubPc \in {"handling", "ending"} => pubRaced \subseteq Seen("config")

PublicationInv == Typed /\ SnapshotInv /\ RaceInv /\ ApartInv /\ CalmInv /\ IdleInv /\ SingleInv

(***************************************************************************)
(* Lemmas about files and contents.                                        *)
(***************************************************************************)

(* Appending a file leaves the others as they are. *)
LEMMA AppendFacts ==
  ASSUME NEW S, NEW s \in Seq(S), NEW x \in S
  PROVE  /\ Append(s, x) \in Seq(S) /\ Len(s) \in Nat /\ Len(s) + 1 \notin DOMAIN s
         /\ Len(s) + 1 # 0 /\ DOMAIN s = 1..Len(s) /\ 0 \notin DOMAIN s
         /\ DOMAIN Append(s, x) = DOMAIN s \cup {Len(s) + 1}
         /\ \A i \in DOMAIN s : Append(s, x)[i] = s[i]
         /\ Append(s, x)[Len(s) + 1] = x
<1>1. DOMAIN s = 1..Len(s) /\ Len(s) \in Nat
  BY LenProperties
<1>2. /\ Append(s, x) \in Seq(S) /\ Len(Append(s, x)) = Len(s) + 1
      /\ \A i \in 1..Len(s) : Append(s, x)[i] = s[i]
      /\ Append(s, x)[Len(s) + 1] = x
  BY AppendProperties
<1>3. DOMAIN Append(s, x) = 1..(Len(s) + 1)
  BY <1>2, LenProperties
<1> QED
  BY <1>1, <1>2, <1>3

(* The instance's Cardinality is the one the theorems about it are stated for. *)
LEMMA SameCardinality == \A S : Pub!Cardinality(S) = Cardinality(S)
BY Zenon DEF Pub!Cardinality, Cardinality

(* A file is unsafe to replace when something else is linked to it. *)
LEMMA UnsafeMeans ==
  ASSUME pubDir \in [Pub!Names -> Nat], NEW n \in Pub!Names
  PROVE  Pub!Unsafe(n) <=> /\ pubDir[n] # Pub!NoInode
                           /\ (pubDir[n] \in pubLitter \/ \E m \in Pub!Names : m # n /\ pubDir[m] = pubDir[n])
<1> DEFINE L == {m \in Pub!Names : pubDir[m] = pubDir[n]}
<1>1. n \in L /\ L \subseteq Pub!Names
  OBVIOUS
<1>2. IsFiniteSet(Pub!Names)
  <2>1. IsFiniteSet({"config"}) /\ IsFiniteSet({"temp"}) /\ IsFiniteSet({"backup"})
    BY FS_Singleton
  <2>2. Pub!Names = ({"config"} \cup {"temp"}) \cup {"backup"}
    BY DEF Pub!Names
  <2> QED
    BY <2>1, <2>2, FS_Union
<1>3. IsFiniteSet(L)
  BY <1>1, <1>2, FS_Subset
<1>4. Cardinality(L) = 1 <=> \E x : L = {x}
  BY <1>3, FS_Singleton
<1>5. Cardinality(L) \in Nat /\ Cardinality(L) # 0
  BY <1>1, <1>3, FS_CardinalityType, FS_EmptySet
<1>6. (\E x : L = {x}) <=> ~\E m \in Pub!Names : m # n /\ pubDir[m] = pubDir[n]
  BY <1>1
<1>7. Pub!Unsafe(n) <=> pubDir[n] # Pub!NoInode /\ Cardinality(L) + (IF pubDir[n] \in pubLitter THEN 1 ELSE 0) # 1
  BY SameCardinality DEF Pub!Unsafe, Pub!Links
<1>8. Cardinality(L) + (IF pubDir[n] \in pubLitter THEN 1 ELSE 0) # 1
        <=> pubDir[n] \in pubLitter \/ Cardinality(L) # 1
  <2> HIDE DEF L
  <2> QED
    BY <1>5
<1> HIDE DEF L
<1> QED
  BY <1>4, <1>6, <1>7, <1>8

(* One setting that others added. *)
LEMMA OneSetting ==
  ASSUME NEW S, IsFiniteSet(S)
  PROVE  /\ Cardinality(S) = 1 <=> \E x : S = {x}
         /\ \A x : IsFiniteSet(S \cup {x})
BY FS_Singleton, FS_AddElement

(* What another writer does to the files. *)
LEMMA EditFacts ==
  ASSUME NEW e \in Edits, Typed, Pub!Edit(e)
  PROVE  /\ pubData' \in Seq(Pub!Contents) /\ pubDir' \in [Pub!Names -> Nat] /\ pubRaced' = pubRaced \cup {e}
         /\ DOMAIN pubData \subseteq DOMAIN pubData' /\ pubDir'["config"] \in DOMAIN pubData'
         /\ pubDir'["config"] # Pub!NoInode
         /\ \A n \in Pub!Names : n # "config" => pubDir'[n] = pubDir[n]
         /\ pubDir'["config"] # pubDir["config"] => pubDir'["config"] \notin DOMAIN pubData
         /\ \A i \in DOMAIN pubData : pubData[i] \subseteq pubData'[i] /\ e \notin pubData[i]
         /\ \A i \in DOMAIN pubData : i # pubDir["config"] => pubData'[i] = pubData[i]
         /\ Seen("config")' = Seen("config") \cup {e}
         /\ UNCHANGED <<pubHost, pubLitter, pubPc, pubCall, pubSpent, pubFailedAt>>
<1>1. /\ \A i \in DOMAIN pubData : e \notin pubData[i]
      /\ pubRaced' = pubRaced \cup {e} /\ UNCHANGED <<pubHost, pubLitter, pubPc, pubCall, pubSpent, pubFailedAt>>
      /\ Pub!EditInPlace(e) \/ Pub!EditByRename(e)
  BY DEF Pub!Edit, Pub!Unwritten
<1>2. e \in Pub!Settings /\ DOMAIN pubData = 1..Len(pubData) /\ Len(pubData) \in Nat
  BY LenProperties DEF Pub!Settings, Typed
<1>3. CASE Pub!EditInPlace(e)
  <2>1. /\ pubDir["config"] # Pub!NoInode /\ pubDir["config"] \in DOMAIN pubData /\ pubDir' = pubDir
        /\ pubData' = [pubData EXCEPT ![pubDir["config"]] = pubData[pubDir["config"]] \cup {e}]
    BY <1>3, Zenon DEF Pub!EditInPlace, Typed, Pub!Names
  <2>2. pubData[pubDir["config"]] \cup {e} \in Pub!Contents
    BY <1>2, <2>1, ElementOfSeq DEF Typed, Pub!Contents
  <2>3. pubData' \in Seq(Pub!Contents) /\ Len(pubData') = Len(pubData)
    BY <1>2, <2>1, <2>2, ExceptSeq DEF Typed
  <2>4. DOMAIN pubData' = DOMAIN pubData /\ pubData'[pubDir["config"]] = pubData[pubDir["config"]] \cup {e}
        /\ \A i \in DOMAIN pubData : i # pubDir["config"] => pubData'[i] = pubData[i]
    BY <2>1
  <2> QED
    BY <1>1, <2>1, <2>3, <2>4 DEF Typed, Seen, Pub!Capture, Pub!Names
<1>4. CASE Pub!EditByRename(e)
  <2> DEFINE c == Pub!Capture("config").content \cup {e}
  <2>1. c \in Pub!Contents
    BY <1>2, ElementOfSeq DEF Pub!Capture, Pub!Missing, Pub!NoContent, Pub!Contents,
       Typed, Pub!Names
  <2>2. pubData' = Append(pubData, c) /\ pubDir' = [pubDir EXCEPT !["config"] = Len(pubData) + 1]
    BY <1>4 DEF Pub!EditByRename
  <2> HIDE DEF c
  <2>3. /\ pubData' \in Seq(Pub!Contents) /\ Len(pubData) + 1 \notin DOMAIN pubData /\ Len(pubData) + 1 # 0
        /\ DOMAIN pubData' = DOMAIN pubData \cup {Len(pubData) + 1}
        /\ \A i \in DOMAIN pubData : pubData'[i] = pubData[i]
        /\ pubData'[Len(pubData) + 1] = c
    BY <2>1, <2>2, AppendFacts DEF Typed
  <2>4. /\ pubDir' \in [Pub!Names -> Nat] /\ pubDir'["config"] = Len(pubData) + 1
        /\ \A n \in Pub!Names : n # "config" => pubDir'[n] = pubDir[n]
    BY <1>2, <2>2 DEF Typed, Pub!Names
  <2>5. Seen("config")' = c
    BY <2>3, <2>4 DEF Seen, Pub!Capture, Pub!NoInode
  <2> QED
    BY <1>1, <2>3, <2>4, <2>5 DEF Seen, c, Pub!NoInode
<1> QED
  BY <1>1, <1>3, <1>4

(* The same of the names of a call, spelled out. *)
LEMMA UnsafeFacts ==
  ASSUME pubDir \in [Pub!Names -> Nat]
  PROVE  /\ Pub!Unsafe("config") <=>
              /\ pubDir["config"] # Pub!NoInode
              /\ \/ pubDir["config"] \in pubLitter \/ pubDir["temp"] = pubDir["config"]
                 \/ pubDir["backup"] = pubDir["config"]
         /\ Pub!Unsafe("backup") <=>
              /\ pubDir["backup"] # Pub!NoInode
              /\ \/ pubDir["backup"] \in pubLitter \/ pubDir["temp"] = pubDir["backup"]
                 \/ pubDir["config"] = pubDir["backup"]
<1>1. "config" \in Pub!Names /\ "temp" \in Pub!Names /\ "backup" \in Pub!Names
      /\ \A n \in Pub!Names : n = "config" \/ n = "temp" \/ n = "backup"
  BY DEF Pub!Names
<1>2. \A n \in Pub!Names : Pub!Unsafe(n) <=>
         pubDir[n] # Pub!NoInode /\ (pubDir[n] \in pubLitter \/ \E m \in Pub!Names : m # n /\ pubDir[m] = pubDir[n])
  BY UnsafeMeans
<1>3. \A n \in Pub!Names : Pub!Unsafe(n) => pubDir[n] # Pub!NoInode
  BY <1>2
<1>4. (\E m \in Pub!Names : m # "config" /\ pubDir[m] = pubDir["config"]) <=>
         pubDir["temp"] = pubDir["config"] \/ pubDir["backup"] = pubDir["config"]
  BY <1>1
<1>5. (\E m \in Pub!Names : m # "backup" /\ pubDir[m] = pubDir["backup"]) <=>
         pubDir["temp"] = pubDir["backup"] \/ pubDir["config"] = pubDir["backup"]
  BY <1>1
<1> QED
  BY <1>1, <1>2, <1>4, <1>5, Zenon

(* What a step that raises, or that only reports, leaves of the call. *)
CallKept ==
  /\ pubCall' \in Calls /\ pubCall'.expected = pubCall.expected /\ pubCall'.replacement = pubCall.replacement
  /\ pubCall'.temp = pubCall.temp

(* A call that raises goes to its handler with the step it failed at. *)
LEMMA RaiseFacts ==
  ASSUME pubCall \in Calls, NEW error \in {"concurrent", "invalid", "io"}, Pub!Raise(error)
  PROVE  /\ CallKept /\ (pubCall'.published <=> pubCall.published) /\ pubCall'.error = error
         /\ pubPc' = "handling" /\ pubFailedAt' = pubPc
BY DEF Pub!Raise, CallKept, Calls

(* The first error of a call is the one it reports. *)
LEMMA ReportFacts ==
  ASSUME pubCall \in Calls, NEW b \in BOOLEAN, pubCall' = [pubCall EXCEPT !.published = b]
  PROVE  CallKept /\ (pubCall'.published <=> b) /\ pubCall'.error = pubCall.error
BY DEF CallKept, Calls

(* A call begins with a snapshot (ReadSnapshot). *)
LEMMA ReadSnapshotKeeps == ASSUME OwnTables, PublicationInv, Pub!ReadSnapshot PROVE PublicationInv'
<1>1. PICK c \in {Pub!Capture("config").content \cup {CMW}, Pub!Capture("config").content \ {CMW}} :
        pubCall' = [Pub!NoCall EXCEPT !.expected = Pub!Capture("config"), !.replacement = c]
  BY DEF Pub!ReadSnapshot
<1>2. pubCall' = [expected |-> Pub!Capture("config"), replacement |-> c, temp |-> Pub!NoInode,
               published |-> FALSE, error |-> "none"]
  BY <1>1 DEF Pub!NoCall
<1>3. PICK d : d = Pub!Capture("config")
  OBVIOUS
<1>4. d \in Pub!Snapshots /\ d.inode = pubDir["config"]
      /\ d.content = IF pubDir["config"] = Pub!NoInode THEN {} ELSE pubData[pubDir["config"]]
  <2>1. pubDir["config"] # Pub!NoInode => pubDir["config"] \in DOMAIN pubData /\ pubData[pubDir["config"]] \in Pub!Contents
    <3>1. pubDir["config"] \in Nat /\ (pubDir["config"] # Pub!NoInode => pubDir["config"] \in DOMAIN pubData)
      BY DEF PublicationInv, Typed, Pub!Names
    <3>2. pubData \in Seq(Pub!Contents) /\ DOMAIN pubData = 1..Len(pubData)
      BY LenProperties DEF PublicationInv, Typed
    <3> QED
      BY <3>1, <3>2, ElementOfSeq
  <2> QED
    BY <1>3, <2>1 DEF Pub!Capture, Pub!Missing, Pub!NoContent, Pub!Snapshots,
       Pub!Contents, PublicationInv, Typed, Pub!Names, Pub!NoInode
<1>5. d.inode = Pub!NoInode => d = Pub!Missing
  BY <1>3 DEF Pub!Capture, Pub!Missing
<1>d. /\ pubCall'.expected = d /\ pubCall'.replacement = c /\ pubCall'.temp = Pub!NoInode
      /\ pubCall'.error = "none" /\ ~pubCall'.published
      /\ c \in {d.content \cup {CMW}, d.content \ {CMW}} /\ pubCall' \in Calls
  <2>1. c \in Pub!Contents
    BY <1>1, <1>3, <1>4 DEF Pub!Contents, Pub!Settings, Pub!Snapshots
  <2>2. pubCall' = [expected |-> d, replacement |-> c, temp |-> Pub!NoInode,
                 published |-> FALSE, error |-> "none"]
    BY <1>2, <1>3
  <2>3. c \in {d.content \cup {CMW}, d.content \ {CMW}}
    BY <1>1, <1>3
  <2> HIDE <1>2, <1>1
  <2> QED
    BY <1>4, <2>1, <2>2, <2>3 DEF Calls, Pub!NoInode
<1>s. pubSpent' \in PubCounters /\ pubSpent'.failures = pubSpent.failures
  BY DEF Pub!ReadSnapshot, PublicationInv, Typed, PubCounters
<1>u. /\ UNCHANGED <<pubHost, pubDir, pubLitter, pubData>> /\ pubRaced' = {} /\ pubFailedAt' = "none"
      /\ pubPc = "idle" /\ pubPc' = "comparing" /\ pubDir["config"] \notin pubLitter
  <2>1. ~Pub!Unsafe("config") /\ pubDir["config"] # Pub!NoInode => pubDir["config"] \notin pubLitter
    BY UnsafeFacts DEF PublicationInv, Typed
  <2> QED
    BY <2>1, LenProperties DEF Pub!ReadSnapshot, Pub!Go, PublicationInv, Typed, Pub!NoInode
<1>e. IsFiniteSet({}) /\ Cardinality({}) = 0
  BY FS_EmptySet
<1>p1. Typed'
  BY <1>d, <1>s, <1>u, <1>e DEF PublicationInv, Typed, Running
<1>p2. SnapshotInv'
  BY <1>4, <1>5, <1>d, <1>u DEF PublicationInv, Typed, SnapshotInv, Old, Pub!Names
<1>p3. RaceInv'
  BY <1>u DEF RaceInv
<1>p4. ApartInv'
  BY <1>u DEF PublicationInv, ApartInv
<1>p5. CalmInv'
  BY <1>4, <1>d, <1>u DEF PublicationInv, ApartInv, CalmInv, Old, Layout, AtStep
<1>p6. IdleInv'
  BY <1>u DEF IdleInv, Pub!FailedUncontested
<1>p7. SingleInv'
  BY <1>u DEF SingleInv
<1> QED
  BY <1>p1, <1>p2, <1>p3, <1>p4, <1>p5, <1>p6, <1>p7 DEF PublicationInv

(* The comparison finds the file as it was, or not (CompareEnds). *)
LEMMA CompareEndsKeeps == ASSUME OwnTables, PublicationInv, Pub!CompareEnds PROVE PublicationInv'
<1>u. /\ UNCHANGED <<pubHost, pubDir, pubLitter, pubData, pubSpent, pubRaced, pubFailedAt>>
      /\ pubPc = "comparing" /\ pubPc' = "idle" /\ pubCall' = Pub!NoCall
      /\ Pub!NoCall.error = "none" /\ Pub!NoCall \in Calls
  BY DEF Pub!CompareEnds, Pub!Go, Pub!NoCall, Calls, Pub!Snapshots, Pub!Missing,
     Pub!NoInode, Pub!NoContent, Pub!Contents
<1>p1. Typed'
  BY <1>u DEF PublicationInv, Typed
<1>p2. SnapshotInv'
  BY <1>u DEF SnapshotInv
<1>p3. RaceInv'
  BY <1>u DEF RaceInv, Running, Pub!Steps
<1>p4. ApartInv'
  BY <1>u DEF PublicationInv, ApartInv
<1>p5. CalmInv'
  BY <1>u DEF CalmInv
<1>p6. IdleInv'
  BY <1>u DEF IdleInv, Pub!FailedUncontested
<1>p7. SingleInv'
  BY <1>u DEF SingleInv
<1> QED
  BY <1>p1, <1>p2, <1>p3, <1>p4, <1>p5, <1>p6, <1>p7 DEF PublicationInv

(* The replacement is written beside it (Stage). *)
LEMMA StageKeeps == ASSUME OwnTables, PublicationInv, Pub!Stage PROVE PublicationInv'
<1>1. pubCall.replacement \in Pub!Contents /\ pubData \in Seq(Pub!Contents)
  BY DEF PublicationInv, Typed, Calls
<1>2. PICK i : i = Len(pubData) + 1
  OBVIOUS
<1>d. /\ i \notin DOMAIN pubData /\ i # Pub!NoInode /\ i \in Nat /\ pubData' \in Seq(Pub!Contents)
      /\ DOMAIN pubData' = DOMAIN pubData \cup {i} /\ pubData'[i] = pubCall.replacement
      /\ \A j \in DOMAIN pubData : pubData'[j] = pubData[j]
  BY <1>1, <1>2, AppendFacts DEF Pub!Stage, Pub!NoInode
<1>u. /\ pubCall' = [pubCall EXCEPT !.temp = i] /\ pubDir' = [pubDir EXCEPT !["temp"] = i]
      /\ UNCHANGED <<pubHost, pubLitter, pubSpent, pubRaced, pubFailedAt>> /\ pubPc = "comparing" /\ pubPc' = "staged"
      /\ Pub!Capture("config") = pubCall.expected
      /\ pubDir["config"] # Pub!NoInode => pubDir["config"] # pubDir["backup"]
  BY <1>2, UnsafeFacts DEF Pub!Stage, Pub!Go, PublicationInv, Typed, Pub!Names
<1>p1. Typed'
  BY <1>d, <1>u DEF CallKept, PublicationInv, Typed, SnapshotInv, RaceInv, ApartInv,
     CalmInv, IdleInv, SingleInv, OwnTables, Old, New, Running, Calls, PubCounters, Seen,
     Layout, AtStep, Pub!Snapshots, Pub!Names, Pub!NoInode, Pub!NoContent, Pub!Missing,
     Pub!NoCall, Pub!Capture, Pub!Steps, Pub!Go, Pub!Raise, Pub!CannotRollBack,
     Pub!FailedUncontested
<1>p2. SnapshotInv'
  BY <1>d, <1>u DEF PublicationInv, SnapshotInv, Old, New
<1>p3. RaceInv'
  BY <1>d, <1>u DEF PublicationInv, Typed, RaceInv, Seen, Pub!Names, Pub!Capture
<1>p4. ApartInv'
  BY <1>d, <1>u DEF PublicationInv, Typed, ApartInv, New, Pub!Names
<1>p5. CalmInv'
  <2>1. pubRaced = {} => Old \notin pubLitter /\ Layout(Old, Pub!NoInode, Pub!NoInode)
                        /\ (Old # Pub!NoInode => pubData[Old] = pubCall.expected.content)
    BY <1>u DEF PublicationInv, CalmInv
  <2>2. Old # Pub!NoInode => Old \in DOMAIN pubData
    BY <1>u DEF PublicationInv, SnapshotInv
  <2>3. pubRaced = {} => i \notin pubLitter /\ ~pubCall.published
    BY <1>d, <1>u DEF PublicationInv, Typed, CalmInv, Running
  <2>4. New' = i /\ Old' = Old /\ pubCall'.expected = pubCall.expected
        /\ pubCall'.replacement = pubCall.replacement /\ pubCall'.published = pubCall.published
    BY <1>u DEF PublicationInv, Typed, Calls, New, Old
  <2>5. pubRaced = {} => Layout(Old, i, Pub!NoInode)'
    BY <1>u, <2>1, <2>4 DEF PublicationInv, Typed, Layout, Pub!Names, Pub!NoInode
  <2> QED
    BY <1>d, <1>u, <2>1, <2>2, <2>3, <2>4, <2>5 DEF CalmInv, Layout, AtStep, Pub!Steps,
       Pub!NoInode, Running
<1>p6. IdleInv'
  BY <1>u DEF IdleInv, Pub!FailedUncontested
<1>p7. SingleInv'
  BY <1>u DEF SingleInv
<1> QED
  BY <1>p1, <1>p2, <1>p3, <1>p4, <1>p5, <1>p6, <1>p7 DEF PublicationInv

(* The snapshot is compared once more (Recheck). *)
LEMMA RecheckKeeps == ASSUME OwnTables, PublicationInv, Pub!Recheck PROVE PublicationInv'
<1>t. pubCall \in Calls
  BY DEF PublicationInv, Typed
<1>u. /\ pubPc = "staged" /\ UNCHANGED <<pubHost, pubDir, pubLitter, pubData, pubSpent, pubRaced>>
      /\ \/ /\ CallKept /\ (pubCall'.published <=> pubCall.published) /\ pubCall'.error = "concurrent"
            /\ pubPc' = "handling" /\ pubFailedAt' = pubPc /\ pubRaced # {}
         \/ /\ Pub!Capture("config") = pubCall.expected /\ UNCHANGED <<pubCall, pubFailedAt>>
            /\ pubPc' = IF Old = Pub!NoInode THEN "displaced" ELSE "replacing"
  <2>1. CASE Pub!Unsafe("config") \/ Pub!Capture("config") # pubCall.expected
    <3>1. Pub!Raise("concurrent") /\ UNCHANGED <<pubHost, pubDir, pubLitter, pubData, pubSpent, pubRaced>> /\ pubPc = "staged"
      BY <2>1 DEF Pub!Recheck
    <3>2. pubRaced # {}
      BY <2>1, UnsafeFacts DEF PublicationInv, Typed, SnapshotInv, ApartInv, CalmInv,
         AtStep, Layout, Pub!Capture,
         Pub!Recheck, Pub!Steps, Old, New, Pub!NoInode, Calls, Pub!Snapshots
    <3> QED
      BY <1>t, <3>1, <3>2, RaiseFacts
  <2>2. CASE ~(Pub!Unsafe("config") \/ Pub!Capture("config") # pubCall.expected)
    BY <2>2 DEF Pub!Recheck, Pub!Go, Old
  <2> QED
    BY <2>1, <2>2
<1>p1. Typed'
  BY <1>u DEF CallKept, PublicationInv, Typed, Running, Pub!Steps
<1>p2. SnapshotInv'
  BY <1>u DEF PublicationInv, SnapshotInv, CallKept, Old, New, Pub!NoInode
<1>p3. RaceInv'
  BY <1>u DEF PublicationInv, RaceInv, Old, Running, Seen, Pub!Capture, Pub!Steps
<1>p4. ApartInv'
  BY <1>u DEF CallKept, PublicationInv, ApartInv, New
<1>p5. CalmInv'
  BY <1>u DEF PublicationInv, CalmInv, Old, New, Running, Layout, AtStep, Pub!Steps
<1>p6. IdleInv'
  BY <1>u DEF IdleInv, Pub!FailedUncontested
<1>p7. SingleInv'
  BY <1>u DEF PublicationInv, Typed, RaceInv, SingleInv, Seen, Pub!Capture
<1> QED
  BY <1>p1, <1>p2, <1>p3, <1>p4, <1>p5, <1>p6, <1>p7 DEF PublicationInv

(* The original is moved aside (Displace). *)
LEMMA DisplaceKeeps == ASSUME OwnTables, PublicationInv, Pub!Displace PROVE PublicationInv'
<1>d. /\ pubDir' \in [Pub!Names -> Nat] /\ pubDir'["config"] = Pub!NoInode /\ pubDir'["temp"] = pubDir["temp"]
      /\ pubDir'["backup"] = pubDir["config"]
  BY DEF Pub!Displace, PublicationInv, Typed, Pub!Names, Pub!NoInode
<1>u. pubPc = "replacing" /\ pubHost = "posix" /\ pubPc' = "examining"
      /\ UNCHANGED <<pubHost, pubLitter, pubData, pubCall, pubSpent, pubRaced, pubFailedAt>>
  BY DEF Pub!Displace, Pub!Go
<1> HIDE DEF Pub!Displace
<1>p1. Typed'
  BY <1>d, <1>u DEF PublicationInv, Typed, Running, Pub!Names, Pub!Steps
<1>p2. SnapshotInv'
  BY <1>u DEF PublicationInv, SnapshotInv, Old, New
<1>p3. RaceInv'
  BY <1>d, <1>u DEF PublicationInv, RaceInv, Running, Seen, Pub!Capture, Pub!Steps
<1>p4. ApartInv'
  BY <1>d, <1>u DEF PublicationInv, Typed, SnapshotInv, RaceInv, ApartInv, CalmInv, New,
     Seen, Layout, AtStep, Pub!NoContent, Pub!Missing, Pub!Capture, Pub!Steps
<1>p5. CalmInv'
  BY <1>d, <1>u DEF PublicationInv, CalmInv, Old, New, Running, Layout, AtStep, Pub!Steps
<1>p6. IdleInv'
  BY <1>u DEF IdleInv, Pub!FailedUncontested
<1>p7. SingleInv'
  BY <1>u DEF SingleInv
<1> QED
  BY <1>p1, <1>p2, <1>p3, <1>p4, <1>p5, <1>p6, <1>p7 DEF PublicationInv

(* What was displaced is compared, and put back if it is another           *)
(* (ExamineDisplaced).                                                     *)
LEMMA ExamineDisplacedKeeps == ASSUME OwnTables, PublicationInv, Pub!ExamineDisplaced PROVE PublicationInv'
<1>t. pubCall \in Calls
  BY DEF PublicationInv, Typed
<1>w. Pub!Unsafe("backup") <=>
        /\ pubDir["backup"] # Pub!NoInode
        /\ \/ pubDir["backup"] \in pubLitter \/ pubDir["temp"] = pubDir["backup"]
           \/ pubDir["config"] = pubDir["backup"]
  BY UnsafeFacts, Zenon DEF PublicationInv, Typed
<1>c. Cardinality(pubRaced) = 1 <=> \E x : pubRaced = {x}
  BY OneSetting DEF PublicationInv, Typed
<1>u. /\ pubPc = "examining" /\ pubHost = "posix" /\ UNCHANGED <<pubHost, pubLitter, pubData, pubSpent, pubRaced>>
      /\ \/ /\ Pub!Capture("backup") = pubCall.expected /\ pubPc' = "displaced"
            /\ UNCHANGED <<pubDir, pubCall, pubFailedAt>>
         \/ /\ CallKept /\ (pubCall'.published <=> pubCall.published) /\ pubCall'.error = "concurrent"
            /\ pubPc' = "handling" /\ pubFailedAt' = pubPc
            /\ Pub!Unsafe("backup") \/ Pub!Capture("backup") # pubCall.expected
            /\ pubDir' \in [Pub!Names -> Nat]
            /\ pubDir'["temp"] = pubDir["temp"] /\ pubDir'["backup"] = pubDir["backup"]
            /\ pubDir'["config"] = IF pubDir["config"] = Pub!NoInode /\ ~Pub!Unsafe("backup")
                                THEN pubDir["backup"] ELSE pubDir["config"]
  <2>1. CASE Pub!Unsafe("backup") \/ Pub!Capture("backup") # pubCall.expected
    <3>1. /\ Pub!Raise("concurrent") /\ UNCHANGED <<pubHost, pubLitter, pubData, pubSpent, pubRaced>>
          /\ pubPc = "examining" /\ pubHost = "posix"
          /\ pubDir' = IF pubDir["config"] = Pub!NoInode /\ ~Pub!Unsafe("backup")
                    THEN [pubDir EXCEPT !["config"] = pubDir["backup"]] ELSE pubDir
      BY <2>1 DEF Pub!ExamineDisplaced
    <3>2. /\ pubDir' \in [Pub!Names -> Nat]
          /\ pubDir'["temp"] = pubDir["temp"] /\ pubDir'["backup"] = pubDir["backup"]
          /\ pubDir'["config"] = IF pubDir["config"] = Pub!NoInode /\ ~Pub!Unsafe("backup")
                              THEN pubDir["backup"] ELSE pubDir["config"]
      BY <3>1 DEF PublicationInv, Typed, Pub!Names
    <3> QED
      BY <1>t, <2>1, <3>1, <3>2, RaiseFacts
  <2>2. CASE ~(Pub!Unsafe("backup") \/ Pub!Capture("backup") # pubCall.expected)
    BY <2>2 DEF Pub!ExamineDisplaced, Pub!Go
  <2> QED
    BY <2>1, <2>2
<1>p1. Typed'
  BY <1>u DEF CallKept, PublicationInv, Typed, Running, Pub!Names, Pub!Steps
<1>p2. SnapshotInv'
  BY <1>u DEF CallKept, PublicationInv, SnapshotInv, Old, New
<1>p3. RaceInv'
  BY <1>u DEF PublicationInv, SnapshotInv, RaceInv, Running, Seen, Pub!Capture, Pub!Steps
<1>p4. ApartInv'
  BY <1>u DEF CallKept, PublicationInv, Typed, ApartInv, New
<1>p5. CalmInv'
  BY <1>w, <1>u DEF PublicationInv, Typed, SnapshotInv, CalmInv, Old, New, Calls, Layout,
     AtStep, Pub!Snapshots, Pub!Capture, Pub!Steps
<1>p6. IdleInv'
  BY <1>u DEF IdleInv, Pub!FailedUncontested
<1>p7. SingleInv'
  BY <1>w, <1>c, <1>u DEF PublicationInv, RaceInv, ApartInv, SingleInv, Seen,
     Pub!NoContent, Pub!Missing, Pub!Capture
<1> QED
  BY <1>p1, <1>p2, <1>p3, <1>p4, <1>p5, <1>p6, <1>p7 DEF PublicationInv

(* The replacement takes the name, if nobody has it (PublishNew). *)
LEMMA PublishNewKeeps == ASSUME OwnTables, PublicationInv, Pub!PublishNew PROVE PublicationInv'
<1>d. pubDir["config"] = Pub!NoInode =>
         /\ pubDir' \in [Pub!Names -> Nat] /\ pubDir'["config"] = pubCall.temp /\ pubDir'["backup"] = pubDir["backup"]
         /\ pubDir'["temp"] = IF pubHost = "posix" THEN pubDir["temp"] ELSE Pub!NoInode
  <2>1. pubCall.temp \in Nat
    BY DEF PublicationInv, Typed, Calls
  <2>2. CASE pubHost = "posix"
    BY <2>1, <2>2 DEF Pub!PublishNew, PublicationInv, Typed, Pub!Names, Pub!NoInode
  <2>3. CASE pubHost # "posix"
    BY <2>1, <2>3 DEF Pub!PublishNew, PublicationInv, Typed, Pub!Names, Pub!NoInode
  <2> QED
    BY <2>2, <2>3
<1>t. pubCall \in Calls
  BY DEF PublicationInv, Typed
<1>u. /\ pubPc = "displaced" /\ UNCHANGED <<pubHost, pubLitter, pubData, pubSpent, pubRaced>> /\ CallKept
      /\ \/ /\ pubDir["config"] # Pub!NoInode /\ (pubCall'.published <=> pubCall.published)
            /\ pubCall'.error = "concurrent" /\ pubPc' = "handling" /\ pubFailedAt' = pubPc /\ pubDir' = pubDir
         \/ /\ pubDir["config"] = Pub!NoInode /\ pubCall' = pubCall /\ pubFailedAt' = pubFailedAt
            /\ pubPc' = IF pubHost = "posix" THEN "linked" ELSE "named"
  <2>1. CASE pubDir["config"] # Pub!NoInode
    BY <1>t, <2>1, RaiseFacts DEF Pub!PublishNew
  <2>2. CASE pubDir["config"] = Pub!NoInode
    BY <1>t, <2>2 DEF Pub!PublishNew, Pub!Go, CallKept
  <2> QED
    BY <2>1, <2>2
<1>p1. Typed'
  BY <1>d, <1>u DEF CallKept, PublicationInv, Typed, SnapshotInv, New, Running, Pub!Names,
     Pub!Steps
<1>p2. SnapshotInv'
  BY <1>u DEF CallKept, PublicationInv, SnapshotInv, Old, New
<1>p3. RaceInv'
  BY <1>u DEF PublicationInv, RaceInv, Running, Seen, Pub!NoContent, Pub!Missing,
     Pub!Capture, Pub!Steps
<1>p4. ApartInv'
  BY <1>d, <1>u DEF CallKept, PublicationInv, Typed, ApartInv, New
<1>p5. CalmInv'
  BY <1>d, <1>u DEF CallKept, PublicationInv, Typed, CalmInv, OwnTables, Old, New,
     Running, Layout, AtStep
<1>p6. IdleInv'
  BY <1>u DEF IdleInv, Pub!FailedUncontested
<1>p7. SingleInv'
  BY <1>u DEF PublicationInv, Typed, RaceInv, SingleInv, Seen, Pub!Capture
<1> QED
  BY <1>p1, <1>p2, <1>p3, <1>p4, <1>p5, <1>p6, <1>p7 DEF PublicationInv

(* The temporary name goes (UnlinkTemporary). *)
LEMMA UnlinkTemporaryKeeps == ASSUME OwnTables, PublicationInv, Pub!UnlinkTemporary PROVE PublicationInv'
<1>d. /\ pubDir' \in [Pub!Names -> Nat] /\ pubDir'["config"] = pubDir["config"] /\ pubDir'["temp"] = Pub!NoInode
      /\ pubDir'["backup"] = pubDir["backup"]
  BY DEF Pub!UnlinkTemporary, PublicationInv, Typed, Pub!Names, Pub!NoInode
<1>u. /\ pubPc = "linked" /\ UNCHANGED <<pubHost, pubLitter, pubData, pubSpent, pubRaced, pubFailedAt>>
      /\ CallKept /\ pubCall'.error = pubCall.error
      /\ \/ Old = Pub!NoInode /\ pubPc' = "named" /\ pubCall' = pubCall
         \/ Old # Pub!NoInode /\ pubPc' = "published" /\ pubCall'.published
  <2>1. CASE Old = Pub!NoInode
    BY <2>1 DEF Pub!UnlinkTemporary, Pub!Go, PublicationInv, Typed, Old, CallKept
  <2>2. CASE Old # Pub!NoInode
    BY <2>2, ReportFacts DEF Pub!UnlinkTemporary, Pub!Go, PublicationInv, Typed, Old
  <2> QED
    BY <2>1, <2>2
<1>p1. Typed'
  BY <1>d, <1>u DEF CallKept, PublicationInv, Typed, Running, Pub!Names, Pub!Steps
<1>p2. SnapshotInv'
  BY <1>u DEF CallKept, PublicationInv, SnapshotInv, Old, New
<1>p3. RaceInv'
  BY <1>d, <1>u DEF PublicationInv, RaceInv, Running, Seen, Pub!Capture, Pub!Steps
<1>p4. ApartInv'
  BY <1>d, <1>u DEF CallKept, PublicationInv, ApartInv, New
<1>p5. CalmInv'
  BY <1>d, <1>u DEF CallKept, PublicationInv, Typed, CalmInv, Old, New, Running, Layout,
     AtStep
<1>p6. IdleInv'
  BY <1>u DEF IdleInv, Pub!FailedUncontested
<1>p7. SingleInv'
  BY <1>u DEF SingleInv
<1> QED
  BY <1>p1, <1>p2, <1>p3, <1>p4, <1>p5, <1>p6, <1>p7 DEF PublicationInv

(* A new file is looked at and is published with that (Identify). *)
LEMMA IdentifyKeeps == ASSUME OwnTables, PublicationInv, Pub!Identify PROVE PublicationInv'
<1>u. /\ pubPc = "named" /\ UNCHANGED <<pubHost, pubDir, pubLitter, pubData, pubSpent, pubRaced>>
      /\ CallKept /\ pubCall'.published
      /\ \/ /\ pubDir["config"] = New /\ pubPc' = "published" /\ pubCall'.error = pubCall.error
            /\ pubFailedAt' = pubFailedAt
         \/ /\ pubDir["config"] # New /\ pubPc' = "handling" /\ pubCall'.error = "invalid"
            /\ pubFailedAt' = "named"
  <2>1. CASE pubDir["config"] = New
    BY <2>1, ReportFacts DEF Pub!Identify, Pub!Go, PublicationInv, Typed, New
  <2>2. CASE pubDir["config"] # New
    BY <2>2 DEF Pub!Identify, Pub!Go, PublicationInv, Typed, New, CallKept, Calls
  <2> QED
    BY <2>1, <2>2
<1>p1. Typed'
  BY <1>u DEF CallKept, PublicationInv, Typed, Running, Pub!Steps
<1>p2. SnapshotInv'
  BY <1>u DEF CallKept, PublicationInv, SnapshotInv, Old, New
<1>p3. RaceInv'
  BY <1>u DEF PublicationInv, RaceInv, Running, Seen, Pub!Capture, Pub!Steps
<1>p4. ApartInv'
  BY <1>u DEF CallKept, PublicationInv, ApartInv, New
<1>p5. CalmInv'
  BY <1>u DEF CallKept, PublicationInv, Typed, CalmInv, Old, New, Running, Layout, AtStep,
     Pub!Steps
<1>p6. IdleInv'
  BY <1>u DEF IdleInv, Pub!FailedUncontested
<1>p7. SingleInv'
  BY <1>u DEF PublicationInv, Typed, RaceInv, SingleInv, Seen, Pub!Capture, Running, Pub!Steps
<1> QED
  BY <1>p1, <1>p2, <1>p3, <1>p4, <1>p5, <1>p6, <1>p7 DEF PublicationInv

(* Windows replaces the file and keeps the original (Swap). *)
LEMMA SwapKeeps == ASSUME OwnTables, PublicationInv, Pub!Swap PROVE PublicationInv'
<1>d. /\ pubDir' \in [Pub!Names -> Nat] /\ pubDir'["config"] = pubCall.temp /\ pubDir'["temp"] = Pub!NoInode
      /\ pubDir'["backup"] = pubDir["config"]
  BY DEF Pub!Swap, PublicationInv, Typed, Calls, Pub!Names, Pub!NoInode
<1>u. /\ pubPc = "replacing" /\ pubHost = "windows" /\ pubPc' = "examining"
      /\ UNCHANGED <<pubHost, pubLitter, pubData, pubCall, pubSpent, pubRaced, pubFailedAt>>
  BY DEF Pub!Swap, Pub!Go
<1>p1. Typed'
  BY <1>d, <1>u DEF PublicationInv, Typed, SnapshotInv, New, Running, Pub!Names, Pub!Steps
<1>p2. SnapshotInv'
  BY <1>u DEF PublicationInv, SnapshotInv, Old, New
<1>p3. RaceInv'
  BY <1>d, <1>u DEF PublicationInv, RaceInv, Running, Seen, Pub!Capture, Pub!Steps
<1>p4. ApartInv'
  BY <1>d, <1>u DEF PublicationInv, Typed, SnapshotInv, RaceInv, ApartInv, CalmInv, New,
     Seen, Layout, AtStep, Pub!NoContent, Pub!Missing, Pub!Capture, Pub!Steps
<1>p5. CalmInv'
  BY <1>d, <1>u DEF PublicationInv, CalmInv, Old, New, Running, Layout, AtStep, Pub!Steps
<1>p6. IdleInv'
  BY <1>u DEF IdleInv, Pub!FailedUncontested
<1>p7. SingleInv'
  BY <1>u DEF SingleInv
<1> QED
  BY <1>p1, <1>p2, <1>p3, <1>p4, <1>p5, <1>p6, <1>p7 DEF PublicationInv

(* What was replaced is compared, and put back if it is another            *)
(* (ExamineSwapped).                                                       *)
LEMMA ExamineSwappedKeeps == ASSUME OwnTables, PublicationInv, Pub!ExamineSwapped PROVE PublicationInv'
<1>d. ~(pubDir["config"] = pubCall.temp /\ Pub!Capture("backup") = pubCall.expected) =>
         /\ pubDir' \in [Pub!Names -> Nat] /\ pubDir'["config"] = pubDir["backup"] /\ pubDir'["backup"] = Pub!NoInode
         /\ pubDir'["temp"] = pubDir["temp"]
  BY DEF Pub!ExamineSwapped, PublicationInv, Typed, Pub!Names, Pub!NoInode
<1>t. pubCall \in Calls
  BY DEF PublicationInv, Typed
<1>u. /\ pubPc = "examining" /\ pubHost = "windows" /\ UNCHANGED <<pubHost, pubLitter, pubData, pubSpent, pubRaced>>
      /\ CallKept
      /\ IF pubDir["config"] = pubCall.temp /\ Pub!Capture("backup") = pubCall.expected
         THEN pubCall'.published /\ pubCall'.error = pubCall.error /\ pubPc' = "published"
              /\ pubDir' = pubDir /\ pubFailedAt' = pubFailedAt
         ELSE pubPc' = "handling" /\ (pubCall'.published <=> pubCall.published)
              /\ pubCall'.error = "concurrent" /\ pubFailedAt' = pubPc
  <2>1. CASE pubDir["config"] = pubCall.temp /\ Pub!Capture("backup") = pubCall.expected
    BY <1>t, <2>1, ReportFacts DEF Pub!ExamineSwapped, Pub!Go
  <2>2. CASE ~(pubDir["config"] = pubCall.temp /\ Pub!Capture("backup") = pubCall.expected)
    BY <1>t, <2>2, RaiseFacts DEF Pub!ExamineSwapped
  <2> QED
    BY <2>1, <2>2
<1>p1. Typed'
  BY <1>d, <1>u DEF CallKept, PublicationInv, Typed, Running, Pub!Names, Pub!Steps
<1>p2. SnapshotInv'
  BY <1>u DEF CallKept, PublicationInv, SnapshotInv, Old, New
<1>p3. RaceInv'
  BY <1>u DEF PublicationInv, SnapshotInv, RaceInv, Running, Seen, Pub!Capture, Pub!Steps
<1>p4. ApartInv'
  BY <1>d, <1>u DEF CallKept, PublicationInv, ApartInv, New
<1>p5. CalmInv'
  BY <1>u DEF CallKept, PublicationInv, ApartInv, CalmInv, Old, New, Calls, Layout,
     AtStep, Pub!Snapshots, Pub!Capture, Pub!Steps
<1>p6. IdleInv'
  BY <1>u DEF IdleInv, Pub!FailedUncontested
<1>p7. SingleInv'
  BY <1>u DEF SingleInv
<1> QED
  BY <1>p1, <1>p2, <1>p3, <1>p4, <1>p5, <1>p6, <1>p7 DEF PublicationInv

(* What is under the name is read back (Verify). *)
LEMMA VerifyKeeps == ASSUME OwnTables, PublicationInv, Pub!Verify PROVE PublicationInv'
<1>t. pubCall \in Calls
  BY DEF PublicationInv, Typed
<1>u. /\ pubPc = "published" /\ UNCHANGED <<pubHost, pubDir, pubLitter, pubData, pubSpent, pubRaced>>
      /\ \/ /\ Pub!Capture("config") = Replaced
            /\ pubPc' = "ending" /\ UNCHANGED <<pubCall, pubFailedAt>>
         \/ /\ CallKept /\ (pubCall'.published <=> pubCall.published) /\ pubCall'.error = "invalid"
            /\ pubPc' = "handling" /\ pubFailedAt' = pubPc /\ pubRaced # {}
  <2>1. CASE ~Pub!Unsafe("config") /\ Pub!Capture("config") = Replaced
    BY <2>1 DEF Pub!Verify, Pub!Go, Replaced, New
  <2>2. CASE ~(~Pub!Unsafe("config") /\ Pub!Capture("config") = Replaced)
    <3>1. Pub!Raise("invalid") /\ UNCHANGED <<pubHost, pubDir, pubLitter, pubData, pubSpent, pubRaced>> /\ pubPc = "published"
      BY <2>2 DEF Pub!Verify, Replaced, New
    <3>2. pubRaced # {}
      BY <2>2, <3>1, UnsafeFacts DEF PublicationInv, Typed, SnapshotInv, ApartInv,
         CalmInv, AtStep, Layout, Pub!Capture,
         Pub!Steps, Old, New, Pub!NoInode, Replaced, Calls, Pub!Snapshots
    <3> QED
      BY <1>t, <3>1, <3>2, RaiseFacts
  <2> QED
    BY <2>1, <2>2
<1>p1. Typed'
  BY <1>u DEF CallKept, PublicationInv, Typed, Running, Pub!Steps
<1>p2. SnapshotInv'
  BY <1>u DEF PublicationInv, SnapshotInv, CallKept, Old, New, Pub!NoInode
<1>p3. RaceInv'
  BY <1>u DEF RaceInv, Running, Pub!Steps
<1>p4. ApartInv'
  BY <1>u DEF CallKept, PublicationInv, Typed, ApartInv, New
<1>p5. CalmInv'
  BY <1>u DEF PublicationInv, Typed, CalmInv, Old, New, Running, Layout, AtStep, Pub!Steps
<1>p6. IdleInv'
  BY <1>u DEF IdleInv, Pub!FailedUncontested
<1>p7. SingleInv'
  BY <1>u DEF PublicationInv, Typed, RaceInv, SingleInv, Seen, Pub!Capture
<1> QED
  BY <1>p1, <1>p2, <1>p3, <1>p4, <1>p5, <1>p6, <1>p7 DEF PublicationInv

(* A failed call decides what to put back (RestoreDecides). *)
LEMMA RestoreDecidesKeeps == ASSUME OwnTables, PublicationInv, Pub!RestoreDecides PROVE PublicationInv'
<1>w. Pub!Unsafe("config") <=>
        /\ pubDir["config"] # Pub!NoInode
        /\ \/ pubDir["config"] \in pubLitter \/ pubDir["temp"] = pubDir["config"]
           \/ pubDir["backup"] = pubDir["config"]
  BY UnsafeFacts, Zenon DEF PublicationInv, Typed
<1>u. /\ pubPc = "handling" /\ UNCHANGED <<pubHost, pubDir, pubLitter, pubData, pubCall, pubSpent, pubRaced, pubFailedAt>>
      /\ pubPc' = IF /\ Pub!NeedsRestore /\ ~Pub!Unsafe("config") /\ Pub!Capture("config") = Replaced
                     /\ Old = Pub!NoInode \/ pubDir["backup"] = Old
               THEN "restoring" ELSE "ending"
  BY DEF Pub!RestoreDecides, Pub!Go, Old, New, Replaced
<1>p1. Typed'
  BY <1>u DEF PublicationInv, Typed, Running, Pub!Steps
<1>p2. SnapshotInv'
  BY <1>u DEF PublicationInv, SnapshotInv, Old, New
<1>p3. RaceInv'
  BY <1>u DEF RaceInv, Running, Pub!Steps
<1>p4. ApartInv'
  BY <1>w, <1>u DEF PublicationInv, ApartInv, New, Pub!Missing, Pub!Capture, Replaced
<1>p5. CalmInv'
  <2> SUFFICES ASSUME pubRaced = {} PROVE CalmInv'
    BY <1>u DEF CalmInv
  <2>1. AtStep(pubFailedAt) /\ pubFailedAt \in Pub!Steps /\ pubSpent.failures # 0 /\ pubCall.error # "none"
    BY <1>u DEF PublicationInv, CalmInv, Typed
  <2>2. /\ pubFailedAt = "published" <=> pubCall.published
        /\ New # Pub!NoInode /\ New # Old /\ New \notin pubLitter
        /\ pubData[New] = pubCall.replacement
    BY <1>u DEF PublicationInv, CalmInv, Typed, SnapshotInv, Pub!Steps, Pub!NoInode
  <2>3. Pub!Capture("config") = Replaced <=> pubDir["config"] = New
    BY <2>2 DEF Pub!Capture, Replaced, Pub!Missing, Pub!NoInode
  <2>4. pubHost \in {"posix", "windows"} /\ (Old = Pub!NoInode => pubFailedAt \notin {"replacing", "examining"})
        /\ (pubFailedAt = "displaced" => Old = Pub!NoInode \/ pubHost = "posix")
        /\ (pubFailedAt = "linked" => pubHost = "posix") /\ (pubFailedAt = "named" => Old = Pub!NoInode)
    BY <1>u DEF PublicationInv, Typed, OwnTables, SnapshotInv, CalmInv, ApartInv
  <2>5. pubPc' = "restoring" => Layout(New, Pub!NoInode, Old)
    BY <1>u, <1>w, <2>1, <2>2, <2>3, <2>4 DEF AtStep, Layout, Pub!Steps, Pub!NeedsRestore,
       Pub!NoInode
  <2>6. pubPc' = "ending" /\ ~Pub!CannotRollBack => pubDir["config"] = Old
    <3>1. CASE pubFailedAt \in {"staged", "replacing"}
      BY <3>1, <2>1 DEF AtStep, Layout
    <3>2. CASE pubFailedAt = "examining" /\ pubHost = "windows"
      <4>1. Layout(New, Pub!NoInode, Old) /\ Old # Pub!NoInode
        BY <3>2, <2>1, <2>4 DEF AtStep
      <4> QED
        BY <4>1, <1>u, <1>w, <2>2, <2>3 DEF Layout, Pub!NeedsRestore
    <3>3. CASE pubFailedAt = "published"
      <4>1. Layout(New, Pub!NoInode, Old) /\ pubCall.published
        BY <3>3, <2>1, <2>2 DEF AtStep
      <4> QED
        BY <4>1, <1>u, <1>w, <2>2, <2>3 DEF Layout, Pub!NeedsRestore
    <3>4. CASE pubFailedAt = "displaced" /\ pubHost = "windows"
      BY <3>4, <2>1, <2>4 DEF AtStep, Layout
    <3> QED
      BY <3>1, <3>2, <3>3, <3>4, <2>1, <2>4 DEF Pub!CannotRollBack, Pub!Steps
  <2> QED
    BY <1>u, <2>1, <2>2, <2>5, <2>6 DEF PublicationInv, CalmInv, Layout, Old, New,
       Pub!CannotRollBack, Pub!Steps
<1>p6. IdleInv'
  BY <1>u DEF IdleInv, Pub!FailedUncontested
<1>p7. SingleInv'
  BY <1>u DEF PublicationInv, Typed, SnapshotInv, CalmInv, SingleInv, OwnTables, Seen,
     Pub!Capture, Replaced
<1> QED
  BY <1>p1, <1>p2, <1>p3, <1>p4, <1>p5, <1>p6, <1>p7 DEF PublicationInv

(* The displaced file is put back (Restore). *)
LEMMA RestoreKeeps == ASSUME OwnTables, PublicationInv, Pub!Restore PROVE PublicationInv'
<1>d. /\ pubDir' \in [Pub!Names -> Nat] /\ pubDir'["temp"] = pubDir["temp"]
      /\ Old # Pub!NoInode => pubDir'["config"] = pubDir["backup"] /\ pubDir'["backup"] = Pub!NoInode
      /\ Old = Pub!NoInode => pubDir'["config"] = (IF pubDir["config"] = pubCall.temp THEN Pub!NoInode ELSE pubDir["config"])
                           /\ pubDir'["backup"] = pubDir["backup"]
  <2>1. CASE Old # Pub!NoInode
    BY <2>1 DEF Pub!Restore, Old, PublicationInv, Typed, Pub!Names, Pub!NoInode
  <2>2. CASE Old = Pub!NoInode
    BY <2>2 DEF Pub!Restore, Old, PublicationInv, Typed, Pub!Names, Pub!NoInode
  <2> QED
    BY <2>1, <2>2
<1>u. /\ pubPc = "restoring" /\ pubPc' = "ending"
      /\ UNCHANGED <<pubHost, pubLitter, pubData, pubCall, pubSpent, pubRaced, pubFailedAt>>
  BY DEF Pub!Restore, Pub!Go
<1>p1. Typed'
  BY <1>d, <1>u DEF PublicationInv, Typed, Running, Pub!Names, Pub!Steps
<1>p2. SnapshotInv'
  BY <1>u DEF PublicationInv, SnapshotInv, Old, New
<1>p3. RaceInv'
  BY <1>u DEF RaceInv, Running, Pub!Steps
<1>p4. ApartInv'
  BY <1>d, <1>u DEF PublicationInv, ApartInv, New
<1>p5. CalmInv'
  BY <1>d, <1>u DEF PublicationInv, Typed, CalmInv, Old, New, Running, Layout, Pub!Steps
<1>p6. IdleInv'
  BY <1>u DEF IdleInv, Pub!FailedUncontested
<1>p7. SingleInv'
  BY <1>u DEF PublicationInv, SingleInv
<1> QED
  BY <1>p1, <1>p2, <1>p3, <1>p4, <1>p5, <1>p6, <1>p7 DEF PublicationInv

(* The call ends and removes what it made (Finish). *)
LEMMA FinishKeepsPublication == ASSUME OwnTables, PublicationInv, Pub!Finish PROVE PublicationInv'
<1>d. /\ pubDir' \in [Pub!Names -> Nat] /\ pubDir'["config"] = pubDir["config"]
      /\ pubDir'["temp"] = Pub!NoInode /\ pubDir'["backup"] = Pub!NoInode
  BY DEF Pub!Finish, PublicationInv, Typed, Pub!Names, Pub!NoInode
<1>l. pubLitter' \subseteq pubLitter \cup ({pubDir["temp"], pubDir["backup"]} \ {Pub!NoInode})
  BY DEF Pub!Finish
<1>u. /\ pubPc = "ending" /\ pubPc' = "idle" /\ UNCHANGED <<pubHost, pubData, pubCall, pubSpent, pubRaced, pubFailedAt>>
  BY DEF Pub!Finish, Pub!Go
<1>p1. Typed'
  BY <1>d, <1>l, <1>u DEF PublicationInv, Typed, Running, Pub!Names, Pub!Steps
<1>p2. SnapshotInv'
  BY <1>u DEF SnapshotInv
<1>p3. RaceInv'
  BY <1>u DEF RaceInv, Running, Pub!Steps
<1>p4. ApartInv'
  BY <1>d, <1>u DEF PublicationInv, ApartInv
<1>p5. CalmInv'
  BY <1>u DEF CalmInv
<1>p6. IdleInv'
  BY <1>d, <1>u DEF PublicationInv, Typed, SnapshotInv, CalmInv, IdleInv, Old, Calls,
     Pub!Snapshots, Pub!Capture, Pub!CannotRollBack, Pub!FailedUncontested
<1>p7. SingleInv'
  BY <1>u DEF SingleInv
<1> QED
  BY <1>p1, <1>p2, <1>p3, <1>p4, <1>p5, <1>p6, <1>p7 DEF PublicationInv

(* A system call fails (CallFails). *)
LEMMA CallFailsKeeps == ASSUME OwnTables, PublicationInv, Pub!CallFails PROVE PublicationInv'
<1>u. /\ pubPc \in Pub!Steps /\ pubSpent' \in PubCounters /\ pubSpent'.failures # 0
      /\ UNCHANGED <<pubHost, pubDir, pubLitter, pubData, pubRaced>>
      /\ CallKept /\ (pubCall'.published <=> pubCall.published) /\ pubCall'.error = "io"
      /\ pubPc' = "handling" /\ pubFailedAt' = pubPc
  BY RaiseFacts DEF Pub!CallFails, PublicationInv, Typed, PubCounters
<1>p1. Typed'
  BY <1>u DEF CallKept, PublicationInv, Typed, Running, Pub!Steps
<1>p2. SnapshotInv'
  BY <1>u DEF CallKept, PublicationInv, SnapshotInv, Old, New, Pub!Steps
<1>p3. RaceInv'
  BY <1>u DEF RaceInv, Running, Pub!Steps
<1>p4. ApartInv'
  BY <1>u DEF CallKept, PublicationInv, Typed, ApartInv, New, Running
<1>p5. CalmInv'
  BY <1>u DEF CallKept, PublicationInv, Typed, CalmInv, Old, New, Layout, AtStep, Pub!Steps
<1>p6. IdleInv'
  BY <1>u DEF IdleInv, Pub!FailedUncontested
<1>p7. SingleInv'
  BY <1>u DEF SingleInv
<1> QED
  BY <1>p1, <1>p2, <1>p3, <1>p4, <1>p5, <1>p6, <1>p7 DEF PublicationInv

(* The restoration fails (RestoreFails). *)
LEMMA RestoreFailsKeeps == ASSUME OwnTables, PublicationInv, Pub!RestoreFails PROVE PublicationInv'
<1>u. /\ pubPc = "restoring" /\ pubSpent' \in PubCounters /\ pubSpent'.failures # 0
      /\ pubFailedAt' = "restoring" /\ pubPc' = "ending"
      /\ UNCHANGED <<pubHost, pubDir, pubLitter, pubData, pubCall, pubRaced>>
  BY DEF Pub!RestoreFails, Pub!Go, PublicationInv, Typed, PubCounters
<1>p1. Typed'
  BY <1>u DEF PublicationInv, Typed, Running, Pub!Steps
<1>p2. SnapshotInv'
  BY <1>u DEF PublicationInv, SnapshotInv, Old, New
<1>p3. RaceInv'
  BY <1>u DEF RaceInv, Running, Pub!Steps
<1>p4. ApartInv'
  BY <1>u DEF PublicationInv, ApartInv, New
<1>p5. CalmInv'
  BY <1>u DEF PublicationInv, CalmInv, Old, New, Running, Layout, Pub!Steps,
     Pub!CannotRollBack
<1>p6. IdleInv'
  BY <1>u DEF IdleInv, Pub!FailedUncontested
<1>p7. SingleInv'
  BY <1>u DEF SingleInv
<1> QED
  BY <1>p1, <1>p2, <1>p3, <1>p4, <1>p5, <1>p6, <1>p7 DEF PublicationInv

(* The process dies (Crash). *)
LEMMA CrashKeepsPublication == ASSUME OwnTables, PublicationInv, Pub!Crash PROVE PublicationInv'
<1>s. pubSpent' \in PubCounters /\ pubSpent'.failures = pubSpent.failures
  BY DEF Pub!Crash, PublicationInv, Typed, PubCounters
<1>d. /\ pubDir' \in [Pub!Names -> Nat] /\ pubDir'["config"] = pubDir["config"]
      /\ pubDir'["temp"] = Pub!NoInode /\ pubDir'["backup"] = Pub!NoInode
  BY DEF Pub!Crash, PublicationInv, Typed, Pub!Names, Pub!NoInode
<1>u. /\ UNCHANGED <<pubHost, pubData, pubRaced, pubFailedAt>> /\ pubPc' = "idle" /\ pubCall' = Pub!NoCall
      /\ Pub!NoCall.error = "none" /\ Pub!NoCall \in Calls
      /\ pubLitter' = pubLitter \cup ({pubDir["temp"], pubDir["backup"]} \ {Pub!NoInode})
  BY DEF Pub!Crash, Pub!Go, Pub!NoCall, Calls, Pub!Snapshots, Pub!Missing, Pub!NoInode,
     Pub!NoContent, Pub!Contents
<1>p1. Typed'
  BY <1>s, <1>d, <1>u DEF PublicationInv, Typed, Running, Pub!Names, Pub!Steps
<1>p2. SnapshotInv'
  BY <1>u DEF SnapshotInv
<1>p3. RaceInv'
  BY <1>u DEF RaceInv, Running, Pub!Steps
<1>p4. ApartInv'
  BY <1>d, <1>u DEF PublicationInv, ApartInv
<1>p5. CalmInv'
  BY <1>u DEF CalmInv
<1>p6. IdleInv'
  BY <1>u DEF IdleInv, Pub!FailedUncontested
<1>p7. SingleInv'
  BY <1>u DEF SingleInv
<1> QED
  BY <1>p1, <1>p2, <1>p3, <1>p4, <1>p5, <1>p6, <1>p7 DEF PublicationInv

(* Somebody else writes a setting (Edit). *)
LEMMA EditKeeps == ASSUME OwnTables, PublicationInv, NEW e \in Edits, Pub!Edit(e) PROVE PublicationInv'
<1>d. /\ pubData' \in Seq(Pub!Contents) /\ pubDir' \in [Pub!Names -> Nat] /\ pubRaced' = pubRaced \cup {e}
      /\ DOMAIN pubData \subseteq DOMAIN pubData' /\ pubDir'["config"] \in DOMAIN pubData'
      /\ pubDir'["config"] # Pub!NoInode
      /\ pubDir'["temp"] = pubDir["temp"] /\ pubDir'["backup"] = pubDir["backup"]
      /\ pubDir'["config"] # pubDir["config"] => pubDir'["config"] \notin DOMAIN pubData
      /\ \A i \in DOMAIN pubData : pubData[i] \subseteq pubData'[i] /\ e \notin pubData[i]
      /\ \A i \in DOMAIN pubData : i # pubDir["config"] => pubData'[i] = pubData[i]
      /\ Seen("config")' = Seen("config") \cup {e}
      /\ UNCHANGED <<pubHost, pubLitter, pubPc, pubCall, pubSpent, pubFailedAt>>
  BY EditFacts DEF PublicationInv, Pub!Names
<1>c. /\ Cardinality(pubRaced) = 1 <=> \E x : pubRaced = {x}
      /\ Cardinality(pubRaced') = 1 <=> \E x : pubRaced' = {x}
      /\ IsFiniteSet(pubRaced')
  BY <1>d, OneSetting DEF PublicationInv, Typed
<1>p1. Typed'
  BY <1>d, <1>c DEF PublicationInv, Typed, Pub!Names
<1>p2. SnapshotInv'
  BY <1>d DEF PublicationInv, SnapshotInv, Old, New, Pub!NoContent, Pub!Missing
<1>p3. RaceInv'
  BY <1>d, <1>c DEF CallKept, PublicationInv, Typed, SnapshotInv, RaceInv, ApartInv,
     CalmInv, IdleInv, SingleInv, OwnTables, Old, New, Running, Calls, Seen, Layout,
     Pub!Names, Pub!NoContent, Pub!Missing, Pub!Capture, Pub!Steps
<1>p4. ApartInv'
  BY <1>d DEF PublicationInv, Typed, ApartInv, New, Pub!Names
<1>p5. CalmInv'
  <2>1. pubRaced' # {}
    BY <1>d
  <2> QED
    BY <2>1 DEF CalmInv
<1>p6. IdleInv'
  BY <1>d DEF IdleInv, Pub!FailedUncontested
<1>p7. SingleInv'
  <2> SUFFICES ASSUME pubHost = "posix", pubSpent.failures = 0, Cardinality(pubRaced') = 1
               PROVE  /\ pubPc # "restoring"
                      /\ pubPc \in {"handling", "ending"} => pubRaced' \subseteq Seen("config")'
    BY <1>d DEF SingleInv
  <2>1. e \notin pubRaced => pubRaced = {}
    BY <1>c, <1>d
  <2>2. CASE e \in pubRaced
    BY <1>c, <1>d, <2>2 DEF PublicationInv, SingleInv
  <2>3. CASE pubRaced = {}
    BY <1>d, <2>3 DEF PublicationInv, CalmInv
  <2> QED
    BY <2>1, <2>2, <2>3
<1> QED
  BY <1>p1, <1>p2, <1>p3, <1>p4, <1>p5, <1>p6, <1>p7 DEF PublicationInv

(***************************************************************************)
(* The invariant, and what follows from it.                                *)
(***************************************************************************)

(* The file is as it was installed, or absent. *)
LEMMA PublicationInit == OwnTables /\ Pub!Init => PublicationInv
<1> SUFFICES ASSUME OwnTables, Pub!Init PROVE PublicationInv
  OBVIOUS
<1>1. pubDir["temp"] = Pub!NoInode /\ pubDir["backup"] = Pub!NoInode /\ pubLitter = {} /\ pubRaced = {}
      /\ pubPc = "idle" /\ pubCall = Pub!NoCall /\ Pub!NoCall \in Calls /\ Pub!NoCall.error = "none"
      /\ pubFailedAt = "none" /\ pubHost \in Hosts
  BY DEF Pub!Init, Pub!Names, Pub!NoCall, Calls, Pub!Missing, Pub!Snapshots, Pub!Contents,
     Pub!NoContent, Pub!NoInode
<1>2. pubData \in Seq(Pub!Contents) /\ pubDir \in [Pub!Names -> Nat] /\ pubSpent \in PubCounters
      /\ (pubDir["config"] # Pub!NoInode => pubDir["config"] \in DOMAIN pubData)
  <2>1. {UserSettings} \in Pub!Contents
    BY DEF Pub!Contents, Pub!Settings
  <2>2. <<{UserSettings}>> \in Seq(Pub!Contents) /\ <<>> \in Seq(Pub!Contents)
        /\ 1 \in DOMAIN <<{UserSettings}>>
    BY <2>1
  <2>3. CASE pubDir = [n \in Pub!Names |-> IF n = "config" THEN 1 ELSE Pub!NoInode] /\ pubData = <<{UserSettings}>>
    BY <2>2, <2>3 DEF Pub!Init, Pub!Names, Pub!NoInode, PubCounters
  <2>4. CASE pubDir = [n \in Pub!Names |-> Pub!NoInode] /\ pubData = <<>>
    BY <2>2, <2>4 DEF Pub!Init, Pub!Names, Pub!NoInode, PubCounters
  <2> QED
    BY <2>3, <2>4 DEF Pub!Init
<1>3. IsFiniteSet({}) /\ Cardinality({}) = 0
  BY FS_EmptySet
<1> QED
  BY <1>1, <1>2, <1>3 DEF PublicationInv, Typed, SnapshotInv, RaceInv, ApartInv, CalmInv,
     IdleInv, SingleInv,
     Running, Pub!Steps, Pub!FailedUncontested, Pub!Names, Pub!NoInode

(* A step that changes nothing. *)
LEMMA StutterKeepsPublication == ASSUME PublicationInv, UNCHANGED Pub!vars PROVE PublicationInv'
BY DEF Pub!vars, PublicationInv, Typed, SnapshotInv, RaceInv, ApartInv, CalmInv, IdleInv,
   SingleInv, Seen, Pub!Capture,
   Layout, AtStep, Old, New, Pub!CannotRollBack, Pub!FailedUncontested

(* Every step keeps the invariant. *)
LEMMA PublicationNext == OwnTables /\ PublicationInv /\ [Pub!Next]_Pub!vars => PublicationInv'
BY EditKeeps, ReadSnapshotKeeps, CompareEndsKeeps, StageKeeps, RecheckKeeps, DisplaceKeeps,
   ExamineDisplacedKeeps, PublishNewKeeps, UnlinkTemporaryKeeps, IdentifyKeeps, SwapKeeps, ExamineSwappedKeeps,
   VerifyKeeps, RestoreDecidesKeeps, RestoreKeeps, FinishKeepsPublication, CallFailsKeeps, RestoreFailsKeeps,
   CrashKeepsPublication, StutterKeepsPublication, Zenon DEF Pub!Next

(* The invariant holds of every call of write_config_bytes. *)
THEOREM PublicationInduction == ASSUME OwnTables PROVE Pub!Spec => []PublicationInv
<1>1. Pub!Init => PublicationInv
  BY PublicationInit
<1>2. PublicationInv /\ [Pub!Next]_Pub!vars => PublicationInv'
  BY PublicationNext
<1> QED
  BY <1>1, <1>2, PTL DEF Pub!Spec

(* The type invariant. *)
THEOREM FilesAreTyped == ASSUME OwnTables PROVE Pub!Spec => []Pub!TypeOK
<1>1. PublicationInv => Pub!TypeOK
  <2> SUFFICES ASSUME PublicationInv PROVE Pub!TypeOK
    OBVIOUS
  <2>1. pubDir \in [Pub!Names -> {Pub!NoInode} \cup DOMAIN pubData]
    BY DEF PublicationInv, Typed
  <2>2. pubPc \in Pub!Steps \cup {"idle", "comparing", "handling", "restoring", "ending"}
    BY DEF PublicationInv, Typed, Running
  <2> QED
    BY <2>1, <2>2 DEF PublicationInv, Typed, ApartInv, Pub!TypeOK, Calls
<1> QED
  BY <1>1, PublicationInduction, PTL

(* A call that returns normally replaced exactly what it had read, and     *)
(* nobody wrote meanwhile (the last verification of write_config_bytes).   *)
THEOREM SuccessIsUncontested == ASSUME OwnTables PROVE Pub!Spec => Pub!SuccessMeansUncontested
<1>1. PublicationInv /\ [Pub!Next]_Pub!vars =>
        [pubPc = "published" /\ pubPc' = "ending" =>
           pubRaced = {} /\ Pub!Capture("config").content = pubCall.replacement]_Pub!vars
  <2> SUFFICES ASSUME PublicationInv, Pub!Next, pubPc = "published", pubPc' = "ending"
               PROVE  pubRaced = {} /\ Pub!Capture("config").content = pubCall.replacement
    OBVIOUS
  <2>1. Pub!Verify
    BY DEF Pub!Next, Pub!Edit, Pub!ReadSnapshot, Pub!CompareEnds, Pub!Stage, Pub!Recheck,
       Pub!Displace, Pub!ExamineDisplaced,
       Pub!PublishNew, Pub!UnlinkTemporary, Pub!Identify, Pub!Swap, Pub!ExamineSwapped, Pub!RestoreDecides, Pub!Restore, Pub!Finish, Pub!CallFails,
       Pub!RestoreFails, Pub!Crash, Pub!Raise, Pub!Go
  <2>2. Pub!Capture("config") = [inode |-> pubCall.temp, content |-> pubCall.replacement]
    BY <2>1 DEF Pub!Verify, Pub!Raise
  <2>3. Pub!Capture("config").content = pubCall.replacement
    BY <2>2
  <2>4. pubRaced \subseteq pubCall.replacement /\ pubRaced \subseteq Edits
    BY <2>3 DEF PublicationInv, RaceInv, Typed, Seen, Running, Pub!Steps
  <2>5. /\ pubRaced \cap pubCall.expected.content = {}
        /\ pubCall.replacement \in {pubCall.expected.content \cup {CMW}, pubCall.expected.content \ {CMW}}
    BY DEF PublicationInv, SnapshotInv
  <2> QED
    BY <2>3, <2>4, <2>5 DEF OwnTables
<1> QED
  BY <1>1, PublicationInduction, PTL DEF Pub!Spec, Pub!SuccessMeansUncontested

(* Whichever component moves, the publication takes its own steps or none. *)
LEMMA PublicationPart == PartsSpec => Pub!Spec
<1>1. PartsInit => Pub!Init
  BY DEF PartsInit
<1>2. [PartsNext]_partsVars => [Pub!Next]_Pub!vars
  BY Zenon DEF PartsNext, partsVars, pubVars, Pub!vars
<1> QED
  BY <1>1, <1>2, PTL DEF PartsSpec, Pub!Spec

(* A call that failed while nobody else wrote leaves the very file of its  *)
(* snapshot, but for the steps CannotRollBack names: those between the     *)
(* displacement and the removal of the temporary link on POSIX, the look   *)
(* at a new file's identity before it counts as published, a restoration   *)
(* that fails itself (_restore, the finally clause).                       *)
THEOREM FailedCallsRollBack == ASSUME OwnTables PROVE PartsSpec => []RolledBackUnlessDisplaced
<1>1. PublicationInv => RolledBackUnlessDisplaced
  BY DEF PublicationInv, IdleInv, RolledBackUnlessDisplaced, Pub!RolledBackUnlessDisplaced
<1> QED
  BY <1>1, PublicationInduction, PublicationPart, PTL

(* The files that are linked, by name. *)
LEMMA KeptMeans ==
  /\ Pub!Kept = ({pubDir["config"], pubDir["temp"], pubDir["backup"]} \cup pubLitter) \ {Pub!NoInode}
  /\ Pub!Kept' = ({pubDir'["config"], pubDir'["temp"], pubDir'["backup"]} \cup pubLitter') \ {Pub!NoInode}
BY DEF Pub!Kept, Pub!Names

(* What they hold that is not the installer's. *)
LEMMA HeldMeans ==
  /\ \A x : x \in Pub!Held <=> x # CMW /\ \E i \in Pub!Kept : x \in pubData[i]
  /\ \A x : x \in Pub!Held' <=> x # CMW /\ \E i \in Pub!Kept' : x \in pubData'[i]
<1>1. ASSUME NEW x PROVE x \in Pub!Held <=> x # CMW /\ \E i \in Pub!Kept : x \in pubData[i]
  <2> DEFINE U == UNION {pubData[i] : i \in Pub!Kept}
  <2>1. x \in U <=> \E i \in Pub!Kept : x \in pubData[i]
    OBVIOUS
  <2>2. Pub!Held = U \ {CMW}
    BY DEF Pub!Held
  <2> HIDE DEF U
  <2> QED
    BY <2>1, <2>2
<1>2. ASSUME NEW x PROVE x \in Pub!Held' <=> x # CMW /\ \E i \in Pub!Kept' : x \in pubData'[i]
  <2> DEFINE U == UNION {pubData'[i] : i \in Pub!Kept'}
  <2>1. x \in U <=> \E i \in Pub!Kept' : x \in pubData'[i]
    OBVIOUS
  <2>2. Pub!Held' = U \ {CMW}
    BY DEF Pub!Held
  <2> HIDE DEF U
  <2> QED
    BY <2>1, <2>2
<1> QED
  BY <1>1, <1>2

(* Files that stay and only grow lose no setting. *)
LEMMA HeldGrows ==
  ASSUME Pub!Kept \subseteq Pub!Kept', \A i \in Pub!Kept : pubData[i] \subseteq pubData'[i]
  PROVE  Pub!Held \subseteq Pub!Held'
<1> SUFFICES ASSUME NEW x \in Pub!Held PROVE x \in Pub!Held'
  OBVIOUS
<1>1. PICK i \in Pub!Kept : x \in pubData[i] /\ x # CMW
  BY HeldMeans
<1> QED
  BY <1>1, HeldMeans

(* Most steps of a call take no file's last name. *)
LEMMA StepsKeep ==
  ASSUME PublicationInv,
         \/ Pub!ReadSnapshot \/ Pub!CompareEnds \/ Pub!Stage \/ Pub!Recheck \/ Pub!Displace \/ Pub!ExamineDisplaced
         \/ Pub!PublishNew \/ Pub!Identify \/ Pub!Swap \/ Pub!Verify \/ Pub!RestoreDecides \/ Pub!CallFails \/ Pub!RestoreFails \/ Pub!Crash
  PROVE  Pub!Kept \subseteq Pub!Kept' /\ Pub!Held \subseteq Pub!Held'
<1>1. pubDir \in [Pub!Names -> Nat] /\ pubData \in Seq(Pub!Contents) /\ pubCall \in Calls
  BY DEF PublicationInv, Typed
<1>2. Pub!Kept \subseteq DOMAIN pubData
  BY KeptMeans, AppendFacts DEF PublicationInv, Typed, Pub!Names, Pub!NoInode
<1>3. Pub!Kept \subseteq Pub!Kept'
  <2>1. CASE \/ Pub!ReadSnapshot \/ Pub!CompareEnds \/ Pub!Recheck \/ Pub!Identify \/ Pub!Verify
            \/ Pub!RestoreDecides \/ Pub!CallFails \/ Pub!RestoreFails
    <3>1. UNCHANGED <<pubDir, pubLitter>>
      BY <2>1 DEF Pub!ReadSnapshot, Pub!CompareEnds, Pub!Recheck, Pub!Identify, Pub!Verify,
         Pub!RestoreDecides, Pub!CallFails, Pub!RestoreFails
    <3> QED
      BY <3>1, KeptMeans
  <2>2. CASE Pub!Stage
    <3>1. pubDir' = [pubDir EXCEPT !["temp"] = Len(pubData) + 1] /\ pubLitter' = pubLitter
          /\ pubPc = "comparing"
      BY <2>2 DEF Pub!Stage
    <3>2. pubDir["temp"] = Pub!NoInode
      BY <3>1 DEF PublicationInv, ApartInv
    <3> QED
      BY <1>1, <3>1, <3>2, KeptMeans DEF Pub!Names
  <2>3. CASE Pub!Displace
    <3>1. pubDir' = [pubDir EXCEPT !["backup"] = pubDir["config"], !["config"] = Pub!NoInode] /\ pubLitter' = pubLitter
      BY <2>3 DEF Pub!Displace
    <3>2. pubDir["backup"] = Pub!NoInode
      BY <2>3 DEF Pub!Displace, PublicationInv, ApartInv
    <3>3. pubDir'["backup"] = pubDir["config"] /\ pubDir'["temp"] = pubDir["temp"]
      BY <1>1, <3>1 DEF Pub!Names
    <3> QED
      BY <3>1, <3>2, <3>3, KeptMeans
  <2>4. CASE Pub!ExamineDisplaced
    <3>1. pubLitter' = pubLitter
          /\ (pubDir' = pubDir \/ (pubDir["config"] = Pub!NoInode /\ pubDir' = [pubDir EXCEPT !["config"] = pubDir["backup"]]))
      BY <2>4 DEF Pub!ExamineDisplaced
    <3> QED
      BY <1>1, <3>1, KeptMeans DEF Pub!Names
  <2>5. CASE Pub!PublishNew
    <3>1. pubDir["temp"] = New
      BY <2>5 DEF Pub!PublishNew, PublicationInv, ApartInv
    <3>2. CASE pubDir["config"] # Pub!NoInode
      BY <2>5, <3>2, KeptMeans DEF Pub!PublishNew
    <3>3. CASE pubDir["config"] = Pub!NoInode
      <4>1. pubLitter' = pubLitter /\ pubDir' = [pubDir EXCEPT !["config"] = New,
                                         !["temp"] = IF pubHost = "posix" THEN @ ELSE Pub!NoInode]
        BY <2>5, <3>3 DEF Pub!PublishNew, New
      <4>2. pubDir'["config"] = New /\ pubDir'["backup"] = pubDir["backup"]
        BY <1>1, <4>1 DEF Pub!Names
      <4> QED
        BY <3>1, <3>3, <4>1, <4>2, KeptMeans
    <3> QED
      BY <3>2, <3>3
  <2>6. CASE Pub!Swap
    <3>1. pubDir["temp"] = New /\ pubDir["backup"] = Pub!NoInode
      BY <2>6 DEF Pub!Swap, PublicationInv, ApartInv
    <3>2. pubLitter' = pubLitter /\ pubDir' = [config |-> New, temp |-> Pub!NoInode, backup |-> pubDir["config"]]
      BY <2>6 DEF Pub!Swap, New
    <3> QED
      BY <3>1, <3>2, KeptMeans
  <2>7. CASE Pub!Crash
    <3>1. pubLitter' = pubLitter \cup ({pubDir["temp"], pubDir["backup"]} \ {Pub!NoInode})
          /\ pubDir' = [n \in Pub!Names |-> IF n = "config" THEN pubDir[n] ELSE Pub!NoInode]
      BY <2>7 DEF Pub!Crash
    <3>2. pubDir'["config"] = pubDir["config"]
      BY <3>1 DEF Pub!Names
    <3> QED
      BY <3>1, <3>2, KeptMeans
  <2> QED
    BY <2>1, <2>2, <2>3, <2>4, <2>5, <2>6, <2>7
<1>4. \A i \in Pub!Kept : pubData[i] \subseteq pubData'[i]
  <2>1. CASE Pub!Stage
    <3>1. pubData' = Append(pubData, pubCall.replacement) /\ pubCall.replacement \in Pub!Contents
      BY <1>1, <2>1 DEF Pub!Stage, Calls
    <3>2. \A i \in DOMAIN pubData : pubData'[i] = pubData[i]
      BY <1>1, <3>1, AppendFacts
    <3> QED
      BY <1>2, <3>2
  <2>2. CASE ~Pub!Stage
    <3>1. pubData' = pubData
      BY <2>2 DEF Pub!ReadSnapshot, Pub!CompareEnds, Pub!Recheck, Pub!Displace,
         Pub!ExamineDisplaced, Pub!PublishNew, Pub!Identify, Pub!Swap,
         Pub!Verify, Pub!RestoreDecides, Pub!CallFails, Pub!RestoreFails, Pub!Crash
    <3> QED
      BY <3>1
  <2> QED
    BY <2>1, <2>2
<1> QED
  BY <1>3, <1>4, HeldGrows

(* Where a call ends or unlinks its temporary, config.toml stays. *)
LEMMA ConfigStays ==
  ASSUME OwnTables, PublicationInv, Pub!UnlinkTemporary \/ Pub!Finish, pubRaced \subseteq Seen("config")
  PROVE  pubRaced \subseteq Pub!Held'
<1> SUFFICES ASSUME NEW e \in pubRaced PROVE e \in Pub!Held'
  OBVIOUS
<1>1. e # CMW /\ pubDir["config"] # Pub!NoInode /\ e \in pubData[pubDir["config"]]
  BY DEF OwnTables, PublicationInv, Typed, Seen, Pub!Capture, Pub!Missing, Pub!NoContent
<1>2. pubData' = pubData /\ pubDir'["config"] = pubDir["config"]
  BY DEF Pub!UnlinkTemporary, Pub!Finish, PublicationInv, Typed, Pub!Names
<1>3. pubDir["config"] \in Pub!Kept'
  BY <1>1, <1>2, KeptMeans
<1> QED
  BY <1>1, <1>2, <1>3, HeldMeans

(* Without failures and other writers every setting is in some file at     *)
(* every moment: the original is moved, never deleted first                *)
(* (write_config_bytes).                                                   *)
THEOREM SettingsAreNeverInMemoryOnly ==
  ASSUME OwnTables PROVE Pub!Spec => Pub!SettingsNeverInMemoryOnly
<1>1. PublicationInv /\ [Pub!Next]_Pub!vars =>
        [pubRaced = {} /\ pubRaced' = {} /\ pubFailedAt = "none" =>
           /\ Pub!Held \subseteq Pub!Held'
           /\ pubPc # "ending" => Pub!Kept \ {pubCall.temp} \subseteq Pub!Kept']_Pub!vars
  <2> SUFFICES ASSUME PublicationInv, Pub!Next, pubRaced = {}, pubRaced' = {}, pubFailedAt = "none"
               PROVE  Pub!Held \subseteq Pub!Held' /\ (pubPc # "ending" => Pub!Kept \ {pubCall.temp} \subseteq Pub!Kept')
    OBVIOUS
  <2>1. CASE \E e \in Edits : Pub!Edit(e)
    BY <2>1 DEF Pub!Edit
  <2>2. CASE Pub!UnlinkTemporary
    <3>1. pubDir["config"] = New /\ pubDir["temp"] = New
      BY <2>2 DEF Pub!UnlinkTemporary, PublicationInv, CalmInv, AtStep, Layout, Pub!Steps
    <3>2. /\ pubDir'["config"] = pubDir["config"] /\ pubDir'["backup"] = pubDir["backup"]
          /\ UNCHANGED <<pubLitter, pubData>>
      BY <2>2 DEF Pub!UnlinkTemporary, PublicationInv, Typed, Pub!Names
    <3>3. Pub!Kept \subseteq Pub!Kept'
      BY <3>1, <3>2, KeptMeans
    <3> QED
      BY <3>2, <3>3, HeldGrows
  <2>3. CASE Pub!ExamineSwapped
    <3>1. /\ pubDir["config"] = New /\ pubDir["backup"] = Old /\ Old # Pub!NoInode
          /\ pubData[Old] = pubCall.expected.content
      BY <2>3 DEF Pub!ExamineSwapped, PublicationInv, CalmInv, SnapshotInv, AtStep,
         Layout, Pub!Steps
    <3>2. pubCall.expected = [inode |-> Old, content |-> pubCall.expected.content]
      BY DEF PublicationInv, Typed, Calls, Pub!Snapshots, Old
    <3>3. Pub!Capture("backup") = pubCall.expected
      BY <3>1, <3>2 DEF Pub!Capture
    <3>4. UNCHANGED <<pubDir, pubLitter, pubData>>
      BY <2>3, <3>1, <3>3 DEF Pub!ExamineSwapped, New
    <3>5. Pub!Kept \subseteq Pub!Kept'
      BY <3>4, KeptMeans
    <3> QED
      BY <3>4, <3>5, HeldGrows
  <2>4. CASE Pub!Restore
    BY <2>4 DEF Pub!Restore, PublicationInv, Typed, Pub!Steps
  <2>5. CASE Pub!Finish
    <3>1. /\ pubDir["config"] = New /\ pubDir["temp"] = Pub!NoInode /\ pubDir["backup"] = Old
          /\ pubData[New] = pubCall.replacement /\ New # Pub!NoInode
          /\ Old # Pub!NoInode => pubData[Old] = pubCall.expected.content
          /\ pubPc = "ending"
      BY <2>5, AppendFacts DEF Pub!Finish, PublicationInv, Typed, SnapshotInv, CalmInv,
         Layout, Pub!NoInode
    <3>2. pubCall.expected.content \subseteq pubCall.replacement \cup {CMW}
      BY <2>5 DEF Pub!Finish, PublicationInv, SnapshotInv
    <3>3. pubDir'["config"] = New /\ pubLitter \subseteq pubLitter' /\ pubData' = pubData
      BY <2>5, <3>1 DEF Pub!Finish, Pub!Names
    <3>4. New \in Pub!Kept' /\ \A i \in Pub!Kept : i \in Pub!Kept' \/ i = Old
      BY <3>1, <3>3, KeptMeans
    <3>5. \A i \in Pub!Kept : pubData[i] \ {CMW} \subseteq Pub!Held'
      <4> SUFFICES ASSUME NEW i \in Pub!Kept PROVE pubData[i] \ {CMW} \subseteq Pub!Held'
        OBVIOUS
      <4>1. CASE i \in Pub!Kept'
        BY <4>1, <3>3, HeldMeans
      <4>2. CASE i = Old
        <5>1. Old # Pub!NoInode
          BY <4>2 DEF Pub!Kept
        <5>2. pubData[i] \ {CMW} \subseteq pubData'[New] \ {CMW}
          BY <4>2, <5>1, <3>1, <3>2, <3>3
        <5> QED
          BY <5>2, <3>4, HeldMeans
      <4> QED
        BY <4>1, <4>2, <3>4
    <3> QED
      BY <3>1, <3>5, HeldMeans
  <2> QED
    BY <2>1, <2>2, <2>3, <2>4, <2>5, StepsKeep DEF Pub!Next
<1> QED
  BY <1>1, PublicationInduction, PTL DEF Pub!Spec, Pub!SettingsNeverInMemoryOnly

(* What one other writer adds on POSIX is not lost by the call it raced    *)
(* with (the displacement and the exclusive link).                         *)
THEOREM RacedDestinationIsPreserved ==
  ASSUME OwnTables PROVE Pub!Spec => Pub!RacedDestinationPreserved
<1>1. PublicationInv /\ [Pub!Next]_Pub!vars =>
        [pubHost = "posix" /\ pubSpent.failures = 0 /\ Pub!Cardinality(pubRaced) = 1 =>
           pubRaced \cap Pub!Held \subseteq Pub!Held']_Pub!vars
  <2> SUFFICES ASSUME PublicationInv, Pub!Next, pubHost = "posix", pubSpent.failures = 0, Cardinality(pubRaced) = 1
               PROVE  pubRaced \cap Pub!Held \subseteq Pub!Held'
    BY SameCardinality
  <2>1. ASSUME NEW e \in Edits, Pub!Edit(e) PROVE Pub!Held \subseteq Pub!Held'
    <3>1. /\ DOMAIN pubData \subseteq DOMAIN pubData'
          /\ pubDir'["config"] # Pub!NoInode
          /\ pubDir'["temp"] = pubDir["temp"] /\ pubDir'["backup"] = pubDir["backup"] /\ pubLitter' = pubLitter
          /\ \A i \in DOMAIN pubData : pubData[i] \subseteq pubData'[i]
          /\ Seen("config")' = Seen("config") \cup {e}
      BY <2>1, EditFacts DEF PublicationInv, Pub!Names
    <3>2. Pub!Kept \subseteq DOMAIN pubData
      BY KeptMeans, AppendFacts DEF PublicationInv, Typed, Pub!Names, Pub!NoInode
    <3>3. \A i \in Pub!Kept : i \in Pub!Kept' \/ i = pubDir["config"]
      BY <3>1, KeptMeans
    <3>4. pubDir'["config"] \in Pub!Kept' /\ pubData'[pubDir'["config"]] = Seen("config") \cup {e}
      BY <3>1, KeptMeans DEF Seen, Pub!Capture
    <3> SUFFICES ASSUME NEW i \in Pub!Kept, NEW x \in pubData[i], x # CMW PROVE x \in Pub!Held'
      BY HeldMeans
    <3>5. CASE i \in Pub!Kept'
      BY <3>1, <3>2, <3>5, HeldMeans
    <3>6. CASE i = pubDir["config"]
      <4>1. x \in Seen("config")
        BY <3>6 DEF Seen, Pub!Capture, Pub!Kept
      <4> QED
        BY <4>1, <3>4, HeldMeans
    <3> QED
      BY <3>3, <3>5, <3>6
  <2>2. CASE Pub!UnlinkTemporary
    BY <2>2, ConfigStays DEF Pub!UnlinkTemporary, PublicationInv, RaceInv, Running,
       Pub!Steps
  <2>3. CASE Pub!ExamineSwapped
    BY <2>3 DEF Pub!ExamineSwapped
  <2>4. CASE Pub!Restore
    BY <2>4 DEF Pub!Restore, PublicationInv, SingleInv
  <2>5. CASE Pub!Finish
    BY <2>5, ConfigStays DEF Pub!Finish, PublicationInv, SingleInv
  <2> QED
    BY <2>1, <2>2, <2>3, <2>4, <2>5, StepsKeep DEF Pub!Next
<1> QED
  BY <1>1, PublicationInduction, PTL DEF Pub!Spec, Pub!RacedDestinationPreserved

(* No publication loses a setting of anyone's (write_config_bytes). *)
THEOREM NoSettingIsLost == ASSUME OwnTables PROVE PartsSpec => SettingsSurvive
BY FilesAreTyped, SuccessIsUncontested, SettingsAreNeverInMemoryOnly,
   RacedDestinationIsPreserved, PublicationPart,
   PTL DEF SettingsSurvive, Pub!SettingsSurvive

-----------------------------------------------------------------------------
(***************************************************************************)
(* The diagnostic log.  The process that holds its lock knows how far a    *)
(* rotation has come; a process that died in one left files that hold less *)
(* but still the end of what was written.                                  *)
(***************************************************************************)

Appending == {"look", "unlink", "shift", "rename", "write"}

(* What a process at a step of its append has ascertained.                 *)
AppendInv(q) ==
    /\ logPc[q] \in Appending => logLock = q
    /\ logPc[q] # "idle" => logEvent[q] \in Log!Events
    /\ logPc[q] \in {"unlink", "shift", "rename"} => Len(Log!Contents(0)) >= Capacity
    /\ logPc[q] = "shift" => Log!Contents(2) = <<>>
    /\ logPc[q] = "rename" => Log!Contents(1) = <<>>
    /\ logPc[q] = "write" => Len(Log!Contents(0)) < Capacity
    /\ logPc[q] \in Appending \ {"look"} =>
          logEvent[q] = NoId \/ ~Log!Contains(logEvent[q])

(* What is kept is the end of all there was, and not less than Capacity.   *)
EndOf(kept, all) ==
    /\ Len(kept) <= Len(all)
    /\ \A i \in 1..Len(kept) : kept[i] = all[Len(all) - Len(kept) + i]
    /\ Len(kept) = Len(all) \/ Len(kept) >= Capacity

Once(kept) ==
    \A i, j \in 1..Len(kept) : kept[i] = kept[j] /\ kept[i] # NoId => i = j

LogInv ==
    /\ Log!TypeOK
    /\ \A q \in Writers : AppendInv(q)
    /\ EndOf(Log!Retained, logWritten)
    /\ Once(Log!Retained)

(* What is dropped from the front leaves an end, if enough is left.        *)
LEMMA DroppedFront ==
    ASSUME NEW S, NEW s \in Seq(S), NEW t \in Seq(S), NEW all \in Seq(S),
           Len(t) >= Capacity \/ s = <<>>, EndOf(s \o t, all), Once(s \o t)
    PROVE  EndOf(t, all) /\ Once(t) /\ \A i \in 1..Len(t) : t[i] = (s \o t)[Len(s) + i]
<1>1. /\ Len(s) \in Nat /\ Len(t) \in Nat /\ Len(all) \in Nat
      /\ Len(s \o t) = Len(s) + Len(t)
      /\ s = <<>> => Len(s) = 0
  BY ConcatProperties, LenProperties, EmptySeq
<1>2. \A i \in 1..Len(t) : t[i] = (s \o t)[Len(s) + i] /\ Len(s) + i \in 1..Len(s \o t)
  <2> SUFFICES ASSUME NEW i \in 1..Len(t)
               PROVE  t[i] = (s \o t)[Len(s) + i] /\ Len(s) + i \in 1..Len(s \o t)
    OBVIOUS
  <2>1. Len(s) + i \in 1..(Len(s) + Len(t)) /\ ~(Len(s) + i <= Len(s)) /\ Len(s) + i - Len(s) = i
    BY <1>1
  <2>2. (s \o t)[Len(s) + i] = t[Len(s) + i - Len(s)]
    BY <2>1, ConcatProperties
  <2> QED
    BY <1>1, <2>1, <2>2
<1>3. EndOf(t, all)
  <2>1. Len(t) <= Len(all)
    BY <1>1 DEF EndOf
  <2>2. ASSUME NEW i \in 1..Len(t) PROVE t[i] = all[Len(all) - Len(t) + i]
    <3>1. t[i] = all[Len(all) - Len(s \o t) + (Len(s) + i)]
      BY <1>2 DEF EndOf
    <3>2. Len(all) - Len(s \o t) + (Len(s) + i) = Len(all) - Len(t) + i
      BY <1>1
    <3> QED
      BY <3>1, <3>2
  <2>3. Len(t) = Len(all) \/ Len(t) >= Capacity
    BY <1>1 DEF EndOf
  <2> QED
    BY <2>1, <2>2, <2>3 DEF EndOf
<1>4. Once(t)
  <2> SUFFICES ASSUME NEW i \in 1..Len(t), NEW j \in 1..Len(t), t[i] = t[j], t[i] # NoId
               PROVE  i = j
    BY DEF Once
  <2>1. Len(s) + i = Len(s) + j
    BY <1>2 DEF Once
  <2> QED
    BY <1>1, <2>1
<1> QED
  BY <1>2, <1>3, <1>4

(* What is written at the end is kept there.                               *)
LEMMA WrittenEnd ==
    ASSUME NEW S, NEW kept \in Seq(S), NEW all \in Seq(S), NEW e \in S,
           EndOf(kept, all), Once(kept), e = NoId \/ \A i \in 1..Len(kept) : kept[i] # e
    PROVE  EndOf(Append(kept, e), Append(all, e)) /\ Once(Append(kept, e))
<1> DEFINE k == Append(kept, e)
           a1 == Append(all, e)
<1>1. /\ Len(kept) \in Nat /\ Len(k) = Len(kept) + 1 /\ k[Len(kept) + 1] = e
      /\ \A i \in 1..Len(kept) : k[i] = kept[i]
  OBVIOUS
<1>2. /\ Len(all) \in Nat /\ Len(a1) = Len(all) + 1 /\ a1[Len(all) + 1] = e
      /\ \A i \in 1..Len(all) : a1[i] = all[i]
  OBVIOUS
<1> HIDE DEF k, a1
<1>3. ASSUME NEW i \in 1..Len(k) PROVE k[i] = a1[Len(a1) - Len(k) + i]
  <2>1. CASE i = Len(kept) + 1
    <3>1. Len(a1) - Len(k) + i = Len(all) + 1
      BY <1>1, <1>2, <2>1
    <3> QED
      BY <1>1, <1>2, <2>1, <3>1
  <2>2. CASE i <= Len(kept)
    <3>1. /\ i \in 1..Len(kept) /\ Len(a1) - Len(k) + i = Len(all) - Len(kept) + i
          /\ Len(all) - Len(kept) + i \in 1..Len(all)
      BY <1>1, <1>2, <2>2 DEF EndOf
    <3> QED
      BY <1>1, <1>2, <3>1 DEF EndOf
  <2> QED
    BY <1>1, <2>1, <2>2
<1>4. EndOf(k, a1)
  <2>1. Len(k) <= Len(a1) /\ (Len(k) = Len(a1) \/ Len(k) >= Capacity)
    BY <1>1, <1>2, SharedFilesAssumption DEF EndOf
  <2> QED
    BY <1>3, <2>1 DEF EndOf
<1>5. Once(k)
  <2> SUFFICES ASSUME NEW i \in 1..Len(k), NEW j \in 1..Len(k), k[i] = k[j], k[i] # NoId
               PROVE  i = j
    BY DEF Once
  <2>1. CASE i <= Len(kept) /\ j <= Len(kept)
    BY <1>1, <2>1 DEF Once
  <2>2. CASE i <= Len(kept) /\ j = Len(kept) + 1
    BY <1>1, <2>2
  <2>3. CASE i = Len(kept) + 1 /\ j <= Len(kept)
    BY <1>1, <2>3
  <2>4. CASE i = Len(kept) + 1 /\ j = Len(kept) + 1
    BY <2>4
  <2> QED
    BY <1>1, <2>1, <2>2, <2>3, <2>4
<1> QED
  BY <1>4, <1>5 DEF k, a1

(* The files hold sequences of events, and so do all of them together.     *)
LEMMA ContentsAreEvents ==
    ASSUME Log!TypeOK
    PROVE  /\ \A i \in 0..2 : Log!Contents(i) \in Seq(Log!Events)
           /\ Log!Retained \in Seq(Log!Events) /\ logWritten \in Seq(Log!Events)
<1>1. ASSUME NEW i \in 0..2 PROVE Log!Contents(i) \in Seq(Log!Events)
  <2>1. <<>> \in Seq(Log!Events)
    BY EmptySeq
  <2>2. logFile[i] \in Seq(Log!Events) \cup {Nobody}
    BY DEF Log!TypeOK
  <2> QED
    BY <2>1, <2>2 DEF Log!Contents
<1>2. Log!Contents(2) \o Log!Contents(1) \in Seq(Log!Events)
  BY <1>1, ConcatProperties
<1>3. Log!Retained \in Seq(Log!Events)
  BY <1>1, <1>2, ConcatProperties DEF Log!Retained
<1> QED
  BY <1>1, <1>3 DEF Log!TypeOK

(* What is contained has a place.                                          *)
LEMMA ContainedSomewhere ==
    ASSUME Log!TypeOK, NEW e
    PROVE  Log!Contains(e) <=> \E i \in 1..Len(Log!Retained) : Log!Retained[i] = e
<1>1. DOMAIN Log!Retained = 1..Len(Log!Retained)
  BY ContentsAreEvents, LenProperties
<1> QED
  BY <1>1 DEF Log!Contains

(* Only the process that appends changes the files: the others are not     *)
(* between a look and a write.                                             *)
LEMMA OthersWait ==
    ASSUME LogInv, NEW p \in Writers, logPc[p] \in Appending, NEW q \in Writers, q # p
    PROVE  logPc[q] \notin Appending
BY DEF LogInv, AppendInv

(* A process that waits holds nothing that the files could change.         *)
LEMMA WaitingIsFree ==
    ASSUME LogInv, NEW q \in Writers, logPc[q] \notin Appending,
           logPc'[q] = logPc[q], logEvent'[q] = logEvent[q]
    PROVE  AppendInv(q)'
<1>1. AppendInv(q)
  BY DEF LogInv
<1> QED
  BY <1>1 DEF AppendInv, Appending

(* A step that leaves the files alone.                                     *)
LEMMA FilesStay ==
    ASSUME UNCHANGED <<logFile, logWritten>>
    PROVE  /\ \A i : Log!Contents(i)' = Log!Contents(i)
           /\ Log!Retained' = Log!Retained
           /\ \A e : Log!Contains(e)' = Log!Contains(e)
           /\ EndOf(Log!Retained, logWritten) => EndOf(Log!Retained, logWritten)'
           /\ Once(Log!Retained) => Once(Log!Retained)'
<1>1. \A i : Log!Contents(i)' = Log!Contents(i)
  BY DEF Log!Contents
<1>2. Log!Retained' = Log!Retained
  BY <1>1 DEF Log!Retained
<1> QED
  BY <1>1, <1>2 DEF Log!Contains, EndOf, Once

(* The end of an append, or of a process.                                  *)
LEMMA ReturnKeepsLog ==
    ASSUME LogInv, NEW p \in Writers, logPc[p] # "idle", Log!Return(p, logPc[p]),
           UNCHANGED <<logFile, logWritten>>
    PROVE  LogInv'
<1>1. /\ logPc' = [logPc EXCEPT ![p] = "idle"] /\ logEvent' = [logEvent EXCEPT ![p] = Nobody]
      /\ logLock' = IF logLock = p THEN Nobody ELSE logLock
  BY DEF Log!Return, Log!Goto
<1>2. Log!TypeOK'
  BY <1>1, FilesStay DEF LogInv, Log!TypeOK
<1>3. ASSUME NEW q \in Writers PROVE AppendInv(q)'
  <2>1. CASE q = p
    <3>1. logPc'[q] = "idle"
      BY <1>1, <2>1 DEF LogInv, Log!TypeOK
    <3> QED
      BY <3>1 DEF AppendInv, Appending
  <2>2. CASE q # p
    <3>1. logPc'[q] = logPc[q] /\ logEvent'[q] = logEvent[q]
      BY <1>1, <2>2 DEF LogInv, Log!TypeOK
    <3>2. logLock = q => logLock' = q
      BY <1>1, <2>2
    <3>3. AppendInv(q)
      BY DEF LogInv
    <3> QED
      BY <3>1, <3>2, <3>3, FilesStay DEF AppendInv
  <2> QED
    BY <2>1, <2>2
<1> QED
  BY <1>2, <1>3, FilesStay DEF LogInv

(* The steps up to the look at the log leave it alone.                     *)
LEMMA LooksKeepLog ==
    ASSUME LogInv, NEW p \in Writers,
           (\E e \in Log!Events : Log!Begin(p, e)) \/ Log!Lock(p) \/ Log!Look(p)
    PROVE  LogInv'
<1>1. UNCHANGED <<logFile, logWritten>>
  BY DEF Log!Begin, Log!Lock, Log!Look
<1>2. PICK to \in {"wait", "look", "unlink", "write"} : logPc' = [logPc EXCEPT ![p] = to]
  BY DEF Log!Begin, Log!Lock, Log!Look, Log!Goto
<1>3. /\ \A q \in Writers : q # p => logPc'[q] = logPc[q] /\ logEvent'[q] = logEvent[q]
      /\ \A q \in Writers : q # p /\ logLock = q => logLock' = q
  BY <1>2, SharedFilesAssumption DEF LogInv, Log!TypeOK, Log!Begin, Log!Lock, Log!Look
<1>4. logPc[p] # "idle" => logEvent[p] \in Log!Events
  BY DEF LogInv, AppendInv
<1>5. Log!TypeOK'
  BY <1>1, <1>2, FilesStay DEF LogInv, Log!TypeOK, Log!Begin, Log!Lock, Log!Look
<1>6. AppendInv(p)'
  <2>1. ASSUME NEW e \in Log!Events, Log!Begin(p, e) PROVE AppendInv(p)'
    <3>1. logPc'[p] = "wait" /\ logEvent'[p] \in Log!Events
      BY <2>1 DEF LogInv, Log!TypeOK, Log!Begin, Log!Goto
    <3> QED
      BY <3>1, Zenon DEF AppendInv, Appending
  <2>2. CASE Log!Lock(p)
    <3>1. logPc'[p] = "look" /\ logLock' = p /\ logEvent' = logEvent /\ logPc[p] = "wait"
      BY <2>2 DEF LogInv, Log!TypeOK, Log!Lock, Log!Goto
    <3> QED
      BY <1>4, <3>1 DEF AppendInv, Appending
  <2>3. CASE Log!Look(p)
    <3>1. /\ logPc'[p] = IF Len(Log!Contents(0)) + 1 > Capacity THEN "unlink" ELSE "write"
          /\ logPc[p] = "look" /\ logLock' = logLock /\ logEvent' = logEvent
          /\ logEvent[p] = NoId \/ ~Log!Contains(logEvent[p])
      BY <2>3 DEF LogInv, Log!TypeOK, Log!Look, Log!Goto
    <3>2. logLock = p
      BY <3>1 DEF LogInv, AppendInv, Appending
    <3>3. Len(Log!Contents(0)) \in Nat
      BY ContentsAreEvents, LenProperties DEF LogInv
    <3> QED
      BY <1>1, <1>4, <3>1, <3>2, <3>3, FilesStay, SharedFilesAssumption DEF AppendInv, Appending
  <2> QED
    BY <2>1, <2>2, <2>3
<1>7. ASSUME NEW q \in Writers, q # p PROVE AppendInv(q)'
  <2>1. AppendInv(q)
    BY DEF LogInv
  <2> QED
    BY <1>1, <1>3, <1>7, <2>1, FilesStay DEF AppendInv
<1> QED
  BY <1>1, <1>5, <1>6, <1>7, FilesStay DEF LogInv

(* A step of the process that appends leaves the others where they are.    *)
LEMMA AppendsAlone ==
    ASSUME LogInv, NEW p \in Writers, logPc[p] \in Appending,
           \A q \in Writers : q # p => logPc'[q] = logPc[q] /\ logEvent'[q] = logEvent[q],
           Log!TypeOK', AppendInv(p)', EndOf(Log!Retained, logWritten)', Once(Log!Retained)'
    PROVE  LogInv'
<1>1. ASSUME NEW q \in Writers, q # p PROVE AppendInv(q)'
  <2>1. logPc[q] \notin Appending
    BY <1>1, OthersWait
  <2> QED
    BY <1>1, <2>1, WaitingIsFree
<1> QED
  BY <1>1 DEF LogInv

(* The files after a step of a rotation.                                   *)
LEMMA FilesTyped ==
    ASSUME Log!TypeOK, logFile' \in [0..2 -> Seq(Log!Events) \cup {Nobody}],
           NEW p \in Writers, NEW to \in {"shift", "rename", "write"},
           logPc' = [logPc EXCEPT ![p] = to], UNCHANGED <<logLock, logEvent, logWritten>>,
           \A i \in 0..2 : \E j \in 0..2 :
              Log!Contents(i)' = <<>> \/ Log!Contents(i)' = Log!Contents(j)
    PROVE  Log!TypeOK'
<1>1. ASSUME NEW i \in 0..2 PROVE Len(Log!Contents(i)') <= Capacity
  <2>1. Len(<<>>) = 0
    BY EmptySeq
  <2>2. \A j \in 0..2 : Len(Log!Contents(j)) <= Capacity
    BY DEF Log!TypeOK
  <2> QED
    BY <2>1, <2>2, SharedFilesAssumption
<1> QED
  BY <1>1 DEF Log!TypeOK

(* _rotate: the oldest file goes, which a full log can spare.              *)
LEMMA UnlinkKeepsLog ==
    ASSUME LogInv, NEW p \in Writers, Log!UnlinkOldest(p)
    PROVE  LogInv'
<1> DEFINE newest == Log!Contents(0) backup == Log!Contents(1) oldest == Log!Contents(2)
<1>1. /\ logPc[p] = "unlink" /\ logPc' = [logPc EXCEPT ![p] = "shift"]
      /\ logFile' = [logFile EXCEPT ![2] = Nobody]
      /\ UNCHANGED <<logLock, logEvent, logWritten>>
  BY DEF Log!UnlinkOldest, Log!Goto
<1>2. /\ logFile \in [0..2 -> Seq(Log!Events) \cup {Nobody}]
      /\ logPc'[p] = "shift"
      /\ \A q \in Writers : q # p => logPc'[q] = logPc[q]
  BY <1>1 DEF LogInv, Log!TypeOK
<1>3. /\ Log!Contents(2)' = <<>> /\ Log!Contents(1)' = backup /\ Log!Contents(0)' = newest
      /\ logFile' \in [0..2 -> Seq(Log!Events) \cup {Nobody}]
  BY <1>1, <1>2 DEF Log!Contents
<1>4. /\ newest \in Seq(Log!Events) /\ backup \in Seq(Log!Events) /\ oldest \in Seq(Log!Events)
      /\ logWritten \in Seq(Log!Events) /\ backup \o newest \in Seq(Log!Events)
  BY ContentsAreEvents, ConcatProperties DEF LogInv
<1>5. Log!Retained = oldest \o (backup \o newest) /\ Log!Retained' = backup \o newest
  <2>1. Log!Retained = (oldest \o backup) \o newest
    BY DEF Log!Retained
  <2>2. Log!Retained' = (<<>> \o backup) \o newest
    BY <1>3 DEF Log!Retained
  <2> HIDE DEF newest, backup, oldest
  <2>3. (oldest \o backup) \o newest = oldest \o (backup \o newest)
    BY <1>4, ConcatAssociative
  <2>4. <<>> \o backup = backup
    BY <1>4, ConcatEmptySeq
  <2> QED
    BY <2>1, <2>2, <2>3, <2>4, Zenon
<1>6. /\ Len(newest) >= Capacity /\ logLock = p /\ logEvent[p] \in Log!Events
      /\ logEvent[p] = NoId \/ ~Log!Contains(logEvent[p])
  BY <1>1 DEF LogInv, AppendInv, Appending
<1>7. Len(backup \o newest) >= Capacity
  <2> HIDE DEF newest, backup
  <2>1. Len(backup \o newest) = Len(backup) + Len(newest) /\ Len(backup) \in Nat /\ Len(newest) \in Nat
    BY <1>4, ConcatProperties, LenProperties
  <2> QED
    BY <1>6, <2>1, SharedFilesAssumption
<1>8. /\ EndOf(backup \o newest, logWritten) /\ Once(backup \o newest)
      /\ \A i \in 1..Len(backup \o newest) : (backup \o newest)[i] = Log!Retained[Len(oldest) + i]
  <2>1. EndOf(Log!Retained, logWritten) /\ Once(Log!Retained)
    BY DEF LogInv
  <2> HIDE DEF newest, backup, oldest
  <2> QED
    BY <1>4, <1>5, <1>7, <2>1, DroppedFront
<1>9. EndOf(Log!Retained, logWritten)' /\ Once(Log!Retained)'
  BY <1>1, <1>5, <1>8 DEF EndOf, Once
<1>10. Log!TypeOK'
  <2>1. \A i \in 0..2 : \E j \in 0..2 :
           Log!Contents(i)' = <<>> \/ Log!Contents(i)' = Log!Contents(j)
    <3>1. \A i \in 0..2 : i = 0 \/ i = 1 \/ i = 2
      OBVIOUS
    <3> QED
      BY <1>3, <3>1
  <2> QED
    BY <1>1, <1>3, <2>1, FilesTyped DEF LogInv
<1>11. logEvent[p] = NoId \/ ~Log!Contains(logEvent[p])'
  <2>1. ASSUME NEW i \in 1..Len(backup \o newest), (backup \o newest)[i] = logEvent[p], logEvent[p] # NoId
        PROVE  FALSE
    <3>1. Log!Retained[Len(oldest) + i] = logEvent[p] /\ Len(oldest) + i \in 1..Len(Log!Retained)
      <4> HIDE DEF newest, backup, oldest
      <4>1. Len(oldest \o (backup \o newest)) = Len(oldest) + Len(backup \o newest) /\ Len(oldest) \in Nat
            /\ Len(backup \o newest) \in Nat
        BY <1>4, ConcatProperties, LenProperties
      <4> QED
        BY <1>5, <1>8, <2>1, <4>1
    <3> QED
      BY <1>6, <2>1, <3>1, ContainedSomewhere DEF LogInv
  <2>2. DOMAIN (backup \o newest) = 1..Len(backup \o newest)
    BY <1>4, LenProperties
  <2> HIDE DEF newest, backup
  <2> QED
    BY <1>1, <1>5, <2>1, <2>2 DEF Log!Contains
<1>12. AppendInv(p)'
  BY <1>1, <1>2, <1>3, <1>6, <1>11 DEF AppendInv, Appending
<1> QED
  BY <1>1, <1>2, <1>9, <1>10, <1>12, AppendsAlone DEF Appending

(* The steps that rename keep all the files hold together.                 *)
LEMMA RenamesKeepLog ==
    ASSUME LogInv, NEW p \in Writers, logPc[p] \in {"shift", "rename"},
           NEW to \in {"rename", "write"}, logPc' = [logPc EXCEPT ![p] = to],
           UNCHANGED <<logLock, logEvent, logWritten>>,
           logFile' \in [0..2 -> Seq(Log!Events) \cup {Nobody}],
           Log!Retained' = Log!Retained,
           \A i \in 0..2 : \E j \in 0..2 :
              Log!Contents(i)' = <<>> \/ Log!Contents(i)' = Log!Contents(j),
           to = "rename" => Log!Contents(1)' = <<>> /\ Len(Log!Contents(0)') >= Capacity,
           to = "write" => Log!Contents(0)' = <<>>
    PROVE  LogInv'
<1>1. Log!TypeOK'
  BY FilesTyped DEF LogInv
<1>2. EndOf(Log!Retained, logWritten)' /\ Once(Log!Retained)'
  BY DEF LogInv, EndOf, Once
<1>3. logPc'[p] = to /\ \A q \in Writers : q # p => logPc'[q] = logPc[q]
  BY DEF LogInv, Log!TypeOK
<1>4. /\ logLock = p /\ logEvent[p] \in Log!Events
      /\ logEvent[p] = NoId \/ ~Log!Contains(logEvent[p])
  BY DEF LogInv, AppendInv, Appending
<1>5. Log!Contains(logEvent[p])' <=> Log!Contains(logEvent[p])
  BY DEF Log!Contains
<1>6. Len(<<>>) = 0
  BY EmptySeq
<1>7. AppendInv(p)'
  BY <1>3, <1>4, <1>5, <1>6, SharedFilesAssumption DEF AppendInv, Appending
<1> QED
  BY <1>1, <1>2, <1>3, <1>7, AppendsAlone DEF Appending

(* _rotate: the first backup becomes the second.                           *)
LEMMA ShiftKeepsLog ==
    ASSUME LogInv, NEW p \in Writers, Log!ShiftBackup(p)
    PROVE  LogInv'
<1> DEFINE newest == Log!Contents(0) backup == Log!Contents(1) oldest == Log!Contents(2)
<1>1. /\ logPc[p] = "shift" /\ logPc' = [logPc EXCEPT ![p] = "rename"]
      /\ logFile' = IF logFile[1] = Nobody THEN logFile
                    ELSE [logFile EXCEPT ![2] = logFile[1], ![1] = Nobody]
      /\ UNCHANGED <<logLock, logEvent, logWritten>>
  BY DEF Log!ShiftBackup, Log!Goto
<1>2. logFile \in [0..2 -> Seq(Log!Events) \cup {Nobody}]
  BY DEF LogInv, Log!TypeOK
<1>3. oldest = <<>> /\ Len(newest) >= Capacity
  BY <1>1 DEF LogInv, AppendInv
<1>4. /\ Log!Contents(2)' = backup /\ Log!Contents(1)' = <<>> /\ Log!Contents(0)' = newest
      /\ logFile' \in [0..2 -> Seq(Log!Events) \cup {Nobody}]
  <2>1. CASE logFile[1] = Nobody
    BY <1>1, <1>2, <1>3, <2>1 DEF Log!Contents
  <2>2. CASE logFile[1] # Nobody
    BY <1>1, <1>2, <2>2 DEF Log!Contents
  <2> QED
    BY <2>1, <2>2
<1>5. Log!Retained' = Log!Retained
  <2>1. backup \in Seq(Log!Events)
    BY ContentsAreEvents DEF LogInv
  <2>2. Log!Retained = (<<>> \o backup) \o newest /\ Log!Retained' = (backup \o <<>>) \o newest
    BY <1>3, <1>4 DEF Log!Retained
  <2> HIDE DEF newest, backup, oldest
  <2> QED
    BY <2>1, <2>2, ConcatEmptySeq
<1>6. \A i \in 0..2 : \E j \in 0..2 :
         Log!Contents(i)' = <<>> \/ Log!Contents(i)' = Log!Contents(j)
  <2>1. \A i \in 0..2 : i = 0 \/ i = 1 \/ i = 2
    OBVIOUS
  <2> QED
    BY <1>4, <2>1
<1> QED
  BY <1>1, <1>3, <1>4, <1>5, <1>6, RenamesKeepLog

(* _rotate: the log becomes the first backup.                              *)
LEMMA RenameKeepsLog ==
    ASSUME LogInv, NEW p \in Writers, Log!RenameLog(p)
    PROVE  LogInv'
<1> DEFINE newest == Log!Contents(0) backup == Log!Contents(1) oldest == Log!Contents(2)
<1>1. /\ logPc[p] = "rename" /\ logPc' = [logPc EXCEPT ![p] = "write"]
      /\ logFile' = [logFile EXCEPT ![1] = logFile[0], ![0] = Nobody]
      /\ UNCHANGED <<logLock, logEvent, logWritten>>
  BY DEF Log!RenameLog, Log!Goto
<1>2. logFile \in [0..2 -> Seq(Log!Events) \cup {Nobody}]
  BY DEF LogInv, Log!TypeOK
<1>3. backup = <<>>
  BY <1>1 DEF LogInv, AppendInv
<1>4. /\ Log!Contents(2)' = oldest /\ Log!Contents(1)' = newest /\ Log!Contents(0)' = <<>>
      /\ logFile' \in [0..2 -> Seq(Log!Events) \cup {Nobody}]
  BY <1>1, <1>2 DEF Log!Contents
<1>5. Log!Retained' = Log!Retained
  <2>1. oldest \in Seq(Log!Events) /\ newest \in Seq(Log!Events) /\ oldest \o newest \in Seq(Log!Events)
    BY ContentsAreEvents, ConcatProperties DEF LogInv
  <2>2. Log!Retained = (oldest \o <<>>) \o newest /\ Log!Retained' = (oldest \o newest) \o <<>>
    BY <1>3, <1>4 DEF Log!Retained
  <2> HIDE DEF newest, backup, oldest
  <2> QED
    BY <2>1, <2>2, ConcatEmptySeq
<1>6. \A i \in 0..2 : \E j \in 0..2 :
         Log!Contents(i)' = <<>> \/ Log!Contents(i)' = Log!Contents(j)
  <2>1. \A i \in 0..2 : i = 0 \/ i = 1 \/ i = 2
    OBVIOUS
  <2> QED
    BY <1>4, <2>1
<1> QED
  BY <1>1, <1>4, <1>5, <1>6, RenamesKeepLog

(* _atomic_log_write: the log with the new record.                         *)
LEMMA WriteKeepsLog ==
    ASSUME LogInv, NEW p \in Writers, Log!Write(p)
    PROVE  LogInv'
<1> DEFINE newest == Log!Contents(0) backup == Log!Contents(1) oldest == Log!Contents(2)
           e == logEvent[p]
<1>1. /\ logPc[p] = "write" /\ logPc' = [logPc EXCEPT ![p] = "idle"]
      /\ logLock' = (IF logLock = p THEN Nobody ELSE logLock)
      /\ logEvent' = [logEvent EXCEPT ![p] = Nobody]
      /\ logFile' = [logFile EXCEPT ![0] = Append(newest, e)] /\ logWritten' = Append(logWritten, e)
  BY DEF Log!Write, Log!Return, Log!Goto
<1>2. e \in Log!Events /\ Len(newest) < Capacity /\ (e = NoId \/ ~Log!Contains(e))
  BY <1>1 DEF LogInv, AppendInv, Appending
<1>3. /\ newest \in Seq(Log!Events) /\ backup \in Seq(Log!Events) /\ oldest \in Seq(Log!Events)
      /\ oldest \o backup \in Seq(Log!Events)
      /\ Log!Retained \in Seq(Log!Events) /\ logWritten \in Seq(Log!Events)
  BY ContentsAreEvents, ConcatProperties DEF LogInv
<1>4. Append(newest, e) \in Seq(Log!Events) /\ Len(Append(newest, e)) = Len(newest) + 1 /\ Len(newest) \in Nat
      /\ Append(newest, e) # Nobody /\ Append(logWritten, e) \in Seq(Log!Events)
  <2> HIDE DEF newest, e
  <2>1. Append(newest, e) \in Seq(Log!Events) /\ Len(Append(newest, e)) = Len(newest) + 1 /\ Len(newest) \in Nat
        /\ Append(logWritten, e) \in Seq(Log!Events)
    BY <1>2, <1>3
  <2>2. Nobody \notin Seq(Log!Events)
    BY SharedFilesAssumption DEF Log!Events
  <2> QED
    BY <2>1, <2>2
<1>5. logFile \in [0..2 -> Seq(Log!Events) \cup {Nobody}]
  BY DEF LogInv, Log!TypeOK
<1>6. /\ Log!Contents(2)' = oldest /\ Log!Contents(1)' = backup /\ Log!Contents(0)' = Append(newest, e)
      /\ logFile' \in [0..2 -> Seq(Log!Events) \cup {Nobody}]
  BY <1>1, <1>4, <1>5 DEF Log!Contents
<1>7. Log!Retained' = Append(Log!Retained, e)
  <2>1. Log!Retained = (oldest \o backup) \o newest /\ Log!Retained' = (oldest \o backup) \o Append(newest, e)
    BY <1>6 DEF Log!Retained
  <2> HIDE DEF newest, backup, oldest, e
  <2>2. ASSUME NEW S, NEW s \in Seq(S), NEW t \in Seq(S), NEW x \in S
        PROVE  s \o Append(t, x) = Append(s \o t, x)
    <3>1. \A u \in Seq(S) : Append(u, x) = u \o <<x>>
      BY AppendIsConcat
    <3>2. <<x>> \in Seq(S) /\ s \o t \in Seq(S)
      BY ConcatProperties
    <3> QED
      BY <3>1, <3>2, ConcatAssociative
  <2> QED
    BY <1>2, <1>3, <2>1, <2>2
<1>8. EndOf(Log!Retained, logWritten)' /\ Once(Log!Retained)'
  <2>1. e = NoId \/ \A i \in 1..Len(Log!Retained) : Log!Retained[i] # e
    BY <1>2, ContainedSomewhere DEF LogInv
  <2>2. EndOf(Log!Retained, logWritten) /\ Once(Log!Retained)
    BY DEF LogInv
  <2> HIDE DEF e
  <2>3. EndOf(Append(Log!Retained, e), Append(logWritten, e)) /\ Once(Append(Log!Retained, e))
    BY <1>2, <1>3, <2>1, <2>2, WrittenEnd
  <2> QED
    BY <1>1, <1>7, <2>3 DEF EndOf, Once
<1>9. Log!TypeOK'
  <2>1. ASSUME NEW i \in 0..2 PROVE Len(Log!Contents(i)') <= Capacity
    <3>1. i = 0 \/ i = 1 \/ i = 2
      OBVIOUS
    <3>2. Len(backup) <= Capacity /\ Len(oldest) <= Capacity
      BY DEF LogInv, Log!TypeOK
    <3> QED
      BY <1>2, <1>4, <1>6, <3>1, <3>2, SharedFilesAssumption
  <2> HIDE DEF e, newest
  <2> QED
    BY <1>1, <1>4, <1>6, <2>1 DEF LogInv, Log!TypeOK
<1>10. logPc'[p] = "idle"
       /\ \A q \in Writers : q # p => logPc'[q] = logPc[q] /\ logEvent'[q] = logEvent[q]
  BY <1>1 DEF LogInv, Log!TypeOK
<1>11. AppendInv(p)'
  BY <1>10 DEF AppendInv, Appending
<1> QED
  BY <1>1, <1>8, <1>9, <1>10, <1>11, AppendsAlone DEF Appending

(* Every step of every process that appends.                               *)
LEMMA LogInduction == LogInv /\ [Log!Next]_(Log!vars) => LogInv'
<1> SUFFICES ASSUME LogInv, [Log!Next]_(Log!vars) PROVE LogInv'
  OBVIOUS
<1>1. CASE Log!Next
  <2> SUFFICES ASSUME NEW p \in Writers,
                      \/ \E e \in Log!Events : Log!Begin(p, e)
                      \/ Log!Lock(p) \/ Log!AlreadyThere(p) \/ Log!Look(p)
                      \/ Log!UnlinkOldest(p) \/ Log!ShiftBackup(p) \/ Log!RenameLog(p)
                      \/ Log!Write(p) \/ Log!Kill(p)
               PROVE  LogInv'
    BY <1>1 DEF Log!Next
  <2>1. CASE Log!AlreadyThere(p) \/ Log!Kill(p)
    <3>1. logPc[p] # "idle" /\ Log!Return(p, logPc[p]) /\ UNCHANGED <<logFile, logWritten>>
      BY <2>1 DEF Log!AlreadyThere, Log!Kill, Log!Return, Log!Goto
    <3> QED
      BY <3>1, ReturnKeepsLog
  <2> QED
    BY <2>1, LooksKeepLog, UnlinkKeepsLog, ShiftKeepsLog, RenameKeepsLog, WriteKeepsLog
<1>2. CASE UNCHANGED Log!vars
  <2>1. UNCHANGED <<logFile, logLock, logPc, logEvent, logWritten>>
    BY <1>2 DEF Log!vars
  <2>2. \A q \in Writers : AppendInv(q)'
    BY <2>1, FilesStay DEF LogInv, AppendInv
  <2> QED
    BY <2>1, <2>2, FilesStay DEF LogInv, Log!TypeOK
<1> QED
  BY <1>1, <1>2

(* The end of a sequence, as a subsequence.                                *)
LEMMA EndIsSubSeq ==
    ASSUME NEW S, NEW kept \in Seq(S), NEW all \in Seq(S), EndOf(kept, all)
    PROVE  kept = SubSeq(all, Len(all) - Len(kept) + 1, Len(all))
<1> DEFINE first == Len(all) - Len(kept) + 1
           end == SubSeq(all, first, Len(all))
<1>1. Len(kept) \in Nat /\ Len(all) \in Nat /\ first \in 1..(Len(all) + 1)
  BY LenProperties DEF EndOf
<1>2. \A i \in first..Len(all) : all[i] \in S
  BY <1>1
<1>3. /\ end \in Seq(S)
      /\ Len(end) = IF first <= Len(all) THEN Len(all) - first + 1 ELSE 0
      /\ \A i \in 1..(Len(all) - first + 1) : end[i] = all[first + i - 1]
  <2> HIDE DEF first
  <2> QED
    BY <1>1, <1>2, SubSeqProperties
<1>4. Len(end) = Len(kept)
  BY <1>1, <1>3
<1>5. \A i \in 1..Len(kept) : kept[i] = end[i]
  <2> SUFFICES ASSUME NEW i \in 1..Len(kept) PROVE kept[i] = end[i]
    OBVIOUS
  <2>1. i \in 1..(Len(all) - first + 1) /\ first + i - 1 = Len(all) - Len(kept) + i
    BY <1>1
  <2> HIDE DEF end
  <2>2. end[i] = all[Len(all) - Len(kept) + i]
    BY <1>3, <2>1
  <2> QED
    BY <2>2 DEF EndOf
<1> HIDE DEF first, end
<1>6. kept = end
  BY <1>3, <1>4, <1>5, SeqEqual
<1> QED
  BY <1>6 DEF first, end

(* However appends and rotations of any number of processes interleave and *)
(* wherever one is killed: the log and its backups hold the last records   *)
(* written, in order and at least a full file of them, an event with an    *)
(* identity once (append_diagnostic_once, _rotate).                        *)
THEOREM LogKeepsTheEnd == PartsSpec => []LogIsTheEnd
<1>1. PartsInit => LogInv
  <2> SUFFICES ASSUME PartsInit PROVE LogInv
    OBVIOUS
  <2>1. /\ logFile = [i \in 0..2 |-> Nobody] /\ logLock = Nobody
        /\ logPc = [q \in Writers |-> "idle"] /\ logEvent = [q \in Writers |-> Nobody]
        /\ logWritten = <<>>
    BY DEF PartsInit, Log!Init
  <2>2. \A i \in 0..2 : Log!Contents(i) = <<>>
    BY <2>1 DEF Log!Contents
  <2>3. <<>> \in Seq(Log!Events) /\ Len(<<>>) = 0
    BY EmptySeq
  <2>4. Log!Retained = <<>>
    <3>1. Log!Retained = (<<>> \o <<>>) \o <<>>
      BY <2>2 DEF Log!Retained
    <3> QED
      BY <2>3, <3>1, ConcatEmptySeq
  <2>5. Log!TypeOK
    BY <2>1, <2>2, <2>3, SharedFilesAssumption DEF Log!TypeOK
  <2>6. \A q \in Writers : AppendInv(q)
    BY <2>1 DEF AppendInv, Appending
  <2>7. EndOf(Log!Retained, logWritten) /\ Once(Log!Retained)
    BY <2>1, <2>3, <2>4 DEF EndOf, Once
  <2> QED
    BY <2>5, <2>6, <2>7 DEF LogInv
<1>2. [PartsNext]_partsVars => [Log!Next]_(Log!vars)
  BY DEF PartsNext, partsVars, logVars, Log!vars
<1>3. LogInv => LogIsTheEnd
  <2> SUFFICES ASSUME LogInv PROVE Log!LogIsTheEnd
    BY DEF LogIsTheEnd
  <2>1. EndOf(Log!Retained, logWritten) /\ Once(Log!Retained) /\ Log!TypeOK
    BY DEF LogInv
  <2>2. Log!Retained \in Seq(Log!Events) /\ logWritten \in Seq(Log!Events)
    BY <2>1, ContentsAreEvents
  <2>3. /\ Log!Retained = SubSeq(logWritten, Len(logWritten) - Len(Log!Retained) + 1,
                                 Len(logWritten))
        /\ DOMAIN Log!Retained = 1..Len(Log!Retained)
        /\ Len(Log!Retained) \in Nat /\ Len(logWritten) \in Nat
    BY <2>1, <2>2, EndIsSubSeq, LenProperties
  <2>4. Log!RetainedIsTheEnd
    BY <2>1, <2>3, SharedFilesAssumption DEF Log!RetainedIsTheEnd, EndOf
  <2>5. Log!RecordedOnce
    BY <2>1, <2>3 DEF Log!RecordedOnce, Once
  <2> QED
    BY <2>1, <2>4, <2>5 DEF Log!LogIsTheEnd
<1> QED
  BY <1>1, <1>2, <1>3, LogInduction, PTL DEF PartsSpec
=============================================================================
