--------------------------- MODULE UninstallPlugin ---------------------------
(***************************************************************************)
(* The uninstaller (uninstall_plugin.py, uninstall_pending.py,             *)
(* uninstall_paths.py, uninstall_completion.py): plan what the receipt     *)
(* proves to be owned, write the plan down, move every directory to a      *)
(* quarantine name, take the plugin's tables out of config.toml, commit,   *)
(* delete, and record the completion.  A call that finds a plan of an      *)
(* earlier one rolls it back or finishes it first.                         *)
(***************************************************************************)
EXTENDS InstalledFiles

(* Fault: a root that was deleted already is not recognised. *)
RootStateForgetful(plan, r) ==
  CASE place[r] = plan.roots[r] /\ attic[r] = Nothing       -> "untouched"
    [] place[r] = Nothing /\ attic[r] = plan.roots[r]       -> "moved"
    [] place[r] \notin {Nothing, plan.roots[r]} /\ attic[r] = plan.roots[r]
                                                            -> "moved_with_newcomer"
    [] OTHER                                                -> "invalid"

(* What lies under the two names of a root of a plan. *)
RootState(plan, r) ==
  CASE place[r] = plan.roots[r] /\ attic[r] = Nothing       -> "untouched"
    [] place[r] = Nothing /\ attic[r] = plan.roots[r]       -> "moved"
    [] place[r] \notin {Nothing, plan.roots[r]} /\ attic[r] = plan.roots[r]
                                                            -> "moved_with_newcomer"
    [] place[r] # plan.roots[r] /\ attic[r] = Nothing       -> "cleaned"
    [] OTHER                                                -> "invalid"

(* Does config.toml show that the plan's edit was made?  The digests decide *)
(* and, when the edit changes nothing, the phase.                           *)
CurrentPhase(plan) ==
  CASE plan.before = plan.after /\ config = plan.after ->
         IF plan.phase = "committed" THEN "after" ELSE "before"
    [] plan.before # plan.after /\ config = plan.before ->
         IF plan.phase = "prepared" THEN "before" ELSE "conflict"
    [] plan.before # plan.after /\ config = plan.after -> "after"
    [] OTHER -> "conflict"

Backwards(s) == [i \in DOMAIN s |-> s[Len(s) + 1 - i]]

(* Moving the data directory moves the runtime inside it. *)
MoveAway(r) ==
  /\ attic' = [attic EXCEPT ![r] = place[r]]
  /\ IF r = "data"
     THEN /\ under' = place["runtime"]
          /\ place' = [place EXCEPT !["data"] = Nothing, !["runtime"] = Nothing]
     ELSE /\ place' = [place EXCEPT ![r] = Nothing]
          /\ UNCHANGED under

MoveBack(r) ==
  /\ attic' = [attic EXCEPT ![r] = Nothing]
  /\ IF r = "data"
     THEN /\ under' = Nothing
          /\ place' = [place EXCEPT !["data"] = attic["data"], !["runtime"] = under]
     ELSE /\ place' = [place EXCEPT ![r] = attic[r]]
          /\ UNCHANGED under

(* Fault: delete what is under the original name. *)
DeleteByName(r) ==
  /\ attic' = [attic EXCEPT ![r] = Nothing]
  /\ under' = IF r = "data" THEN Nothing ELSE under
  /\ place' = [place EXCEPT ![r] = Nothing]

DeleteMoved(r) ==
  /\ attic' = [attic EXCEPT ![r] = Nothing]
  /\ under' = IF r = "data" THEN Nothing ELSE under
  /\ UNCHANGED place

-------------------------------------------------------------------------------
(* Taking the lock, reading config.toml and an earlier plan. *)

Begin(purge) ==
  [NoJob EXCEPT !.kind = "uninstall", !.purge = purge, !.snapshot = config,
                !.retried = pending # NoPending, !.stray = Stray]

UninstallBegins(purge) ==
  /\ Called
  /\ LET phase == IF pending = NoPending THEN "none" ELSE CurrentPhase(pending) IN
       CASE phase = "none"   -> Go("plan") /\ job' = Begin(purge)
         [] phase = "before" -> /\ Go("rollback")
                                /\ job' = [Begin(purge) EXCEPT !.todo = Backwards(pending.order)]
         [] phase = "after"  -> /\ Go("cleanup")
                                /\ job' = [Begin(purge) EXCEPT !.todo = pending.order]
         [] OTHER            -> /\ Go("idle")
                                /\ job' = [Begin(purge) EXCEPT !.result = "failed"]
  /\ contested' = (contested /\ pending # NoPending)
  /\ UNCHANGED <<config, disk, records>>

OwnedWith(purge) ==
  IF ~purge THEN <<"runtime">> ELSE IF place["data"] # Nothing THEN <<"data">> ELSE <<>>

(* What config.toml holds of the plugin, and the file without it.          *)
HasTargets(c) == c.plugin # "absent"
WithoutPlugin(c) == [c EXCEPT !.plugin = "absent"]

(* A valid receipt makes the plan: the cache and the runtime, or with purge *)
(* the cache and the data directory the runtime lies in.                    *)
PlanFromReceipt ==
  /\ pc = "plan"
  /\ ReceiptValid
  /\ LET order == <<"cache">> \o OwnedWith(job.purge)
     IN pending' = [phase |-> "prepared", before |-> job.snapshot,
                    after |-> WithoutPlugin(job.snapshot),
                    roots |-> [r \in Roots |-> IF \E i \in DOMAIN order : order[i] = r
                                               THEN place[r] ELSE Nothing],
                    order |-> order, purge |-> job.purge, data |-> place["data"]]
        /\ job' = [job EXCEPT !.todo = order, !.target = WithoutPlugin(job.snapshot)]
  /\ Go("quarantine")
  /\ UNCHANGED <<config, disk, receipt, completion, spent, contested>>

(* No receipt, but the record of an uninstallation that kept the data: a   *)
(* purge now deletes the data directory the record names.                  *)
PurgeProven ==
  /\ completion.present /\ job.purge
  /\ place["data"] \in {completion.data} \ {Nothing}

PlanFromCompletion ==
  /\ pc = "plan"
  /\ receipt = NoReceipt
  /\ PurgeProven
  /\ pending' = [phase |-> "prepared", before |-> job.snapshot, after |-> job.snapshot,
                 roots |-> [Empty EXCEPT !["data"] = place["data"]],
                 order |-> <<"data">>, purge |-> TRUE, data |-> completion.data]
  /\ job' = [job EXCEPT !.todo = <<"data">>, !.target = job.snapshot]
  /\ Go("quarantine")
  /\ UNCHANGED <<config, disk, receipt, completion, spent, contested>>

(* There is nothing to do, as far as the records tell. *)
NothingToRemove ==
  \/ completion.present /\ (job.purge => place["data"] = Nothing)
  \/ ~completion.present /\ ~job.purge /\ place["cache"] = Nothing /\ ~HasTargets(job.snapshot)

PlanIsEmpty ==
  /\ pc = "plan"
  /\ receipt = NoReceipt
  /\ NothingToRemove
  /\ End("nothing")
  /\ UNCHANGED <<config, disk, records, spent, contested>>

(* The receipt does not fit the directories, or nothing proves ownership. *)
PlanRefused ==
  /\ pc = "plan"
  /\ ~ReceiptValid
  /\ \/ receipt # NoReceipt
     \/ ~NothingToRemove /\ ~PurgeProven
  /\ End("failed")
  /\ UNCHANGED <<config, disk, records, spent, contested>>

-------------------------------------------------------------------------------
(* Carrying the plan out. *)

(* One rename that never replaces, bound to the planned identity. *)
Quarantine ==
  /\ pc = "quarantine"
  /\ job.todo # <<>>
  /\ LET r == Head(job.todo) IN
       /\ place[r] = pending.roots[r] /\ attic[r] = Nothing
       /\ MoveAway(r)
  /\ job' = [job EXCEPT !.todo = Tail(@)]
  /\ UNCHANGED <<config, records, pc, spent, contested>>

(* write_config_bytes succeeds only on the snapshot; else nothing changes. *)
RemoveFromConfig ==
  /\ pc = "quarantine"
  /\ job.todo = <<>>
  /\ \/ /\ job.target = job.snapshot \/ config = job.snapshot
        /\ config' = IF job.target = job.snapshot THEN config ELSE job.target
        /\ Go("commit")
     \/ /\ job.target # job.snapshot /\ config # job.snapshot
        /\ Go("handling")
        /\ UNCHANGED config
  /\ UNCHANGED <<disk, records, job, spent, contested>>

Commit ==
  /\ pc = "commit"
  /\ pending' = [pending EXCEPT !.phase = "committed"]
  /\ Go("cleanup")
  /\ job' = [job EXCEPT !.todo = pending.order]
  /\ UNCHANGED <<config, disk, receipt, completion, spent, contested>>

(* The except clause: undo only when config.toml is as it was. *)
HandleFailure ==
  /\ pc = "handling"
  /\ IF CurrentPhase(pending) = "before"
     THEN Go("rollback") /\ job' = [job EXCEPT !.todo = Backwards(pending.order), !.undo = TRUE]
     ELSE End("failed")
  /\ UNCHANGED <<config, disk, records, spent, contested>>

(* Every root is tried; a newcomer under an original name is left alone.   *)
RollBackRoot ==
  /\ pc = "rollback"
  /\ job.todo # <<>>
  /\ LET r == Head(job.todo) state == RootState(pending, r) IN
       IF state = "moved" THEN MoveBack(r) ELSE UNCHANGED disk
  /\ job' = [job EXCEPT !.todo = Tail(@),
                        !.broken = @ \/ RootState(pending, Head(job.todo)) \notin {"moved", "untouched"}]
  /\ UNCHANGED <<config, records, pc, spent, contested>>

(* The plan of a failed call is dropped and its error raised; the plan of   *)
(* an earlier call is dropped and the present call starts over.             *)
RollbackEnds ==
  /\ pc = "rollback"
  /\ job.todo = <<>>
  /\ IF job.broken THEN End("failed") /\ UNCHANGED pending
     ELSE /\ pending' = NoPending
          /\ IF job.undo THEN End("failed")
             ELSE Go("plan") /\ job' = [job EXCEPT !.snapshot = config]
  /\ UNCHANGED <<config, disk, receipt, completion, spent, contested>>

(* Delete what is under the quarantine name, and only the planned identity. *)
CleanUpRoot ==
  /\ pc = "cleanup"
  /\ job.todo # <<>>
  /\ LET r == Head(job.todo) state == RootState(pending, r) IN
       IF state \in {"moved", "moved_with_newcomer", "cleaned"}
       THEN /\ IF state = "cleaned" THEN UNCHANGED disk ELSE DeleteMoved(r)
            /\ job' = [job EXCEPT !.todo = Tail(@)]
            /\ UNCHANGED pc
       ELSE End("failed") /\ UNCHANGED disk
  /\ UNCHANGED <<config, records, spent, contested>>

MarkComplete ==
  /\ pc = "cleanup"
  /\ job.todo = <<>>
  /\ completion' = [present |-> TRUE, data |-> pending.data]
  /\ Go("receipt")
  /\ UNCHANGED <<config, disk, pending, receipt, job, spent, contested>>

RemoveReceipt ==
  /\ pc = "receipt"
  /\ receipt' = NoReceipt
  /\ Go("pending")
  /\ UNCHANGED <<config, disk, pending, completion, job, spent, contested>>

RemovePending ==
  /\ pc = "pending"
  /\ pending' = NoPending
  /\ End("removed")
  /\ UNCHANGED <<config, disk, receipt, completion, spent, contested>>

-------------------------------------------------------------------------------
(* A failing step is handled while the plan is being carried out, is        *)
(* remembered while it is undone, and ends the call everywhere else.        *)
UninstallStepFails ==
  /\ job.kind = "uninstall"
  /\ FailOnce
  /\ CASE pc \in {"quarantine", "commit"} -> Go("handling") /\ job' = [job EXCEPT !.failed = TRUE]
       [] pc = "rollback" /\ job.todo # <<>> ->
            job' = [job EXCEPT !.todo = Tail(@), !.broken = TRUE, !.failed = TRUE] /\ UNCHANGED pc
       [] OTHER ->
            /\ pc \in {"plan", "rollback", "cleanup", "receipt", "pending", "handling"}
            /\ pc' = "idle"
            /\ job' = [NoJob EXCEPT !.kind = "uninstall", !.result = "failed",
                                    !.retried = job.retried, !.failed = TRUE]
  /\ UNCHANGED <<config, disk, records, contested>>

UninstallNext ==
  \/ \E purge \in BOOLEAN : UninstallBegins(purge)
  \/ PlanFromReceipt \/ PlanFromCompletion \/ PlanIsEmpty \/ PlanRefused
  \/ Quarantine \/ RemoveFromConfig \/ Commit \/ HandleFailure
  \/ RollBackRoot \/ RollbackEnds
  \/ CleanUpRoot \/ MarkComplete \/ RemoveReceipt \/ RemovePending
  \/ UninstallStepFails
=============================================================================
