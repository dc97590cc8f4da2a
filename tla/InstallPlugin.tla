---------------------------- MODULE InstallPlugin ----------------------------
(***************************************************************************)
(* The installer's transaction (installer_transaction.py) and its recovery *)
(* (installer_recovery.py).  It prepares the data directory and the        *)
(* runtime, disables the plugin, publishes the cache, writes the disabled  *)
(* and then the enabled tables, and commits by writing the receipt.  Until *)
(* then a failure disables the plugin, removes what the call created and   *)
(* puts config.toml back if nobody else changed it.                        *)
(***************************************************************************)
EXTENDS InstalledFiles

CONSTANT MaxIds  \* bound on directories ever created

\* what Init finds installed has three of them
ASSUME InstallPluginAssumption == MaxIds \in Nat /\ MaxIds >= 3

Fresh == spent.ids + 1

(* A directory of the call's own, unless there is one already. *)
Provide(r) ==
  IF place[r] # Nothing THEN UNCHANGED <<place, job, spent>>
  ELSE /\ spent.ids < MaxIds
       /\ place' = [place EXCEPT ![r] = Fresh]
       /\ job' = [job EXCEPT !.created[r] = Fresh]
       /\ spent' = [spent EXCEPT !.ids = @ + 1]

(* The prior state is qualified: an enabled plugin with its cache can be   *)
(* restored later.                                                         *)
InstallBegins ==
  /\ Called
  /\ job' = [NoJob EXCEPT !.kind = "install", !.snapshot = config, !.owned = config,
                          !.restorable = Enabled(config) /\ place["cache"] # Nothing]
  /\ Go("data")
  /\ contested' = (contested \/ pending # NoPending)
  /\ UNCHANGED <<config, disk, records>>

PrepareDataRoot ==
  /\ pc = "data"
  /\ Provide("data")
  /\ Go("runtime")
  /\ UNCHANGED <<config, attic, under, records, contested>>

PrepareRuntime ==
  /\ pc = "runtime"
  /\ Provide("runtime")
  /\ Go(IF job.restorable THEN "confirm" ELSE "disable")
  /\ UNCHANGED <<config, attic, under, records, contested>>

Recovering(conflict) ==
  /\ Go("recover")
  /\ job' = [job EXCEPT !.conflict = conflict]

(* A reinstallation over an enabled plugin only renews the receipt, and    *)
(* only if config.toml is still the one the call began with.               *)
ConfirmInstalled ==
  /\ pc = "confirm"
  /\ IF config = job.snapshot THEN Go("commit_receipt") /\ UNCHANGED job
     ELSE Recovering(TRUE)
  /\ UNCHANGED <<config, disk, records, spent, contested>>

\* The plugin's tables, replaced or added; the rest of the file is kept.
RenderConfig(c, plugin) == [c EXCEPT !.plugin = plugin]

Disabled(c) == [c EXCEPT !.plugin = IF @ = "on" THEN "off" ELSE @]

(* An enabled plugin without a cache is disabled on what config.toml is    *)
(* now; a disabled one must be as the call found it.                       *)
DisablePlugin ==
  /\ pc = "disable"
  /\ IF ~Enabled(job.snapshot) /\ config # job.snapshot
     THEN Recovering(TRUE) /\ UNCHANGED config
     ELSE /\ config' = Disabled(config)
          /\ job' = [job EXCEPT !.owned = config']
          /\ Go("fence")
  /\ UNCHANGED <<disk, records, spent, contested>>

(* Nobody wrote config.toml since; publish the cache. *)
PublishCache ==
  /\ pc = "fence"
  /\ IF config # job.owned
     THEN Recovering(TRUE) /\ UNCHANGED <<place, spent>>
     ELSE Provide("cache") /\ Go("write_off")
  /\ UNCHANGED <<config, attic, under, records, contested>>

(* The disabled tables go on top of whatever config.toml holds by now.     *)
PublishDisabled ==
  /\ pc = "write_off"
  /\ config' = RenderConfig(config, "off")
  /\ job' = [job EXCEPT !.owned = config']
  /\ Go("write_on")
  /\ UNCHANGED <<disk, records, spent, contested>>

(* Fault: the receipt is written before the plugin is enabled. *)
ReceiptFirst ==
  /\ pc = "write_on"
  /\ receipt' = [cache |-> place["cache"], runtime |-> place["runtime"]]
  /\ config' = RenderConfig(config, "on")
  /\ job' = [job EXCEPT !.owned = config']
  /\ Go("verify")
  /\ UNCHANGED <<disk, pending, completion, spent, contested>>

(* The two writes that enable the plugin and drop the legacy tables.       *)
PublishEnabled ==
  /\ pc = "write_on"
  /\ config' = RenderConfig(config, "on")
  /\ job' = [job EXCEPT !.owned = config']
  /\ Go("verify")
  /\ UNCHANGED <<disk, records, spent, contested>>

(* A later write by another is noticed, unless it came before the tables    *)
(* were read back or after they were compared.                             *)
VerifyEnabled ==
  /\ pc = "verify"
  /\ \/ Go("commit_receipt") /\ job' = [job EXCEPT !.owned = config]
     \/ config # job.owned /\ Recovering(TRUE)
  /\ UNCHANGED <<config, disk, records, spent, contested>>

(* The receipt binds what is there now; with it the installation counts.   *)
(* An equal one is not written again.                                      *)
PublishReceipt ==
  /\ pc = "commit_receipt"
  /\ receipt' = [cache |-> place["cache"], runtime |-> place["runtime"]]
  /\ Go(IF receipt = receipt' THEN "clear" ELSE "read_back")
  /\ UNCHANGED <<config, disk, pending, completion, job, spent, contested>>

(* The receipt just written is loaded again.  When that fails the call is  *)
(* recovered like any other, and the receipt stays.                        *)
ReadReceiptBack ==
  /\ pc = "read_back"
  /\ \/ Go("clear") /\ UNCHANGED <<job, spent>>
     \/ /\ spent.failures < MaxFailures
        /\ spent' = [spent EXCEPT !.failures = @ + 1, !.unread = @ + 1]
        /\ Go("recover")
        /\ job' = [job EXCEPT !.failed = TRUE]
  /\ UNCHANGED <<config, disk, records, contested>>

(* What a former uninstallation recorded is cleared; failing to is only a  *)
(* warning.                                                                *)
ClearCompletion ==
  /\ pc = "clear"
  /\ \/ completion' = NoCompletion /\ UNCHANGED spent
     \/ FailOnce /\ UNCHANGED completion
  /\ End("installed")
  /\ UNCHANGED <<config, disk, pending, receipt, contested>>

-------------------------------------------------------------------------------
(* Recovery. *)

InstallStepFails ==
  /\ pc \in {"data", "runtime", "confirm", "disable", "fence", "write_off", "write_on",
             "verify", "commit_receipt"}
  /\ FailOnce
  /\ Go("recover")
  /\ job' = [job EXCEPT !.failed = TRUE]
  /\ UNCHANGED <<config, disk, records, contested>>

(* Somebody else's write is noticed. *)
RecoverObserves ==
  /\ pc = "recover"
  /\ job' = [job EXCEPT !.conflict = @ \/ config # job.owned, !.target = config]
  /\ Go("redisable")
  /\ UNCHANGED <<config, disk, records, spent, contested>>

(* The plugin is disabled before anything is removed; config.toml is read   *)
(* once more for that, and a write since the observation is not noticed.    *)
RecoverDisables ==
  /\ pc = "redisable"
  /\ IF Enabled(job.target)
     THEN config' = Disabled(config) /\ job' = [job EXCEPT !.target = config']
     ELSE UNCHANGED <<config, job>>
  /\ Go("remove")
  /\ UNCHANGED <<disk, records, spent, contested>>

(* Each directory the call created is removed by its identity; one that    *)
(* cannot be removed is a conflict, and the data directory goes only when  *)
(* nothing but its marker and key is left in it.                           *)
RemoveCreated ==
  /\ pc = "remove"
  /\ \E kept \in SUBSET {r \in Roots : job.created[r] # Nothing} :
       /\ IF kept = {} THEN UNCHANGED spent ELSE FailOnce
       /\ LET stays(r) ==
                \/ job.created[r] = Nothing
                \/ r \in kept
                \/ r = "data" /\ place["runtime"] # Nothing
                   /\ (job.created["runtime"] = Nothing \/ "runtime" \in kept)
          IN /\ place' = [r \in Roots |-> IF stays(r) THEN place[r] ELSE Nothing]
             /\ job' = [job EXCEPT !.conflict =
                          @ \/ \E r \in Roots : job.created[r] # Nothing /\ stays(r)]
  /\ Go("restore")
  /\ UNCHANGED <<config, attic, under, records, contested>>

PriorSafe == ~Enabled(job.snapshot) \/ (job.restorable /\ place["cache"] # Nothing)

RestoreConfig ==
  /\ pc = "restore"
  /\ config' = IF ~job.conflict /\ PriorSafe /\ config = job.target THEN job.snapshot ELSE config
  /\ End("failed")
  /\ UNCHANGED <<disk, records, spent, contested>>

(* A failing step of the recovery ends the call as well. *)
RecoveryFails ==
  /\ pc \in {"recover", "redisable", "restore"}
  /\ FailOnce
  /\ pc' = "idle"
  /\ job' = [NoJob EXCEPT !.kind = "install", !.result = "failed", !.broken = TRUE]
  /\ UNCHANGED <<config, disk, records, contested>>

InstallNext ==
  \/ InstallBegins \/ PrepareDataRoot \/ PrepareRuntime \/ ConfirmInstalled
  \/ DisablePlugin \/ PublishCache \/ PublishDisabled \/ PublishEnabled
  \/ VerifyEnabled \/ PublishReceipt \/ ReadReceiptBack \/ ClearCompletion
  \/ InstallStepFails \/ RecoverObserves \/ RecoverDisables \/ RemoveCreated
  \/ RestoreConfig \/ RecoveryFails
=============================================================================
