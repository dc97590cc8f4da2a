--------------------------- MODULE PluginLifecycle ---------------------------
(***************************************************************************)
(* Installer and uninstaller over the same Codex home: any order of calls, *)
(* each of which may fail at a step, die at a step, or meet an edit of     *)
(* config.toml by somebody else.                                           *)
(***************************************************************************)
EXTENDS UninstallPlugin, InstallPlugin

Next == UninstallNext \/ InstallNext \/ Edit \/ Crash

Spec == Init /\ [][Next]_vars

-------------------------------------------------------------------------------
Ids == 0 .. MaxIds
InstallSteps ==
  {"data", "runtime", "confirm", "disable", "fence", "write_off", "write_on", "verify",
   "commit_receipt", "read_back", "clear", "recover", "redisable",
   "remove", "restore"}
UninstallSteps ==
  {"plan", "quarantine", "commit", "handling", "rollback", "cleanup", "receipt", "pending"}

(* Types, and which call a step belongs to; the runtime is nowhere but in  *)
(* the data directory, so it is never there without it                     *)
(* (installer_mcp_runtime.py:136, uninstall_paths.py:71).                  *)
TypeOK ==
  /\ config \in Configs
  /\ place \in [Roots -> Ids] /\ attic \in [Roots -> Ids] /\ under \in Ids
  /\ receipt \in [cache : Ids, runtime : Ids]
  /\ completion \in [present : BOOLEAN, data : Ids]
  /\ pending.phase \in {"none", "prepared", "committed"}
  /\ pc = "idle" \/ (job.kind = "install" /\ pc \in InstallSteps)
                 \/ (job.kind = "uninstall" /\ pc \in UninstallSteps)
  /\ place["runtime"] # Nothing => place["data"] # Nothing
  /\ under # Nothing => attic["data"] # Nothing

(* Whatever lies under a quarantine name is what the signed plan says lies *)
(* there, so that a later call knows what it is, whenever the process dies *)
(* (the plan is written before the first rename and removed last,          *)
(* uninstall_plugin.py:185-208).                                           *)
QuarantineHasAPlan == \A r \in Roots : attic[r] \in {Nothing, pending.roots[r]}

(* Between calls, with no uninstallation unfinished, a receipt is the       *)
(* receipt of what is installed: neither a failed nor a killed call leaves  *)
(* one that the next call has to refuse (install_receipt.py:106-129).  The  *)
(* exception is an installation that could not read back the receipt it had *)
(* just written: its recovery takes the directories away, not the receipt.  *)
ReceiptMatches ==
  pc = "idle" /\ pending = NoPending /\ receipt # NoReceipt /\ spent.unread = 0
    => ReceiptValid

(* The plugin is not left enabled without its cache: by no call at all while *)
(* no uninstallation is unfinished, and beside an unfinished one by no       *)
(* installation that ran to its end or whose recovery did                    *)
(* (installer_recovery.py:71-96).                                            *)
EnabledIsBacked ==
  /\ pc = "idle" /\ Enabled(config)
  /\ pending = NoPending \/ (job.kind = "install" /\ ~job.broken)
  => place["cache"] # Nothing

Present == ({place[r] : r \in Roots} \cup {attic[r] : r \in Roots} \cup {under}) \ {Nothing}

(* A directory disappears only if the signed plan of an uninstallation      *)
(* names it or the data directory it is in, or if the call that created it  *)
(* takes it back: what a later installation put under an original name is   *)
(* never deleted with what was there before                                 *)
(* (uninstall_pending.py:183-191, installer_recovery.py:168-195).           *)
OnlyPlannedRemoved ==
  [][\A i \in Present \ Present' :
       \/ \E r \in Roots : i = pending.roots[r] \/ (i = under /\ pending.roots["data"] # Nothing)
       \/ \E r \in Roots : i = job.created[r]]_vars

(* The data directory disappears only by a plan made with purge_data, or    *)
(* when the call that created it takes it back (README.md:132-137), also if *)
(* it is a later call, asked for something else, that finishes the plan.    *)
DataKeptUnlessPurged ==
  [][\A i \in {place["data"], attic["data"]} \ (Present' \cup {Nothing}) :
       pending.purge \/ i = job.created["data"]]_vars

(* Calling the uninstaller again after it died or failed completes the job, *)
(* from whatever step: the call is not refused if no step of its own fails  *)
(* and nobody wrote config.toml or installed in between                     *)
(* (tests/test_uninstall_crash_recovery.py).                                *)
RetryCompletes ==
  pc = "idle" /\ job.kind = "uninstall" /\ job.retried /\ job.result = "failed"
    => job.failed \/ contested

(* An installation that reports success has left the plugin enabled and a   *)
(* receipt of the very directories that are there, whatever else wrote      *)
(* config.toml and whatever record an earlier call had left                 *)
(* (installer_transaction.py, verify and commit).                           *)
SuccessMeansInstalled ==
  pc = "idle" /\ job.kind = "install" /\ job.result = "installed"
    => Enabled(config) /\ ReceiptValid

Removed == config.plugin = "absent" /\ place["cache"] = Nothing

Reported == pc = "idle" /\ job.kind = "uninstall" /\ job.result \in {"removed", "nothing"}

NothingUnfinished == receipt = NoReceipt /\ pending = NoPending /\ attic = Empty

(* When the uninstaller reports success no receipt, no plan and nothing set *)
(* aside is left, and there is no cache and no plugin table, unless it ran  *)
(* beside an unfinished reinstallation.  The record of the completion, the  *)
(* data directory without a purge and a runtime that no receipt names stay. *)
SuccessMeansRemoved ==
  Reported => NothingUnfinished /\ (Removed \/ job.stray \/ contested)

(* Between calls the records, config.toml and the directories agree on what*)
(* is installed, after successful, failed and killed calls (install,       *)
(* recover_install).                                                       *)
InstalledStateAgrees ==
  TypeOK /\ ReceiptMatches /\ EnabledIsBacked /\ SuccessMeansInstalled

(* An uninstallation can be finished from wherever it stopped: what is     *)
(* aside is in the plan, the retry is not refused, and a success leaves no *)
(* plugin table, cache, receipt, plan or anything set aside (uninstall,    *)
(* _resume).                                                               *)
UninstallationFinishes == QuarantineHasAPlan /\ RetryCompletes /\ SuccessMeansRemoved

(* No call, retry or recovery deletes what it was not asked to: directories*)
(* only by a plan or by who created them, data only by a purge             *)
(* (delete_quarantine, remove_created).                                    *)
OnlyAskedForIsDeleted == OnlyPlannedRemoved /\ DataKeptUnlessPurged
=============================================================================
