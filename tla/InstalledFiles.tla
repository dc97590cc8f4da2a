--------------------------- MODULE InstalledFiles ---------------------------
(***************************************************************************)
(* What an installation of the plugin consists of, as the installer and    *)
(* the uninstaller find it: the plugin's tables in config.toml, three      *)
(* directories known by their identity (device and inode), and three       *)
(* signed records under .cmw-installer-state.                              *)
(*                                                                         *)
(* Installer and uninstaller run under one lock (installer_lock.py), so at *)
(* most one call is under way; the process may end between any two of its  *)
(* steps, which releases the lock.  Codex and the user edit other settings *)
(* of config.toml at any time.  One write of config.toml is one step here: *)
(* ConfigPublication looks inside it.  A signed record is replaced         *)
(* atomically (protected_installer_state.py) and is read back or absent.   *)
(* One version of the plugin is considered, without legacy tables.         *)
(***************************************************************************)
EXTENDS Naturals, Sequences, FiniteSets

CONSTANTS
  MaxCalls,    \* bound on calls of the installer and the uninstaller
  MaxFailures, \* bound on failing steps
  MaxCrashes,  \* bound on killed processes
  MaxEdits     \* bound on edits by others

ASSUME InstalledFilesAssumption == {MaxCalls, MaxFailures, MaxCrashes, MaxEdits} \subseteq Nat

VARIABLES
  config,     \* the plugin's tables, and how often others edited the rest
  place,      \* identity of the directory under each original name
  attic,      \* identity of the directory under each quarantine name
  under,      \* the runtime inside the quarantined data directory
  pending,    \* record uninstall-pending-v1.json
  receipt,    \* record install-receipt-v1.json
  completion, \* record uninstall-complete-v1.json
  pc,         \* how far the running call is
  job,        \* what the running call, or the last one, holds
  spent,      \* identities given out, calls, failures, crashes, unread receipts
  contested   \* history: somebody else wrote while an uninstallation was unfinished

disk == <<place, attic, under>>
records == <<pending, receipt, completion>>
vars == <<config, disk, records, pc, job, spent, contested>>

Nothing == 0
Roots == {"cache", "runtime", "data"}
Empty == [r \in Roots |-> Nothing]
Configs == [plugin : {"absent", "off", "on"}, edits : 0 .. MaxEdits]
Clean == [plugin |-> "absent", edits |-> 0]

NoPending ==
  [phase |-> "none", before |-> Clean, after |-> Clean, roots |-> Empty,
   order |-> <<>>, purge |-> FALSE, data |-> Nothing]
NoReceipt == [cache |-> Nothing, runtime |-> Nothing]
NoCompletion == [present |-> FALSE, data |-> Nothing]

(* snapshot and target: config.toml as read and as it is to become; todo:  *)
(* the roots left to move, restore or delete; undo, broken: the rollback   *)
(* of the call's own plan, and whether a root resisted; created, owned,    *)
(* restorable, conflict: the installer's transaction and its recovery; the *)
(* rest says how the call began and ended.                                 *)
NoJob ==
  [kind |-> "none", purge |-> FALSE, snapshot |-> Clean, target |-> Clean,
   todo |-> <<>>, created |-> Empty, owned |-> Clean, restorable |-> FALSE,
   conflict |-> FALSE, undo |-> FALSE, broken |-> FALSE, retried |-> FALSE, stray |-> FALSE,
   failed |-> FALSE, result |-> "none"]

(* Is the plugin enabled for Codex? *)
Enabled(c) == c.plugin = "on"

(* load_install_receipt authenticates the receipt against the live         *)
(* directories.                                                            *)
ReceiptValid ==
  /\ receipt # NoReceipt
  /\ place["cache"] = receipt.cache
  /\ place["runtime"] = receipt.runtime

(* Something is installed without a receipt, and the record of an          *)
(* uninstallation is still there: what a reinstallation leaves that did    *)
(* not come to its receipt.                                                *)
Stray ==
  /\ receipt = NoReceipt /\ completion.present
  /\ place["cache"] # Nothing \/ config.plugin # "absent"

-------------------------------------------------------------------------------
Init ==
  /\ \/ /\ config = Clean
        /\ place = Empty
        /\ receipt = NoReceipt
     \/ /\ config = [Clean EXCEPT !.plugin = "on"]
        /\ place = [cache |-> 1, runtime |-> 2, data |-> 3]
        /\ receipt = [cache |-> 1, runtime |-> 2]
  /\ attic = Empty /\ under = Nothing
  /\ pending = NoPending /\ completion = NoCompletion
  /\ pc = "idle" /\ job = NoJob
  /\ spent = [ids |-> 3, calls |-> 0, failures |-> 0, crashes |-> 0, unread |-> 0]
  /\ contested = FALSE

Go(step) == pc' = step

(* The call ends and releases the lock. *)
End(result) ==
  /\ pc' = "idle"
  /\ job' = [NoJob EXCEPT !.kind = job.kind, !.result = result, !.retried = job.retried,
                          !.stray = job.stray, !.failed = job.failed,
                          !.broken = job.broken]

(* A step of the running call fails: OSError, or an InstallPluginError for *)
(* a reason the model does not hold.                                       *)
FailOnce ==
  /\ spent.failures < MaxFailures
  /\ spent' = [spent EXCEPT !.failures = @ + 1]

Called ==
  /\ pc = "idle"
  /\ spent.calls < MaxCalls
  /\ spent' = [spent EXCEPT !.calls = @ + 1]

(* Another writer changes a setting that is not the plugin's. *)
Edit ==
  /\ config.edits < MaxEdits
  /\ config' = [config EXCEPT !.edits = @ + 1]
  /\ contested' = (contested \/ pc # "idle" \/ pending # NoPending)
  /\ UNCHANGED <<disk, records, pc, job, spent>>

Crash ==
  /\ pc # "idle"
  /\ spent.crashes < MaxCrashes
  /\ spent' = [spent EXCEPT !.crashes = @ + 1]
  /\ pc' = "idle"
  /\ job' = NoJob
  /\ UNCHANGED <<config, disk, records, contested>>
=============================================================================
