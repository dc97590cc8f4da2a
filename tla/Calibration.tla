---------------------------- MODULE Calibration ----------------------------
(***************************************************************************)
(* The recommendation of thresholds that an installation keeps             *)
(* (scripts/calibration_state.py, calibration_cli.py) and the thresholds   *)
(* its user selects (threshold_settings.py, mcp_threshold_settings.py):    *)
(* processes that start a thread and calibrate, answer a recommendation,   *)
(* show the settings or change them, each looking at two files that the    *)
(* others replace.                                                         *)
(***************************************************************************)
EXTENDS Naturals

CONSTANTS
    Process,    \* the processes
    Nobody,     \* no process, no file, no document, no version
    MaxVersion, \* bound on the plugin versions installed, one after the other
    Default,    \* DEFAULT_WARNING_MS and DEFAULT_CRITICAL_MS
    Custom,     \* pairs a user may ask for
    Outcome     \* what scan_history may return: a pair, or Nobody

Version == 1..MaxVersion
Statuses == {"pending", "accepted", "rejected", "insufficient"}
\* validate_thresholds
Valid(pair) == 1 <= pair[1] /\ pair[1] < pair[2]

\* calibration.json; "insufficient" stands for "unavailable" too.
Snapshot == [version : Version, status : Statuses, pair : Outcome]

\* threshold-settings.json
Selection == [mode : {"default", "recommended", "custom"},
              pair : {pair \in {Default} \cup Custom \cup Outcome : pair # Nobody}]

VARIABLES
    installed,  \* the version of the plugin's manifest
    calibration,\* calibration.json
    settings,   \* threshold-settings.json
    lock,       \* who holds calibration-operation
    pc,         \* per process, where its operation is
    version,    \* per process, the version it works for
    document,   \* per process, what it read or is about to save
    consented   \* whether the user ever selected thresholds or accepted them

vars == <<installed, calibration, settings, lock, pc, version, document, consented>>

TypeOK ==
    /\ installed \in Version
    /\ calibration \in Snapshot \cup {Nobody}
    /\ settings \in Selection \cup {Nobody}
    /\ lock \in Process \cup {Nobody}
    /\ pc \in [Process -> {"idle", "calibrate", "scan", "save",
                           "decide", "decide_locked", "record", "select"}]
    /\ version \in [Process -> Version \cup {Nobody}]
    /\ document \in [Process -> Snapshot \cup Selection \cup {Nobody}]
    /\ consented \in BOOLEAN

Init ==
    /\ installed = 1 /\ calibration = Nobody /\ settings = Nobody /\ lock = Nobody
    /\ pc = [p \in Process |-> "idle"]
    /\ version = [p \in Process |-> Nobody]
    /\ document = [p \in Process |-> Nobody]
    /\ consented = FALSE

Goto(p, from, to) == pc[p] = from /\ pc' = [pc EXCEPT ![p] = to]
Hold(p, d) == document' = [document EXCEPT ![p] = d]
Files == <<calibration, settings>>
User == <<installed, consented>>

\* Leaving the operation: its lock, if it holds it, and what it read.
Return(p, from) ==
    /\ Goto(p, from, "idle")
    /\ lock' = IF lock = p THEN Nobody ELSE lock
    /\ version' = [version EXCEPT ![p] = Nobody]
    /\ Hold(p, Nobody)

----------------------------------------------------------------------------
\* A newer version of the plugin replaces the installed one.
Upgrade ==
    /\ installed < MaxVersion /\ installed' = installed + 1
    /\ UNCHANGED <<Files, lock, pc, version, document, consented>>

\* Fault: the operation's lock is not waited for.
LockIgnored(p, from, to) ==
    /\ Goto(p, from, to) /\ lock' = p
    /\ UNCHANGED <<Files, User, version, document>>

\* ExclusiveWriteLock of calibration-operation; its wait may time out.
Lock(p, from, to) ==
    \/ /\ Goto(p, from, to) /\ lock = Nobody /\ lock' = p
       /\ UNCHANGED <<Files, User, version, document>>
    \/ Return(p, from) /\ lock # Nobody /\ UNCHANGED <<Files, User>>

\* load_or_calibrate, by a process that runs from the cached plugin of its
\* own version, which stays that version whatever is installed meanwhile.
BeginCalibrate(p) ==
    /\ Goto(p, "idle", "calibrate")
    /\ version' = [version EXCEPT ![p] = installed]
    /\ UNCHANGED <<Files, User, lock, document>>

LockCalibrate(p) == Lock(p, "calibrate", "scan")

Stored(v) == calibration # Nobody /\ calibration.version = v

Reuse(p) ==
    Stored(version[p]) /\ Return(p, "scan") /\ UNCHANGED <<Files, User>>

Scan(p) ==
    /\ Goto(p, "scan", "save") /\ ~Stored(version[p])
    /\ \E pair \in Outcome :
          Hold(p, [version |-> version[p], pair |-> pair,
                   status |-> IF pair = Nobody THEN "insufficient" ELSE "pending"])
    /\ UNCHANGED <<Files, User, lock, version>>

SaveScan(p) ==
    /\ calibration' = document[p] /\ Return(p, "save")
    /\ UNCHANGED <<settings, User>>

\* record_decision, for the version the user names.
BeginDecide(p, v) ==
    /\ Goto(p, "idle", "decide")
    /\ version' = [version EXCEPT ![p] = v]
    /\ UNCHANGED <<Files, User, lock, document>>

LockDecide(p) == Lock(p, "decide", "decide_locked")

IsPending(v) == Stored(v) /\ calibration.status = "pending"

RefuseDecision(p) ==
    ~IsPending(version[p]) /\ Return(p, "decide_locked") /\ UNCHANGED <<Files, User>>

Decide(p) ==
    /\ IsPending(version[p]) /\ Goto(p, "decide_locked", "record")
    /\ \E answer \in {"accepted", "rejected"} :
          /\ Hold(p, [calibration EXCEPT !.status = answer])
          /\ consented' = (consented \/ answer = "accepted")
    /\ UNCHANGED <<Files, installed, lock, version>>

Record(p) ==
    /\ calibration' = document[p] /\ Return(p, "record")
    /\ UNCHANGED <<settings, User>>

----------------------------------------------------------------------------
(* The settings, without a lock but each file's own.                       *)

\* load: the selection, else an accepted recommendation, else the defaults.
Effective ==
    CASE settings # Nobody -> settings.pair
      [] settings = Nobody /\ calibration # Nobody /\ calibration.status = "accepted" ->
            calibration.pair
      [] OTHER -> Default

\* set_custom after _settings_integer, set_default, set_recommended: the
\* recommendation is copied whatever its status.
Select(p) ==
    /\ Goto(p, "idle", "select")
    /\ consented' = TRUE
    /\ \/ \E pair \in {pair \in Custom : Valid(pair)} : Hold(p, [mode |-> "custom", pair |-> pair])
       \/ Hold(p, [mode |-> "default", pair |-> Default])
       \/ /\ calibration # Nobody /\ calibration.pair # Nobody /\ Valid(calibration.pair)
          /\ Hold(p, [mode |-> "recommended", pair |-> calibration.pair])
    /\ UNCHANGED <<Files, installed, lock, version>>

SaveSelection(p) ==
    /\ settings' = document[p] /\ Return(p, "select")
    /\ UNCHANGED <<calibration, User>>

\* The process is killed, or the operation fails to read or to write.
Kill(p) ==
    /\ pc[p] # "idle" /\ Return(p, pc[p]) /\ UNCHANGED <<Files, User>>

Next ==
    \/ Upgrade
    \/ \E p \in Process :
          \/ BeginCalibrate(p) \/ LockCalibrate(p) \/ Reuse(p) \/ Scan(p)
          \/ SaveScan(p)
          \/ \E v \in Version : BeginDecide(p, v)
          \/ LockDecide(p) \/ RefuseDecision(p) \/ Decide(p) \/ Record(p)
          \/ Select(p) \/ SaveSelection(p) \/ Kill(p)

Spec == Init /\ [][Next]_vars

----------------------------------------------------------------------------
\* What is stored for one version is a scan's result, answered at most once
\* and then final, whichever processes calibrate or answer at the same time
\* (load_or_calibrate and record_decision look under the lock).
OneDecision ==
    [][calibration # Nobody /\ calibration' # calibration
          /\ calibration'.version = calibration.version
        => /\ calibration.status = "pending"
           /\ \E answer \in {"accepted", "rejected"} :
                 calibration' = [calibration EXCEPT !.status = answer]]_vars

\* Thresholds other than the defaults are in effect only after the user
\* selected or accepted some: no scan, upgrade or interrupted operation puts
\* a pending or rejected recommendation in effect (_accepted_recommendation).
OnlyConsentChangesThresholds == Effective # Default => consented

(* Thresholds change by one answer of the user to one version's scan       *)
(* (record_decision, _accepted_recommendation).                            *)
AnsweredOnce == OneDecision /\ [](TypeOK /\ OnlyConsentChangesThresholds)
=============================================================================
