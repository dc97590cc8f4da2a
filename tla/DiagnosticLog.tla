--------------------------- MODULE DiagnosticLog ---------------------------
(***************************************************************************)
(* The diagnostic log that watchers, managers and setup append to          *)
(* (scripts/monitor_diagnostics.py; diagnostics.py is the same code with   *)
(* other event codes): a file of bounded size and two older ones, shared   *)
(* by processes under one lock.  An event with an identity is written      *)
(* once, which is how a restarted watcher knows what it already announced. *)
(***************************************************************************)
EXTENDS Naturals, Sequences

CONSTANTS
    Process,    \* processes that append
    Nobody,     \* no process, no file, no event
    EventId,    \* identities of events
    NoId,       \* an event without one
    Capacity,   \* MAX_LOG_BYTES, in records
    MaxWrites   \* bound on records written

Events == EventId \cup {NoId}

VARIABLES
    file,       \* diagnostic.jsonl and its two backups, 0 the newest
    lock,       \* who holds its lock
    pc,         \* per process, where its append is
    event,      \* per process, the event it appends
    written     \* every event written, in order

vars == <<file, lock, pc, event, written>>

Contents(i) == IF file[i] = Nobody THEN <<>> ELSE file[i]
Retained == Contents(2) \o Contents(1) \o Contents(0)

TypeOK ==
    /\ file \in [0..2 -> Seq(Events) \cup {Nobody}]
    /\ \A i \in 0..2 : Len(Contents(i)) <= Capacity
    /\ lock \in Process \cup {Nobody}
    /\ pc \in [Process -> {"idle", "wait", "look", "unlink", "shift", "rename", "write"}]
    /\ event \in [Process -> Events \cup {Nobody}]
    /\ written \in Seq(Events)

Init ==
    /\ file = [i \in 0..2 |-> Nobody] /\ lock = Nobody
    /\ pc = [p \in Process |-> "idle"]
    /\ event = [p \in Process |-> Nobody]
    /\ written = <<>>

Goto(p, from, to) == pc[p] = from /\ pc' = [pc EXCEPT ![p] = to]

Return(p, from) ==
    /\ Goto(p, from, "idle")
    /\ lock' = IF lock = p THEN Nobody ELSE lock
    /\ event' = [event EXCEPT ![p] = Nobody]

Begin(p, e) ==
    /\ Goto(p, "idle", "wait") /\ event' = [event EXCEPT ![p] = e]
    /\ UNCHANGED <<file, lock, written>>

Lock(p) ==
    /\ Goto(p, "wait", "look") /\ lock = Nobody /\ lock' = p
    /\ UNCHANGED <<file, event, written>>

Contains(id) == \E i \in DOMAIN Retained : Retained[i] = id

\* Written before: append_diagnostic_once returns False.
AlreadyThere(p) ==
    /\ event[p] # NoId /\ Contains(event[p]) /\ Return(p, "look")
    /\ UNCHANGED <<file, written>>

Look(p) ==
    /\ event[p] = NoId \/ ~Contains(event[p])
    /\ Goto(p, "look", IF Len(Contents(0)) + 1 > Capacity THEN "unlink" ELSE "write")
    /\ UNCHANGED <<file, lock, event, written>>

\* _rotate, a file at a time: the oldest goes, the others move up.
UnlinkOldest(p) ==
    /\ Goto(p, "unlink", "shift") /\ file' = [file EXCEPT ![2] = Nobody]
    /\ UNCHANGED <<lock, event, written>>

ShiftBackup(p) ==
    /\ Goto(p, "shift", "rename")
    /\ file' = IF file[1] = Nobody THEN file
               ELSE [file EXCEPT ![2] = file[1], ![1] = Nobody]
    /\ UNCHANGED <<lock, event, written>>

\* Fault: the log is copied to the first backup and goes on growing.
CopyLog(p) ==
    /\ Goto(p, "rename", "write")
    /\ file' = [file EXCEPT ![1] = file[0]]
    /\ UNCHANGED <<lock, event, written>>

RenameLog(p) ==
    /\ Goto(p, "rename", "write")
    /\ file' = [file EXCEPT ![1] = file[0], ![0] = Nobody]
    /\ UNCHANGED <<lock, event, written>>

\* _atomic_log_write replaces the log with itself and the new record.
Write(p) ==
    /\ Len(written) < MaxWrites
    /\ file' = [file EXCEPT ![0] = Append(Contents(0), event[p])]
    /\ written' = Append(written, event[p])
    /\ Return(p, "write")

\* The process is killed, or one of its system calls fails.
Kill(p) ==
    /\ pc[p] # "idle" /\ Return(p, pc[p]) /\ UNCHANGED <<file, written>>

Next ==
    \E p \in Process :
        \/ \E e \in Events : Begin(p, e)
        \/ Lock(p) \/ AlreadyThere(p) \/ Look(p)
        \/ UnlinkOldest(p) \/ ShiftBackup(p) \/ RenameLog(p) \/ Write(p) \/ Kill(p)

Spec == Init /\ [][Next]_vars

----------------------------------------------------------------------------
\* What the three files hold is the end of what was written, in order and
\* without a hole, never less than a full file of it, wherever a process
\* died in a rotation (_rotate, _atomic_log_write).
RetainedIsTheEnd ==
    LET kept == Len(Retained) all == Len(written) IN
    /\ kept <= all /\ Retained = SubSeq(written, all - kept + 1, all)
    /\ kept >= (IF all < Capacity THEN all ELSE Capacity)

\* No two processes write the same event: while it is retained an identity
\* is in the files once (append_diagnostic_once looks under the lock).
RecordedOnce ==
    \A i, j \in DOMAIN Retained :
        Retained[i] = Retained[j] /\ Retained[i] # NoId => i = j

(* The log retains the end of what was written, each event once            *)
(* (append_diagnostic_once, _rotate).                                      *)
LogIsTheEnd == TypeOK /\ RetainedIsTheEnd /\ RecordedOnce
=============================================================================
