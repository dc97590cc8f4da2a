---------------------------- MODULE RolloutReader ----------------------------
(***************************************************************************)
(* How a watcher follows a rollout that Codex is writing                   *)
(* (scripts/watcher_source.py, watcher_batch.py): whole lines only, a      *)
(* bounded batch at a time, from a cursor that is kept on disk.  The file  *)
(* is a sequence of pieces, a line being one or more pieces of which the   *)
(* last ends it; a write may stop after any piece.                         *)
(***************************************************************************)
EXTENDS Naturals, Sequences, FiniteSets

CONSTANTS
    NoCursor,   \* the cursor file does not exist
    MaxLine,    \* _MAX_LINE_BYTES, in pieces
    MaxBatch,   \* _MAX_BATCH_BYTES, in pieces
    MaxRecords, \* _MAX_BATCH_RECORDS
    Lengths,    \* lengths of the lines that Codex writes, in pieces
    MaxPieces   \* bound on the file

VARIABLES
    file,       \* its pieces, each with its line and whether it ends the line
    unwritten,  \* pieces of the last line that are still to come
    replaced,   \* whether another file took its place, or it was cut
    cursor,     \* the cursor file
    start,      \* where the watch began
    batch,      \* the batch read and not yet committed: its end and its lines
    seen,       \* the lines that were committed, in order
    failed      \* whether the session was given up

vars == <<file, unwritten, replaced, cursor, start, batch, seen, failed>>

NoBatch == [end |-> NoCursor, lines |-> <<>>]

TypeOK ==
    /\ file \in Seq([line : Nat, last : BOOLEAN])
    /\ unwritten \in Nat /\ replaced \in BOOLEAN
    /\ cursor \in Nat \cup {NoCursor} /\ start \in Nat \cup {NoCursor}
    /\ batch \in [end : Nat \cup {NoCursor}, lines : Seq(Nat)]
    /\ seen \in Seq(Nat) /\ failed \in BOOLEAN

Init ==
    /\ file = <<>> /\ unwritten = 0 /\ replaced = FALSE
    /\ cursor = NoCursor /\ start = NoCursor
    /\ batch = NoBatch /\ seen = <<>> /\ failed = FALSE

----------------------------------------------------------------------------
(* Codex.                                                                  *)

LineOf(i) == IF i = 0 THEN 0 ELSE file[i].line

BeginLine(n) ==
    /\ unwritten = 0 /\ Len(file) + n <= MaxPieces
    /\ file' = Append(file, [line |-> LineOf(Len(file)) + 1, last |-> n = 1])
    /\ unwritten' = n - 1
    /\ UNCHANGED <<replaced, cursor, start, batch, seen, failed>>

ContinueLine ==
    /\ unwritten > 0
    /\ file' = Append(file, [line |-> LineOf(Len(file)), last |-> unwritten = 1])
    /\ unwritten' = unwritten - 1
    /\ UNCHANGED <<replaced, cursor, start, batch, seen, failed>>

\* Another file under the same name, or the same one cut below the cursor.
Replace ==
    /\ ~replaced /\ replaced' = TRUE
    /\ UNCHANGED <<file, unwritten, cursor, start, batch, seen, failed>>

----------------------------------------------------------------------------
(* The watcher.                                                            *)

\* initial_cursor: the end of the file, wherever the last write stopped.
StartWatch ==
    /\ cursor = NoCursor /\ ~failed /\ batch = NoBatch
    /\ batch' = [end |-> Len(file), lines |-> <<>>]
    /\ UNCHANGED <<file, unwritten, replaced, cursor, start, seen, failed>>

\* Where the line that starts at an offset ends; 0 while it does not.
LineEnd(at) ==
    LET ends == {i \in (at + 1)..Len(file) : file[i].last} IN
    IF ends = {} THEN 0 ELSE CHOOSE i \in ends : \A e \in ends : i <= e

\* readline returned more than a line may hold.
TooLong(at) ==
    (IF LineEnd(at) = 0 THEN Len(file) ELSE LineEnd(at)) - at > MaxLine

\* What is left of a line is not the object that _decode_record wants.
Fragment(at) == at > 0 /\ ~file[at].last

Lines(from, to) == [k \in 1..(LineOf(to) - LineOf(from)) |-> LineOf(from) + k]

\* Fault: a line that fills the batch does not fit into it.
FullBatchEnds(offset, at) ==
    \/ LineOf(at) - LineOf(offset) = MaxRecords
    \/ ~TooLong(at) /\ (LineEnd(at) = 0 \/ LineEnd(at) - offset >= MaxBatch)

\* The batch is full, or the next line is still being written.
BatchEnds(offset, at) ==
    \/ LineOf(at) - LineOf(offset) = MaxRecords
    \/ ~TooLong(at) /\ (LineEnd(at) = 0 \/ LineEnd(at) - offset > MaxBatch)

\* The starts of lines, from the cursor on, that the loop does not go past.
Stops(offset) ==
    {at \in offset..Len(file) :
        /\ at = offset \/ file[at].last
        /\ BatchEnds(offset, at) \/ TooLong(at) \/ Fragment(at)}

\* read_new_records: its loop, line by line from the cursor to the first of them.
Scan(offset) ==
    LET stop == CHOOSE at \in Stops(offset) : \A i \in Stops(offset) : at <= i
    IN [end |-> stop, corrupt |-> ~BatchEnds(offset, stop)]

\* Fault: the cursor moves when the batch is read, not when it is committed.
ReadAndKeep ==
    /\ cursor # NoCursor /\ ~failed /\ batch = NoBatch
    /\ ~replaced /\ ~Scan(cursor).corrupt /\ Scan(cursor).end > cursor
    /\ batch' = [end |-> Scan(cursor).end, lines |-> Lines(cursor, Scan(cursor).end)]
    /\ cursor' = Scan(cursor).end
    /\ UNCHANGED <<file, unwritten, replaced, start, seen, failed>>

\* Of the same file, not cut below the cursor; a batch of nothing is not kept.
Read ==
    /\ cursor # NoCursor /\ ~failed /\ batch = NoBatch
    /\ ~replaced /\ ~Scan(cursor).corrupt /\ Scan(cursor).end > cursor
    /\ batch' = [end |-> Scan(cursor).end, lines |-> Lines(cursor, Scan(cursor).end)]
    /\ UNCHANGED <<file, unwritten, replaced, cursor, start, seen, failed>>

\* RolloutRotatedError and RolloutCorruptError give the session up.
ReadFails ==
    /\ cursor # NoCursor /\ ~failed /\ batch = NoBatch
    /\ replaced \/ Scan(cursor).corrupt
    /\ failed' = TRUE
    /\ UNCHANGED <<file, unwritten, replaced, cursor, start, batch, seen>>

\* The batch's lines are taken and its cursor is kept.
Commit ==
    /\ batch # NoBatch
    /\ cursor' = batch.end /\ seen' = seen \o batch.lines /\ batch' = NoBatch
    /\ start' = IF start = NoCursor THEN batch.end ELSE start
    /\ UNCHANGED <<file, unwritten, replaced, failed>>

\* A watcher that dies before the commit loses what it read.
Crash ==
    /\ batch # NoBatch /\ batch' = NoBatch
    /\ UNCHANGED <<file, unwritten, replaced, cursor, start, seen, failed>>

Next ==
    \/ \E n \in Lengths : BeginLine(n)
    \/ ContinueLine \/ Replace \/ StartWatch \/ Read \/ ReadFails \/ Commit \/ Crash

\* The watcher keeps polling, and not every tick is interrupted.
Fairness == WF_vars(Read \/ ReadFails) /\ SF_vars(Commit)

Spec == Init /\ [][Next]_vars /\ Fairness

----------------------------------------------------------------------------
\* Every line that was begun after the watch started is taken once, in order
\* and whole, whatever pieces the file grows by and wherever a watcher dies
\* (a partial line does not move the cursor, a batch is kept with it).
TakenInOrder == \A k \in DOMAIN seen : seen[k] = LineOf(start) + k

\* A session is given up only when its file was replaced, a line is too long,
\* or the watch began inside a line that Codex had only begun to write.
FailureHasACause ==
    failed => \/ replaced \/ Fragment(start)
              \/ \E i \in DOMAIN file :
                    Cardinality({k \in DOMAIN file : file[k].line = file[i].line}) > MaxLine

\* Every whole line is taken in the end, or the session is given up: no line
\* that may be read is too long for a batch.
EveryLineIsTaken ==
    <>[](failed \/ cursor = NoCursor \/ LineEnd(cursor) = 0)

(* The lines are taken in order, and the session is given up for a cause   *)
(* only (read_new_records).                                                *)
LinesAreTaken == TypeOK /\ TakenInOrder /\ FailureHasACause
=============================================================================
