----------------------------- MODULE AtomicState -----------------------------
(***************************************************************************)
(* What the state files of one session promise the components that use     *)
(* them: a session is created where there is none, an update adds itself   *)
(* to all that were committed before, a removal is final until the next    *)
(* creation, and the cursor is taken from the committed runtime.           *)
(***************************************************************************)
CONSTANTS
    NoFile,     \* the file does not exist
    Updates,    \* what the updates add
    Sessions    \* sessions that may be created, one after the other

VARIABLES
    runtime,    \* the runtime file: its session, and the updates committed
    cursor      \* the cursor file, taken from a runtime

Document == [session : Sessions, updates : SUBSET Updates]

Init == runtime = NoFile /\ cursor = NoFile

Create ==
    /\ runtime = NoFile
    /\ \E s \in Sessions : runtime' = [session |-> s, updates |-> {}]
    /\ UNCHANGED cursor

Update ==
    /\ runtime # NoFile
    /\ \E u \in Updates : runtime' = [runtime EXCEPT !.updates = @ \cup {u}]
    /\ UNCHANGED cursor

Advance == runtime # NoFile /\ cursor' = runtime /\ UNCHANGED runtime

Remove == runtime' = NoFile /\ UNCHANGED cursor

RemoveCursor == runtime = NoFile /\ cursor' = NoFile /\ UNCHANGED runtime

Next == Create \/ Update \/ Advance \/ Remove \/ RemoveCursor

Spec == Init /\ [][Next]_<<runtime, cursor>>
=============================================================================
