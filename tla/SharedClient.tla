---------------------------- MODULE SharedClient ----------------------------
(***************************************************************************)
(* The pool that keeps the one app-server client all managed tasks of a    *)
(* daemon share (scripts/daemon_client_pool.py).  A start borrows a        *)
(* reference, commits it when its task is published, and releases it; the  *)
(* last active reference to go turns into the obligation to close the      *)
(* client, and the obligation is kept until a close succeeded.             *)
(*                                                                         *)
(* The operators are the sections the pool runs under the service lock.    *)
(* References are numbered in the order in which they are recorded, which  *)
(* is the order of the pool's dictionary.                                  *)
(***************************************************************************)
EXTENDS Naturals, FiniteSets

CONSTANT MaxReferences  \* bound on the references ever recorded

ASSUME SharedClientAssumption == MaxReferences \in Nat \ {0}

VARIABLES
  made,        \* clients the factory returned so far; they are numbered
  running,     \* clients whose app-server child runs
  handles,     \* clients that hold their child's handle
  pooled,      \* the client under the pool's key, Nobody for none
  references,  \* each reference's client and state
  given,       \* references recorded so far
  reserved     \* a thread is inside the reservation "shared-client"

pool == <<made, running, handles, pooled, references, given, reserved>>

Nobody == 0
References == 1 .. MaxReferences
States == {"gone", "borrowed", "installed", "closing"}

PoolTypeOK ==
  /\ made \in 0 .. MaxReferences
  /\ running \subseteq 1 .. made /\ handles \subseteq 1 .. made
  /\ pooled \in 0 .. made
  /\ references \in [References -> [client : 0 .. made, state : States]]
  /\ given \in 0 .. MaxReferences
  /\ reserved \in BOOLEAN

PoolInit ==
  /\ made = 0
  /\ running = {} /\ handles = {}
  /\ pooled = Nobody
  /\ references = [r \in References |-> [client |-> Nobody, state |-> "gone"]]
  /\ given = 0
  /\ reserved = FALSE

InState(s) == {r \in References : references[r].state = s}
Active == InState("borrowed") \cup InState("installed")
Installed == InState("installed")
Owing == InState("closing")

Least(S) == CHOOSE r \in S : \A q \in S : r <= q
Greatest(S) == CHOOSE r \in S : \A q \in S : q <= r

(* The n installed references recorded first. *)
FirstInstalled(n) ==
  CHOOSE S \in SUBSET Installed :
    Cardinality(S) = n /\ \A r \in S, q \in Installed \ S : r < q

(* A new reference to client k, for a task that is not published yet. *)
Record(k) ==
  /\ given' = given + 1
  /\ references' = [references EXCEPT ![given + 1] = [client |-> k, state |-> "borrowed"]]

\* A borrowed reference becomes its task's.
Committed(r) == [references EXCEPT ![r].state = "installed"]

(* Turn references into obligations or forget them. *)
Released(keep, drop) ==
  [r \in References |->
     IF r \in keep THEN [client |-> pooled, state |-> "closing"]
     ELSE IF r \in drop THEN [references[r] EXCEPT !.state = "gone"]
     ELSE references[r]]

(* Fault: only installed references are counted as holding the client. *)
ReleaseIgnoringBorrowers(S) ==
  LET last == S # {} /\ Installed \subseteq S /\ pooled # Nobody
  IN  /\ references' = Released(IF last THEN {Greatest(S)} ELSE {}, S)
      /\ pooled' = IF last THEN Nobody ELSE pooled

(* The references in S, the first installed or one that was borrowed, are  *)
(* released: the last active ones to go leave one obligation to close what *)
(* is pooled, and the pool is empty at once.                               *)
Release(S) ==
  LET last == S # {} /\ Active \subseteq S /\ pooled # Nobody
  IN  /\ references' = Released(IF last THEN {Greatest(S)} ELSE {}, S)
      /\ pooled' = IF last THEN Nobody ELSE pooled
=============================================================================
