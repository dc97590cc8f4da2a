------------------------- MODULE PluginLifecycleProofs -------------------------
(***************************************************************************)
(* Installations and uninstallations that fail, die and are retried in any *)
(* order, with edits of config.toml and a replaced runtime in between: what*)
(* is installed and what the records say of it agree, an uninstallation can*)
(* be finished, and nothing else is deleted; for any bounds.               *)
(***************************************************************************)
EXTENDS PluginLifecycle, SequenceTheorems, TLAPS

USE InstalledFilesAssumption, InstallPluginAssumption
Members(s) == {s[i] : i \in DOMAIN s}

Todos ==
    {<<>>, <<"cache">>, <<"runtime">>, <<"data">>, <<"cache", "runtime">>,
     <<"runtime", "cache">>, <<"cache", "data">>, <<"data", "cache">>}

Results == {"none", "installed", "removed", "nothing", "failed"}

Jobs ==
    [kind : {"none", "install", "uninstall"}, purge : BOOLEAN, snapshot : Configs,
     target : Configs, todo : Todos, created : [Roots -> Ids], owned : Configs,
     restorable : BOOLEAN, conflict : BOOLEAN, undo : BOOLEAN, broken : BOOLEAN,
     retried : BOOLEAN, stray : BOOLEAN, failed : BOOLEAN,
     result : Results]

Plans ==
    [phase : {"none", "prepared", "committed"}, before : Configs, after : Configs,
     roots : [Roots -> Ids], order : Todos, purge : BOOLEAN, data : Ids]

Counters == [ids : Nat, calls : Nat, failures : Nat, crashes : Nat, unread : Nat]

(* What a plan names, and what follows from which of the two plans it is.  *)
PlanInv ==
    /\ pending # NoPending => pending.phase # "none"
    /\ pending.phase # "none" =>
        /\ pending.order \in {<<"cache", "runtime">>, <<"cache", "data">>, <<"data">>}
        /\ \A r \in Roots : r \in Members(pending.order) <=> pending.roots[r] # Nothing
        /\ IF pending.roots["cache"] # Nothing
           THEN pending.after = WithoutPlugin(pending.before)
           ELSE pending.after = pending.before
        /\ pending.roots["data"] # Nothing => pending.purge

(* No identity is given out twice. *)
IdsInv ==
    /\ spent.ids <= MaxIds
    /\ \A r \in Roots : pending.roots[r] <= spent.ids /\ place[r] <= spent.ids
    /\ under <= spent.ids
    /\ receipt.cache <= spent.ids /\ receipt.runtime <= spent.ids

(* What is carried from step to step, and which steps a plan is made for.  *)
JobTypes ==
    /\ job \in Jobs /\ pending \in Plans /\ spent \in Counters
    /\ contested \in BOOLEAN

CallInv ==
    /\ pc = "plan" => pending = NoPending
    /\ pc \in UninstallSteps \ {"plan"} => pending # NoPending
    /\ pc \in InstallSteps /\ pending # NoPending => contested

(* What an installation has created is its own and where it put it.        *)
InstallInv ==
    pc \in InstallSteps =>
        /\ \A r \in Roots : job.created[r] # Nothing =>
              /\ pc # "restore" => place[r] = job.created[r]
              /\ job.created[r] # pending.roots[r]
        /\ pending.roots["runtime"] # Nothing => job.created["data"] = Nothing
        /\ spent.unread = 0 /\ pc \notin {"read_back", "clear"} =>
              /\ job.created["cache"] # Nothing => job.created["cache"] # receipt.cache
              /\ job.created["runtime"] # Nothing => job.created["runtime"] # receipt.runtime
        /\ pc \notin {"data", "recover", "redisable", "remove", "restore"} => place["data"] # Nothing
        /\ pc \notin {"data", "runtime", "recover", "redisable", "remove", "restore"} =>
              place["runtime"] # Nothing
        /\ pc \in {"write_off", "write_on", "verify", "commit_receipt", "read_back", "clear"} =>
              place["cache"] # Nothing
        /\ job.restorable => place["cache"] # Nothing /\ job.created["cache"] = Nothing
        /\ pc = "confirm" => job.restorable
        /\ pc \in {"fence", "remove", "restore"} => ~Enabled(config)
        /\ pc = "redisable" => (Enabled(config) <=> Enabled(job.target))
        /\ ~job.broken

(* What lies under a quarantine name is the plan's. *)
AtticInv ==
    /\ \A r \in Roots : attic[r] \in {Nothing, pending.roots[r]}
    /\ pending.roots["runtime"] # Nothing => place["data"] # Nothing

(* How far the plan is carried out or taken back, root by root.            *)
TodoInv ==
    /\ pc \in {"quarantine", "rollback", "cleanup"} =>
          Members(job.todo) \subseteq Members(pending.order)
    /\ pc = "quarantine" => \A r \in Members(pending.order) \ Members(job.todo) :
          attic[r] = pending.roots[r]
    /\ pc = "rollback" /\ ~job.broken => \A r \in Members(pending.order) \ Members(job.todo) :
          place[r] = pending.roots[r] /\ attic[r] = Nothing
    /\ pc = "cleanup" => \A r \in Members(pending.order) \ Members(job.todo) :
          attic[r] = Nothing
    /\ pc \in {"receipt", "pending"} => attic = Empty

(* What config.toml and the records are at a step. *)
StepInv ==
    /\ pc \in {"quarantine", "commit"} => pending.phase = "prepared"
    /\ pc \in {"plan", "quarantine"} => config.plugin = job.snapshot.plugin
    /\ pc = "quarantine" => job.snapshot = pending.before /\ job.target = pending.after
    /\ pc \in {"commit", "cleanup", "receipt", "pending"} /\ pending.roots["cache"] # Nothing =>
          config.plugin = "absent"
    /\ pc = "pending" => receipt = NoReceipt
    /\ pc \in {"receipt", "pending"} => completion.present

CarryInv == AtticInv /\ TodoInv /\ StepInv

(* The plan was made from the receipt that is still there. *)
PlansReceipt ==
    /\ pending.roots["cache"] = receipt.cache
    /\ pending.roots["runtime"] # Nothing => pending.roots["runtime"] = receipt.runtime
    /\ pending.roots["data"] # Nothing =>
        /\ place["data"] = pending.roots["data"] => place["runtime"] = receipt.runtime
        /\ attic["data"] # Nothing => under = receipt.runtime

ReceiptInv ==
    /\ receipt # NoReceipt => receipt.cache # Nothing /\ receipt.runtime # Nothing
    /\ receipt # NoReceipt /\ spent.unread = 0 =>
          ReceiptValid \/ (pending # NoPending /\ PlansReceipt)
    /\ pc = "quarantine" =>
          IF pending.roots["cache"] = Nothing THEN receipt = NoReceipt ELSE PlansReceipt

EnabledInv ==
    /\ pending.roots["cache"] = Nothing /\ Enabled(config) => place["cache"] # Nothing
    /\ pc = "idle" /\ job.kind = "install" /\ ~job.broken /\ Enabled(config) =>
          place["cache"] # Nothing

(* A plan nobody interfered with. *)
Reverting == config = pending.before /\ pending.phase = "prepared"
Finishing ==
    config = pending.after /\ (pending.before # pending.after \/ pending.phase = "committed")

QuietPlan ==
    ~contested /\ pc = "plan" =>
        /\ config = job.snapshot
        /\ job.retried => \/ ReceiptValid
                          \/ /\ receipt = NoReceipt /\ completion.present
                             /\ completion.data = place["data"] /\ place["data"] # Nothing

QuietRoots ==
    ~contested /\ pending # NoPending =>
        /\ Reverting \/ Finishing
        /\ \A r \in Members(pending.order) :
              /\ place[r] \in {Nothing, pending.roots[r]}
              /\ place[r] # Nothing => attic[r] = Nothing
              /\ Reverting => place[r] # Nothing \/ attic[r] # Nothing
              /\ Finishing => place[r] = Nothing

QuietRecords ==
    ~contested /\ pending # NoPending =>
        /\ Reverting /\ pending.roots["cache"] # Nothing => receipt # NoReceipt /\ PlansReceipt
        /\ pending.roots["cache"] = Nothing =>
              /\ receipt = NoReceipt /\ completion.present
              /\ completion.data = pending.roots["data"] /\ pending.data = pending.roots["data"]

QuietSteps ==
    ~contested /\ pending # NoPending =>
        /\ pc = "quarantine" => Reverting /\ \A r \in Members(job.todo) : place[r] # Nothing
        /\ pc = "commit" => /\ config = pending.after
                            /\ \A r \in Members(pending.order) : place[r] = Nothing
        /\ pc = "rollback" => Reverting /\ (job.broken \/ job.undo => job.failed)
        /\ pc \in {"cleanup", "receipt", "pending"} => Finishing
        /\ pc = "handling" => job.failed

QuietRemoved ==
    ~contested /\ ~job.stray /\ pc \in UninstallSteps /\ pending.roots["cache"] = Nothing
    /\ receipt = NoReceipt /\ completion.present => Removed

QuietInv == QuietPlan /\ QuietRoots /\ QuietRecords /\ QuietSteps /\ QuietRemoved

IInv ==
    /\ TypeOK /\ JobTypes /\ PlanInv /\ IdsInv /\ CallInv /\ InstallInv /\ CarryInv
    /\ ReceiptInv /\ EnabledInv /\ QuietInv /\ RetryCompletes /\ SuccessMeansRemoved

(* An installation on its way to success.                                  *)
InstalledInv ==
    /\ pc = "confirm" => Enabled(job.snapshot)
    /\ pc \in InstallSteps /\ job.restorable => Enabled(job.snapshot)
    /\ pc \in {"verify", "commit_receipt", "read_back", "clear"} => Enabled(config)
    /\ pc \in {"read_back", "clear"} => ReceiptValid
    /\ SuccessMeansInstalled

-----------------------------------------------------------------------------
(* Plans, lists of roots and calls. *)
(* A record that no plan is in names nothing. *)
LEMMA NoPendingFacts ==
    /\ NoPending \in Plans /\ NoPending.phase = "none"
    /\ \A r \in Roots : NoPending.roots[r] = Nothing
    /\ Members(NoPending.order) = {}
<1>1. NoPending \in Plans /\ NoPending.phase = "none"
  BY DEF NoPending, Plans, Clean, Configs, Empty, Ids, Nothing, Todos
<1>2. NoPending.roots = Empty /\ NoPending.order = <<>>
  BY DEF NoPending
<1> QED
  BY <1>1, <1>2 DEF Empty, Members

(* Before the first call nothing failed and nothing was created. *)
LEMMA NoJobTyped ==
    /\ NoJob \in Jobs
    /\ ~NoJob.failed /\ ~NoJob.undo /\ ~NoJob.broken /\ ~NoJob.retried /\ ~NoJob.stray
    /\ NoJob.created = Empty /\ NoJob.result = "none"
<1>1. NoJob \in Jobs
  BY DEF NoJob, Jobs, Clean, Configs, Empty, Ids, Nothing, Todos, Results
<1> QED
  BY <1>1 DEF NoJob

(* A list of roots names each of its roots once. *)
LEMMA TodoFacts ==
    ASSUME NEW s \in Todos
    PROVE  /\ Members(s) \subseteq Roots
           /\ s = <<>> <=> Members(s) = {}
           /\ s # <<>> => /\ Head(s) \in Roots /\ Tail(s) \in Todos
                          /\ Members(s) = {Head(s)} \cup Members(Tail(s))
                          /\ Head(s) \notin Members(Tail(s))
<1>1. \A x, y : /\ Members(<<>>) = {}
                /\ Members(<<x>>) = {x}
                /\ Members(<<x, y>>) = {x, y}
                /\ Head(<<x>>) = x /\ Tail(<<x>>) = <<>>
                /\ Head(<<x, y>>) = x /\ Tail(<<x, y>>) = <<y>>
                /\ <<>> # <<x>> /\ <<>> # <<x, y>>
  BY DEF Members
<1>2. \/ s = <<>>
      \/ \E x \in Roots : s = <<x>> /\ <<x>> \in Todos
      \/ \E x, y \in Roots : x # y /\ s = <<x, y>> /\ <<y>> \in Todos
  BY DEF Todos, Roots
<1>3. <<>> \in Todos
  BY DEF Todos
<1> HIDE DEF Members
<1>4. CASE s = <<>>
  BY <1>1, <1>4
<1>5. ASSUME NEW x \in Roots, s = <<x>>, <<x>> \in Todos
      PROVE  s # <<>> /\ Head(s) = x /\ Tail(s) = <<>> /\ Members(s) = {x}
  BY <1>1, <1>5
<1>6. ASSUME NEW x \in Roots, NEW y \in Roots, s = <<x, y>>, <<y>> \in Todos
      PROVE  s # <<>> /\ Head(s) = x /\ Tail(s) = <<y>> /\ Members(s) = {x, y}
             /\ Members(Tail(s)) = {y}
  BY <1>1, <1>6
<1>7. s # <<>> =>
        /\ Head(s) \in Roots /\ Tail(s) \in Todos /\ Members(s) \subseteq Roots
        /\ Members(s) = {Head(s)} \cup Members(Tail(s)) /\ Head(s) \notin Members(Tail(s))
  <2>1. ASSUME NEW x \in Roots, s = <<x>>, <<x>> \in Todos
        PROVE  /\ Head(s) \in Roots /\ Tail(s) \in Todos /\ Members(s) \subseteq Roots
               /\ Members(s) = {Head(s)} \cup Members(Tail(s)) /\ Head(s) \notin Members(Tail(s))
    <3>1. Head(s) = x /\ Tail(s) = <<>> /\ Members(s) = {x} /\ Members(Tail(s)) = {}
      BY <1>1, <1>5, <2>1
    <3> QED
      BY <3>1, <1>3
  <2>2. ASSUME NEW x \in Roots, NEW y \in Roots, x # y, s = <<x, y>>, <<y>> \in Todos
        PROVE  /\ Head(s) \in Roots /\ Tail(s) \in Todos /\ Members(s) \subseteq Roots
               /\ Members(s) = {Head(s)} \cup Members(Tail(s)) /\ Head(s) \notin Members(Tail(s))
    <3>1. Head(s) = x /\ Tail(s) = <<y>> /\ Members(s) = {x, y} /\ Members(Tail(s)) = {y}
      BY <1>6, <2>2
    <3> QED
      BY <3>1, <2>2
  <2> QED
    BY <1>2, <2>1, <2>2
<1>8. s # <<>> => Members(s) # {}
  BY <1>7
<1> QED
  BY <1>1, <1>7, <1>8

(* Two roots one after the other. *)
LEMMA PairFacts == ASSUME NEW S, NEW x \in S, NEW y \in S PROVE <<x>> \o <<y>> = <<x, y>>
<1> DEFINE s == <<x>> \o <<y>>
           t == <<x, y>>
<1>1. /\ <<x>> \in Seq(S) /\ Len(<<x>>) = 1 /\ <<x>>[1] = x
      /\ <<y>> \in Seq(S) /\ Len(<<y>>) = 1 /\ <<y>>[1] = y
      /\ t \in Seq(S) /\ Len(t) = 2 /\ t[1] = x /\ t[2] = y
  OBVIOUS
<1>2. s \in Seq(S) /\ Len(s) = 2 /\ s[1] = x /\ s[2] = y
  BY <1>1, ConcatProperties
<1> HIDE DEF s, t
<1>3. \A i \in 1 .. 2 : s[i] = t[i]
  BY <1>1, <1>2
<1>4. s = t
  BY <1>1, <1>2, <1>3, SeqEqual
<1> QED
  BY <1>4 DEF s, t

(* A plan is taken back in the opposite order. *)
LEMMA BackwardsFacts ==
    ASSUME NEW s \in {<<"cache", "runtime">>, <<"cache", "data">>, <<"data">>}
    PROVE  Backwards(s) \in Todos /\ s \in Todos /\ Members(Backwards(s)) = Members(s)
BY DEF Backwards, Members, Todos

(* A plan has the runtime or the data directory, not both; without the    *)
(* cache it is the plan of a purge after the uninstallation.               *)
LEMMA PlanFacts ==
    ASSUME PlanInv, pending \in Plans
    PROVE  /\ pending.roots["runtime"] = Nothing \/ pending.roots["data"] = Nothing
           /\ pending # NoPending =>
                pending.roots["runtime"] # Nothing \/ pending.roots["data"] # Nothing
           /\ pending.roots["cache"] = Nothing => pending.roots["runtime"] = Nothing
           /\ Members(pending.order) \subseteq Roots
           /\ \A r \in Roots : r \in Members(pending.order) <=> pending.roots[r] # Nothing
<1>1. /\ Members(<<"cache", "runtime">>) = {"cache", "runtime"}
      /\ Members(<<"cache", "data">>) = {"cache", "data"}
      /\ Members(<<"data">>) = {"data"}
  BY DEF Members
<1>2. ASSUME pending.phase = "none"
      PROVE  /\ pending = NoPending /\ Members(pending.order) = {}
             /\ \A r \in Roots : pending.roots[r] = Nothing
  BY <1>2, NoPendingFacts DEF PlanInv
<1>3. ASSUME pending.phase # "none"
      PROVE  /\ pending # NoPending
             /\ Members(pending.order) \in {{"cache", "runtime"}, {"cache", "data"}, {"data"}}
             /\ \A r \in Roots : r \in Members(pending.order) <=> pending.roots[r] # Nothing
  BY <1>1, <1>3, NoPendingFacts DEF PlanInv
<1>4. CASE pending.phase = "none"
  BY <1>2, <1>4 DEF Roots
<1>5. CASE pending.phase # "none"
  BY <1>3, <1>5 DEF Roots
<1> QED
  BY <1>4, <1>5

(* The call ends and keeps what it was. *)
LEMMA EndFacts ==
    ASSUME JobTypes, NEW result \in Results, End(result)
    PROVE  /\ pc' = "idle" /\ job' \in Jobs
           /\ job'.kind = job.kind /\ job'.result = result /\ job'.retried = job.retried
           /\ job'.stray = job.stray /\ job'.failed = job.failed /\ job'.broken = job.broken
BY NoJobTyped DEF End, JobTypes, Jobs

(* A failing call costs a failure and no identity. *)
LEMMA FailFacts ==
    ASSUME JobTypes, FailOnce
    PROVE  /\ spent' \in Counters /\ spent'.ids = spent.ids /\ spent'.unread = spent.unread
BY DEF FailOnce, JobTypes, Counters

(* A call of the installer or the uninstaller begins between calls. *)
LEMMA CallFacts ==
    ASSUME JobTypes, Called
    PROVE  /\ spent' \in Counters /\ spent'.ids = spent.ids /\ spent'.unread = spent.unread
           /\ pc = "idle"
BY DEF Called, JobTypes, Counters

(* What the installer creates has a new identity; what is there it keeps. *)
LEMMA ProvideFacts ==
    ASSUME JobTypes, IdsInv, TypeOK, NEW r \in Roots, Provide(r)
    PROVE  /\ job' \in Jobs /\ spent' \in Counters /\ spent'.ids <= MaxIds
           /\ spent.ids <= spent'.ids /\ \A x \in Roots : place'[x] <= spent'.ids
           /\ place' \in [Roots -> Ids] /\ place'[r] # Nothing
           /\ \A x \in Roots : x # r => place'[x] = place[x] /\ job'.created[x] = job.created[x]
           /\ place[r] # Nothing => place'[r] = place[r] /\ job'.created[r] = job.created[r]
           /\ place[r] = Nothing => place'[r] = job'.created[r] /\ place'[r] > spent.ids
           /\ spent'.unread = spent.unread
           /\ job'.kind = job.kind /\ job'.restorable = job.restorable /\ job'.broken = job.broken
           /\ job'.snapshot = job.snapshot
BY DEF Provide, JobTypes, IdsInv, TypeOK, Jobs, Counters, Ids, Fresh, Nothing

(* What the uninstaller calls a root, by where it finds the plan's         *)
(* identity.                                                               *)
LEMMA RootStates ==
    ASSUME NEW r \in Roots, pending.roots[r] # Nothing
    PROVE  LET s == RootState(pending, r) IN
           /\ s = "untouched" <=> place[r] = pending.roots[r] /\ attic[r] = Nothing
           /\ s = "moved" <=> place[r] = Nothing /\ attic[r] = pending.roots[r]
           /\ s = "moved_with_newcomer" =>
                place[r] \notin {Nothing, pending.roots[r]} /\ attic[r] = pending.roots[r]
           /\ s = "cleaned" <=> place[r] # pending.roots[r] /\ attic[r] = Nothing
BY Zenon DEF RootState

(* The phase recovery sees is where config.toml stands, or a conflict. *)
LEMMA Phases ==
    ASSUME JobTypes, PlanInv, pending # NoPending
    PROVE  LET p == CurrentPhase(pending) IN
           /\ p = "before" <=> Reverting
           /\ p = "after" <=> Finishing
           /\ p # "none"
<1>1. pending.phase \in {"prepared", "committed"}
  BY DEF JobTypes, PlanInv, Plans
<1>2. pending.before = pending.after /\ config = pending.after =>
        CurrentPhase(pending) = IF pending.phase = "committed" THEN "after" ELSE "before"
  BY Zenon DEF CurrentPhase
<1>3. pending.before # pending.after /\ config = pending.before =>
        CurrentPhase(pending) = IF pending.phase = "prepared" THEN "before" ELSE "conflict"
  BY Zenon DEF CurrentPhase
<1>4. pending.before # pending.after /\ config = pending.after => CurrentPhase(pending) = "after"
  BY Zenon DEF CurrentPhase
<1>5. config # pending.before /\ config # pending.after => CurrentPhase(pending) = "conflict"
  BY Zenon DEF CurrentPhase
<1> QED
  BY <1>1, <1>2, <1>3, <1>4, <1>5 DEF Reverting, Finishing

(* How the uninstaller begins: it plans, or undoes or finishes an earlier  *)
(* call, or refuses to.                                                    *)
LEMMA BeginFacts ==
    ASSUME JobTypes, PlanInv, NEW purge \in BOOLEAN, UninstallBegins(purge), TypeOK
    PROVE  /\ job' \in Jobs /\ job'.kind = "uninstall" /\ job'.snapshot = config
           /\ job'.purge = purge /\ ~job'.failed /\ ~job'.undo /\ ~job'.broken
           /\ job'.retried = (pending # NoPending) /\ job'.stray = Stray
           /\ \/ pending = NoPending /\ pc' = "plan"
              \/ pending # NoPending /\ Reverting /\ pc' = "rollback"
                 /\ job'.todo = Backwards(pending.order)
              \/ pending # NoPending /\ Finishing /\ pc' = "cleanup"
                 /\ job'.todo = pending.order
              \/ pending # NoPending /\ ~Reverting /\ ~Finishing /\ pc' = "idle"
                 /\ job'.result = "failed"
           /\ pc' # "idle" => job'.result = "none"
<1> DEFINE b == Begin(purge)
           phase == IF pending = NoPending THEN "none" ELSE CurrentPhase(pending)
<1>1. /\ b \in Jobs /\ b.kind = "uninstall" /\ b.snapshot = config /\ b.purge = purge
      /\ ~b.failed /\ ~b.undo /\ ~b.broken /\ b.result = "none"
      /\ b.retried = (pending # NoPending) /\ b.stray = Stray
  <2>1. Stray \in BOOLEAN /\ config \in Configs
    BY DEF Stray, TypeOK
  <2>2. PICK n \in Jobs : n = NoJob
    BY NoJobTyped
  <2>3. ~n.failed /\ ~n.undo /\ ~n.broken /\ n.result = "none"
    BY <2>2, NoJobTyped
  <2>4. b = [n EXCEPT !.kind = "uninstall", !.purge = purge, !.snapshot = config,
                      !.retried = (pending # NoPending), !.stray = Stray]
    BY <2>2, Zenon DEF Begin
  <2> HIDE DEF b
  <2> QED
    BY <2>1, <2>3, <2>4 DEF Jobs
<1>2. \/ phase = "none" /\ pc' = "plan" /\ job' = b
      \/ phase = "before" /\ pc' = "rollback" /\ job' = [b EXCEPT !.todo = Backwards(pending.order)]
      \/ phase = "after" /\ pc' = "cleanup" /\ job' = [b EXCEPT !.todo = pending.order]
      \/ phase \notin {"none", "before", "after"} /\ pc' = "idle" /\ job' = [b EXCEPT !.result = "failed"]
  BY Zenon DEF UninstallBegins, Go
<1>3. pending # NoPending =>
        pending.order \in {<<"cache", "runtime">>, <<"cache", "data">>, <<"data">>}
  BY DEF PlanInv
<1>4. pending # NoPending => Backwards(pending.order) \in Todos /\ pending.order \in Todos
  BY <1>3, BackwardsFacts
<1> HIDE DEF b
<1>5. CASE phase = "none"
  BY <1>1, <1>2, <1>5, Phases
<1>6. CASE phase = "before"
  BY <1>1, <1>2, <1>4, <1>6, Phases DEF Jobs
<1>7. CASE phase = "after"
  BY <1>1, <1>2, <1>4, <1>7, Phases DEF Jobs
<1>8. CASE phase \notin {"none", "before", "after"}
  BY <1>1, <1>2, <1>8, Phases DEF Jobs, Results
<1> QED
  BY <1>5, <1>6, <1>7, <1>8

(* Disabling changes nothing but an enabled plugin. *)
LEMMA DisabledFacts ==
    ASSUME NEW c \in Configs
    PROVE  /\ Disabled(c) \in Configs /\ ~Enabled(Disabled(c)) /\ Disabled(c).edits = c.edits
           /\ Disabled(c).plugin = IF c.plugin = "on" THEN "off" ELSE c.plugin
<1>1. Disabled(c) = [c EXCEPT !.plugin = IF c.plugin = "on" THEN "off" ELSE c.plugin]
  BY Zenon DEF Disabled
<1> QED
  BY <1>1 DEF Configs, Enabled

(* A failing step is handled, remembered, or ends the call. *)
LEMMA StepFailsCases ==
    ASSUME UninstallStepFails
    PROVE  \/ /\ pc \in {"quarantine", "commit"} /\ pc' = "handling"
              /\ job' = [job EXCEPT !.failed = TRUE]
           \/ /\ pc = "rollback" /\ job.todo # <<>> /\ pc' = pc
              /\ job' = [job EXCEPT !.todo = Tail(@), !.broken = TRUE, !.failed = TRUE]
           \/ /\ pc \in {"plan", "rollback", "cleanup", "receipt", "pending", "handling"}
              /\ pc' = "idle"
              /\ job' = [NoJob EXCEPT !.kind = "uninstall", !.result = "failed",
                                      !.retried = job.retried, !.failed = TRUE]
BY Zenon DEF UninstallStepFails, Go

(* One rename: what was under the original name is now under the           *)
(* quarantine name, the runtime with the data directory.                   *)
LEMMA MoveAwayFacts ==
    ASSUME TypeOK, NEW r \in Roots, MoveAway(r)
    PROVE  /\ place' \in [Roots -> Ids] /\ attic' \in [Roots -> Ids] /\ under' \in Ids
           /\ attic'[r] = place[r] /\ place'[r] = Nothing
           /\ \A q \in Roots : q # r => attic'[q] = attic[q]
           /\ r = "data" => under' = place["runtime"] /\ place'["runtime"] = Nothing
                            /\ place'["cache"] = place["cache"]
           /\ r # "data" => under' = under /\ (\A q \in Roots : q # r => place'[q] = place[q])
<1>1. /\ place \in [Roots -> Ids] /\ attic \in [Roots -> Ids] /\ under \in Ids
      /\ Nothing \in Ids /\ place["runtime"] \in Ids /\ place[r] \in Ids
  BY DEF TypeOK, Roots, Ids, Nothing
<1>2. attic' = [attic EXCEPT ![r] = place[r]]
  BY DEF MoveAway
<1>3. CASE r = "data"
  <2> DEFINE p == [place EXCEPT !["data"] = Nothing]
  <2>1. p \in [Roots -> Ids] /\ p["data"] = Nothing /\ p["cache"] = place["cache"]
    BY <1>1 DEF Roots
  <2>2. under' = place["runtime"] /\ place' = [p EXCEPT !["runtime"] = Nothing]
    BY <1>3, Zenon DEF MoveAway
  <2> HIDE DEF p
  <2> QED
    BY <1>1, <1>2, <1>3, <2>1, <2>2 DEF Roots
<1>4. CASE r # "data"
  <2>1. place' = [place EXCEPT ![r] = Nothing] /\ under' = under
    BY <1>4, Zenon DEF MoveAway
  <2> QED
    BY <1>1, <1>2, <1>4, <2>1
<1> QED
  BY <1>3, <1>4

(* And back again. *)
LEMMA MoveBackFacts ==
    ASSUME TypeOK, NEW r \in Roots, MoveBack(r)
    PROVE  /\ place' \in [Roots -> Ids] /\ attic' \in [Roots -> Ids] /\ under' \in Ids
           /\ attic'[r] = Nothing /\ place'[r] = attic[r]
           /\ \A q \in Roots : q # r => attic'[q] = attic[q]
           /\ r = "data" => under' = Nothing /\ place'["runtime"] = under
                            /\ place'["cache"] = place["cache"]
           /\ r # "data" => under' = under /\ (\A q \in Roots : q # r => place'[q] = place[q])
<1>1. /\ place \in [Roots -> Ids] /\ attic \in [Roots -> Ids] /\ under \in Ids
      /\ Nothing \in Ids /\ attic["data"] \in Ids /\ attic[r] \in Ids
  BY DEF TypeOK, Roots, Ids, Nothing
<1>2. attic' = [attic EXCEPT ![r] = Nothing]
  BY DEF MoveBack
<1>3. CASE r = "data"
  <2> DEFINE p == [place EXCEPT !["data"] = attic["data"]]
  <2>1. p \in [Roots -> Ids] /\ p["data"] = attic["data"] /\ p["cache"] = place["cache"]
    BY <1>1 DEF Roots
  <2>2. under' = Nothing /\ place' = [p EXCEPT !["runtime"] = under]
    BY <1>3, Zenon DEF MoveBack
  <2> HIDE DEF p
  <2> QED
    BY <1>1, <1>2, <1>3, <2>1, <2>2 DEF Roots
<1>4. CASE r # "data"
  <2>1. place' = [place EXCEPT ![r] = attic[r]] /\ under' = under
    BY <1>4, Zenon DEF MoveBack
  <2> QED
    BY <1>1, <1>2, <1>4, <2>1
<1> QED
  BY <1>3, <1>4

(* The head of the list of roots is one of the plan, and the list shrinks. *)
LEMMA HeadFacts ==
    ASSUME IInv, pc \in {"quarantine", "rollback", "cleanup"}, job.todo # <<>>
    PROVE  /\ Head(job.todo) \in Roots /\ Head(job.todo) \in Members(pending.order)
           /\ pending # NoPending /\ pending.roots[Head(job.todo)] # Nothing
           /\ Members(job.todo) = {Head(job.todo)} \cup Members(Tail(job.todo))
           /\ Head(job.todo) \notin Members(Tail(job.todo))
           /\ Tail(job.todo) \in Todos /\ job \in Jobs /\ job.kind = "uninstall"
<1>1. job.todo \in Todos /\ job \in Jobs /\ pending \in Plans
  BY DEF IInv, JobTypes, Jobs
<1>2. Members(job.todo) \subseteq Members(pending.order)
  BY DEF IInv, CarryInv, TodoInv
<1>3. pending # NoPending /\ job.kind = "uninstall"
  BY DEF IInv, TypeOK, CallInv, InstallSteps, UninstallSteps
<1>4. /\ Head(job.todo) \in Roots /\ Tail(job.todo) \in Todos
      /\ Members(job.todo) = {Head(job.todo)} \cup Members(Tail(job.todo))
      /\ Head(job.todo) \notin Members(Tail(job.todo))
  BY <1>1, TodoFacts
<1> HIDE DEF Members
<1>5. \A r \in Roots : r \in Members(pending.order) <=> pending.roots[r] # Nothing
  BY <1>1, PlanFacts DEF IInv
<1> QED
  BY <1>1, <1>2, <1>3, <1>4, <1>5

-----------------------------------------------------------------------------
(* Every step keeps the invariant. *)

(* install: the call begins (InstallBegins). *)
LEMMA InstallBeginsKeeps == ASSUME IInv, InstallBegins PROVE IInv'
<1>j. /\ job' \in Jobs /\ job'.kind = "install" /\ ~job'.broken /\ job'.created = Empty
      /\ job'.snapshot = config /\ job'.owned = config
      /\ job'.restorable = (Enabled(config) /\ place["cache"] # Nothing)
  <2>1. PICK n \in Jobs : n = NoJob
    BY NoJobTyped
  <2>2. n.created = Empty /\ ~n.broken
    BY <2>1, NoJobTyped
  <2>3. job' = [n EXCEPT !.kind = "install", !.snapshot = config, !.owned = config,
                         !.restorable = Enabled(config) /\ place["cache"] # Nothing]
    BY <2>1, Zenon DEF InstallBegins
  <2> QED
    BY <2>2, <2>3 DEF IInv, TypeOK, Jobs
<1>s. spent' \in Counters /\ spent'.ids = spent.ids /\ spent'.unread = spent.unread
  BY CallFacts DEF IInv, InstallBegins
<1>u. /\ pc = "idle" /\ pc' = "data" /\ contested' = (contested \/ pending # NoPending)
      /\ UNCHANGED <<config, place, attic, under, pending, receipt, completion>>
  BY DEF InstallBegins, Called, Go, disk, records
<1>v. pending # NoPending => contested'
  BY <1>u, Zenon
<1>1. TypeOK'
  BY <1>j, <1>u DEF IInv, TypeOK, InstallSteps
<1>2. JobTypes'
  BY <1>j, <1>s, <1>u DEF IInv, JobTypes
<1>3. PlanInv' /\ IdsInv' /\ CallInv'
  BY <1>s, <1>u, <1>v DEF IInv, PlanInv, IdsInv, CallInv, UninstallSteps
<1>4. InstallInv'
  BY <1>j, <1>u DEF InstallInv, Jobs, Roots, Empty
<1>5. CarryInv'
  BY <1>u DEF IInv, CarryInv, AtticInv, TodoInv, StepInv
<1>6. ReceiptInv' /\ EnabledInv'
  BY <1>s, <1>u DEF IInv, ReceiptInv, EnabledInv, ReceiptValid, PlansReceipt
<1>7. QuietInv'
  BY <1>u, <1>v DEF QuietInv, QuietPlan, QuietRoots, QuietRecords, QuietSteps,
     QuietRemoved, UninstallSteps
<1>8. RetryCompletes' /\ SuccessMeansRemoved'
  BY <1>u DEF RetryCompletes, SuccessMeansRemoved, Reported
<1> QED
  BY <1>1, <1>2, <1>3, <1>4, <1>5, <1>6, <1>7, <1>8 DEF IInv

(* The data directory is found or created (PrepareDataRoot). *)
LEMMA PrepareDataRootKeeps == ASSUME IInv, PrepareDataRoot PROVE IInv'
<1>j. job' \in Jobs /\ spent' \in Counters
  BY ProvideFacts DEF IInv, PrepareDataRoot, Roots
<1>1. TypeOK'
  BY ProvideFacts DEF IInv, TypeOK, PrepareDataRoot, InstallSteps, UninstallSteps, Roots,
     records, Go
<1>2. JobTypes'
  BY <1>j DEF IInv, JobTypes, PrepareDataRoot, records
<1>3. PlanInv' /\ IdsInv' /\ CallInv'
  BY ProvideFacts DEF IInv, TypeOK, JobTypes, PlanInv, IdsInv, CallInv, PrepareDataRoot,
     Plans, Counters, UninstallSteps, Roots, Ids, records, Go
<1>4. InstallInv'
  BY ProvideFacts DEF IInv, JobTypes, IdsInv, InstallInv, CarryInv, AtticInv,
     PrepareDataRoot, Counters, InstallSteps, Roots, Ids, records, Go
<1>5. CarryInv'
  BY ProvideFacts DEF IInv, CarryInv, AtticInv, TodoInv, StepInv, PrepareDataRoot, Roots,
     records, Go
<1>6. ReceiptInv' /\ EnabledInv'
  BY ProvideFacts DEF IInv, JobTypes, IdsInv, ReceiptInv, EnabledInv, PrepareDataRoot,
     Counters, Roots, Ids, records, Go, ReceiptValid, PlansReceipt
<1>7. QuietInv'
  BY DEF IInv, CallInv, QuietInv, QuietPlan, QuietRoots, QuietRecords, QuietSteps,
     QuietRemoved, PrepareDataRoot, InstallSteps, UninstallSteps, records, Go
<1>8. RetryCompletes' /\ SuccessMeansRemoved'
  BY DEF RetryCompletes, SuccessMeansRemoved, PrepareDataRoot, Go, Reported
<1> QED
  BY <1>1, <1>2, <1>3, <1>4, <1>5, <1>6, <1>7, <1>8 DEF IInv

(* The runtime is found or created in it (PrepareRuntime). *)
LEMMA PrepareRuntimeKeeps == ASSUME IInv, PrepareRuntime PROVE IInv'
<1>j. job' \in Jobs /\ spent' \in Counters
  BY ProvideFacts DEF IInv, PrepareRuntime, Roots
<1>1. TypeOK'
  BY ProvideFacts DEF IInv, TypeOK, InstallInv, PrepareRuntime, InstallSteps,
     UninstallSteps, Roots, records, Go
<1>2. JobTypes'
  BY <1>j DEF IInv, JobTypes, PrepareRuntime, records
<1>3. PlanInv' /\ IdsInv' /\ CallInv'
  BY ProvideFacts DEF IInv, TypeOK, JobTypes, PlanInv, IdsInv, CallInv, PrepareRuntime,
     Plans, Counters, UninstallSteps, Roots, Ids, records, Go
<1>4. InstallInv'
  BY ProvideFacts DEF IInv, JobTypes, IdsInv, InstallInv, PrepareRuntime, Counters,
     InstallSteps, Roots, Ids, records, Go
<1>5. CarryInv'
  BY ProvideFacts DEF IInv, CarryInv, AtticInv, TodoInv, StepInv, PrepareRuntime, Roots,
     records, Go
<1>6. ReceiptInv' /\ EnabledInv'
  BY ProvideFacts DEF IInv, ReceiptInv, EnabledInv, PrepareRuntime, Roots, records, Go,
     ReceiptValid, PlansReceipt
<1>7. QuietInv'
  BY DEF IInv, CallInv, QuietInv, QuietPlan, QuietRoots, QuietRecords, QuietSteps,
     QuietRemoved, PrepareRuntime, InstallSteps, UninstallSteps, records, Go
<1>8. RetryCompletes' /\ SuccessMeansRemoved'
  BY DEF RetryCompletes, SuccessMeansRemoved, PrepareRuntime, Go, Reported
<1> QED
  BY <1>1, <1>2, <1>3, <1>4, <1>5, <1>6, <1>7, <1>8 DEF IInv

(* An installation that is already there is confirmed (ConfirmInstalled). *)
LEMMA ConfirmInstalledKeeps == ASSUME IInv, ConfirmInstalled PROVE IInv'
<1>j. job' \in Jobs
  BY DEF IInv, JobTypes, Jobs, ConfirmInstalled, Recovering
<1>1. TypeOK'
  BY DEF IInv, TypeOK, JobTypes, ConfirmInstalled, Jobs, InstallSteps, UninstallSteps,
     disk, records, Go, Recovering
<1>2. JobTypes'
  BY <1>j DEF IInv, JobTypes, ConfirmInstalled, records
<1>3. PlanInv' /\ IdsInv' /\ CallInv'
  BY DEF IInv, PlanInv, IdsInv, CallInv, ConfirmInstalled, InstallSteps, UninstallSteps,
     disk, records, Go, Recovering
<1>4. InstallInv'
  BY DEF IInv, JobTypes, InstallInv, ConfirmInstalled, Jobs, InstallSteps, disk, records,
     Go, Recovering
<1>5. CarryInv'
  BY DEF IInv, CarryInv, AtticInv, TodoInv, StepInv, ConfirmInstalled, disk, records, Go,
     Recovering
<1>6. ReceiptInv' /\ EnabledInv'
  BY DEF IInv, ReceiptInv, EnabledInv, ConfirmInstalled, disk, records, Go, Recovering,
     ReceiptValid, PlansReceipt
<1>7. QuietInv'
  BY DEF IInv, QuietInv, QuietPlan, QuietRoots, QuietRecords, QuietSteps, QuietRemoved,
     ConfirmInstalled, UninstallSteps, disk, records, Go, Recovering, PlansReceipt,
     Reverting, Finishing
<1>8. RetryCompletes' /\ SuccessMeansRemoved'
  BY DEF RetryCompletes, SuccessMeansRemoved, ConfirmInstalled, Go, Recovering, Reported
<1> QED
  BY <1>1, <1>2, <1>3, <1>4, <1>5, <1>6, <1>7, <1>8 DEF IInv

(* The plugin is disabled before its cache changes (DisablePlugin). *)
LEMMA DisablePluginKeeps == ASSUME IInv, DisablePlugin PROVE IInv'
<1>c. config' \in Configs /\ (config' = config \/ config' = Disabled(config))
  BY DisabledFacts DEF IInv, TypeOK, DisablePlugin
<1>j. job' \in Jobs
  <2>1. CASE Recovering(TRUE)
    BY <2>1 DEF IInv, JobTypes, Jobs, Recovering
  <2>2. CASE job' = [job EXCEPT !.owned = config']
    BY <1>c, <2>2 DEF IInv, JobTypes, Jobs
  <2> QED
    BY <2>1, <2>2 DEF DisablePlugin
<1>u. /\ pc = "disable"
      /\ \/ pc' = "recover" /\ config' = config
         \/ pc' = "fence" /\ config' = Disabled(config)
      /\ UNCHANGED <<place, attic, under, pending, receipt, completion, spent, contested>>
      /\ job'.created = job.created /\ job'.restorable = job.restorable /\ job'.kind = job.kind
      /\ job'.broken = job.broken
  BY DEF IInv, JobTypes, Jobs, DisablePlugin, Recovering, Go, disk, records
<1>d. /\ ~Enabled(Disabled(config)) /\ Disabled(config).edits = config.edits
      /\ Disabled(config).plugin = IF config.plugin = "on" THEN "off" ELSE config.plugin
  BY DisabledFacts DEF IInv, TypeOK
<1>1. TypeOK'
  BY <1>c, <1>u DEF IInv, TypeOK, InstallSteps, UninstallSteps
<1>2. JobTypes'
  BY <1>j, <1>u DEF IInv, JobTypes
<1>3. PlanInv' /\ IdsInv' /\ CallInv'
  BY <1>u DEF IInv, PlanInv, IdsInv, CallInv, InstallSteps, UninstallSteps
<1>4. InstallInv'
  BY <1>u, <1>d DEF IInv, InstallInv, InstallSteps
<1>5. CarryInv'
  BY <1>u DEF IInv, CarryInv, AtticInv, TodoInv, StepInv
<1>6. ReceiptInv' /\ EnabledInv'
  BY <1>u, <1>d DEF IInv, ReceiptInv, EnabledInv, ReceiptValid, PlansReceipt
<1>7. QuietInv'
  BY <1>u DEF IInv, CallInv, QuietInv, QuietPlan, QuietRoots, QuietRecords, QuietSteps,
     QuietRemoved, InstallSteps, UninstallSteps
<1>8. RetryCompletes' /\ SuccessMeansRemoved'
  BY <1>u DEF RetryCompletes, SuccessMeansRemoved, Reported
<1> QED
  BY <1>1, <1>2, <1>3, <1>4, <1>5, <1>6, <1>7, <1>8 DEF IInv

(* The cache is found or created (PublishCache). *)
LEMMA PublishCacheKeeps == ASSUME IInv, PublishCache PROVE IInv'
<1>j. job' \in Jobs /\ spent' \in Counters
  <2>1. CASE config # job.owned
    BY <2>1 DEF IInv, JobTypes, Jobs, PublishCache, Recovering
  <2>2. CASE config = job.owned
    BY <2>2, ProvideFacts DEF IInv, PublishCache, Roots
  <2> QED
    BY <2>1, <2>2
<1>1. TypeOK'
  BY ProvideFacts DEF IInv, TypeOK, JobTypes, PublishCache, Jobs, InstallSteps,
     UninstallSteps, Roots, records, Go, Recovering
<1>2. JobTypes'
  BY <1>j DEF IInv, JobTypes, PublishCache, records
<1>3. PlanInv' /\ IdsInv' /\ CallInv'
  BY ProvideFacts DEF IInv, TypeOK, JobTypes, PlanInv, IdsInv, CallInv, PublishCache,
     Plans, Counters, UninstallSteps, Roots, Ids, records, Go, Recovering
<1>4. InstallInv'
  BY ProvideFacts DEF IInv, JobTypes, IdsInv, InstallInv, PublishCache, Jobs, Counters,
     InstallSteps, Roots, Ids, records, Go, Recovering
<1>5. CarryInv'
  BY ProvideFacts DEF IInv, CarryInv, AtticInv, TodoInv, StepInv, PublishCache, Roots,
     records, Go, Recovering
<1>6. ReceiptInv' /\ EnabledInv'
  BY ProvideFacts DEF IInv, ReceiptInv, EnabledInv, PublishCache, Roots, records, Go,
     Recovering, ReceiptValid, PlansReceipt
<1>7. QuietInv'
  BY DEF IInv, CallInv, QuietInv, QuietPlan, QuietRoots, QuietRecords, QuietSteps,
     QuietRemoved, PublishCache, InstallSteps, UninstallSteps, records, Go, Recovering
<1>8. RetryCompletes' /\ SuccessMeansRemoved'
  BY DEF RetryCompletes, SuccessMeansRemoved, PublishCache, Go, Recovering, Reported
<1> QED
  BY <1>1, <1>2, <1>3, <1>4, <1>5, <1>6, <1>7, <1>8 DEF IInv

(* config.toml gets the tables of the plugin, disabled (PublishDisabled). *)
LEMMA PublishDisabledKeeps == ASSUME IInv, PublishDisabled PROVE IInv'
<1>c. config' \in Configs
  BY DEF IInv, TypeOK, JobTypes, Jobs, PublishDisabled, Disabled, RenderConfig, Configs
<1>j. job' \in Jobs
  BY <1>c DEF IInv, TypeOK, JobTypes, Jobs, PublishDisabled
<1>1. TypeOK'
  BY DEF IInv, TypeOK, PublishDisabled, Configs, InstallSteps, UninstallSteps, disk,
     records, Go, RenderConfig
<1>2. JobTypes'
  BY <1>j DEF IInv, JobTypes, PublishDisabled, records
<1>3. PlanInv' /\ IdsInv' /\ CallInv'
  BY DEF IInv, PlanInv, IdsInv, CallInv, PublishDisabled, InstallSteps, UninstallSteps,
     disk, records, Go
<1>4. InstallInv'
  BY DEF IInv, InstallInv, PublishDisabled, InstallSteps, disk, records, Go
<1>5. CarryInv'
  BY DEF IInv, CarryInv, AtticInv, TodoInv, StepInv, PublishDisabled, disk, records, Go
<1>6. ReceiptInv' /\ EnabledInv'
  BY DEF IInv, ReceiptInv, EnabledInv, PublishDisabled, disk, records, Go, Enabled,
     RenderConfig, ReceiptValid, PlansReceipt
<1>7. QuietInv'
  BY DEF IInv, TypeOK, CallInv, QuietInv, QuietPlan, QuietRoots, QuietRecords, QuietSteps,
     QuietRemoved, PublishDisabled, UninstallSteps, records, Go
<1>8. RetryCompletes' /\ SuccessMeansRemoved'
  BY DEF RetryCompletes, SuccessMeansRemoved, PublishDisabled, Go, Reported
<1> QED
  BY <1>1, <1>2, <1>3, <1>4, <1>5, <1>6, <1>7, <1>8 DEF IInv

(* The plugin is enabled once its files are there (PublishEnabled). *)
LEMMA PublishEnabledKeeps == ASSUME IInv, PublishEnabled PROVE IInv'
<1>c. config' \in Configs
  BY DEF IInv, TypeOK, JobTypes, Jobs, PublishEnabled, Disabled, RenderConfig, Configs
<1>j. job' \in Jobs
  BY <1>c DEF IInv, TypeOK, JobTypes, Jobs, PublishEnabled
<1>1. TypeOK'
  BY DEF IInv, TypeOK, PublishEnabled, Configs, InstallSteps, UninstallSteps, disk,
     records, Go, RenderConfig
<1>2. JobTypes'
  BY <1>j DEF IInv, JobTypes, PublishEnabled, records
<1>3. PlanInv' /\ IdsInv' /\ CallInv'
  BY DEF IInv, PlanInv, IdsInv, CallInv, PublishEnabled, InstallSteps, UninstallSteps,
     disk, records, Go
<1>4. InstallInv'
  BY DEF IInv, InstallInv, PublishEnabled, InstallSteps, disk, records, Go
<1>5. CarryInv'
  BY DEF IInv, CarryInv, AtticInv, TodoInv, StepInv, PublishEnabled, disk, records, Go
<1>6. ReceiptInv' /\ EnabledInv'
  BY DEF IInv, InstallInv, ReceiptInv, EnabledInv, PublishEnabled, InstallSteps, disk,
     records, Go, ReceiptValid, PlansReceipt
<1>7. QuietInv'
  BY DEF IInv, TypeOK, CallInv, QuietInv, QuietPlan, QuietRoots, QuietRecords, QuietSteps,
     QuietRemoved, PublishEnabled, UninstallSteps, records, Go
<1>8. RetryCompletes' /\ SuccessMeansRemoved'
  BY DEF RetryCompletes, SuccessMeansRemoved, PublishEnabled, Go, Reported
<1> QED
  BY <1>1, <1>2, <1>3, <1>4, <1>5, <1>6, <1>7, <1>8 DEF IInv

(* What was written is read back (VerifyEnabled). *)
LEMMA VerifyEnabledKeeps == ASSUME IInv, VerifyEnabled PROVE IInv'
<1>j. job' \in Jobs
  BY DEF IInv, TypeOK, JobTypes, Jobs, VerifyEnabled, Recovering
<1>1. TypeOK'
  BY DEF IInv, TypeOK, JobTypes, VerifyEnabled, Jobs, InstallSteps, UninstallSteps, disk,
     records, Go, Recovering
<1>2. JobTypes'
  BY <1>j DEF IInv, JobTypes, VerifyEnabled, records
<1>3. PlanInv' /\ IdsInv' /\ CallInv'
  BY DEF IInv, PlanInv, IdsInv, CallInv, VerifyEnabled, InstallSteps, UninstallSteps,
     disk, records, Go, Recovering
<1>4. InstallInv'
  BY DEF IInv, JobTypes, InstallInv, VerifyEnabled, Jobs, InstallSteps, disk, records, Go,
     Recovering
<1>5. CarryInv'
  BY DEF IInv, CarryInv, AtticInv, TodoInv, StepInv, VerifyEnabled, disk, records, Go,
     Recovering
<1>6. ReceiptInv' /\ EnabledInv'
  BY DEF IInv, ReceiptInv, EnabledInv, VerifyEnabled, disk, records, Go, Recovering,
     ReceiptValid, PlansReceipt
<1>7. QuietInv'
  BY DEF IInv, QuietInv, QuietPlan, QuietRoots, QuietRecords, QuietSteps, QuietRemoved,
     VerifyEnabled, UninstallSteps, disk, records, Go, Recovering, PlansReceipt,
     Reverting, Finishing
<1>8. RetryCompletes' /\ SuccessMeansRemoved'
  BY DEF RetryCompletes, SuccessMeansRemoved, VerifyEnabled, Go, Recovering, Reported
<1> QED
  BY <1>1, <1>2, <1>3, <1>4, <1>5, <1>6, <1>7, <1>8 DEF IInv

(* The receipt of both directories is written (PublishReceipt). *)
LEMMA PublishReceiptKeeps == ASSUME IInv, PublishReceipt PROVE IInv'
<1>1. TypeOK'
  BY DEF IInv, TypeOK, PublishReceipt, InstallSteps, UninstallSteps, Roots, disk, Go
<1>2. JobTypes'
  BY DEF IInv, JobTypes, PublishReceipt
<1>3. PlanInv' /\ IdsInv' /\ CallInv'
  BY DEF IInv, PlanInv, IdsInv, CallInv, PublishReceipt, InstallSteps, UninstallSteps,
     Roots, disk, Go
<1>4. InstallInv'
  BY DEF IInv, InstallInv, PublishReceipt, InstallSteps, disk, Go
<1>5. CarryInv'
  BY DEF IInv, CarryInv, AtticInv, TodoInv, StepInv, PublishReceipt, disk, Go
<1>6. ReceiptInv' /\ EnabledInv'
  BY DEF IInv, InstallInv, ReceiptInv, EnabledInv, PublishReceipt, InstallSteps, disk, Go,
     ReceiptValid
<1>7. QuietInv'
  BY DEF IInv, TypeOK, CallInv, QuietInv, QuietPlan, QuietRoots, QuietRecords, QuietSteps,
     QuietRemoved, PublishReceipt, UninstallSteps, Go
<1>8. RetryCompletes' /\ SuccessMeansRemoved'
  BY DEF RetryCompletes, SuccessMeansRemoved, PublishReceipt, Go, Reported
<1> QED
  BY <1>1, <1>2, <1>3, <1>4, <1>5, <1>6, <1>7, <1>8 DEF IInv

(* The receipt is read back, and may be unreadable (ReadReceiptBack). *)
LEMMA ReadReceiptBackKeeps == ASSUME IInv, ReadReceiptBack PROVE IInv'
<1>j. job' \in Jobs
  BY DEF IInv, TypeOK, JobTypes, Jobs, ReadReceiptBack
<1>s. spent' \in Counters /\ spent'.ids = spent.ids
  <2>1. CASE UNCHANGED <<job, spent>>
    BY <2>1 DEF IInv, JobTypes
  <2>2. CASE spent' = [spent EXCEPT !.failures = @ + 1, !.unread = @ + 1]
    <3>1. spent \in Counters
      BY DEF IInv, JobTypes
    <3> DEFINE s == [spent EXCEPT !.failures = @ + 1]
    <3>2. s \in Counters /\ s.ids = spent.ids
      BY <3>1 DEF Counters
    <3>3. spent' = [s EXCEPT !.unread = @ + 1]
      BY <2>2, Zenon
    <3> HIDE DEF s
    <3> QED
      BY <3>2, <3>3 DEF Counters
  <2> QED
    BY <2>1, <2>2 DEF ReadReceiptBack
<1>u. /\ pc = "read_back" /\ pc' \in {"clear", "recover"}
      /\ UNCHANGED <<config, place, attic, under, pending, receipt, completion, contested>>
      /\ job'.created = job.created /\ job'.restorable = job.restorable /\ job'.kind = job.kind
      /\ job'.broken = job.broken
  BY DEF IInv, JobTypes, Jobs, ReadReceiptBack, Go, disk, records
<1>v. \/ pc' = "clear" /\ spent' = spent
      \/ pc' = "recover" /\ spent'.unread = spent.unread + 1 /\ spent.unread \in Nat
  <2>1. CASE pc' = "clear" /\ UNCHANGED spent
    BY <2>1
  <2>2. CASE pc' = "recover" /\ spent' = [spent EXCEPT !.failures = @ + 1, !.unread = @ + 1]
    <3>1. spent \in Counters
      BY DEF IInv, JobTypes
    <3> DEFINE s == [spent EXCEPT !.failures = @ + 1]
    <3>2. s \in Counters /\ s.unread = spent.unread
      BY <3>1 DEF Counters
    <3>3. spent' = [s EXCEPT !.unread = @ + 1]
      BY <2>2, Zenon
    <3> HIDE DEF s
    <3> QED
      BY <2>2, <3>2, <3>3 DEF Counters
  <2> QED
    BY <2>1, <2>2 DEF ReadReceiptBack, Go
<1>1. TypeOK'
  BY <1>u DEF IInv, TypeOK, InstallSteps, UninstallSteps
<1>2. JobTypes'
  BY <1>j, <1>s, <1>u DEF IInv, JobTypes
<1>3. PlanInv' /\ IdsInv' /\ CallInv'
  BY <1>s, <1>u DEF IInv, PlanInv, IdsInv, CallInv, InstallSteps, UninstallSteps
<1>4. InstallInv'
  BY <1>u, <1>v DEF IInv, InstallInv, InstallSteps
<1>5. CarryInv'
  BY <1>u DEF IInv, CarryInv, AtticInv, TodoInv, StepInv
<1>6. ReceiptInv' /\ EnabledInv'
  BY <1>u, <1>v DEF IInv, ReceiptInv, EnabledInv, ReceiptValid, PlansReceipt
<1>7. QuietInv'
  BY <1>u DEF IInv, QuietInv, QuietPlan, QuietRoots, QuietRecords, QuietSteps,
     QuietRemoved, UninstallSteps, PlansReceipt, Reverting, Finishing
<1>8. RetryCompletes' /\ SuccessMeansRemoved'
  BY <1>v DEF RetryCompletes, SuccessMeansRemoved, Reported
<1> QED
  BY <1>1, <1>2, <1>3, <1>4, <1>5, <1>6, <1>7, <1>8 DEF IInv

(* The record of an earlier uninstallation goes (ClearCompletion). *)
LEMMA ClearCompletionKeeps == ASSUME IInv, ClearCompletion PROVE IInv'
<1>j. /\ job' \in Jobs /\ pc' = "idle" /\ job'.kind = job.kind /\ job'.result = "installed"
      /\ job'.broken = job.broken /\ job'.failed = job.failed /\ job'.retried = job.retried
      /\ job'.stray = job.stray
  BY EndFacts DEF IInv, ClearCompletion, Results
<1>u. /\ pc = "clear" /\ completion' \in {completion, NoCompletion}
      /\ UNCHANGED <<config, place, attic, under, pending, receipt, contested>>
  BY DEF ClearCompletion, disk, records
<1>s. spent' \in Counters /\ spent'.ids = spent.ids /\ spent'.unread = spent.unread
  BY FailFacts DEF IInv, JobTypes, ClearCompletion
<1>n. completion' \in [present : BOOLEAN, data : Ids]
  <2>1. NoCompletion \in [present : BOOLEAN, data : Ids]
    BY DEF NoCompletion, Ids, Nothing
  <2>2. completion \in [present : BOOLEAN, data : Ids]
    BY DEF IInv, TypeOK
  <2> QED
    BY <1>u, <2>1, <2>2
<1>1. TypeOK'
  BY <1>j, <1>u, <1>n DEF IInv, TypeOK
<1>2. JobTypes'
  BY <1>j, <1>u, <1>s DEF IInv, JobTypes
<1>3. PlanInv' /\ IdsInv' /\ CallInv'
  BY <1>j, <1>u, <1>s DEF IInv, PlanInv, IdsInv, CallInv, InstallSteps, UninstallSteps
<1>4. InstallInv'
  BY <1>j DEF InstallInv, InstallSteps
<1>5. CarryInv'
  BY <1>j, <1>u DEF IInv, CarryInv, AtticInv, TodoInv, StepInv
<1>6. ReceiptInv' /\ EnabledInv'
  BY <1>j, <1>u, <1>s DEF IInv, TypeOK, InstallInv, ReceiptInv, EnabledInv, ReceiptValid,
     PlansReceipt
<1>7. QuietInv'
  BY <1>j, <1>u DEF IInv, CallInv, QuietInv, QuietPlan, QuietRoots, QuietRecords,
     QuietSteps, QuietRemoved, InstallSteps, UninstallSteps
<1>8. RetryCompletes' /\ SuccessMeansRemoved'
  BY <1>j DEF RetryCompletes, SuccessMeansRemoved, Reported
<1> QED
  BY <1>1, <1>2, <1>3, <1>4, <1>5, <1>6, <1>7, <1>8 DEF IInv

(* A step of the installation fails (InstallStepFails). *)
LEMMA InstallStepFailsKeeps == ASSUME IInv, InstallStepFails PROVE IInv'
<1>j. job' \in Jobs
  BY DEF IInv, JobTypes, Jobs, InstallStepFails
<1>s. spent' \in Counters
  BY FailFacts DEF IInv, InstallStepFails
<1>1. TypeOK'
  BY DEF IInv, TypeOK, InstallStepFails, InstallSteps, UninstallSteps, disk, records, Go
<1>2. JobTypes'
  BY <1>j, <1>s DEF IInv, JobTypes, InstallStepFails, records
<1>3. PlanInv' /\ IdsInv' /\ CallInv'
  BY FailFacts DEF IInv, PlanInv, IdsInv, CallInv, InstallStepFails, InstallSteps,
     UninstallSteps, disk, records, Go
<1>4. InstallInv'
  BY FailFacts DEF IInv, InstallInv, InstallStepFails, InstallSteps, disk, records, Go
<1>5. CarryInv'
  BY DEF IInv, CarryInv, AtticInv, TodoInv, StepInv, InstallStepFails, disk, records, Go
<1>6. ReceiptInv' /\ EnabledInv'
  BY FailFacts DEF IInv, ReceiptInv, EnabledInv, InstallStepFails, disk, records, Go,
     ReceiptValid, PlansReceipt
<1>7. QuietInv'
  BY DEF IInv, QuietInv, QuietPlan, QuietRoots, QuietRecords, QuietSteps, QuietRemoved,
     InstallStepFails, UninstallSteps, disk, records, Go, PlansReceipt, Reverting,
     Finishing
<1>8. RetryCompletes' /\ SuccessMeansRemoved'
  BY DEF RetryCompletes, SuccessMeansRemoved, InstallStepFails, Go, Reported
<1> QED
  BY <1>1, <1>2, <1>3, <1>4, <1>5, <1>6, <1>7, <1>8 DEF IInv

(* Recovery looks at config.toml (RecoverObserves). *)
LEMMA RecoverObservesKeeps == ASSUME IInv, RecoverObserves PROVE IInv'
<1>j. job' \in Jobs
  BY DEF IInv, TypeOK, JobTypes, Jobs, RecoverObserves
<1>1. TypeOK'
  BY DEF IInv, TypeOK, RecoverObserves, Configs, InstallSteps, UninstallSteps, disk,
     records, Go
<1>2. JobTypes'
  BY <1>j DEF IInv, JobTypes, RecoverObserves, records
<1>3. PlanInv' /\ IdsInv' /\ CallInv'
  BY DEF IInv, PlanInv, IdsInv, CallInv, RecoverObserves, InstallSteps, UninstallSteps,
     disk, records, Go
<1>4. InstallInv'
  BY DEF IInv, InstallInv, RecoverObserves, InstallSteps, disk, records, Go, Enabled
<1>5. CarryInv'
  BY DEF IInv, CarryInv, AtticInv, TodoInv, StepInv, RecoverObserves, disk, records, Go
<1>6. ReceiptInv' /\ EnabledInv'
  BY DEF IInv, ReceiptInv, EnabledInv, RecoverObserves, disk, records, Go, Enabled,
     ReceiptValid, PlansReceipt
<1>7. QuietInv'
  BY DEF IInv, TypeOK, CallInv, QuietInv, QuietPlan, QuietRoots, QuietRecords, QuietSteps,
     QuietRemoved, RecoverObserves, UninstallSteps, records, Go
<1>8. RetryCompletes' /\ SuccessMeansRemoved'
  BY DEF RetryCompletes, SuccessMeansRemoved, RecoverObserves, Go, Reported
<1> QED
  BY <1>1, <1>2, <1>3, <1>4, <1>5, <1>6, <1>7, <1>8 DEF IInv

(* Recovery disables the plugin before it removes files (RecoverDisables). *)
LEMMA RecoverDisablesKeeps == ASSUME IInv, RecoverDisables PROVE IInv'
<1>c. /\ config' \in Configs /\ ~Enabled(config') /\ config' \in {config, Disabled(config)}
      /\ config' = config \/ Enabled(config)
  <2>1. ~Enabled(job.target) => ~Enabled(config)
    BY DEF IInv, InstallInv, RecoverDisables, InstallSteps
  <2>2. Enabled(job.target) => Enabled(config)
    BY DEF IInv, InstallInv, RecoverDisables, InstallSteps
  <2>3. Disabled(config) \in Configs /\ ~Enabled(Disabled(config))
    BY DEF IInv, TypeOK, Disabled, Configs, Enabled
  <2> QED
    BY <2>1, <2>2, <2>3 DEF RecoverDisables, IInv, TypeOK
<1>j. /\ job' \in Jobs /\ job'.kind = job.kind /\ job'.created = job.created
      /\ job'.restorable = job.restorable /\ job'.broken = job.broken /\ job'.failed = job.failed
      /\ job'.retried = job.retried /\ job'.stray = job.stray
  BY <1>c DEF IInv, TypeOK, JobTypes, Jobs, RecoverDisables
<1>u. /\ pc = "redisable" /\ pc' = "remove" /\ job.kind = "install"
      /\ UNCHANGED <<place, attic, under, pending, receipt, completion, spent, contested>>
  BY DEF RecoverDisables, disk, records, Go, IInv, TypeOK, UninstallSteps
<1>1. TypeOK'
  BY <1>c, <1>j, <1>u DEF IInv, TypeOK, InstallSteps
<1>2. JobTypes'
  BY <1>j, <1>u DEF IInv, JobTypes
<1>3. PlanInv' /\ IdsInv' /\ CallInv'
  BY <1>u DEF IInv, PlanInv, IdsInv, CallInv, InstallSteps, UninstallSteps
<1>4. InstallInv'
  BY <1>c, <1>j, <1>u DEF IInv, InstallInv, InstallSteps
<1>5. CarryInv'
  BY <1>u DEF IInv, CarryInv, AtticInv, TodoInv, StepInv
<1>6. ReceiptInv' /\ EnabledInv'
  BY <1>c, <1>u DEF IInv, ReceiptInv, EnabledInv, ReceiptValid, PlansReceipt
<1>7. QuietInv'
  <2>1. pending # NoPending => contested
    BY <1>u DEF IInv, CallInv, InstallSteps
  <2> QED
    BY <1>u, <2>1 DEF QuietInv, QuietPlan, QuietRoots, QuietRecords, QuietSteps,
       QuietRemoved, UninstallSteps
<1>8. RetryCompletes' /\ SuccessMeansRemoved'
  BY <1>u DEF RetryCompletes, SuccessMeansRemoved, Reported
<1> QED
  BY <1>1, <1>2, <1>3, <1>4, <1>5, <1>6, <1>7, <1>8 DEF IInv

(* Recovery removes what the call created, or part of it (RemoveCreated). *)
LEMMA RemoveCreatedKeeps == ASSUME IInv, RemoveCreated PROVE IInv'
<1>j. job' \in Jobs
  BY DEF IInv, TypeOK, JobTypes, Jobs, RemoveCreated
<1>s. spent' \in Counters /\ spent'.ids = spent.ids /\ spent'.unread = spent.unread
  <2>1. UNCHANGED spent \/ FailOnce
    BY DEF RemoveCreated
  <2> QED
    BY <2>1, FailFacts DEF IInv, JobTypes
<1>u. /\ pc = "remove" /\ pc' = "restore"
      /\ UNCHANGED <<config, attic, under, pending, receipt, completion, contested>>
      /\ job'.created = job.created /\ job'.restorable = job.restorable /\ job'.kind = job.kind
      /\ job'.broken = job.broken
      /\ job'.snapshot = job.snapshot /\ job'.failed = job.failed /\ job'.retried = job.retried
  BY DEF IInv, JobTypes, Jobs, RemoveCreated, Go, records
<1>p. PICK kept \in SUBSET {r \in Roots : job.created[r] # Nothing} :
        place' = [r \in Roots |->
                    IF \/ job.created[r] = Nothing
                       \/ r \in kept
                       \/ r = "data" /\ place["runtime"] # Nothing
                          /\ (job.created["runtime"] = Nothing \/ "runtime" \in kept)
                    THEN place[r] ELSE Nothing]
  BY DEF RemoveCreated
<1>q. /\ place' \in [Roots -> Ids]
      /\ \A r \in Roots : place'[r] \in {place[r], Nothing}
      /\ \A r \in Roots : job.created[r] = Nothing => place'[r] = place[r]
      /\ place'["runtime"] # Nothing => place'["data"] = place["data"]
  BY <1>p DEF IInv, TypeOK, Roots, Ids, Nothing
<1>1. TypeOK'
  BY <1>u, <1>q DEF IInv, TypeOK, InstallSteps, UninstallSteps, Roots
<1>2. JobTypes'
  BY <1>j, <1>s, <1>u DEF IInv, JobTypes
<1>3. PlanInv' /\ IdsInv' /\ CallInv'
  BY <1>s, <1>u, <1>q DEF IInv, PlanInv, IdsInv, CallInv, Counters, InstallSteps,
     UninstallSteps, Nothing
<1>4. InstallInv'
  BY <1>s, <1>u, <1>q DEF IInv, InstallInv, InstallSteps, Roots
<1>5. CarryInv'
  BY <1>u, <1>q DEF IInv, InstallInv, CarryInv, AtticInv, TodoInv, StepInv, InstallSteps,
     Roots
<1>6. ReceiptInv' /\ EnabledInv'
  BY <1>s, <1>u, <1>q DEF IInv, InstallInv, ReceiptInv, EnabledInv, InstallSteps, Roots,
     ReceiptValid, PlansReceipt
<1>7. QuietInv'
  BY <1>u DEF IInv, TypeOK, CallInv, QuietInv, QuietPlan, QuietRoots, QuietRecords,
     QuietSteps, QuietRemoved, UninstallSteps
<1>8. RetryCompletes' /\ SuccessMeansRemoved'
  BY <1>u DEF RetryCompletes, SuccessMeansRemoved, Reported
<1> QED
  BY <1>1, <1>2, <1>3, <1>4, <1>5, <1>6, <1>7, <1>8 DEF IInv

(* Recovery restores config.toml if nobody changed it (RestoreConfig). *)
LEMMA RestoreConfigKeeps == ASSUME IInv, RestoreConfig PROVE IInv'
<1>j. /\ job' \in Jobs /\ pc' = "idle" /\ job'.kind = job.kind /\ job'.result = "failed"
      /\ job'.broken = job.broken /\ job'.failed = job.failed /\ job'.retried = job.retried
      /\ job'.stray = job.stray
  BY EndFacts DEF IInv, RestoreConfig, Results
<1>u. /\ pc = "restore" /\ config' \in {config, job.snapshot}
      /\ (config' # config => PriorSafe /\ config = job.target)
      /\ UNCHANGED <<place, attic, under, pending, receipt, completion, spent, contested>>
  BY DEF RestoreConfig, disk, records
<1>t. /\ job.snapshot \in Configs
      /\ config' # config => (Enabled(job.snapshot) => job.restorable /\ place["cache"] # Nothing)
  BY <1>u DEF IInv, JobTypes, Jobs, PriorSafe
<1>1. TypeOK'
  BY <1>j, <1>u, <1>t DEF IInv, TypeOK
<1>2. JobTypes'
  BY <1>j, <1>u DEF IInv, JobTypes
<1>3. PlanInv' /\ IdsInv' /\ CallInv'
  BY <1>j, <1>u DEF IInv, PlanInv, IdsInv, CallInv, InstallSteps, UninstallSteps
<1>4. InstallInv'
  BY <1>j DEF InstallInv, InstallSteps
<1>5. CarryInv'
  BY <1>j, <1>u DEF IInv, CarryInv, AtticInv, TodoInv, StepInv
<1>6. ReceiptInv' /\ EnabledInv'
  BY <1>j, <1>u, <1>t DEF IInv, TypeOK, InstallInv, ReceiptInv, EnabledInv, ReceiptValid,
     PlansReceipt
<1>7. QuietInv'
  BY <1>j, <1>u DEF IInv, TypeOK, CallInv, QuietInv, QuietPlan, QuietRoots, QuietRecords,
     QuietSteps, QuietRemoved, UninstallSteps
<1>8. RetryCompletes' /\ SuccessMeansRemoved'
  BY <1>j, <1>u DEF IInv, TypeOK, CallInv, RetryCompletes, SuccessMeansRemoved,
     InstallSteps, Reported
<1> QED
  BY <1>1, <1>2, <1>3, <1>4, <1>5, <1>6, <1>7, <1>8 DEF IInv

(* Recovery fails as well, and leaves the plugin disabled (RecoveryFails). *)
LEMMA RecoveryFailsKeeps == ASSUME IInv, RecoveryFails PROVE IInv'
<1>j. /\ job' \in Jobs /\ job'.kind = "install" /\ job'.broken /\ job'.created = Empty
      /\ ~job'.failed /\ ~job'.retried /\ job'.result = "failed"
  <2>1. PICK n \in Jobs : n = NoJob
    BY NoJobTyped
  <2>2. n.created = Empty /\ ~n.failed /\ ~n.retried
    BY <2>1, NoJobTyped
  <2>3. job' = [n EXCEPT !.kind = "install", !.result = "failed", !.broken = TRUE]
    BY <2>1, Zenon DEF RecoveryFails
  <2> QED
    BY <2>2, <2>3 DEF Jobs, Results
<1>s. spent' \in Counters
  BY FailFacts DEF IInv, RecoveryFails
<1>u. /\ pc' = "idle" /\ spent'.ids = spent.ids /\ spent'.unread = spent.unread
      /\ UNCHANGED <<config, place, attic, under, pending, receipt, completion, contested>>
  BY FailFacts DEF IInv, RecoveryFails, disk, records
<1>1. TypeOK'
  BY <1>u DEF IInv, TypeOK
<1>2. JobTypes'
  BY <1>j, <1>s, <1>u DEF IInv, JobTypes
<1>3. PlanInv' /\ IdsInv' /\ CallInv'
  BY <1>u DEF IInv, PlanInv, IdsInv, CallInv, InstallSteps, UninstallSteps
<1>4. InstallInv'
  BY <1>u DEF InstallInv, InstallSteps
<1>5. CarryInv'
  BY <1>u DEF IInv, CarryInv, AtticInv, TodoInv, StepInv
<1>6. ReceiptInv' /\ EnabledInv'
  BY <1>j, <1>u DEF IInv, ReceiptInv, EnabledInv, ReceiptValid, PlansReceipt
<1>7. QuietInv'
  BY <1>u DEF IInv, QuietInv, QuietPlan, QuietRoots, QuietRecords, QuietSteps,
     QuietRemoved, UninstallSteps, PlansReceipt, Reverting, Finishing
<1>8. RetryCompletes' /\ SuccessMeansRemoved'
  BY <1>j DEF RetryCompletes, SuccessMeansRemoved, Reported
<1> QED
  BY <1>1, <1>2, <1>3, <1>4, <1>5, <1>6, <1>7, <1>8 DEF IInv

(* Somebody edits config.toml or replaces the runtime (Edit). *)
LEMMA EditKeeps == ASSUME IInv, Edit PROVE IInv'
<1>e. ~contested' => ~contested /\ pc = "idle" /\ pending = NoPending
  BY Zenon DEF Edit
<1>f. config' = [config EXCEPT !.edits = @ + 1] /\ config.edits < MaxEdits
      /\ UNCHANGED <<disk, records, pc, job, spent>>
      /\ contested' \in BOOLEAN
  BY DEF Edit
<1>1. TypeOK'
  BY DEF IInv, TypeOK, Edit, Configs, disk, records
<1>2. JobTypes'
  BY DEF IInv, JobTypes, Edit, records
<1>3. PlanInv' /\ IdsInv' /\ CallInv'
  BY <1>e, <1>f DEF IInv, PlanInv, IdsInv, CallInv, disk, records
<1>4. InstallInv'
  BY DEF IInv, InstallInv, Edit, disk, records, Enabled
<1>5. CarryInv'
  BY DEF IInv, CarryInv, AtticInv, TodoInv, StepInv, Edit, disk, records
<1>6. ReceiptInv' /\ EnabledInv'
  BY DEF IInv, ReceiptInv, EnabledInv, Edit, disk, records, Enabled, ReceiptValid,
     PlansReceipt
<1>7. QuietInv'
  BY <1>e DEF QuietInv, QuietPlan, QuietRoots, QuietRecords, QuietSteps, QuietRemoved,
     Edit, UninstallSteps, records
<1>8. RetryCompletes' /\ SuccessMeansRemoved'
  BY <1>e DEF IInv, RetryCompletes, SuccessMeansRemoved, Edit, disk, records, Removed, Reported,
     NothingUnfinished
<1> QED
  BY <1>1, <1>2, <1>3, <1>4, <1>5, <1>6, <1>7, <1>8 DEF IInv

(* The process dies at any step (Crash). *)
LEMMA CrashKeeps == ASSUME IInv, Crash PROVE IInv'
<1>j. job' \in Jobs /\ spent' \in Counters /\ spent'.ids = spent.ids /\ spent'.unread = spent.unread
  BY NoJobTyped DEF IInv, JobTypes, Counters, Crash
<1>k. job'.kind = "none" /\ ~job'.retried /\ job'.result = "none" /\ pc' = "idle"
      /\ UNCHANGED <<config, place, attic, under, pending, receipt, completion, contested>>
  BY Zenon, NoJobTyped DEF Crash, NoJob, disk, records
<1>1. TypeOK'
  BY <1>k DEF IInv, TypeOK
<1>2. JobTypes'
  BY <1>j, <1>k DEF IInv, JobTypes
<1>3. PlanInv' /\ IdsInv' /\ CallInv'
  BY <1>j, <1>k DEF IInv, PlanInv, IdsInv, CallInv, InstallSteps, UninstallSteps
<1>4. InstallInv'
  BY <1>k DEF InstallInv, InstallSteps
<1>5. CarryInv'
  BY <1>k DEF IInv, CarryInv, AtticInv, TodoInv, StepInv
<1>6. ReceiptInv' /\ EnabledInv'
  BY <1>j, <1>k DEF IInv, ReceiptInv, EnabledInv, ReceiptValid, PlansReceipt
<1>7. QuietInv'
  BY <1>k DEF IInv, QuietInv, QuietPlan, QuietRoots, QuietRecords, QuietSteps,
     QuietRemoved, UninstallSteps, PlansReceipt, Reverting, Finishing
<1>8. RetryCompletes' /\ SuccessMeansRemoved'
  BY <1>k DEF RetryCompletes, SuccessMeansRemoved, Reported
<1> QED
  BY <1>1, <1>2, <1>3, <1>4, <1>5, <1>6, <1>7, <1>8 DEF IInv

(* uninstall: the call plans, or goes on with an earlier plan              *)
(* (UninstallBegins).                                                      *)
LEMMA UninstallBeginsKeeps == ASSUME IInv, NEW purge \in BOOLEAN, UninstallBegins(purge) PROVE IInv'
<1>b. /\ job' \in Jobs /\ job'.kind = "uninstall" /\ job'.snapshot = config
      /\ job'.purge = purge /\ ~job'.failed /\ ~job'.undo /\ ~job'.broken
      /\ job'.retried = (pending # NoPending) /\ job'.stray = Stray
      /\ \/ pending = NoPending /\ pc' = "plan"
         \/ pending # NoPending /\ Reverting /\ pc' = "rollback"
            /\ job'.todo = Backwards(pending.order)
         \/ pending # NoPending /\ Finishing /\ pc' = "cleanup"
            /\ job'.todo = pending.order
         \/ pending # NoPending /\ ~Reverting /\ ~Finishing /\ pc' = "idle"
            /\ job'.result = "failed"
      /\ pc' # "idle" => job'.result = "none"
  BY BeginFacts DEF IInv
<1>u. /\ UNCHANGED <<config, place, attic, under, pending, receipt, completion>>
      /\ contested' \in BOOLEAN
      /\ ~contested' => ~contested \/ pending = NoPending
      /\ pc = "idle"
  BY DEF UninstallBegins, Called, disk, records
<1>v. pending # NoPending => (contested' <=> contested)
  BY Zenon DEF UninstallBegins
<1>s. spent' \in Counters /\ spent'.ids = spent.ids /\ spent'.unread = spent.unread
  BY CallFacts DEF IInv, UninstallBegins
<1>o. pending # NoPending => Members(Backwards(pending.order)) = Members(pending.order)
  BY BackwardsFacts DEF IInv, PlanInv, JobTypes, Plans
<1>t. job'.stray = FALSE /\ receipt = NoReceipt /\ completion.present => Removed
  BY <1>b, Zenon DEF Stray, Removed
<1>1. TypeOK'
  BY <1>b, <1>u DEF IInv, TypeOK, UninstallSteps
<1>2. JobTypes'
  BY <1>b, <1>u, <1>s DEF IInv, JobTypes
<1>3. PlanInv' /\ IdsInv' /\ CallInv'
  BY <1>b, <1>u, <1>s DEF IInv, PlanInv, IdsInv, CallInv, InstallSteps
<1>4. InstallInv'
  BY <1>b DEF InstallInv, InstallSteps
<1>5. CarryInv'
  BY <1>b, <1>u, <1>o DEF IInv, PlanInv, CarryInv, AtticInv, TodoInv, StepInv,
     WithoutPlugin, Configs, Jobs, Finishing
<1>6. ReceiptInv' /\ EnabledInv'
  BY <1>b, <1>u, <1>s DEF IInv, ReceiptInv, EnabledInv, ReceiptValid, PlansReceipt
<1>7. QuietInv'
  BY <1>b, <1>u, <1>t DEF IInv, QuietInv, QuietPlan, QuietRoots, QuietRecords, QuietSteps,
     QuietRemoved, PlansReceipt, Reverting, Finishing, Removed
<1>8. RetryCompletes' /\ SuccessMeansRemoved'
  BY <1>b, <1>v DEF IInv, QuietInv, RetryCompletes, SuccessMeansRemoved, QuietRoots,
     Reported
<1> QED
  BY <1>1, <1>2, <1>3, <1>4, <1>5, <1>6, <1>7, <1>8 DEF IInv

(* The plan is made from the receipt (PlanFromReceipt). *)
LEMMA PlanFromReceiptKeeps == ASSUME IInv, PlanFromReceipt PROVE IInv'
<1>a. /\ pc = "plan" /\ ReceiptValid /\ pc' = "quarantine"
      /\ UNCHANGED <<config, place, attic, under, receipt, completion, spent, contested>>
  BY DEF PlanFromReceipt, Go, disk
<1>b. receipt.runtime # Nothing /\ receipt.cache # Nothing /\ place["data"] # Nothing
      /\ pending = NoPending /\ job.kind = "uninstall" /\ job \in Jobs /\ config \in Configs
  BY <1>a DEF IInv, TypeOK, ReceiptInv, ReceiptValid, CallInv, JobTypes, InstallSteps
<1> DEFINE owned == IF job.purge THEN "data" ELSE "runtime"
           order == <<"cache", owned>>
           roots == [r \in Roots |-> IF \E i \in DOMAIN order : order[i] = r
                                     THEN place[r] ELSE Nothing]
<1>c. <<"cache">> \o OwnedWith(job.purge) = order
  <2>1. OwnedWith(job.purge) = <<owned>>
    BY <1>b, Zenon DEF OwnedWith
  <2>2. <<"cache">> \o <<owned>> = <<"cache", owned>>
    <3>1. "cache" \in Roots /\ owned \in Roots
      BY DEF Roots
    <3> QED
      BY <3>1, PairFacts
  <2> QED
    BY <2>1, <2>2
<1>d. order \in {<<"cache", "runtime">>, <<"cache", "data">>} /\ order \in Todos
      /\ \A r \in Roots : (\E i \in DOMAIN order : order[i] = r) <=> r \in {"cache", owned}
      /\ Members(order) = {"cache", owned}
  BY DEF Todos, Members
<1>e. /\ pending' = [phase |-> "prepared", before |-> job.snapshot,
                      after |-> WithoutPlugin(job.snapshot), roots |-> roots,
                      order |-> order, purge |-> job.purge, data |-> place["data"]]
      /\ job' = [job EXCEPT !.todo = order, !.target = WithoutPlugin(job.snapshot)]
  BY <1>c, Zenon DEF PlanFromReceipt
<1>r. /\ \A r \in Roots : roots[r] = IF r \in {"cache", owned} THEN place[r] ELSE Nothing
      /\ roots \in [Roots -> Ids]
  BY <1>d DEF IInv, TypeOK, Nothing, Ids
<1> HIDE DEF order, roots
<1>f. /\ pending'.phase = "prepared" /\ pending'.before = job.snapshot
      /\ pending'.after = WithoutPlugin(pending'.before) /\ pending'.order = order
      /\ pending'.purge = job.purge /\ pending'.data = place["data"]
      /\ pending'.roots = roots
  BY <1>e
<1>g. job.snapshot \in Configs /\ WithoutPlugin(job.snapshot) \in Configs
      /\ WithoutPlugin(job.snapshot).plugin = "absent"
  BY <1>b DEF Jobs, Configs, WithoutPlugin
<1>h. pending' \in Plans /\ pending' # NoPending
  <2>2. place["data"] \in Ids /\ job.purge \in BOOLEAN
    BY <1>b DEF IInv, TypeOK, Jobs, Roots
  <2> QED
    BY <1>d, <1>e, <1>g, <1>r, <2>2, NoPendingFacts DEF Plans
<1>j. /\ job' \in Jobs /\ job'.todo = order /\ job'.target = pending'.after
      /\ job'.snapshot = job.snapshot /\ job'.kind = job.kind /\ job'.broken = job.broken
      /\ job'.stray = job.stray /\ job'.failed = job.failed
  BY <1>b, <1>d, <1>e, <1>f, <1>g DEF Jobs
<1>1. TypeOK'
  BY <1>a, <1>f, <1>j DEF IInv, TypeOK, InstallSteps, UninstallSteps
<1>2. JobTypes'
  BY <1>a, <1>h, <1>j DEF IInv, JobTypes
<1>3. PlanInv' /\ IdsInv' /\ CallInv'
  BY <1>a, <1>b, <1>d, <1>e, <1>r, NoPendingFacts DEF IInv, PlanInv, IdsInv, CallInv,
     InstallSteps, Roots, ReceiptValid
<1>4. InstallInv'
  BY <1>a DEF InstallInv, InstallSteps
<1>5. CarryInv'
  BY <1>a, <1>b, <1>f, <1>j, NoPendingFacts DEF IInv, CarryInv, AtticInv, TodoInv, StepInv
<1>6. ReceiptInv' /\ EnabledInv'
  BY <1>a, <1>e, <1>r, NoPendingFacts DEF IInv, CallInv, CarryInv, ReceiptInv, EnabledInv,
     AtticInv, Roots, ReceiptValid, PlansReceipt
<1>7. QuietInv'
  BY <1>a, <1>b, <1>d, <1>e, <1>r, NoPendingFacts DEF IInv, CarryInv, QuietInv, AtticInv,
     QuietPlan, QuietRoots, QuietRecords, QuietSteps, QuietRemoved, Roots, ReceiptValid,
     PlansReceipt, Reverting, Finishing
<1>8. RetryCompletes' /\ SuccessMeansRemoved'
  BY <1>a DEF RetryCompletes, SuccessMeansRemoved, Reported
<1> QED
  BY <1>1, <1>2, <1>3, <1>4, <1>5, <1>6, <1>7, <1>8 DEF IInv

(* A purge after the uninstallation plans the data directory               *)
(* (PlanFromCompletion).                                                   *)
LEMMA PlanFromCompletionKeeps == ASSUME IInv, PlanFromCompletion PROVE IInv'
<1>a. /\ pc = "plan" /\ receipt = NoReceipt /\ PurgeProven /\ pc' = "quarantine"
      /\ UNCHANGED <<config, place, attic, under, receipt, completion, spent, contested>>
  BY DEF PlanFromCompletion, Go, disk
<1>b. pending = NoPending /\ job.kind = "uninstall" /\ job \in Jobs /\ config \in Configs
  BY <1>a DEF IInv, TypeOK, CallInv, JobTypes, InstallSteps
<1>d. /\ Members(<<"data">>) = {"data"} /\ <<"data">> \in Todos
  BY DEF Todos, Members
<1>e. /\ pending' = [phase |-> "prepared", before |-> job.snapshot, after |-> job.snapshot,
                      roots |-> [Empty EXCEPT !["data"] = place["data"]],
                      order |-> <<"data">>, purge |-> TRUE, data |-> completion.data]
      /\ job' = [job EXCEPT !.todo = <<"data">>, !.target = job.snapshot]
  BY Zenon DEF PlanFromCompletion
<1>f. /\ pending'.phase = "prepared" /\ pending'.before = job.snapshot
      /\ pending'.after = job.snapshot /\ pending'.order = <<"data">>
      /\ pending'.purge = TRUE /\ pending'.data = completion.data
      /\ \A r \in Roots : pending'.roots[r] = IF r = "data" THEN place[r] ELSE Nothing
  BY <1>e DEF Empty, Roots
<1>h. pending' \in Plans /\ pending' # NoPending
  <2>1. [Empty EXCEPT !["data"] = place["data"]] \in [Roots -> Ids]
    BY DEF IInv, TypeOK, Nothing, Ids, Empty, Roots
  <2>2. completion.data \in Ids /\ job.snapshot \in Configs
    BY <1>b DEF IInv, TypeOK, Jobs
  <2> QED
    BY <1>d, <1>e, <2>1, <2>2, NoPendingFacts DEF Plans
<1>j. /\ job' \in Jobs /\ job'.todo = <<"data">> /\ job'.target = pending'.after
      /\ job'.snapshot = job.snapshot /\ job'.kind = job.kind /\ job'.broken = job.broken
      /\ job'.stray = job.stray /\ job'.failed = job.failed
  BY <1>b, <1>d, <1>e, <1>f DEF Jobs
<1>1. TypeOK'
  BY <1>a, <1>f, <1>j DEF IInv, TypeOK, InstallSteps, UninstallSteps
<1>2. JobTypes'
  BY <1>a, <1>h, <1>j DEF IInv, JobTypes
<1>3. PlanInv' /\ IdsInv' /\ CallInv'
  BY <1>a, <1>d, <1>f, <1>h, PlanFacts DEF IInv, JobTypes, PlanInv, IdsInv, CallInv,
     PurgeProven, InstallSteps, Roots
<1>4. InstallInv'
  BY <1>a DEF InstallInv, InstallSteps
<1>5. CarryInv'
  BY <1>a, <1>b, <1>f, <1>j, NoPendingFacts DEF IInv, CarryInv, AtticInv, TodoInv,
     StepInv, Roots
<1>6. ReceiptInv' /\ EnabledInv'
  BY <1>a, <1>b, <1>f, NoPendingFacts DEF IInv, ReceiptInv, EnabledInv, Roots
<1>7. QuietInv'
  BY <1>a, <1>b, <1>d, <1>e, NoPendingFacts DEF IInv, CarryInv, QuietInv, AtticInv,
     QuietPlan, QuietRoots, QuietRecords, QuietSteps, QuietRemoved, PurgeProven,
     UninstallSteps, Roots, Reverting, Finishing, Removed, Empty
<1>8. RetryCompletes' /\ SuccessMeansRemoved'
  BY <1>a DEF RetryCompletes, SuccessMeansRemoved, Reported
<1> QED
  BY <1>1, <1>2, <1>3, <1>4, <1>5, <1>6, <1>7, <1>8 DEF IInv

(* Without a plan nothing is set aside. *)
LEMMA NothingAside == ASSUME TypeOK, CarryInv, pending = NoPending PROVE attic = Empty
<1>1. \A r \in Roots : attic[r] = Nothing
  BY NoPendingFacts DEF CarryInv, AtticInv
<1> QED
  BY <1>1 DEF TypeOK, Empty

(* There is nothing to remove (PlanIsEmpty). *)
LEMMA PlanIsEmptyKeeps == ASSUME IInv, PlanIsEmpty PROVE IInv'
<1>j. /\ job' \in Jobs /\ pc' = "idle" /\ job'.kind = job.kind /\ job'.result = "nothing"
      /\ job'.broken = job.broken /\ job'.failed = job.failed /\ job'.retried = job.retried
      /\ job'.stray = job.stray
  BY EndFacts DEF IInv, PlanIsEmpty, Results
<1>u. /\ pc = "plan" /\ receipt = NoReceipt /\ NothingToRemove
      /\ UNCHANGED <<config, place, attic, under, pending, receipt, completion, spent, contested>>
  BY DEF PlanIsEmpty, disk, records
<1>1. TypeOK'
  BY <1>j, <1>u DEF IInv, TypeOK
<1>2. JobTypes'
  BY <1>j, <1>u DEF IInv, JobTypes
<1>3. PlanInv' /\ IdsInv' /\ CallInv'
  BY <1>j, <1>u DEF IInv, PlanInv, IdsInv, CallInv, UninstallSteps
<1>4. InstallInv'
  BY <1>j DEF InstallInv, InstallSteps
<1>5. CarryInv'
  BY <1>j, <1>u DEF IInv, CarryInv, AtticInv, TodoInv, StepInv
<1>6. ReceiptInv' /\ EnabledInv'
  BY <1>j, <1>u DEF IInv, TypeOK, ReceiptInv, EnabledInv, InstallSteps
<1>7. QuietInv'
  BY <1>j, <1>u DEF IInv, QuietInv, QuietPlan, QuietRoots, QuietRecords, QuietSteps,
     QuietRemoved, UninstallSteps, Reverting, Finishing
<1>8. RetryCompletes' /\ SuccessMeansRemoved'
  <2>1. Reported' => (Removed \/ job.stray \/ contested)'
    BY <1>j, <1>u, NoPendingFacts DEF IInv, TypeOK, PlanInv, QuietInv, QuietPlan, QuietRoots,
       QuietRecords, QuietRemoved, HasTargets, WithoutPlugin, NothingToRemove, Configs, Roots,
       Finishing, Removed, Reported, CallInv, UninstallSteps
  <2>2. pending = NoPending /\ attic = Empty
    BY <1>u, NothingAside DEF IInv, CallInv
  <2> QED
    BY <1>j, <1>u, <2>1, <2>2 DEF RetryCompletes, SuccessMeansRemoved, NothingUnfinished
<1> QED
  BY <1>1, <1>2, <1>3, <1>4, <1>5, <1>6, <1>7, <1>8 DEF IInv

(* The plan is refused because identities do not match (PlanRefused). *)
LEMMA PlanRefusedKeeps == ASSUME IInv, PlanRefused PROVE IInv'
<1>j. /\ job' \in Jobs /\ pc' = "idle" /\ job'.kind = job.kind /\ job'.result = "failed"
      /\ job'.broken = job.broken /\ job'.failed = job.failed /\ job'.retried = job.retried
      /\ job'.stray = job.stray
  BY EndFacts DEF IInv, PlanRefused, Results
<1>u. /\ pc = "plan" /\ ~ReceiptValid
      /\ (receipt # NoReceipt \/ (~NothingToRemove /\ ~PurgeProven))
      /\ UNCHANGED <<config, place, attic, under, pending, receipt, completion, spent, contested>>
  BY DEF PlanRefused, disk, records
<1>1. TypeOK'
  BY <1>j, <1>u DEF IInv, TypeOK
<1>2. JobTypes'
  BY <1>j, <1>u DEF IInv, JobTypes
<1>3. PlanInv' /\ IdsInv' /\ CallInv'
  BY <1>j, <1>u DEF IInv, PlanInv, IdsInv, CallInv, UninstallSteps
<1>4. InstallInv'
  BY <1>j DEF InstallInv, InstallSteps
<1>5. CarryInv'
  BY <1>j, <1>u DEF IInv, CarryInv, AtticInv, TodoInv, StepInv
<1>6. ReceiptInv' /\ EnabledInv'
  BY <1>j, <1>u DEF IInv, TypeOK, CallInv, ReceiptInv, EnabledInv, InstallSteps
<1>7. QuietInv'
  BY <1>j, <1>u DEF IInv, QuietInv, QuietPlan, QuietRoots, QuietRecords, QuietSteps,
     QuietRemoved, UninstallSteps, PlansReceipt, Reverting, Finishing
<1>8. RetryCompletes' /\ SuccessMeansRemoved'
  BY <1>j, <1>u DEF IInv, QuietInv, RetryCompletes, SuccessMeansRemoved, QuietPlan,
     PurgeProven, NothingToRemove, Reported
<1> QED
  BY <1>1, <1>2, <1>3, <1>4, <1>5, <1>6, <1>7, <1>8 DEF IInv

(* One root is renamed to its quarantine name (Quarantine). *)
LEMMA QuarantineKeeps == ASSUME IInv, Quarantine PROVE IInv'
<1> DEFINE r == Head(job.todo)
<1>a. /\ pc = "quarantine" /\ pc' = "quarantine" /\ job.todo # <<>> /\ MoveAway(r)
      /\ place[r] = pending.roots[r] /\ attic[r] = Nothing
      /\ UNCHANGED <<config, pending, receipt, completion, spent, contested>>
  BY DEF Quarantine, records
<1>b. /\ job' = [job EXCEPT !.todo = Tail(@)] /\ job \in Jobs /\ job.kind = "uninstall"
      /\ r \in Roots /\ Tail(job.todo) \in Todos
      /\ Members(job.todo) = {r} \cup Members(Tail(job.todo)) /\ r \notin Members(Tail(job.todo))
  BY <1>a, HeadFacts DEF Quarantine
<1>j. /\ job' \in Jobs /\ job'.kind = job.kind /\ job.kind = "uninstall" /\ r \in Roots
      /\ Members(job.todo) = {r} \cup Members(job'.todo) /\ r \notin Members(job'.todo)
      /\ job'.snapshot = job.snapshot /\ job'.target = job.target /\ job'.broken = job.broken
      /\ job'.stray = job.stray /\ job'.failed = job.failed /\ job'.undo = job.undo
  BY <1>b DEF Jobs
<1> HIDE DEF r
<1>n. /\ place' \in [Roots -> Ids] /\ attic' \in [Roots -> Ids] /\ under' \in Ids
      /\ attic'[r] = place[r] /\ place'[r] = Nothing
      /\ \A q \in Roots : q # r => attic'[q] = attic[q]
      /\ r = "data" => under' = place["runtime"] /\ place'["runtime"] = Nothing
                       /\ place'["cache"] = place["cache"]
      /\ r # "data" => under' = under /\ (\A q \in Roots : q # r => place'[q] = place[q])
  BY <1>a, <1>j, MoveAwayFacts DEF IInv
<1>1. TypeOK'
  BY <1>a, <1>j, <1>n DEF IInv, TypeOK, Roots
<1>2. JobTypes'
  BY <1>a, <1>j DEF IInv, JobTypes
<1>3. PlanInv' /\ IdsInv' /\ CallInv'
  BY <1>a, <1>n DEF IInv, JobTypes, PlanInv, IdsInv, CallInv, Counters, Roots, Nothing
<1>4. InstallInv'
  BY <1>a DEF InstallInv, InstallSteps
<1>5. CarryInv'
  <2>1. AtticInv'
    BY <1>a, <1>n, PlanFacts DEF IInv, JobTypes, CarryInv, Roots, AtticInv
  <2>2. TodoInv'
    BY <1>a, <1>j, <1>n, PlanFacts DEF IInv, JobTypes, CarryInv, TodoInv
  <2>3. StepInv'
    BY <1>a, <1>j DEF IInv, CarryInv, StepInv
  <2> QED
    BY <2>1, <2>2, <2>3 DEF CarryInv
<1>6. ReceiptInv'
  <2>1. CASE r = "data"
    BY <2>1, <1>a, <1>j, <1>n DEF IInv, TypeOK, CallInv, ReceiptInv, PlansReceipt
  <2>2. CASE r = "cache"
    BY <2>2, <1>a, <1>n DEF IInv, CallInv, ReceiptInv, PlansReceipt, Roots, UninstallSteps
  <2>3. CASE r = "runtime"
    BY <1>a, <1>j, <1>n, PlanFacts DEF IInv, TypeOK, JobTypes, CallInv, ReceiptInv,
       PlansReceipt, Roots
  <2> QED
    BY <1>j, <2>1, <2>2, <2>3, SMT DEF Roots
<1>7. EnabledInv'
  BY <1>a, <1>n DEF IInv, EnabledInv, Roots
<1>8. QuietInv'
  <2>1. QuietPlan'
    BY <1>a DEF QuietPlan
  <2>2. QuietRoots'
    BY <1>a, <1>n, PlanFacts DEF IInv, TypeOK, JobTypes, QuietInv, Reverting,
       Finishing, Roots, QuietRoots
  <2>3. QuietRecords'
    BY <1>a, <1>n, PlanFacts DEF IInv, JobTypes, QuietInv, PlansReceipt, Roots,
       QuietRecords, QuietSteps
  <2>4. QuietSteps'
    BY <1>a, <1>j, <1>n, PlanFacts DEF IInv, JobTypes, CarryInv, QuietInv, Reverting,
       Roots, TodoInv, QuietSteps
  <2>5. QuietRemoved'
    BY <1>a, <1>j, <1>n DEF IInv, QuietInv, Roots, Removed, QuietRemoved
  <2> QED
    BY <2>1, <2>2, <2>3, <2>4, <2>5 DEF QuietInv
<1>9. RetryCompletes' /\ SuccessMeansRemoved'
  BY <1>a DEF RetryCompletes, SuccessMeansRemoved, Reported
<1> QED
  BY <1>1, <1>2, <1>3, <1>4, <1>5, <1>6, <1>7, <1>8, <1>9 DEF IInv

(* The plugin's tables leave config.toml (RemoveFromConfig). *)
LEMMA RemoveFromConfigKeeps == ASSUME IInv, RemoveFromConfig PROVE IInv'
<1>x. job.todo = <<>>
  BY DEF RemoveFromConfig
<1>a. /\ pc = "quarantine"
      /\ UNCHANGED <<place, attic, under, pending, receipt, completion, job, spent, contested>>
      /\ \/ pc' = "commit" /\ (job.target = job.snapshot => config' = config)
            /\ (job.target # job.snapshot => config = job.snapshot /\ config' = job.target)
         \/ /\ job.target # job.snapshot /\ config # job.snapshot
            /\ pc' = "handling" /\ config' = config
  BY Zenon DEF RemoveFromConfig, Go, disk, records
<1>b. Members(job.todo) = {} /\ job.target \in Configs /\ job.kind = "uninstall"
  BY <1>x, <1>a, TodoFacts DEF IInv, TypeOK, JobTypes, Jobs, InstallSteps
<1>1. TypeOK'
  BY <1>a, <1>b DEF IInv, TypeOK, UninstallSteps
<1>2. JobTypes'
  BY <1>a DEF IInv, JobTypes
<1>3. PlanInv' /\ IdsInv' /\ CallInv'
  BY <1>a DEF IInv, PlanInv, IdsInv, CallInv, InstallSteps, UninstallSteps
<1>4. InstallInv'
  BY <1>a DEF InstallInv, InstallSteps
<1>5. CarryInv'
  BY <1>a DEF IInv, JobTypes, PlanInv, CarryInv, AtticInv, TodoInv, StepInv,
     WithoutPlugin, Configs, Jobs
<1>6. ReceiptInv' /\ EnabledInv'
  BY <1>a DEF IInv, PlanInv, CarryInv, ReceiptInv, EnabledInv, StepInv, ReceiptValid,
     PlansReceipt
<1>7. QuietInv'
  BY <1>a, <1>b DEF IInv, PlanInv, CarryInv, QuietInv, TodoInv, StepInv, QuietPlan,
     QuietRoots, QuietRecords, QuietSteps, QuietRemoved, UninstallSteps, PlansReceipt,
     Reverting, Finishing, Removed
<1>8. RetryCompletes' /\ SuccessMeansRemoved'
  BY <1>a DEF RetryCompletes, SuccessMeansRemoved, Reported
<1> QED
  BY <1>1, <1>2, <1>3, <1>4, <1>5, <1>6, <1>7, <1>8 DEF IInv

(* The plan is marked committed (Commit). *)
LEMMA CommitKeeps == ASSUME IInv, Commit PROVE IInv'
<1>a. /\ pc = "commit" /\ pc' = "cleanup" /\ pending' = [pending EXCEPT !.phase = "committed"]
      /\ job' = [job EXCEPT !.todo = pending.order]
      /\ UNCHANGED <<config, place, attic, under, receipt, completion, spent, contested>>
  BY DEF Commit, Go, disk
<1>b. pending \in Plans /\ job \in Jobs /\ job.kind = "uninstall"
  BY <1>a DEF IInv, TypeOK, JobTypes, InstallSteps
<1>c. /\ pending' \in Plans /\ pending'.phase = "committed" /\ pending'.before = pending.before
      /\ pending'.after = pending.after /\ pending'.roots = pending.roots
      /\ pending'.order = pending.order /\ pending'.purge = pending.purge
      /\ pending'.data = pending.data /\ pending' # NoPending
  BY <1>a, <1>b, NoPendingFacts DEF Plans
<1>j. /\ job' \in Jobs /\ job'.todo = pending.order /\ job'.kind = job.kind
      /\ job'.snapshot = job.snapshot /\ job'.target = job.target /\ job'.broken = job.broken
      /\ job'.stray = job.stray /\ job'.failed = job.failed /\ job'.undo = job.undo
  BY <1>a, <1>b DEF Jobs, Plans
<1>1. TypeOK'
  BY <1>a, <1>b DEF IInv, TypeOK, UninstallSteps
<1>2. JobTypes'
  BY <1>a, <1>c, <1>j DEF IInv, JobTypes
<1>3. PlanInv' /\ IdsInv' /\ CallInv'
  BY <1>a, <1>c DEF IInv, PlanInv, IdsInv, CallInv, InstallSteps, UninstallSteps
<1>4. InstallInv'
  BY <1>a DEF InstallInv, InstallSteps
<1>5. CarryInv'
  BY <1>a DEF IInv, CarryInv, AtticInv, TodoInv, StepInv
<1>6. ReceiptInv' /\ EnabledInv'
  BY <1>a, <1>c DEF IInv, ReceiptInv, EnabledInv, ReceiptValid, PlansReceipt
<1>7. QuietInv'
  BY <1>a, <1>b DEF IInv, TypeOK, CallInv, QuietInv, QuietPlan, QuietRoots, QuietRecords,
     QuietSteps, QuietRemoved, Reverting, Finishing, Removed
<1>8. RetryCompletes' /\ SuccessMeansRemoved'
  BY <1>a DEF RetryCompletes, SuccessMeansRemoved, Reported
<1> QED
  BY <1>1, <1>2, <1>3, <1>4, <1>5, <1>6, <1>7, <1>8 DEF IInv

(* A failed step is undone or left to a retry (HandleFailure). *)
LEMMA HandleFailureKeeps == ASSUME IInv, HandleFailure PROVE IInv'
<1>a. /\ pc = "handling"
      /\ UNCHANGED <<config, place, attic, under, pending, receipt, completion, spent, contested>>
  BY DEF HandleFailure, disk, records
<1>b. /\ pending \in Plans /\ job \in Jobs /\ job.kind = "uninstall" /\ pending # NoPending
      /\ Backwards(pending.order) \in Todos
      /\ Members(Backwards(pending.order)) = Members(pending.order)
  BY <1>a, BackwardsFacts DEF IInv, TypeOK, JobTypes, InstallSteps, UninstallSteps,
     CallInv, PlanInv
<1>j. /\ \/ /\ Reverting /\ pc' = "rollback" /\ job'.todo = Backwards(pending.order) /\ job'.undo
         \/ /\ ~Reverting /\ pc' = "idle" /\ job'.result = "failed"
      /\ job' \in Jobs /\ job'.kind = job.kind
      /\ job'.broken = job.broken /\ job'.stray = job.stray /\ job'.failed = job.failed
      /\ job'.retried = job.retried
  <2>1. CASE CurrentPhase(pending) = "before"
    <3>1. Reverting
      BY <1>b, <2>1, Phases DEF IInv
    <3>2. job' = [job EXCEPT !.todo = Backwards(pending.order), !.undo = TRUE] /\ pc' = "rollback"
      BY <2>1, Zenon DEF HandleFailure, Go
    <3> QED
      BY <1>b, <3>1, <3>2 DEF Jobs
  <2>2. CASE CurrentPhase(pending) # "before"
    <3>1. ~Reverting
      BY <1>b, <2>2, Phases DEF IInv
    <3>2. End("failed")
      BY <2>2, Zenon DEF HandleFailure
    <3> QED
      BY <3>1, <3>2, EndFacts DEF IInv, Results
  <2> QED
    BY <2>1, <2>2
<1>1. TypeOK'
  BY <1>a, <1>j DEF IInv, TypeOK, InstallSteps, UninstallSteps
<1>2. JobTypes'
  BY <1>a, <1>j DEF IInv, JobTypes
<1>3. PlanInv' /\ IdsInv' /\ CallInv'
  BY <1>a, <1>j DEF IInv, PlanInv, IdsInv, CallInv, InstallSteps, UninstallSteps
<1>4. InstallInv'
  BY <1>j DEF InstallInv, InstallSteps
<1>5. CarryInv'
  BY <1>a, <1>b, <1>j DEF IInv, CarryInv, AtticInv, TodoInv, StepInv
<1>6. ReceiptInv' /\ EnabledInv'
  BY <1>a, <1>b, <1>j DEF IInv, ReceiptInv, EnabledInv, ReceiptValid, PlansReceipt
<1>7. QuietInv'
  BY <1>a, <1>j DEF IInv, QuietInv, QuietPlan, QuietRoots, QuietRecords, QuietSteps,
     QuietRemoved, UninstallSteps, PlansReceipt, Reverting, Finishing, Removed
<1>8. RetryCompletes' /\ SuccessMeansRemoved'
  BY <1>a, <1>b, <1>j DEF IInv, QuietInv, RetryCompletes, SuccessMeansRemoved, QuietSteps,
     Reported
<1> QED
  BY <1>1, <1>2, <1>3, <1>4, <1>5, <1>6, <1>7, <1>8 DEF IInv

(* One root is renamed back (RollBackRoot). *)
LEMMA RollBackRootKeeps == ASSUME IInv, RollBackRoot PROVE IInv'
<1>a. /\ pc = "rollback"
      /\ UNCHANGED <<config, pending, receipt, completion, spent, contested>>
  BY DEF RollBackRoot, records
<1> DEFINE r == Head(job.todo)
           state == RootState(pending, r)
<1>c. /\ job.todo \in Todos /\ job \in Jobs /\ job.kind = "uninstall"
      /\ pending # NoPending /\ Members(job.todo) \subseteq Members(pending.order)
  BY <1>a DEF IInv, TypeOK, JobTypes, Jobs, InstallSteps, UninstallSteps, CallInv,
     CarryInv, TodoInv
<1>x1. job.todo # <<>>
  BY DEF RollBackRoot
<1>x2. /\ r \in Roots /\ Tail(job.todo) \in Todos
       /\ Members(job.todo) = {r} \cup Members(Tail(job.todo)) /\ r \notin Members(Tail(job.todo))
  BY <1>x1, <1>c, TodoFacts
<1>f. pending.roots[r] # Nothing /\ r \in Members(pending.order) /\ r \in Roots
  BY <1>c, <1>x2, PlanFacts DEF IInv, JobTypes
<1>x3. /\ pc' = pc /\ job' = [job EXCEPT !.todo = Tail(job.todo),
                                  !.broken = job.broken \/ state \notin {"moved", "untouched"}]
       /\ state = "moved" => MoveBack(r)
       /\ state # "moved" => UNCHANGED disk
  BY Zenon DEF RollBackRoot
<1>s. /\ state = "untouched" <=> place[r] = pending.roots[r] /\ attic[r] = Nothing
      /\ state = "moved" <=> place[r] = Nothing /\ attic[r] = pending.roots[r]
  BY <1>f, RootStates
<1> HIDE DEF state, r
<1>j. /\ job' \in Jobs /\ job'.kind = job.kind /\ pc' = pc
      /\ Members(job.todo) = {r} \cup Members(job'.todo) /\ r \notin Members(job'.todo)
      /\ job'.snapshot = job.snapshot
      /\ (job'.broken <=> job.broken \/ state \notin {"moved", "untouched"})
      /\ job'.stray = job.stray /\ job'.failed = job.failed /\ job'.undo = job.undo
  BY <1>c, <1>x2, <1>x3 DEF Jobs
<1>n. /\ place' \in [Roots -> Ids] /\ attic' \in [Roots -> Ids] /\ under' \in Ids
      /\ \A q \in Roots : q # r => attic'[q] = attic[q]
      /\ state # "moved" => place' = place /\ attic' = attic /\ under' = under
      /\ state = "moved" => attic'[r] = Nothing /\ place'[r] = attic[r]
      /\ state = "moved" /\ r = "data" => /\ under' = Nothing /\ place'["runtime"] = under
                                         /\ place'["cache"] = place["cache"]
      /\ r # "data" => under' = under /\ (\A q \in Roots : q # r => place'[q] = place[q])
  <2>1. /\ place \in [Roots -> Ids] /\ attic \in [Roots -> Ids] /\ under \in Ids /\ r \in Roots
        /\ Nothing \in Ids /\ attic["data"] \in Ids /\ attic[r] \in Ids
    BY <1>f DEF IInv, TypeOK, Roots, Ids, Nothing
  <2>2. CASE state = "moved" /\ r = "data"
    <3> DEFINE p == [place EXCEPT !["data"] = attic["data"]]
    <3>1. p \in [Roots -> Ids] /\ p["data"] = attic["data"] /\ p["cache"] = place["cache"]
      BY <2>1 DEF Roots
    <3>2. /\ place' = [p EXCEPT !["runtime"] = under] /\ under' = Nothing
          /\ attic' = [attic EXCEPT ![r] = Nothing]
      BY <1>x3, <2>2, Zenon DEF MoveBack
    <3> HIDE DEF p
    <3> QED
      BY <2>1, <2>2, <3>1, <3>2 DEF Roots
  <2>3. CASE state = "moved" /\ r # "data"
    <3>1. /\ place' = [place EXCEPT ![r] = attic[r]] /\ under' = under
          /\ attic' = [attic EXCEPT ![r] = Nothing]
      BY <1>x3, <2>3, Zenon DEF MoveBack
    <3> QED
      BY <2>1, <2>3, <3>1
  <2>4. CASE state # "moved"
    BY <1>x3, <2>1, <2>4 DEF disk
  <2> QED
    BY <2>2, <2>3, <2>4
<1>1. TypeOK'
  BY <1>a, <1>j, <1>n DEF IInv, TypeOK, CarryInv, AtticInv, Roots
<1>2. JobTypes'
  BY <1>a, <1>j DEF IInv, JobTypes
<1>3. PlanInv' /\ IdsInv' /\ CallInv'
  BY <1>a, <1>s, <1>j, <1>n DEF IInv, PlanInv, IdsInv, CallInv, Roots
<1>4. InstallInv'
  BY <1>a, <1>j DEF InstallInv, InstallSteps
<1>5. CarryInv'
  BY <1>a, <1>s, <1>j, <1>n, PlanFacts DEF IInv, JobTypes, CarryInv, AtticInv, TodoInv,
     StepInv, Roots
<1>6. ReceiptInv' /\ EnabledInv'
  BY <1>a, <1>s, <1>j, <1>n DEF IInv, TypeOK, ReceiptInv, EnabledInv, Roots, ReceiptValid,
     PlansReceipt
<1>7. QuietInv'
  BY <1>a, <1>s, <1>j, <1>n, PlanFacts DEF IInv, JobTypes, CarryInv, QuietInv, AtticInv,
     TodoInv, QuietPlan, QuietRoots, QuietRecords, QuietSteps, QuietRemoved, Roots,
     PlansReceipt, Reverting, Finishing, Removed
<1>8. RetryCompletes' /\ SuccessMeansRemoved'
  BY <1>a, <1>j DEF RetryCompletes, SuccessMeansRemoved, Reported
<1> QED
  BY <1>1, <1>2, <1>3, <1>4, <1>5, <1>6, <1>7, <1>8 DEF IInv

(* The rollback is over and the plan goes (RollbackEnds). *)
LEMMA RollbackEndsKeeps == ASSUME IInv, RollbackEnds PROVE IInv'
<1>x. job.todo = <<>> /\ UNCHANGED disk
  BY DEF RollbackEnds
<1>a. /\ pc = "rollback" /\ UNCHANGED <<config, place, attic, under, receipt, completion, spent, contested>>
  BY DEF RollbackEnds, disk
<1>c. job \in Jobs /\ job.kind = "uninstall" /\ pending # NoPending /\ Members(job.todo) = {}
      /\ config \in Configs
  BY <1>x, <1>a, TodoFacts DEF IInv, TypeOK, JobTypes, Jobs, InstallSteps, UninstallSteps,
     CallInv
<1>j. /\ job' \in Jobs /\ job'.kind = job.kind /\ job'.broken = job.broken
      /\ job'.stray = job.stray /\ job'.failed = job.failed /\ job'.retried = job.retried
      /\ \/ job.broken /\ pending' = pending /\ pc' = "idle" /\ job'.result = "failed"
         \/ ~job.broken /\ job.undo /\ pending' = NoPending /\ pc' = "idle" /\ job'.result = "failed"
         \/ ~job.broken /\ ~job.undo /\ pending' = NoPending /\ pc' = "plan" /\ job'.snapshot = config
  <2>1. CASE job.broken
    <3>1. End("failed") /\ pending' = pending
      BY <2>1, Zenon DEF RollbackEnds
    <3> QED
      BY <2>1, <3>1, EndFacts DEF IInv, Results
  <2>2. CASE ~job.broken /\ job.undo
    <3>1. End("failed") /\ pending' = NoPending
      BY <2>2, Zenon DEF RollbackEnds
    <3> QED
      BY <2>2, <3>1, EndFacts DEF IInv, Results
  <2>3. CASE ~job.broken /\ ~job.undo
    <3>1. pc' = "plan" /\ job' = [job EXCEPT !.snapshot = config] /\ pending' = NoPending
      BY <2>3, Zenon DEF RollbackEnds, Go
    <3> QED
      BY <1>c, <2>3, <3>1 DEF Jobs
  <2> QED
    BY <2>1, <2>2, <2>3
<1>1. TypeOK'
  BY <1>a, <1>j, NoPendingFacts DEF IInv, TypeOK, InstallSteps, UninstallSteps
<1>2. JobTypes'
  BY <1>a, <1>j, NoPendingFacts DEF IInv, JobTypes
<1>3. PlanInv' /\ IdsInv' /\ CallInv'
  BY <1>a, <1>j, NoPendingFacts, PlanFacts DEF IInv, JobTypes, PlanInv, IdsInv, CallInv,
     InstallSteps, UninstallSteps, Roots
<1>4. InstallInv'
  BY <1>j DEF InstallInv, InstallSteps
<1>5. CarryInv'
  BY <1>a, <1>c, <1>j, PlanFacts DEF IInv, JobTypes, CarryInv, AtticInv, TodoInv, StepInv,
     Roots
<1>6. ReceiptInv' /\ EnabledInv'
  BY <1>a, <1>c, <1>j, PlanFacts DEF IInv, JobTypes, CarryInv, ReceiptInv, EnabledInv,
     TodoInv, Roots, ReceiptValid, PlansReceipt
<1>7. QuietInv'
  BY <1>a, <1>c, <1>j, PlanFacts DEF IInv, JobTypes, CarryInv, QuietInv, TodoInv,
     QuietPlan, QuietRoots, QuietRecords, QuietSteps, QuietRemoved, UninstallSteps, Roots,
     ReceiptValid, PlansReceipt, Reverting, Finishing, Removed
<1>8. RetryCompletes' /\ SuccessMeansRemoved'
  BY <1>a, <1>c, <1>j DEF IInv, QuietInv, RetryCompletes, SuccessMeansRemoved, QuietSteps,
     Reported
<1> QED
  BY <1>1, <1>2, <1>3, <1>4, <1>5, <1>6, <1>7, <1>8 DEF IInv

(* One quarantined root is deleted (CleanUpRoot). *)
LEMMA CleanUpRootKeeps == ASSUME IInv, CleanUpRoot PROVE IInv'
<1>a. /\ pc = "cleanup"
      /\ UNCHANGED <<config, pending, receipt, completion, spent, contested>>
  BY DEF CleanUpRoot, records
<1> DEFINE r == Head(job.todo)
           state == RootState(pending, r)
<1>c. /\ job.todo \in Todos /\ job \in Jobs /\ job.kind = "uninstall"
      /\ pending # NoPending /\ Members(job.todo) \subseteq Members(pending.order)
  BY <1>a DEF IInv, TypeOK, JobTypes, Jobs, InstallSteps, UninstallSteps, CallInv,
     CarryInv, TodoInv
<1>x1. job.todo # <<>>
  BY DEF CleanUpRoot
<1>x2. /\ r \in Roots /\ Tail(job.todo) \in Todos
       /\ Members(job.todo) = {r} \cup Members(Tail(job.todo)) /\ r \notin Members(Tail(job.todo))
  BY <1>x1, <1>c, TodoFacts
<1>f. pending.roots[r] # Nothing /\ r \in Members(pending.order) /\ r \in Roots
  BY <1>c, <1>x2, PlanFacts DEF IInv, JobTypes
<1>s. /\ state = "moved" <=> place[r] = Nothing /\ attic[r] = pending.roots[r]
      /\ state = "moved_with_newcomer" =>
           place[r] \notin {Nothing, pending.roots[r]} /\ attic[r] = pending.roots[r]
      /\ state = "cleaned" <=> place[r] # pending.roots[r] /\ attic[r] = Nothing
  BY <1>f, RootStates
<1>x3. \/ /\ state \in {"moved", "moved_with_newcomer"} /\ DeleteMoved(r)
          /\ pc' = pc /\ job' = [job EXCEPT !.todo = Tail(job.todo)]
       \/ state = "cleaned" /\ UNCHANGED disk
          /\ pc' = pc /\ job' = [job EXCEPT !.todo = Tail(job.todo)]
       \/ state \notin {"moved", "moved_with_newcomer", "cleaned"} /\ UNCHANGED disk /\ End("failed")
  BY Zenon DEF CleanUpRoot
<1> HIDE DEF state, r
<1>j. /\ job' \in Jobs /\ job'.kind = job.kind
      /\ job'.broken = job.broken
      /\ job'.stray = job.stray /\ job'.failed = job.failed /\ job'.retried = job.retried
      /\ \/ /\ pc' = "cleanup" /\ Members(job.todo) = {r} \cup Members(job'.todo)
            /\ r \notin Members(job'.todo)
            /\ state \in {"moved", "moved_with_newcomer", "cleaned"}
         \/ pc' = "idle" /\ job'.result = "failed" /\ state \notin {"moved", "moved_with_newcomer", "cleaned"}
  <2>1. CASE pc' = pc /\ job' = [job EXCEPT !.todo = Tail(job.todo)]
             /\ state \in {"moved", "moved_with_newcomer", "cleaned"}
    BY <1>a, <1>c, <1>x2, <2>1 DEF Jobs
  <2>2. CASE End("failed") /\ state \notin {"moved", "moved_with_newcomer", "cleaned"}
    BY <2>2, EndFacts DEF IInv, Results
  <2> QED
    BY <1>x3, <2>1, <2>2
<1>n. /\ attic' \in [Roots -> Ids] /\ under' \in Ids /\ place' = place
      /\ \A q \in Roots : q # r => attic'[q] = attic[q]
      /\ attic'[r] \in {attic[r], Nothing} /\ (r # "data" => under' = under)
      /\ attic'[r] = attic[r] => under' = under
      /\ attic'[r] = Nothing /\ r = "data" => under' = Nothing
      /\ pc' = "cleanup" => attic'[r] = Nothing
  <2>1. /\ attic \in [Roots -> Ids] /\ under \in Ids /\ r \in Roots /\ Nothing \in Ids
        /\ under # Nothing => attic["data"] # Nothing
    BY <1>f DEF IInv, TypeOK, Roots, Ids, Nothing
  <2>2. CASE DeleteMoved(r) /\ attic[r] = pending.roots[r]
    <3>1. /\ attic' = [attic EXCEPT ![r] = Nothing] /\ place' = place
          /\ under' = IF r = "data" THEN Nothing ELSE under
      BY <2>2, Zenon DEF DeleteMoved
    <3> QED
      BY <1>f, <2>1, <2>2, <3>1
  <2>3. CASE UNCHANGED disk /\ (pc' = "cleanup" => attic[r] = Nothing)
    BY <2>1, <2>3 DEF disk
  <2>4. pc' = "cleanup" /\ UNCHANGED disk => state \in {"cleaned", "moved", "moved_with_newcomer"}
    BY <1>j
  <2> QED
    BY <1>x3, <1>s, <1>j, <2>2, <2>3
<1>1. TypeOK'
  BY <1>a, <1>j, <1>n DEF IInv, TypeOK, Roots
<1>2. JobTypes'
  BY <1>a, <1>j DEF IInv, JobTypes
<1>3. PlanInv' /\ IdsInv' /\ CallInv'
  BY <1>a, <1>j, <1>n DEF IInv, JobTypes, PlanInv, IdsInv, CallInv, Counters,
     InstallSteps, UninstallSteps, Nothing
<1>4. InstallInv'
  BY <1>j DEF InstallInv, InstallSteps
<1>5. CarryInv'
  BY <1>a, <1>j, <1>n, PlanFacts DEF IInv, JobTypes, CarryInv, AtticInv, TodoInv, StepInv
<1>6. ReceiptInv' /\ EnabledInv'
  BY <1>a, <1>j, <1>n DEF IInv, TypeOK, ReceiptInv, EnabledInv, InstallSteps, Roots,
     ReceiptValid, PlansReceipt
<1>7. QuietInv'
  BY <1>a, <1>j, <1>n DEF IInv, QuietInv, QuietPlan, QuietRoots, QuietRecords, QuietSteps,
     QuietRemoved, UninstallSteps, Reverting, Finishing, Removed
<1>8. RetryCompletes' /\ SuccessMeansRemoved'
  BY <1>a, <1>f, <1>s, <1>j DEF IInv, TypeOK, CallInv, CarryInv, QuietInv, RetryCompletes,
     SuccessMeansRemoved, AtticInv, QuietRoots, QuietSteps, Reported
<1> QED
  BY <1>1, <1>2, <1>3, <1>4, <1>5, <1>6, <1>7, <1>8 DEF IInv

(* The completion record is written (MarkComplete). *)
LEMMA MarkCompleteKeeps == ASSUME IInv, MarkComplete PROVE IInv'
<1>x. job.todo = <<>>
  BY DEF MarkComplete
<1>a. /\ pc = "cleanup" /\ pc' = "receipt" /\ completion' = [present |-> TRUE, data |-> pending.data]
      /\ UNCHANGED <<config, place, attic, under, pending, receipt, job, spent, contested>>
  BY DEF MarkComplete, Go, disk
<1>b. completion'.present /\ completion'.data = pending.data
      /\ completion' \in [present : BOOLEAN, data : Ids]
  BY <1>a DEF IInv, JobTypes, Plans
<1>c. Members(job.todo) = {} /\ job.kind = "uninstall" /\ pending # NoPending
  BY <1>a, <1>x, TodoFacts DEF IInv, TypeOK, JobTypes, Jobs, InstallSteps, UninstallSteps,
     CallInv
<1>1. TypeOK'
  BY <1>a, <1>b DEF IInv, TypeOK, InstallSteps, UninstallSteps
<1>2. JobTypes'
  BY <1>a DEF IInv, JobTypes
<1>3. PlanInv' /\ IdsInv' /\ CallInv'
  BY <1>a DEF IInv, PlanInv, IdsInv, CallInv, InstallSteps, UninstallSteps
<1>4. InstallInv'
  BY <1>a DEF InstallInv, InstallSteps
<1>5. CarryInv'
  BY <1>a, <1>c DEF IInv, TypeOK, PlanInv, CarryInv, AtticInv, TodoInv, StepInv, Empty
<1>6. ReceiptInv' /\ EnabledInv'
  BY <1>a DEF IInv, ReceiptInv, EnabledInv, ReceiptValid, PlansReceipt
<1>7. QuietInv'
  BY <1>a, <1>c DEF IInv, QuietInv, QuietPlan, QuietRoots, QuietRecords, QuietSteps,
     QuietRemoved, UninstallSteps, Reverting, Finishing, Removed
<1>8. RetryCompletes' /\ SuccessMeansRemoved'
  BY <1>a DEF RetryCompletes, SuccessMeansRemoved, Reported
<1> QED
  BY <1>1, <1>2, <1>3, <1>4, <1>5, <1>6, <1>7, <1>8 DEF IInv

(* The receipt goes (RemoveReceipt). *)
LEMMA RemoveReceiptKeeps == ASSUME IInv, RemoveReceipt PROVE IInv'
<1>1. TypeOK'
  BY DEF IInv, TypeOK, RemoveReceipt, InstallSteps, UninstallSteps, Ids, Nothing, disk,
     Go, NoReceipt
<1>2. JobTypes'
  BY DEF IInv, JobTypes, RemoveReceipt
<1>3. PlanInv' /\ IdsInv' /\ CallInv'
  BY DEF IInv, JobTypes, PlanInv, IdsInv, CallInv, RemoveReceipt, Counters, InstallSteps,
     UninstallSteps, Nothing, disk, Go, NoReceipt
<1>4. InstallInv'
  BY DEF InstallInv, RemoveReceipt, InstallSteps, Go
<1>5. CarryInv'
  BY DEF IInv, CarryInv, AtticInv, TodoInv, StepInv, RemoveReceipt, disk, Go
<1>6. ReceiptInv' /\ EnabledInv'
  BY DEF IInv, ReceiptInv, EnabledInv, RemoveReceipt, disk, Go
<1>7. QuietInv'
  BY DEF IInv, TypeOK, CallInv, QuietInv, QuietPlan, QuietRoots, QuietRecords, QuietSteps,
     QuietRemoved, RemoveReceipt, InstallSteps, disk, Go, Reverting, Finishing, Removed
<1>8. RetryCompletes' /\ SuccessMeansRemoved'
  BY DEF RetryCompletes, SuccessMeansRemoved, RemoveReceipt, Go, Reported
<1> QED
  BY <1>1, <1>2, <1>3, <1>4, <1>5, <1>6, <1>7, <1>8 DEF IInv

(* The plan goes, and the call has succeeded (RemovePending). *)
LEMMA RemovePendingKeeps == ASSUME IInv, RemovePending PROVE IInv'
<1>a. /\ pc = "pending" /\ pending' = NoPending
      /\ UNCHANGED <<config, place, attic, under, receipt, completion, spent, contested>>
  BY DEF RemovePending, disk
<1>j. /\ job' \in Jobs /\ pc' = "idle" /\ job'.kind = job.kind /\ job'.result = "removed"
      /\ job'.broken = job.broken /\ job'.failed = job.failed /\ job'.retried = job.retried
      /\ job'.stray = job.stray
  BY EndFacts DEF IInv, RemovePending, Results
<1>c. pending # NoPending /\ job.kind = "uninstall"
  BY <1>a DEF IInv, TypeOK, InstallSteps, UninstallSteps, CallInv
<1>1. TypeOK'
  BY <1>a, <1>j, NoPendingFacts DEF IInv, TypeOK
<1>2. JobTypes'
  BY <1>a, <1>j, NoPendingFacts DEF IInv, JobTypes
<1>3. PlanInv' /\ IdsInv' /\ CallInv'
  BY <1>a, <1>j, NoPendingFacts, PlanFacts DEF IInv, JobTypes, PlanInv, IdsInv, CallInv,
     UninstallSteps, Roots
<1>4. InstallInv'
  BY <1>j DEF InstallInv, InstallSteps
<1>5. CarryInv'
  BY <1>a, <1>j, NoPendingFacts DEF IInv, CarryInv, AtticInv, TodoInv, StepInv, Roots,
     Empty
<1>6. ReceiptInv' /\ EnabledInv'
  BY <1>a, <1>j DEF IInv, CarryInv, ReceiptInv, EnabledInv, StepInv, Enabled
<1>7. QuietInv'
  BY <1>a, <1>j DEF QuietInv, QuietPlan, QuietRoots, QuietRecords, QuietSteps,
     QuietRemoved, UninstallSteps
<1>8. RetryCompletes' /\ SuccessMeansRemoved'
  <2>1. Reported' => (Removed \/ job.stray \/ contested)'
    BY <1>a, <1>j, <1>c DEF IInv, TypeOK, PlanInv, QuietInv, QuietRoots, QuietRecords,
       QuietSteps, QuietRemoved, WithoutPlugin, Configs, Roots, Finishing, Removed
  <2>2. receipt = NoReceipt /\ attic = Empty
    BY <1>a DEF IInv, CarryInv, StepInv, TodoInv
  <2> QED
    BY <1>a, <1>j, <2>1, <2>2 DEF RetryCompletes, SuccessMeansRemoved, NothingUnfinished
<1> QED
  BY <1>1, <1>2, <1>3, <1>4, <1>5, <1>6, <1>7, <1>8 DEF IInv

(* A step of the uninstallation fails (UninstallStepFails). *)
LEMMA UninstallStepFailsKeeps == ASSUME IInv, UninstallStepFails PROVE IInv'
<1>a. job.kind = "uninstall" /\ pc # "idle"
      /\ UNCHANGED <<config, place, attic, under, pending, receipt, completion, contested>>
  BY StepFailsCases DEF UninstallStepFails, disk, records
<1>s. spent' \in Counters /\ spent'.ids = spent.ids /\ spent'.unread = spent.unread
  BY FailFacts DEF IInv, UninstallStepFails
<1>j. /\ job' \in Jobs /\ job'.kind = "uninstall" /\ job'.failed
      /\ \/ /\ pc \in {"quarantine", "commit"} /\ pc' = "handling"
            /\ job'.broken = job.broken /\ job'.stray = job.stray
         \/ /\ pc = "rollback" /\ pc' = "rollback" /\ job'.broken
            /\ Members(job'.todo) \subseteq Members(job.todo) /\ job'.stray = job.stray
         \/ pc' = "idle" /\ job'.result = "failed"
  <2>1. job \in Jobs /\ job.todo \in Todos
    BY DEF IInv, JobTypes, Jobs
  <2>2. CASE pc \in {"quarantine", "commit"} /\ pc' = "handling" /\ job' = [job EXCEPT !.failed = TRUE]
    BY <1>a, <2>1, <2>2 DEF Jobs
  <2>3. CASE pc = "rollback" /\ job.todo # <<>> /\ pc' = pc
             /\ job' = [job EXCEPT !.todo = Tail(@), !.broken = TRUE, !.failed = TRUE]
    <3>1. Tail(job.todo) \in Todos /\ Members(Tail(job.todo)) \subseteq Members(job.todo)
      BY <2>1, <2>3, TodoFacts
    <3> QED
      BY <1>a, <2>1, <2>3, <3>1 DEF Jobs
  <2>4. CASE /\ pc' = "idle"
             /\ job' = [NoJob EXCEPT !.kind = "uninstall", !.result = "failed",
                                     !.retried = job.retried, !.failed = TRUE]
    <3>1. PICK n \in Jobs : n = NoJob
      BY NoJobTyped
    <3>2. job' = [n EXCEPT !.kind = "uninstall", !.result = "failed",
                           !.retried = job.retried, !.failed = TRUE]
      BY <2>4, <3>1, Zenon
    <3> QED
      BY <2>1, <2>4, <3>2 DEF Jobs, Results
  <2> QED
    BY <2>2, <2>3, <2>4, StepFailsCases
<1>1. TypeOK'
  BY <1>a, <1>j DEF IInv, TypeOK, UninstallSteps
<1>2. JobTypes'
  BY <1>a, <1>s, <1>j DEF IInv, JobTypes
<1>3. PlanInv' /\ IdsInv' /\ CallInv'
  BY <1>a, <1>s, <1>j DEF IInv, PlanInv, IdsInv, CallInv, InstallSteps, UninstallSteps
<1>4. InstallInv'
  BY <1>j DEF InstallInv, InstallSteps
<1>5. CarryInv'
  BY <1>a, <1>j DEF IInv, CarryInv, AtticInv, TodoInv, StepInv
<1>6. ReceiptInv' /\ EnabledInv'
  BY <1>a, <1>s, <1>j DEF IInv, ReceiptInv, EnabledInv, ReceiptValid, PlansReceipt
<1>7. QuietInv'
  BY <1>a, <1>j DEF IInv, QuietInv, QuietPlan, QuietRoots, QuietRecords, QuietSteps,
     QuietRemoved, UninstallSteps, PlansReceipt, Reverting, Finishing, Removed
<1>8. RetryCompletes' /\ SuccessMeansRemoved'
  BY <1>j DEF RetryCompletes, SuccessMeansRemoved, Reported
<1> QED
  BY <1>1, <1>2, <1>3, <1>4, <1>5, <1>6, <1>7, <1>8 DEF IInv

(* At first nothing is installed, or all of it with its receipt. *)
LEMMA InitInv == Init => IInv
<1> SUFFICES ASSUME Init PROVE IInv
  OBVIOUS
<1>1. Clean \in Configs /\ Clean.plugin = "absent"
  BY DEF Clean, Configs
<1>2. PICK c \in Configs : c = Clean
  BY <1>1
<1>3. [c EXCEPT !.plugin = "on"] \in Configs /\ [c EXCEPT !.plugin = "on"].plugin = "on"
  BY DEF Configs
<1>4. /\ config \in Configs
      /\ \/ /\ config.plugin = "absent" /\ place = Empty /\ receipt = NoReceipt
         \/ /\ config.plugin = "on" /\ place = [cache |-> 1, runtime |-> 2, data |-> 3]
            /\ receipt = [cache |-> 1, runtime |-> 2]
  BY <1>1, <1>2, <1>3 DEF Init
<1>5. /\ attic = Empty /\ under = Nothing /\ pending = NoPending /\ completion = NoCompletion
      /\ pc = "idle" /\ job = NoJob /\ contested = FALSE
      /\ spent = [ids |-> 3, calls |-> 0, failures |-> 0, crashes |-> 0, unread |-> 0]
  BY DEF Init
<1>6. /\ place \in [Roots -> Ids] /\ attic = Empty /\ attic \in [Roots -> Ids]
      /\ receipt \in [cache : Ids, runtime : Ids] /\ completion \in [present : BOOLEAN, data : Ids]
      /\ place["runtime"] # Nothing => place["data"] # Nothing
      /\ \A r \in Roots : attic[r] = Nothing /\ place[r] <= 3
      /\ receipt.cache <= 3 /\ receipt.runtime <= 3
      /\ receipt # NoReceipt =>
           /\ place["cache"] = receipt.cache /\ place["runtime"] = receipt.runtime
           /\ receipt.cache # Nothing /\ receipt.runtime # Nothing
      /\ Enabled(config) => place["cache"] # Nothing
  BY <1>4, <1>5 DEF Empty, Roots, Ids, Nothing, NoReceipt, NoCompletion, Enabled
<1>7. spent \in Counters /\ spent.ids = 3 /\ spent.unread = 0
  BY <1>5 DEF Counters
<1>8. TypeOK
  BY <1>4, <1>5, <1>6, NoPendingFacts DEF TypeOK, Ids, Nothing
<1>9. JobTypes /\ PlanInv
  BY <1>5, <1>7, NoJobTyped, NoPendingFacts DEF JobTypes, PlanInv
<1>10. IdsInv /\ CallInv /\ InstallInv
  BY <1>5, <1>6, <1>7, NoPendingFacts DEF IdsInv, CallInv, InstallInv, InstallSteps,
     UninstallSteps, Nothing
<1>11. CarryInv
  BY <1>5, <1>6, NoPendingFacts DEF CarryInv, AtticInv, TodoInv, StepInv, Roots
<1>14. ReceiptInv /\ EnabledInv
  BY <1>5, <1>6 DEF ReceiptInv, ReceiptValid, EnabledInv
<1>12. QuietInv
  BY <1>5, NoPendingFacts
     DEF QuietInv, QuietPlan, QuietRoots, QuietRecords, QuietSteps, QuietRemoved, UninstallSteps
<1>13. RetryCompletes /\ SuccessMeansRemoved
  BY <1>5, NoJobTyped DEF RetryCompletes, SuccessMeansRemoved, Reported
<1> QED
  BY <1>8, <1>9, <1>10, <1>11, <1>12, <1>13, <1>14 DEF IInv

(* A step that changes nothing. *)
LEMMA StutterKeeps == ASSUME IInv, UNCHANGED vars PROVE IInv'
BY DEF IInv, vars, disk, records, TypeOK, JobTypes, PlanInv, IdsInv, CallInv, InstallInv,
       CarryInv, AtticInv, TodoInv, StepInv, ReceiptInv, ReceiptValid, PlansReceipt, EnabledInv,
       Enabled, Reverting, Finishing, QuietInv, QuietPlan, QuietRoots, QuietRecords, QuietSteps,
       QuietRemoved, Removed, RetryCompletes, Reported, SuccessMeansRemoved, NothingUnfinished

(* Every step of the installer, the uninstaller and their surroundings     *)
(* keeps it.                                                               *)
LEMMA NextInv == IInv /\ [Next]_vars => IInv'
<1> SUFFICES ASSUME IInv, [Next]_vars PROVE IInv'
  OBVIOUS
<1>1. CASE InstallNext
  BY <1>1, InstallBeginsKeeps, PrepareDataRootKeeps, PrepareRuntimeKeeps,
     ConfirmInstalledKeeps, DisablePluginKeeps, PublishCacheKeeps, PublishDisabledKeeps,
     PublishEnabledKeeps, VerifyEnabledKeeps, PublishReceiptKeeps, ReadReceiptBackKeeps,
     ClearCompletionKeeps, InstallStepFailsKeeps, RecoverObservesKeeps,
     RecoverDisablesKeeps, RemoveCreatedKeeps, RestoreConfigKeeps, RecoveryFailsKeeps
     DEF InstallNext
<1>2. CASE UninstallNext
  BY <1>2, UninstallBeginsKeeps, PlanFromReceiptKeeps, PlanFromCompletionKeeps,
     PlanIsEmptyKeeps, PlanRefusedKeeps, QuarantineKeeps, RemoveFromConfigKeeps,
     CommitKeeps, HandleFailureKeeps, RollBackRootKeeps, RollbackEndsKeeps,
     CleanUpRootKeeps, MarkCompleteKeeps, RemoveReceiptKeeps, RemovePendingKeeps,
     UninstallStepFailsKeeps
     DEF UninstallNext
<1> QED
  BY <1>1, <1>2, EditKeeps, CrashKeeps, StutterKeeps DEF Next

-----------------------------------------------------------------------------
(* What a step takes away. *)

IsPresent(i) == i # Nothing /\ (i = under \/ \E r \in Roots : i = place[r] \/ i = attic[r])

(* A directory is present under its own or its quarantine name, or within  *)
(* the data.                                                               *)
LEMMA PresentMeans == \A i : i \in Present <=> IsPresent(i)
BY DEF Present, IsPresent

(* Most steps leave the directories alone; the installer creates some.     *)
LEMMA DiskSteps ==
    ASSUME [Next]_vars
    PROVE  \/ UNCHANGED disk
           \/ \E r \in Roots : Provide(r) /\ UNCHANGED <<attic, under>>
           \/ Quarantine \/ RollBackRoot \/ CleanUpRoot \/ RemoveCreated
<1>1. CASE UNCHANGED vars
  BY <1>1 DEF vars
<1>2. CASE Edit \/ Crash
  BY <1>2 DEF Edit, Crash
<1>3. CASE \E purge \in BOOLEAN : UninstallBegins(purge)
  BY <1>3 DEF UninstallBegins
<1>4. CASE \/ PlanFromReceipt \/ PlanFromCompletion \/ PlanIsEmpty \/ PlanRefused
           \/ RemoveFromConfig \/ Commit \/ HandleFailure \/ RollbackEnds
           \/ MarkComplete \/ RemoveReceipt \/ RemovePending \/ UninstallStepFails
  BY <1>4 DEF PlanFromReceipt, PlanFromCompletion, PlanIsEmpty, PlanRefused,
     RemoveFromConfig,
              Commit, HandleFailure, RollbackEnds, MarkComplete, RemoveReceipt, RemovePending,
              UninstallStepFails
<1>5. CASE PrepareDataRoot \/ PrepareRuntime \/ PublishCache
  <2>1. "data" \in Roots /\ "runtime" \in Roots /\ "cache" \in Roots
    BY DEF Roots
  <2> QED
    BY <1>5, <2>1 DEF PrepareDataRoot, PrepareRuntime, PublishCache, disk
<1>6. CASE \/ InstallBegins \/ ConfirmInstalled \/ DisablePlugin \/ PublishDisabled
           \/ PublishEnabled \/ VerifyEnabled \/ PublishReceipt \/ ReadReceiptBack
           \/ ClearCompletion \/ InstallStepFails \/ RecoverObserves \/ RecoverDisables
           \/ RestoreConfig \/ RecoveryFails
  BY <1>6 DEF InstallBegins, ConfirmInstalled, DisablePlugin, PublishDisabled,
     PublishEnabled,
              VerifyEnabled, PublishReceipt, ReadReceiptBack, ClearCompletion, InstallStepFails,
              RecoverObserves, RecoverDisables, RestoreConfig, RecoveryFails
<1> QED
  BY <1>1, <1>2, <1>3, <1>4, <1>5, <1>6 DEF Next, UninstallNext, InstallNext

(* What a rename moves is still there, and so is everything else.          *)
LEMMA RenamesKeep ==
    ASSUME IInv, Quarantine \/ RollBackRoot, NEW i, IsPresent(i)
    PROVE  IsPresent(i)'
<1> DEFINE r == Head(job.todo)
<1>1. pc \in {"quarantine", "rollback"} /\ job.todo # <<>>
  BY DEF Quarantine, RollBackRoot
<1>2. r \in Roots
  BY <1>1, HeadFacts
<1>3. \/ MoveAway(r) /\ attic[r] = Nothing
      \/ MoveBack(r) /\ RootState(pending, r) = "moved"
      \/ UNCHANGED disk
  BY Zenon DEF Quarantine, RollBackRoot
<1>4. RootState(pending, r) = "moved" => place[r] = Nothing
  BY <1>1, HeadFacts, RootStates
<1> HIDE DEF r
<1>5. /\ place["runtime"] # Nothing => place["data"] # Nothing
      /\ under # Nothing => attic["data"] # Nothing
  BY DEF IInv, TypeOK
<1>6. CASE MoveAway(r) /\ attic[r] = Nothing
  BY <1>2, <1>5, <1>6, MoveAwayFacts DEF IInv, IsPresent, Roots
<1>7. CASE MoveBack(r) /\ place[r] = Nothing
  BY <1>2, <1>5, <1>7, MoveBackFacts DEF IInv, IsPresent, Roots
<1>8. CASE UNCHANGED disk
  BY <1>8 DEF IsPresent, disk
<1> QED
  BY <1>3, <1>4, <1>6, <1>7, <1>8

(* A deletion takes the directory the plan names, and the runtime in it.   *)
LEMMA CleanUpTakes ==
    ASSUME IInv, CleanUpRoot, NEW i, IsPresent(i), ~IsPresent(i)'
    PROVE  /\ \E r \in Roots : i = pending.roots[r] \/ (i = under /\ pending.roots["data"] # Nothing)
           /\ i \in {place["data"], attic["data"]} => pending.purge
<1> DEFINE r == Head(job.todo)
<1>1. pc = "cleanup" /\ job.todo # <<>>
  BY DEF CleanUpRoot
<1>2. r \in Roots /\ pending.roots[r] # Nothing /\ pending # NoPending
  BY <1>1, HeadFacts
<1>3. \/ RootState(pending, r) \in {"moved", "moved_with_newcomer"} /\ DeleteMoved(r)
      \/ UNCHANGED disk
  BY Zenon DEF CleanUpRoot
<1>4. RootState(pending, r) \in {"moved", "moved_with_newcomer"} => attic[r] = pending.roots[r]
  BY <1>2, RootStates
<1> HIDE DEF r
<1>5. DeleteMoved(r) /\ attic[r] = pending.roots[r]
  BY <1>3, <1>4 DEF IsPresent, disk
<1>6. /\ attic' = [attic EXCEPT ![r] = Nothing] /\ place' = place
      /\ r # "data" => under' = under
  BY <1>5 DEF DeleteMoved
<1>7. /\ place' = place /\ \A q \in Roots : q # r => attic'[q] = attic[q]
      /\ r # "data" => under' = under
  BY <1>2, <1>6 DEF IInv, TypeOK
<1>8. i = pending.roots[r] \/ (r = "data" /\ i = under)
  BY <1>5, <1>7 DEF IsPresent
<1>9. pending.roots["data"] # Nothing => pending.purge
  BY NoPendingFacts DEF IInv, PlanInv, Roots
<1>10. i \in {place["data"], attic["data"]} => r = "data"
  BY <1>7 DEF IsPresent, Roots
<1> QED
  BY <1>2, <1>8, <1>9, <1>10

(* A recovery takes what the call created. *)
LEMMA RecoveryTakes ==
    ASSUME IInv, RemoveCreated, NEW i, IsPresent(i), ~IsPresent(i)'
    PROVE  /\ \E r \in Roots : i = job.created[r]
           /\ i \in {place["data"], attic["data"]} => i = job.created["data"]
<1>1. pc = "remove" /\ UNCHANGED <<attic, under>>
  BY DEF RemoveCreated
<1>2. \A r \in Roots : place'[r] = place[r] \/ (place'[r] = Nothing /\ job.created[r] # Nothing)
  <2>1. PICK kept \in SUBSET {r \in Roots : job.created[r] # Nothing} :
           place' = [r \in Roots |->
                       IF \/ job.created[r] = Nothing
                          \/ r \in kept
                          \/ r = "data" /\ place["runtime"] # Nothing
                             /\ (job.created["runtime"] = Nothing \/ "runtime" \in kept)
                       THEN place[r] ELSE Nothing]
    BY DEF RemoveCreated
  <2> QED
    BY <2>1
<1>3. \A r \in Roots : job.created[r] # Nothing => place[r] = job.created[r]
  BY <1>1 DEF IInv, InstallInv, InstallSteps
<1> QED
  BY <1>1, <1>2, <1>3 DEF IsPresent, Roots

(* What any step takes away was planned, or created by the call. *)
LEMMA StepsTake ==
    ASSUME IInv, [Next]_vars, NEW i \in Present \ Present'
    PROVE  /\ \/ \E r \in Roots : i = pending.roots[r] \/ (i = under /\ pending.roots["data"] # Nothing)
              \/ \E r \in Roots : i = job.created[r]
           /\ i \in {place["data"], attic["data"]} => pending.purge \/ i = job.created["data"]
<1>1. IsPresent(i) /\ ~IsPresent(i)'
  <2>1. i \in Present' <=> IsPresent(i)'
    BY DEF Present, IsPresent
  <2> QED
    BY <2>1, PresentMeans
<1>2. CASE UNCHANGED disk
  BY <1>1, <1>2 DEF IsPresent, disk
<1>3. ASSUME NEW r \in Roots, Provide(r), UNCHANGED <<attic, under>>
      PROVE  FALSE
  <2>1. \A q \in Roots : place[q] # Nothing => place'[q] = place[q]
    BY <1>3, ProvideFacts DEF IInv
  <2> QED
    BY <1>1, <1>3, <2>1 DEF IsPresent
<1>4. CASE Quarantine \/ RollBackRoot
  BY <1>1, <1>4, RenamesKeep
<1>5. CASE CleanUpRoot
  BY <1>1, <1>5, CleanUpTakes
<1>6. CASE RemoveCreated
  BY <1>1, <1>6, RecoveryTakes
<1> QED
  BY <1>2, <1>3, <1>4, <1>5, <1>6, DiskSteps

-----------------------------------------------------------------------------
(* The uninstaller ends its calls itself. *)
LEMMA UninstallStepsMeans ==
    ASSUME IInv, UninstallNext
    PROVE  pc' \in UninstallSteps \/ (pc' = "idle" /\ job'.kind = "uninstall")
<1>1. CASE \E purge \in BOOLEAN : UninstallBegins(purge)
  <2>1. PICK purge \in BOOLEAN : UninstallBegins(purge)
    BY <1>1
  <2> QED
    BY <2>1, BeginFacts DEF IInv, UninstallSteps
<1>2. job.kind = "uninstall" \/ \E purge \in BOOLEAN : UninstallBegins(purge)
  BY DEF UninstallNext, IInv, TypeOK, InstallSteps, UninstallSteps, UninstallStepFails,
     PlanFromReceipt, PlanFromCompletion, PlanIsEmpty, PlanRefused, Quarantine,
     RemoveFromConfig, Commit, HandleFailure, RollBackRoot, RollbackEnds, CleanUpRoot,
     MarkComplete, RemoveReceipt, RemovePending
<1>3. CASE PlanFromReceipt \/ PlanFromCompletion \/ Quarantine \/ RemoveFromConfig \/ Commit
           \/ RollBackRoot \/ MarkComplete \/ RemoveReceipt
  BY <1>3 DEF PlanFromReceipt, PlanFromCompletion, Quarantine, RemoveFromConfig, Commit,
     RollBackRoot, MarkComplete, RemoveReceipt, Go, UninstallSteps
<1>4. CASE /\ ~\E purge \in BOOLEAN : UninstallBegins(purge)
           /\ PlanIsEmpty \/ PlanRefused \/ HandleFailure \/ RollbackEnds \/ CleanUpRoot \/ RemovePending
  BY <1>2, <1>4, EndFacts DEF PlanIsEmpty, PlanRefused, HandleFailure, RollbackEnds, CleanUpRoot,
     RemovePending, Go, UninstallSteps, Results, IInv
<1>5. CASE UninstallStepFails
  <2>1. [NoJob EXCEPT !.kind = "uninstall", !.result = "failed", !.retried = job.retried,
                      !.failed = TRUE].kind = "uninstall"
    BY NoJobTyped DEF Jobs
  <2>2. pc' \in UninstallSteps
        \/ (pc' = "idle" /\ job' = [NoJob EXCEPT !.kind = "uninstall", !.result = "failed",
                                                 !.retried = job.retried, !.failed = TRUE])
    BY <1>5, StepFailsCases, Zenon DEF UninstallSteps
  <2> QED
    BY <2>1, <2>2, Zenon
<1> QED
  BY <1>1, <1>3, <1>4, <1>5 DEF UninstallNext

(* Only the installer's steps lead to a success of the installer. *)
LEMMA InstalledNext == IInv /\ InstalledInv /\ [Next]_vars => InstalledInv'
<1> SUFFICES ASSUME IInv, InstalledInv, [Next]_vars PROVE InstalledInv'
  OBVIOUS
<1>1. CASE UNCHANGED vars
  BY <1>1 DEF InstalledInv, SuccessMeansInstalled, ReceiptValid, vars, disk, records
<1>2. CASE Edit
  BY <1>2 DEF InstalledInv, SuccessMeansInstalled, ReceiptValid, Enabled, Edit, disk, records,
     IInv, TypeOK, Configs
<1>3. CASE Crash
  BY <1>3, NoJobTyped DEF InstalledInv, SuccessMeansInstalled, Crash, InstallSteps
<1>4. CASE UninstallNext
  <2>1. pc' \in UninstallSteps \/ (pc' = "idle" /\ job'.kind = "uninstall")
    BY <1>4, UninstallStepsMeans
  <2> QED
    BY <2>1 DEF InstalledInv, SuccessMeansInstalled, InstallSteps, UninstallSteps
<1>5. CASE \/ InstallBegins \/ PrepareDataRoot \/ PrepareRuntime \/ DisablePlugin \/ PublishCache
           \/ PublishDisabled \/ RecoverObserves \/ RecoverDisables \/ RemoveCreated
           \/ InstallStepFails
  <2>1. /\ pc' \in InstallSteps \ {"verify", "commit_receipt", "read_back", "clear"}
        /\ job'.restorable => Enabled(job'.snapshot)
        /\ pc' = "confirm" => job'.restorable
    <3>1. CASE InstallBegins
      BY <3>1, NoJobTyped DEF InstallBegins, Go, InstallSteps, Jobs
    <3>2. CASE PrepareDataRoot \/ PrepareRuntime \/ PublishCache
      <4>1. job'.restorable = job.restorable /\ job'.snapshot = job.snapshot
        BY <3>2, ProvideFacts DEF PrepareDataRoot, PrepareRuntime, PublishCache, Provide,
           Recovering, IInv, JobTypes, Jobs
      <4> QED
        BY <3>2, <4>1 DEF PrepareDataRoot, PrepareRuntime, PublishCache, Recovering, Go,
           InstalledInv, InstallSteps
    <3>3. CASE \/ DisablePlugin \/ PublishDisabled \/ RecoverObserves \/ RecoverDisables
               \/ RemoveCreated \/ InstallStepFails
      <4>1. job'.restorable = job.restorable /\ job'.snapshot = job.snapshot
        BY <3>3 DEF DisablePlugin, PublishDisabled, RecoverObserves, RecoverDisables,
           RemoveCreated, InstallStepFails, Recovering, IInv, JobTypes, Jobs
      <4>2. pc \in InstallSteps
            /\ pc' \in {"recover", "redisable", "fence", "write_on", "remove", "restore"}
        BY <3>3 DEF DisablePlugin, PublishDisabled, RecoverObserves, RecoverDisables,
           RemoveCreated, InstallStepFails, Recovering, Go, InstallSteps
      <4> QED
        BY <4>1, <4>2 DEF InstalledInv, InstallSteps
    <3> QED
      BY <1>5, <3>1, <3>2, <3>3
  <2> QED
    BY <2>1 DEF InstalledInv, SuccessMeansInstalled, InstallSteps
<1>6. CASE RestoreConfig \/ RecoveryFails
  <2>1. pc' = "idle" /\ job'.result = "failed"
    BY <1>6, EndFacts, NoJobTyped DEF RestoreConfig, RecoveryFails, IInv, Results, Jobs
  <2> QED
    BY <2>1 DEF InstalledInv, SuccessMeansInstalled, InstallSteps
<1>7. CASE ConfirmInstalled
  <2>1. /\ pc = "confirm" /\ pc' \in {"commit_receipt", "recover"} /\ config' = config
        /\ pc' = "commit_receipt" => config = job.snapshot
        /\ job'.restorable = job.restorable /\ job'.snapshot = job.snapshot
    BY <1>7 DEF ConfirmInstalled, Recovering, Go, IInv, JobTypes, Jobs
  <2> QED
    BY <2>1 DEF InstalledInv, SuccessMeansInstalled, InstallSteps
<1>8. CASE PublishEnabled \/ VerifyEnabled
  <2>1. /\ pc \in {"write_on", "verify"} /\ pc' \in {"verify", "commit_receipt", "recover"}
        /\ job'.restorable = job.restorable /\ job'.snapshot = job.snapshot
        /\ (config' = config /\ pc = "verify") \/ config' = RenderConfig(config, "on")
    BY <1>8 DEF PublishEnabled, VerifyEnabled, Recovering, Go, IInv, JobTypes, Jobs
  <2>2. Enabled(RenderConfig(config, "on"))
    BY DEF IInv, TypeOK, Configs, RenderConfig, Enabled
  <2>3. Enabled(config')
    BY <2>1, <2>2 DEF InstalledInv
  <2> QED
    BY <2>1, <2>3 DEF InstalledInv, SuccessMeansInstalled, InstallSteps
<1>9. CASE PublishReceipt
  <2>1. /\ pc = "commit_receipt" /\ pc' \in {"read_back", "clear"} /\ UNCHANGED <<config, job, place>>
        /\ receipt' = [cache |-> place["cache"], runtime |-> place["runtime"]]
    BY <1>9 DEF PublishReceipt, Go, disk
  <2>2. place["cache"] # Nothing
    BY <2>1 DEF IInv, InstallInv, InstallSteps
  <2>3. ReceiptValid'
    BY <2>1, <2>2 DEF ReceiptValid, NoReceipt
  <2> QED
    BY <2>1, <2>3 DEF InstalledInv, SuccessMeansInstalled, InstallSteps
<1>10. CASE ReadReceiptBack
  <2>1. /\ pc = "read_back" /\ pc' \in {"clear", "recover"} /\ UNCHANGED <<config, place, receipt>>
        /\ job'.restorable = job.restorable /\ job'.snapshot = job.snapshot
    BY <1>10 DEF ReadReceiptBack, Go, disk, records, IInv, JobTypes, Jobs
  <2> QED
    BY <2>1 DEF InstalledInv, SuccessMeansInstalled, InstallSteps, ReceiptValid
<1>11. CASE ClearCompletion
  <2>1. pc = "clear" /\ pc' = "idle" /\ UNCHANGED <<config, place, receipt>>
    BY <1>11 DEF ClearCompletion, End, disk
  <2> QED
    BY <2>1 DEF InstalledInv, SuccessMeansInstalled, InstallSteps, ReceiptValid
<1> QED
  BY <1>1, <1>2, <1>3, <1>4, <1>5, <1>6, <1>7, <1>8, <1>9, <1>10, <1>11 DEF Next, InstallNext

(* Between calls the records and the files agree. *)
LEMMA AgreesInv == IInv /\ InstalledInv => InstalledStateAgrees
<1> SUFFICES ASSUME IInv, SuccessMeansInstalled PROVE TypeOK /\ ReceiptMatches /\ EnabledIsBacked
  BY DEF InstalledStateAgrees, InstalledInv
<1>1. TypeOK /\ ReceiptMatches
  BY DEF IInv, ReceiptInv, ReceiptMatches
<1>2. EnabledIsBacked
  BY NoPendingFacts DEF IInv, EnabledInv, EnabledIsBacked, Roots
<1> QED
  BY <1>1, <1>2

(* What is set aside has a plan. *)
LEMMA FinishesInv == IInv => UninstallationFinishes
BY DEF IInv, UninstallationFinishes, QuarantineHasAPlan, CarryInv, AtticInv

(* Whatever is called, fails, dies or is edited in between, and however    *)
(* often: between calls the receipt is that of what is installed, the      *)
(* plugin is not enabled without its cache, and an installation that       *)
(* reported success left both, enabled and in the receipt (install,        *)
(* recover_install).                                                       *)
THEOREM InstallationsAgree == Spec => []InstalledStateAgrees
<1>1. Init => InstalledInv
  BY NoJobTyped DEF Init, InstalledInv, SuccessMeansInstalled, InstallSteps
<1> QED
  BY <1>1, InitInv, NextInv, InstalledNext, AgreesInv, PTL DEF Spec

(* An uninstallation that stopped anywhere can be finished: what is aside  *)
(* is in the plan, a retry is refused for no reason of its own, and a      *)
(* success leaves no plugin table, cache, receipt, plan or anything set    *)
(* aside (uninstall, _resume).                                             *)
THEOREM UninstallationsFinish == Spec => []UninstallationFinishes
<1> QED
  BY InitInv, NextInv, FinishesInv, PTL DEF Spec

(* No step deletes a directory but by the plan or of its own making, and   *)
(* no data but by a purge (delete_quarantine, remove_created).             *)
THEOREM NothingElseIsDeleted == Spec => OnlyAskedForIsDeleted
<1>1. ASSUME IInv, [Next]_vars
      PROVE  \A i \in Present \ Present' :
                \/ \E r \in Roots : i = pending.roots[r] \/ (i = under /\ pending.roots["data"] # Nothing)
                \/ \E r \in Roots : i = job.created[r]
  BY <1>1, StepsTake
<1>2. ASSUME IInv, [Next]_vars
      PROVE  \A i \in {place["data"], attic["data"]} \ (Present' \cup {Nothing}) :
                pending.purge \/ i = job.created["data"]
  <2>1. {place["data"], attic["data"]} \ {Nothing} \subseteq Present
    BY DEF Present, Roots
  <2> QED
    BY <1>2, <2>1, StepsTake
<1> QED
  BY <1>1, <1>2, InitInv, NextInv, PTL DEF Spec, OnlyAskedForIsDeleted,
     OnlyPlannedRemoved, DataKeptUnlessPurged
================================================================================
