----------------------------- MODULE ManagerProofs -----------------------------
(***************************************************************************)
(* The turns of a managed session, for any number of manager processes,    *)
(* turns, hooks, requests and faults.                                      *)
(***************************************************************************)
EXTENDS ManagerSession, TLAPS

USE RuntimeAssumption, SessionAssumption

\* Where a process holds the lease.
Locked ==
    TickStates \cup {"idle_locked", "locked", "init", "spawned", "close", "close_bad", "unmark",
                     "unmark_bad", "unlock", "unlock_bad", "late_locked", "exit"}

\* Where it may have turns, and where the file may still call it ready.
Closing == TickStates \cup {"close", "close_bad"}
Announced ==
    TickStates \cup {"close_bad", "unmark_bad", "unlock_bad", "late_locked", "exit", "late", "dead"}

\* Where a process works on the turn `turn` names.
AboutTurn == {"expire", "record", "wait_start", "recover", "recheck", "send"}

(* A turn that runs and was not asked to stop. *)
Loose(t) == Live(t) /\ asked[t] = 0

(* Who holds the lease, whose turns there can be, and who is ready.        *)
LeaseInv ==
    /\ \A p \in Process : pc[p] \in Locked => lock = p
    /\ \A t \in Turn : owner[t] # None => pc[owner[t]] \in Closing
    /\ file # NoFile /\ file.ready => file.pid # None /\ pc[file.pid] \in Announced

(* What a connection knows of its turns.                                   *)
ConnectionInv ==
    /\ \A t \in Turn : Live(t) => owner[t] # None
    /\ \A t \in Turn :
          status[t] = "none" => asked[t] = 0 /\ owner[t] = None /\ seen[t] = "nothing"
    /\ \A t \in Turn : seen[t] = "end" => ~Live(t)
    /\ \A p \in Process, t \in Turn : active[p] = t => owner[t] = p /\ seen[t] = "start"

(* The file names a turn that was accepted and waits, or one that started, *)
(* never both.                                                             *)
FileInv ==
    file # NoFile /\ file.pending # None =>
      /\ file.managed = None
      /\ status[file.pending] # "none" /\ asked[file.pending] = 0

(* What a tick has loaded is what the file says until the tick acts on it. *)
Snapshot(p) ==
    pc[p] = "act" =>
      /\ snap[p].pending # None => snap[p].managed = None
      /\ file # NoFile => snap[p].managed = file.managed /\ snap[p].pending = file.pending

(* The turn a step is about: accepted and not asked to stop, no longer or  *)
(* not yet what the file waits for, or the one that the file owns.         *)
StepTurn(p) ==
    /\ pc[p] \in AboutTurn => turn[p] # None
    /\ pc[p] \in {"expire", "record", "recover"} =>
          status[turn[p]] # "none" /\ asked[turn[p]] = 0
    /\ pc[p] \in {"expire", "record"} /\ file # NoFile => file.pending # turn[p]
    /\ pc[p] \in {"recheck", "send"} /\ file # NoFile => file.managed = turn[p]

(* Where the turn that runs and was not asked to stop is named.            *)
Named(p) ==
    \A t \in Turn : Loose(t) =>
      /\ pc[p] \in {"rest", "wait_start", "recheck", "send", "wait_end"} /\ file # NoFile =>
            t \in {file.pending, file.managed}
      /\ pc[p] = "act" => t \in {snap[p].pending, snap[p].managed}
      /\ pc[p] \in {"record", "recover"} => t = turn[p]

(* A turn of p's that was asked to stop has ended by the time p can ask    *)
(* again.                                                                  *)
AskedEnded(p) ==
    \A t \in Turn : asked[t] = 1 /\ owner[t] = p =>
      /\ pc[p] \in {"rest", "act"} \cup AboutTurn => seen[t] = "end"
      /\ pc[p] = "wait_end" => seen[t] = "end" \/ t = turn[p]

Step(p) == Snapshot(p) /\ StepTurn(p) /\ Named(p) /\ AskedEnded(p)

(* While a session is being saved there is no file, and the manager that   *)
(* acquires the lease meanwhile has no turn and only finds nothing to do.  *)
SaveInv ==
    enabling = "save" =>
      /\ file = NoFile
      /\ \A t \in Turn : owner[t] = None
      /\ \A p \in Process : pc[p] \in TickStates => pc[p] \in {"rest", "stopping"}

TurnInv ==
    /\ FileInv /\ OneLiveTurn /\ OneInterruptPerTurn
    /\ \A p \in Process : Step(p)

-----------------------------------------------------------------------------
(* The updates of the file. *)

SameTurns(f, g) == f.managed = g.managed /\ f.pending = g.pending
SameStop(f, g) == f.shutdown = g.shutdown /\ f.interrupt = g.interrupt
SameReady(f, g) == f.ready = g.ready /\ f.pid = g.pid /\ f.failed = g.failed
SameRequest(f, g) == f.request = g.request /\ f.claimed = g.claimed
NoRestart(f, g) == f.restarts = g.restarts

(* What enabling a session writes.                                         *)
LEMMA FreshFile ==
    /\ NewFile \in RuntimeFile
    /\ NewFile.managed = None /\ NewFile.pending = None /\ NewFile.claimed = "never"
    /\ ~NewFile.ready /\ ~NewFile.shutdown /\ NewFile.restarts = 0
BY DEF NewFile, RuntimeFile, Request, NoRequest, None, Age, UserTurn

(* What the manager writes of itself.                                      *)
LEMMA ReadinessUpdates ==
    ASSUME NEW f \in RuntimeFile, NEW p \in Process
    PROVE  /\ Ready(f, p) \in RuntimeFile /\ SameTurns(Ready(f, p), f)
           /\ SameRequest(Ready(f, p), f) /\ NoRestart(Ready(f, p), f)
           /\ Ready(f, p).ready /\ Ready(f, p).pid = p /\ ~Ready(f, p).failed
           /\ SameStop(Ready(f, p), f)
           /\ \A g \in {Stopped(f), Failed(f)} :
                /\ g \in RuntimeFile /\ SameTurns(g, f) /\ SameRequest(g, f) /\ NoRestart(g, f)
                /\ ~g.ready /\ SameStop(g, f)
           /\ Failed(f).failed /\ Stopped(f).failed = f.failed
<1>1. Stopped(f) \in RuntimeFile /\ None \in Process \cup {None}
  BY DEF Stopped, RuntimeFile
<1>2. Ready(f, p) \in RuntimeFile
  BY DEF Ready, RuntimeFile
<1>3. \A g \in RuntimeFile :
        LET h == [g EXCEPT !.failed = TRUE] IN
        /\ h \in RuntimeFile /\ SameTurns(h, g) /\ SameRequest(h, g) /\ NoRestart(h, g)
        /\ h.ready = g.ready /\ SameStop(h, g) /\ h.failed
  BY ZenonT(60) DEF RuntimeFile, SameTurns, SameRequest, SameStop, NoRestart
<1>4. LET g == Stopped(f) IN
        /\ SameTurns(g, f) /\ SameRequest(g, f) /\ NoRestart(g, f)
        /\ ~g.ready /\ SameStop(g, f) /\ g.failed = f.failed
  BY DEF Stopped, RuntimeFile, SameTurns, SameRequest, SameStop, NoRestart
<1>5. LET g == Failed(f) IN
        /\ SameTurns(g, f) /\ SameRequest(g, f) /\ NoRestart(g, f)
        /\ ~g.ready /\ SameStop(g, f) /\ g.failed
  BY <1>1, <1>4, <1>3 DEF Failed, SameStop, SameTurns, SameRequest, NoRestart
<1>6. LET g == Ready(f, p) IN
        /\ SameTurns(g, f) /\ SameRequest(g, f) /\ NoRestart(g, f)
        /\ g.ready /\ g.pid = p /\ ~g.failed /\ SameStop(g, f)
  BY DEF Ready, RuntimeFile, SameTurns, SameRequest, SameStop, NoRestart
<1> QED
  BY <1>1, <1>2, <1>4, <1>5, <1>6, <1>3 DEF Failed

(* What it takes out of the file.                                          *)
LEMMA Without ==
    ASSUME NEW f \in RuntimeFile
    PROVE  /\ WithoutPending(f) \in RuntimeFile /\ SameReady(WithoutPending(f), f)
           /\ SameStop(WithoutPending(f), f) /\ SameRequest(WithoutPending(f), f)
           /\ NoRestart(WithoutPending(f), f)
           /\ WithoutRequest(f) \in RuntimeFile /\ SameReady(WithoutRequest(f), f)
           /\ SameStop(WithoutRequest(f), f) /\ SameTurns(WithoutRequest(f), f)
           /\ NoRestart(WithoutRequest(f), f)
           /\ WithoutRequest(f).claimed = "never" /\ WithoutRequest(f).request = NoRequest
           /\ LET g == WithoutRequest(WithoutPending(f)) IN
                /\ g \in RuntimeFile /\ SameReady(g, f) /\ SameStop(g, f)
                /\ NoRestart(g, f) /\ g.claimed = "never"
<1>1. \A g \in RuntimeFile :
        /\ WithoutPending(g) \in RuntimeFile /\ SameReady(WithoutPending(g), g)
        /\ SameStop(WithoutPending(g), g) /\ SameRequest(WithoutPending(g), g)
        /\ NoRestart(WithoutPending(g), g)
  BY ZenonT(60) DEF WithoutPending, RuntimeFile, Age, SameReady, SameStop, SameRequest, NoRestart
<1>2. NoRequest \in Request /\ "never" \in Age
  BY DEF NoRequest, Request, Age
<1>3. \A g \in RuntimeFile :
        /\ WithoutRequest(g) \in RuntimeFile /\ SameReady(WithoutRequest(g), g)
        /\ SameStop(WithoutRequest(g), g) /\ SameTurns(WithoutRequest(g), g)
        /\ NoRestart(WithoutRequest(g), g)
        /\ WithoutRequest(g).claimed = "never" /\ WithoutRequest(g).request = NoRequest
  BY ZenonT(60), <1>2 DEF WithoutRequest, RuntimeFile, SameReady, SameStop, SameTurns, NoRestart
<1> QED
  BY <1>1, <1>3 DEF SameReady, SameStop, NoRestart

(* What it writes of its turns.                                            *)
LEMMA TurnUpdates ==
    ASSUME NEW f \in RuntimeFile, NEW t \in Turn
    PROVE  /\ \A g \in {Pending(f, t), TimedOut(f), WithoutPending(f), Started(f, t),
                        Finished(f), Restarted(f)} :
                g \in RuntimeFile /\ SameReady(g, f) /\ SameStop(g, f)
           /\ Pending(f, t).managed = f.managed /\ Pending(f, t).pending = t
           /\ SameTurns(TimedOut(f), f)
           /\ WithoutPending(f).managed = f.managed /\ WithoutPending(f).pending = None
           /\ Started(f, t).managed = t /\ Started(f, t).pending = None
           /\ \A g \in {Finished(f), Restarted(f)} : g.managed = None /\ g.pending = None
           /\ \A g \in {Started(f, t), Finished(f), Restarted(f)} : g.claimed = "never"
           /\ \A g \in {Pending(f, t), TimedOut(f), WithoutPending(f)} : SameRequest(g, f)
           /\ \A g \in {Pending(f, t), TimedOut(f), WithoutPending(f), Started(f, t), Finished(f)} :
                NoRestart(g, f)
<1>1. /\ Pending(f, t) \in RuntimeFile /\ SameReady(Pending(f, t), f)
      /\ SameStop(Pending(f, t), f) /\ SameRequest(Pending(f, t), f)
      /\ NoRestart(Pending(f, t), f)
  BY DEF Pending, RuntimeFile, Age, SameReady, SameStop, SameRequest, NoRestart
<1>2. /\ TimedOut(f) \in RuntimeFile /\ SameReady(TimedOut(f), f)
      /\ SameStop(TimedOut(f), f) /\ SameRequest(TimedOut(f), f)
      /\ NoRestart(TimedOut(f), f)
  BY DEF TimedOut, RuntimeFile, Age, SameReady, SameStop, SameRequest, NoRestart
<1>3. \A g \in RuntimeFile :
        LET h == [g EXCEPT !.managed = None, !.handoff = TRUE] IN
        /\ h \in RuntimeFile /\ SameReady(h, g) /\ NoRestart(h, g)
        /\ SameStop(h, g) /\ h.claimed = g.claimed
  BY DEF RuntimeFile, SameReady, SameStop, NoRestart
<1>4. \A g \in RuntimeFile :
        LET h == [g EXCEPT !.managed = t, !.handoff = FALSE, !.parent = t, !.terminal = FALSE] IN
        /\ h \in RuntimeFile /\ SameReady(h, g) /\ NoRestart(h, g)
        /\ SameStop(h, g) /\ h.claimed = g.claimed
  BY ZenonT(60) DEF RuntimeFile, SameReady, SameStop, NoRestart
<1>5. Finished(f) \in RuntimeFile /\ SameReady(Finished(f), f)
      /\ SameStop(Finished(f), f) /\ Finished(f).claimed = "never"
      /\ NoRestart(Finished(f), f)
  <2> DEFINE g == WithoutRequest(WithoutPending(f))
  <2>1. Finished(f) = [g EXCEPT !.managed = None, !.handoff = TRUE]
    BY DEF Finished
  <2>2. /\ g \in RuntimeFile /\ SameReady(g, f) /\ SameStop(g, f)
        /\ NoRestart(g, f) /\ g.claimed = "never"
    BY Without
  <2> HIDE DEF g
  <2> QED
    BY <2>1, <2>2, <1>3 DEF SameReady, SameStop, NoRestart
<1>6. Started(f, t) \in RuntimeFile /\ SameReady(Started(f, t), f)
      /\ SameStop(Started(f, t), f) /\ Started(f, t).claimed = "never"
      /\ NoRestart(Started(f, t), f)
  <2> DEFINE g == WithoutRequest(WithoutPending(f))
  <2>1. Started(f, t) = [g EXCEPT !.managed = t, !.handoff = FALSE, !.parent = t, !.terminal = FALSE]
    BY DEF Started
  <2>2. /\ g \in RuntimeFile /\ SameReady(g, f) /\ SameStop(g, f)
        /\ NoRestart(g, f) /\ g.claimed = "never"
    BY Without
  <2> HIDE DEF g
  <2> QED
    BY <2>1, <2>2, <1>4 DEF SameReady, SameStop, NoRestart
<1>7. Restarted(f) \in RuntimeFile /\ SameReady(Restarted(f), f)
      /\ SameStop(Restarted(f), f) /\ Restarted(f).claimed = "never"
      /\ Restarted(f).managed = Finished(f).managed /\ Restarted(f).pending = Finished(f).pending
  BY <1>5 DEF Restarted, RuntimeFile, SameReady, SameStop
<1>8. Finished(f).managed = None /\ Finished(f).pending = None
      /\ Started(f, t).managed = t /\ Started(f, t).pending = None
  BY DEF Started, Finished, WithoutRequest, WithoutPending, RuntimeFile
<1>9. /\ Pending(f, t).managed = f.managed /\ Pending(f, t).pending = t
      /\ SameTurns(TimedOut(f), f)
      /\ WithoutPending(f).managed = f.managed /\ WithoutPending(f).pending = None
  BY DEF Pending, TimedOut, WithoutPending, RuntimeFile, SameTurns
<1> QED
  BY <1>1, <1>2, <1>5, <1>6, <1>7, <1>8, <1>9, Without

(* What becomes of a restart request.                                      *)
LEMMA RequestUpdates ==
    ASSUME NEW f \in RuntimeFile, NEW r, NEW u
    PROVE  LET c == [f EXCEPT !.claimed = "recent"] IN
           /\ \A g \in {ClearedIfStale(f, r, u), ClearedIfSame(f, r), c} :
                /\ g \in RuntimeFile /\ SameTurns(g, f) /\ SameReady(g, f) /\ NoRestart(g, f)
                /\ SameStop(g, f)
           /\ \A g \in {ClearedIfStale(f, r, u), ClearedIfSame(f, r)} :
                SameRequest(g, f) \/ g.claimed = "never"
           /\ ClearedIfSame(f, r).claimed = "never" \/ f.request # r
           /\ c.request = f.request
<1>1. LET g == WithoutRequest(f) IN
        /\ g \in RuntimeFile /\ SameTurns(g, f) /\ SameReady(g, f) /\ NoRestart(g, f)
        /\ SameStop(g, f) /\ g.claimed = "never"
  BY Without
<1>2. LET g == [f EXCEPT !.claimed = "recent"] IN
        /\ g \in RuntimeFile /\ SameTurns(g, f) /\ SameReady(g, f) /\ NoRestart(g, f)
        /\ SameStop(g, f) /\ g.request = f.request
  BY DEF RuntimeFile, Age, SameTurns, SameReady, SameStop, NoRestart
<1>3. SameTurns(f, f) /\ SameReady(f, f) /\ NoRestart(f, f) /\ SameRequest(f, f)
      /\ SameStop(f, f)
  BY DEF SameTurns, SameReady, SameStop, NoRestart, SameRequest
<1> QED
  BY <1>1, <1>2, <1>3 DEF ClearedIfStale, ClearedIfSame

(* What others write: the hooks, the user, the watcher and time.           *)
LEMMA OthersUpdates ==
    ASSUME NEW f \in RuntimeFile, NEW i \in BOOLEAN
    PROVE  /\ \A g \in {PromptSubmitted(f), ToolUsed(f), StopReported(f), [f EXCEPT !.epoch = @ + 1],
                        StartupCancelled(f), Deferred(f, i), [f EXCEPT !.waited = "late"],
                        [f EXCEPT !.claimed = "late"]} :
                SameTurns(g, f) /\ SameReady(g, f) /\ NoRestart(g, f)
           /\ \A g \in {PromptSubmitted(f), ToolUsed(f), StopReported(f), [f EXCEPT !.epoch = @ + 1],
                        [f EXCEPT !.waited = "late"], [f EXCEPT !.claimed = "late"]} :
                SameStop(g, f)
           /\ \A g \in {PromptSubmitted(f), ToolUsed(f), StopReported(f), [f EXCEPT !.epoch = @ + 1],
                        StartupCancelled(f), [f EXCEPT !.waited = "late"]} :
                SameRequest(g, f)
           /\ f.epoch < MaxEpoch =>
                PromptSubmitted(f) \in RuntimeFile /\ ToolUsed(f) \in RuntimeFile
                /\ [f EXCEPT !.epoch = @ + 1] \in RuntimeFile
           /\ (f.epoch < MaxEpoch \/ f.terminal) => StopReported(f) \in RuntimeFile
           /\ StartupCancelled(f) \in RuntimeFile /\ Deferred(f, i) \in RuntimeFile
           /\ [f EXCEPT !.waited = "late"] \in RuntimeFile
           /\ [f EXCEPT !.claimed = "late"] \in RuntimeFile
           /\ [f EXCEPT !.claimed = "late"].request = f.request
           /\ Deferred(f, i).claimed = "never" /\ Deferred(f, i).request = NoRequest
           /\ Deferred(f, i).shutdown
           /\ f.ready => StartupCancelled(f) = f
<1>1. \A h \in RuntimeFile :
        LET g == [h EXCEPT !.shutdown = TRUE, !.interrupt = i, !.handoff = FALSE] IN
        /\ g \in RuntimeFile /\ SameTurns(g, h) /\ SameReady(g, h) /\ NoRestart(g, h)
        /\ g.claimed = h.claimed /\ g.request = h.request /\ g.shutdown
  BY ZenonT(60) DEF RuntimeFile, SameTurns, SameReady, SameStop, NoRestart
<1>2. LET g == Deferred(f, i) IN
        /\ g \in RuntimeFile /\ SameTurns(g, f) /\ SameReady(g, f) /\ NoRestart(g, f)
        /\ g.claimed = "never" /\ g.request = NoRequest /\ g.shutdown
  BY ZenonT(60), Without, <1>1 DEF Deferred, SameTurns, SameReady, SameStop, NoRestart
<1>3. LET g == StartupCancelled(f) IN
        /\ g \in RuntimeFile /\ SameTurns(g, f) /\ SameReady(g, f) /\ NoRestart(g, f)
        /\ SameRequest(g, f) /\ (f.ready => g = f)
  BY ZenonT(60) DEF StartupCancelled, RuntimeFile, SameTurns, SameReady, SameStop, NoRestart, SameRequest
<1>4. \A g \in {[f EXCEPT !.epoch = @ + 1], [f EXCEPT !.waited = "late"],
                [f EXCEPT !.claimed = "late"]} :
        SameTurns(g, f) /\ SameReady(g, f) /\ NoRestart(g, f) /\ SameStop(g, f)
  BY DEF RuntimeFile, SameTurns, SameReady, SameStop, NoRestart
<1>5. LET g == PromptSubmitted(f) IN SameTurns(g, f) /\ SameReady(g, f) /\ NoRestart(g, f) /\ SameStop(g, f)
  BY DEF PromptSubmitted, RuntimeFile, SameTurns, SameReady, SameStop, NoRestart
<1>6. LET g == ToolUsed(f) IN SameTurns(g, f) /\ SameReady(g, f) /\ NoRestart(g, f) /\ SameStop(g, f)
  BY DEF ToolUsed, RuntimeFile, SameTurns, SameReady, SameStop, NoRestart
<1>7. LET g == StopReported(f) IN SameTurns(g, f) /\ SameReady(g, f) /\ NoRestart(g, f) /\ SameStop(g, f)
  BY DEF StopReported, RuntimeFile, SameTurns, SameReady, SameStop, NoRestart
<1>8. \A g \in {PromptSubmitted(f), ToolUsed(f), StopReported(f), [f EXCEPT !.epoch = @ + 1],
                [f EXCEPT !.waited = "late"]} : SameRequest(g, f)
  BY ZenonT(60) DEF PromptSubmitted, ToolUsed, StopReported, RuntimeFile, SameRequest
<1>9. ASSUME f.epoch < MaxEpoch
      PROVE  PromptSubmitted(f) \in RuntimeFile /\ ToolUsed(f) \in RuntimeFile
             /\ [f EXCEPT !.epoch = @ + 1] \in RuntimeFile
  <2>1. f.epoch + 1 \in 0..MaxEpoch
    BY <1>9 DEF RuntimeFile
  <2>2. [f EXCEPT !.epoch = @ + 1] \in RuntimeFile
    BY <2>1 DEF RuntimeFile
  <2>3. PromptSubmitted(f) \in RuntimeFile
    BY <2>1 DEF PromptSubmitted, RuntimeFile
  <2> QED
    BY <2>2, <2>3 DEF ToolUsed
<1>10. ASSUME f.epoch < MaxEpoch \/ f.terminal PROVE StopReported(f) \in RuntimeFile
  <2>1. (~f.shutdown) \in BOOLEAN
    OBVIOUS
  <2>2. f.epoch \in 0..MaxEpoch /\ (f.epoch < MaxEpoch => f.epoch + 1 \in 0..MaxEpoch)
    BY DEF RuntimeFile
  <2> DEFINE b == ~f.shutdown
             n == IF f.terminal THEN f.epoch ELSE f.epoch + 1
  <2>3. b \in BOOLEAN /\ n \in 0..MaxEpoch
    BY <1>10, <2>1, <2>2
  <2>4. StopReported(f) = [f EXCEPT !.handoff = b, !.terminal = TRUE, !.epoch = n]
    BY DEF StopReported
  <2> HIDE DEF b, n
  <2>5. [f EXCEPT !.handoff = b, !.terminal = TRUE, !.epoch = n] \in RuntimeFile
    BY <2>3 DEF RuntimeFile
  <2> QED
    BY <2>4, <2>5
<1>11. [f EXCEPT !.waited = "late"] \in RuntimeFile /\ [f EXCEPT !.claimed = "late"] \in RuntimeFile
      /\ [f EXCEPT !.claimed = "late"].request = f.request
  BY DEF RuntimeFile, Age
<1> QED
  BY <1>2, <1>3, <1>4, <1>8, <1>9, <1>10, <1>11, <1>5, <1>6, <1>7

-----------------------------------------------------------------------------
(* Every variable stays in its range. *)

FileType == file \in RuntimeFile \cup {NoFile}

(* What a locked update leaves.                                            *)
LEMMA UpdateType ==
    ASSUME FileType, NEW new, file # NoFile => new \in RuntimeFile, Update(new)
    PROVE  FileType'
BY DEF FileType, Update

(* What a step forgets at the end of its tick.                             *)
LEMMA KeepEffect ==
    ASSUME TypeOK, NEW p \in Process, NEW t \in Turn \cup {None}, NEW x \in ProcessStates,
           Goto(p, x), KeepTurn(p, t)
    PROVE  /\ pc' \in [Process -> ProcessStates] /\ pc'[p] = x
           /\ snap' \in [Process -> LoadedRuntime] /\ turn' \in [Process -> Turn \cup {None}]
           /\ \A q \in Process : q # p =>
                pc'[q] = pc[q] /\ snap'[q] = snap[q] /\ turn'[q] = turn[q]
           /\ x \in InTick => snap'[p] = snap[p] /\ turn'[p] = t
<1>1. NothingLoaded \in LoadedRuntime
  BY DEF NothingLoaded, Loaded, NewFile, LoadedRuntime, NoRequest, Request, Age, None
<1>2. /\ pc \in [Process -> ProcessStates] /\ snap \in [Process -> LoadedRuntime]
      /\ turn \in [Process -> Turn \cup {None}]
  BY DEF TypeOK
<1>3. pc' \in [Process -> ProcessStates] /\ pc'[p] = x /\ \A q \in Process : q # p => pc'[q] = pc[q]
  BY <1>2 DEF Goto
<1>4. snap' = [snap EXCEPT ![p] = IF x \in InTick THEN snap[p] ELSE NothingLoaded]
      /\ turn' = [turn EXCEPT ![p] = IF x \in InTick THEN t ELSE None]
  BY <1>2, <1>3 DEF KeepTurn
<1> HIDE DEF InTick
<1> QED
  BY <1>1, <1>2, <1>3, <1>4

(* What a tick keeps of the file.                                          *)
LEMMA LoadedType ==
    ASSUME NEW f \in RuntimeFile
    PROVE  /\ Loaded(f) \in LoadedRuntime
           /\ Loaded(f).managed = f.managed /\ Loaded(f).pending = f.pending
           /\ Loaded(f).shutdown = f.shutdown /\ Loaded(f).request = f.request
           /\ Loaded(f).handoff = f.handoff /\ Loaded(f).claimed = f.claimed
BY DEF Loaded, LoadedRuntime, RuntimeFile

(* What an interruption leaves.                                            *)
LEMMA AskType ==
    ASSUME TypeOK, NEW p \in Process, NEW t \in Turn, NEW next, RequestInterrupt(p, t, next)
    PROVE  /\ asked' \in [Turn -> Nat]
           /\ \/ Goto(p, next) /\ asked' = [asked EXCEPT ![t] = asked[t] + 1]
              \/ Goto(p, "failing") /\ asked' = asked
BY DEF RequestInterrupt, AskInterrupt, TypeOK, TurnTypeOK

(* The steps of a tick.                                                    *)
LEMMA TickType ==
    ASSUME TypeOK, TurnInv, NEW p \in Process, Tick(p), UNCHANGED <<leaseVars, userVars, faults>>
    PROVE  TypeOK'
<1> USE DEF None
<1> DEFINE Done == /\ pc' \in [Process -> ProcessStates]
                   /\ snap' \in [Process -> LoadedRuntime]
                   /\ turn' \in [Process -> Turn \cup {None}]
<1>1. /\ snap[p] \in LoadedRuntime /\ turn[p] \in Turn \cup {None} /\ FileType
      /\ pc \in [Process -> ProcessStates] /\ snap \in [Process -> LoadedRuntime]
      /\ turn \in [Process -> Turn \cup {None}]
  BY DEF TypeOK, FileType
<1>2. snap[p].managed \in Turn \cup {None} /\ snap[p].pending \in Turn \cup {None}
      /\ snap[p].request \in Request
  BY <1>1 DEF LoadedRuntime
<1>3. \A x \in TickStates : x \in ProcessStates
  BY DEF ProcessStates
<1>4. ASSUME NEW x \in TickStates, NEW t \in Turn \cup {None}, Goto(p, x), KeepTurn(p, t)
      PROVE  Done
  BY <1>3, <1>4, KeepEffect
<1>5. ASSUME NEW x \in TickStates, Goto(p, x), Keep(p)
      PROVE  Done
  BY <1>1, <1>4, <1>5 DEF Keep
<1>6. ASSUME Done, FileType', UNCHANGED <<unread, turnVars>>
      PROVE  TypeOK'
  BY <1>6 DEF TypeOK, TurnTypeOK, FileType, turnVars, leaseVars, userVars
<1>7. ASSUME Done, FileType', asked' \in [Turn -> Nat],
             UNCHANGED <<unread, status, owner, seen, active, child>>
      PROVE  TypeOK'
  BY <1>7 DEF TypeOK, TurnTypeOK, FileType, leaseVars, userVars
<1>8. UNCHANGED file => FileType'
  BY <1>1 DEF FileType
<1>9. 1 \in Turn
  BY DEF Turn
<1>10. "rest" \in TickStates /\ "failing" \in TickStates
  BY DEF TickStates
<1> HIDE DEF Done
<1>11. CASE Load(p)
  <2>1. CASE file = NoFile
    <3>1. Goto(p, "stopping") /\ UNCHANGED <<snap, turn, file, unread, turnVars>>
      BY <1>11, <2>1 DEF Load
    <3>2. Done
      BY <1>1, <1>3, <3>1 DEF Goto, Done, TickStates
    <3> QED
      BY <1>6, <1>8, <3>1, <3>2
  <2>2. CASE file # NoFile
    <3>1. Goto(p, "act") /\ snap' = [snap EXCEPT ![p] = Loaded(file)]
          /\ UNCHANGED <<turn, file, unread, turnVars>>
      BY <1>11, <2>2 DEF Load
    <3>2. Loaded(file) \in LoadedRuntime
      BY <1>1, <2>2, LoadedType DEF FileType
    <3>3. Done
      BY <1>1, <1>3, <3>1, <3>2 DEF Goto, Done, TickStates, InTick
    <3> QED
      BY <1>6, <1>8, <3>1, <3>3
  <2> QED
    BY <2>1, <2>2
<1>12. CASE ServerAsks(p)
  BY <1>5, <1>6, <1>8, <1>12 DEF ServerAsks, TickStates
<1>13. CASE Reconcile(p)
  <2> DEFINE t == snap[p].pending
  <2>1. t \in Turn
    BY <1>2, <1>13 DEF Reconcile, InPending
  <2>2. KeepTurn(p, t) /\ UNCHANGED <<unread, turnVars>>
    BY <1>13 DEF Reconcile
  <2>3. file # NoFile => WithoutPending(file) \in RuntimeFile /\ Started(file, t) \in RuntimeFile
    BY <1>1, <2>1, TurnUpdates DEF FileType
  <2>4. FileType' /\ \E x \in TickStates : Goto(p, x)
    <3>1. CASE snap[p].waited = "late"
      BY <1>1, <1>13, <2>3, <3>1 DEF Reconcile, FileType, TickStates, InTick
    <3>2. CASE snap[p].waited # "late" /\ Checked(p, MayStart(file, t), Started(file, t), "rest")
      BY <1>1, <2>3, <3>2, <1>10 DEF Checked, Update, FileType
    <3>3. CASE UNCHANGED file /\ Goto(p, "rest")
      BY <1>8, <3>3 DEF TickStates
    <3> QED
      BY <1>13, <3>1, <3>2, <3>3 DEF Reconcile
  <2> QED
    BY <1>4, <1>6, <2>1, <2>2, <2>4
<1>14. CASE Expire(p)
  <2>1. turn[p] \in Turn
    BY <1>1, <1>14 DEF Expire, TurnInv, Step, StepTurn, AboutTurn
  <2>2. RequestInterrupt(p, turn[p], "failing")
    BY <1>14 DEF Expire
  <2>3. Goto(p, "failing") /\ asked' \in [Turn -> Nat]
    BY <2>1, <2>2, AskType
  <2> QED
    BY <1>5, <1>7, <1>8, <1>14, <2>3 DEF Expire, TickStates
<1>15. CASE Resolve(p)
  <2>1. file # NoFile => Finished(file) \in RuntimeFile /\ Restarted(file) \in RuntimeFile
    BY <1>1, <1>9, TurnUpdates DEF FileType
  <2>2. FileType' /\ \E x \in TickStates : Goto(p, x)
    <3>1. CASE UNCHANGED file /\ \E x \in {"failing", "disable"} : Goto(p, x)
      BY <1>8, <3>1 DEF TickStates
    <3>2. CASE Checked(p, file.managed = snap[p].managed, Finished(file), "rest")
      BY <1>1, <2>1, <3>2, <1>10 DEF Checked, Update, FileType
    <3>3. CASE Checked(p, MayCountRestart(file, snap[p].managed), Restarted(file), "rest")
      BY <1>1, <2>1, <3>3, <1>10 DEF Checked, Update, FileType
    <3> QED
      BY <1>15, <3>1, <3>2, <3>3 DEF Resolve
  <2> QED
    BY <1>5, <1>6, <1>15, <2>2 DEF Resolve
<1>16. CASE Shutdown(p)
  <2> DEFINE t == snap[p].managed
  <2>1. KeepTurn(p, t) /\ UNCHANGED <<file, unread, status, owner, seen, active, child>>
    BY <1>16 DEF Shutdown
  <2>2. asked' \in [Turn -> Nat] /\ \E x \in TickStates : Goto(p, x)
    <3>1. CASE UNCHANGED asked /\ \E x \in {"disable", "rest", "failing"} : Goto(p, x)
      BY <3>1 DEF TypeOK, TurnTypeOK, TickStates
    <3>2. CASE t # None /\ RequestInterrupt(p, t, "stop_wait")
      BY <1>2, <3>2, AskType DEF TickStates, InTick
    <3> QED
      BY <1>16, <3>1, <3>2 DEF Shutdown
  <2> QED
    BY <1>2, <1>4, <1>7, <1>8, <2>1, <2>2
<1>17. CASE ShutdownWait(p)
  BY <1>5, <1>6, <1>8, <1>17 DEF ShutdownWait, TickStates
<1>18. CASE Disable(p)
  <2>1. FileType'
    BY <1>18 DEF Disable, FileType
  <2> QED
    BY <1>5, <1>6, <1>18, <2>1 DEF Disable, TickStates
<1>19. CASE Decide(p)
  BY <1>5, <1>6, <1>8, <1>19 DEF Decide, TickStates
<1>20. CASE Start(p)
  <2>1. CASE Goto(p, "failing") /\ Keep(p) /\ UNCHANGED turnVars
    BY <1>5, <1>6, <1>8, <1>20, <2>1 DEF Start, TickStates
  <2>2. ASSUME NEW t \in Turn, Accept(p, t), KeepTurn(p, t),
               Goto(p, "record") \/ Goto(p, "failing")
        PROVE  TypeOK'
    <3>1. Done
      BY <1>4, <2>2 DEF TickStates, InTick
    <3>2. TurnTypeOK'
      BY <2>2 DEF Accept, TypeOK, TurnTypeOK
    <3> QED
      BY <1>20, <3>1, <3>2 DEF Start, TypeOK, Done, leaseVars, userVars
  <2> QED
    BY <1>20, <2>1, <2>2 DEF Start
<1>21. CASE Record(p)
  <2>1. turn[p] \in Turn
    BY <1>1, <1>21 DEF Record, TurnInv, Step, StepTurn, AboutTurn
  <2>2. file # NoFile => Pending(file, turn[p]) \in RuntimeFile
    BY <1>1, <2>1, TurnUpdates DEF FileType
  <2>3. FileType' /\ \E x \in TickStates : Goto(p, x)
    BY <1>1, <1>21, <2>2 DEF Record, Update, FileType, TickStates, InTick
  <2> QED
    BY <1>5, <1>6, <1>21, <2>3 DEF Record
<1>22. CASE Recover(p)
  <2>1. turn[p] \in Turn
    BY <1>1, <1>22 DEF Recover, TurnInv, Step, StepTurn, AboutTurn
  <2>2. Goto(p, "failing") /\ asked' \in [Turn -> Nat]
    <3>1. CASE Goto(p, "failing") /\ UNCHANGED asked
      BY <3>1 DEF TypeOK, TurnTypeOK
    <3>2. CASE RequestInterrupt(p, turn[p], "failing")
      BY <2>1, <3>2, AskType
    <3> QED
      BY <1>22, <3>1, <3>2 DEF Recover
  <2> QED
    BY <1>5, <1>7, <1>8, <1>22, <2>2 DEF Recover, TickStates
<1>23. CASE WaitStart(p)
  <2>1. turn[p] \in Turn
    BY <1>1, <1>23 DEF WaitStart, TurnInv, Step, StepTurn, AboutTurn
  <2>2. file # NoFile => Started(file, turn[p]) \in RuntimeFile /\ TimedOut(file) \in RuntimeFile
    BY <1>1, <2>1, TurnUpdates DEF FileType
  <2>3. FileType' /\ \E x \in TickStates : Goto(p, x)
    <3>1. CASE Checked(p, MayStart(file, turn[p]), Started(file, turn[p]), "rest")
      BY <1>1, <2>2, <3>1, <1>10 DEF Checked, Update, FileType
    <3>2. CASE Checked(p, file.pending = turn[p], TimedOut(file), "rest")
      BY <1>1, <2>2, <3>2, <1>10 DEF Checked, Update, FileType
    <3>3. CASE Goto(p, "failing") /\ UNCHANGED file
      BY <1>8, <3>3 DEF TickStates
    <3> QED
      BY <1>23, <3>1, <3>2, <3>3 DEF WaitStart
  <2>4. active' \in [Process -> Turn \cup {None}]
    BY <1>23, <2>1 DEF WaitStart, Bind, TypeOK, TurnTypeOK
  <2>5. Done
    BY <1>5, <1>23, <2>3 DEF WaitStart
  <2> QED
    BY <1>23, <2>3, <2>4, <2>5
    DEF WaitStart, TypeOK, TurnTypeOK, FileType, Done, leaseVars, userVars
<1>24. CASE Claim(p)
  <2> DEFINE r == snap[p].request
  <2>1. file # NoFile => [file EXCEPT !.claimed = "recent"] \in RuntimeFile
                         /\ ClearedIfStale(file, r, unread) \in RuntimeFile
    BY <1>1, RequestUpdates DEF FileType
  <2>2. FileType' /\ \E x \in TickStates : Goto(p, x)
    BY <1>1, <1>24, <2>1 DEF Claim, FileType, TickStates, InTick
  <2> QED
    BY <1>2, <1>4, <1>6, <1>24, <2>2 DEF Claim
<1>25. ASSUME NEW f \in RuntimeFile \cup {NoFile}, Cancelled(p, f)
       PROVE  FileType' /\ \E x \in TickStates : Goto(p, x)
  <2>1. f # NoFile => Finished(f) \in RuntimeFile
                      /\ ClearedIfSame(f, snap[p].request) \in RuntimeFile
    BY <1>9, TurnUpdates, RequestUpdates
  <2> QED
    BY <1>25, <2>1 DEF Cancelled, FileType, TickStates
<1>26. CASE Recheck(p)
  <2> DEFINE r == snap[p].request
             f == IF file = NoFile THEN file ELSE ClearedIfStale(file, r, unread)
  <2>1. f \in RuntimeFile \cup {NoFile}
    BY <1>1, RequestUpdates DEF FileType
  <2>2. CASE UNCHANGED file /\ Goto(p, "send")
    BY <1>5, <1>6, <1>8, <1>26, <2>2 DEF Recheck, TickStates, InTick
  <2>3. CASE Cancelled(p, f)
    <3> HIDE DEF f
    <3>1. FileType' /\ \E x \in TickStates : Goto(p, x)
      BY <1>25, <2>1, <2>3
    <3> QED
      BY <1>5, <1>6, <1>26, <3>1 DEF Recheck
  <2> QED
    BY <1>26, <2>2, <2>3 DEF Recheck
<1>27. CASE SendInterrupt(p)
  <2>1. turn[p] \in Turn
    BY <1>1, <1>27 DEF SendInterrupt, TurnInv, Step, StepTurn, AboutTurn
  <2>2. FileType' /\ asked' \in [Turn -> Nat] /\ \E x \in TickStates : Goto(p, x)
    <3>1. asked \in [Turn -> Nat]
      BY DEF TypeOK, TurnTypeOK
    <3>2. CASE Cancelled(p, file) /\ UNCHANGED asked
      BY <1>1, <1>25, <3>1, <3>2 DEF FileType
    <3>3. CASE Goto(p, "failing") /\ UNCHANGED <<file, asked>>
      BY <1>8, <3>1, <3>3 DEF TickStates
    <3>4. CASE RequestInterrupt(p, turn[p], "wait_end") /\ UNCHANGED file
      BY <1>8, <2>1, <3>4, AskType DEF TickStates, InTick
    <3> QED
      BY <1>27, <3>2, <3>3, <3>4 DEF SendInterrupt
  <2> QED
    BY <1>5, <1>7, <1>27, <2>2 DEF SendInterrupt
<1>28. CASE WaitEnd(p)
  <2>1. file # NoFile => Restarted(file) \in RuntimeFile
    BY <1>1, <1>9, TurnUpdates DEF FileType
  <2>2. FileType' /\ \E x \in TickStates : Goto(p, x)
    <3>1. CASE UNCHANGED file /\ \E x \in {"failing", "rest"} : Goto(p, x)
      BY <1>8, <3>1 DEF TickStates
    <3>2. CASE Checked(p, MayCountRestart(file, turn[p]), Restarted(file), "rest")
      BY <1>1, <2>1, <3>2, <1>10 DEF Checked, Update, FileType
    <3> QED
      BY <1>28, <3>1, <3>2 DEF WaitEnd
  <2> QED
    BY <1>5, <1>6, <1>28, <2>2 DEF WaitEnd
<1> QED
  BY <1>11, <1>12, <1>13, <1>14, <1>15, <1>16, <1>17, <1>18, <1>19, <1>20, <1>21, <1>22,
     <1>23, <1>24, <1>26, <1>27, <1>28 DEF Tick

(* The steps of a process outside its ticks.                               *)
LEMMA ManagerType ==
    ASSUME TypeOK, NEW p \in Process,
           \/ Begin(p) \/ Acquire(p) \/ Initialize(p) \/ RecordFailure(p) \/ MarkStopped(p)
           \/ CloseClient(p) \/ RemoveMarker(p) \/ Release(p) \/ Crash(p) \/ ChildDies(p)
    PROVE  TypeOK'
<1> USE DEF None
<1>1. /\ FileType /\ turn[p] \in Turn \cup {None} /\ TurnTypeOK
      /\ pc \in [Process -> ProcessStates] /\ lock \in Process \cup {None}
      /\ marker \in Process \cup {None} /\ faults \in 0..MaxFaults
      /\ MaxFaults \in Nat
  BY DEF TypeOK, FileType
<1>2. ASSUME NEW x \in {"idle", "loaded", "dead", "idle_locked", "locked", "stopping", "init",
                        "failing", "rest", "spawned", "close", "close_bad", "unmark", "unmark_bad",
                        "unlock", "unlock_bad", "late", "late_locked", "exit"},
             Goto(p, x)
      PROVE  pc' \in [Process -> ProcessStates]
  BY <1>1, <1>2 DEF Goto, ProcessStates, TickStates
<1>3. UNCHANGED file => FileType'
  BY <1>1 DEF FileType
<1>6. Fault => faults' \in 0..MaxFaults
  BY <1>1 DEF Fault
<1>4. ASSUME FileType', TurnTypeOK', pc' \in [Process -> ProcessStates],
             UNCHANGED faults \/ Fault, UNCHANGED <<unread, snap, turn, leaseVars, userVars>>
      PROVE  TypeOK'
  BY <1>1, <1>4, <1>6 DEF TypeOK, FileType, leaseVars, userVars
<1>5. UNCHANGED turnVars => TurnTypeOK'
  BY <1>1 DEF TurnTypeOK, turnVars
<1>7. Close(p) => TurnTypeOK'
  BY <1>1 DEF Close, TurnTypeOK
<1>8. CASE Begin(p)
  BY <1>2, <1>3, <1>4, <1>5, <1>8 DEF Begin
<1>9. CASE Acquire(p)
  <2>1. pc' \in [Process -> ProcessStates]
    BY <1>2, <1>9 DEF Acquire
  <2>2. lock' \in Process \cup {None} /\ marker' \in Process \cup {None}
    BY <1>1, <1>9 DEF Acquire
  <2> QED
    BY <1>3, <1>5, <1>9, <2>1, <2>2 DEF Acquire, TypeOK, FileType, userVars
<1>10. CASE Initialize(p)
  <2>1. pc' \in [Process -> ProcessStates]
    BY <1>2, <1>10 DEF Initialize
  <2>2. FileType'
    <3>1. file # NoFile => Ready(file, p) \in RuntimeFile
      BY <1>1, ReadinessUpdates DEF FileType
    <3> QED
      BY <1>1, <1>10, <3>1 DEF Initialize, Update, FileType
  <2>3. TurnTypeOK'
    BY <1>1, <1>5, <1>10 DEF Initialize, Spawn, TurnTypeOK
  <2> QED
    BY <1>4, <1>10, <2>1, <2>2, <2>3 DEF Initialize
<1>11. CASE RecordFailure(p) \/ MarkStopped(p)
  <2>1. pc' \in [Process -> ProcessStates]
    BY <1>2, <1>11 DEF RecordFailure, MarkStopped
  <2>2. FileType'
    <3>1. file # NoFile => Failed(file) \in RuntimeFile /\ Stopped(file) \in RuntimeFile
      BY <1>1, ReadinessUpdates DEF FileType
    <3> QED
      BY <1>1, <1>11, <3>1 DEF RecordFailure, MarkStopped, Update, FileType
  <2> QED
    BY <1>4, <1>5, <1>11, <2>1, <2>2 DEF RecordFailure, MarkStopped
<1>12. CASE CloseClient(p)
  BY <1>2, <1>3, <1>4, <1>7, <1>12 DEF CloseClient
<1>13. CASE RemoveMarker(p) \/ Release(p)
  <2>1. pc' \in [Process -> ProcessStates]
    BY <1>2, <1>13 DEF RemoveMarker, Release
  <2>2. /\ lock' \in Process \cup {None} /\ marker' \in Process \cup {None}
        /\ faults' \in 0..MaxFaults
    BY <1>1, <1>6, <1>13 DEF RemoveMarker, Release
  <2> QED
    BY <1>3, <1>5, <1>13, <2>1, <2>2 DEF RemoveMarker, Release, TypeOK, FileType, userVars
<1>14. CASE Crash(p)
  <2>1. "dead" \in ProcessStates
    BY DEF ProcessStates
  <2>2. /\ pc' \in [Process -> ProcessStates] /\ snap' \in [Process -> LoadedRuntime]
        /\ turn' \in [Process -> Turn \cup {None}]
    BY <1>1, <1>14, <2>1, KeepEffect DEF Crash, Keep
  <2>3. lock' \in Process \cup {None} /\ faults' \in 0..MaxFaults
    BY <1>1, <1>6, <1>14 DEF Crash
  <2> QED
    BY <1>3, <1>7, <1>14, <2>2, <2>3 DEF Crash, TypeOK, FileType, userVars
<1>15. CASE ChildDies(p)
  <2>1. TurnTypeOK' /\ faults' \in 0..MaxFaults
    BY <1>1, <1>6, <1>15 DEF ChildDies, ChildEnds, TurnTypeOK
  <2> QED
    BY <1>15, <2>1 DEF ChildDies, TypeOK, engineVars, leaseVars, userVars
<1> QED
  BY <1>8, <1>9, <1>10, <1>11, <1>12, <1>13, <1>14, <1>15

(* What the others do to the file.                                         *)
Others ==
    \/ Enable \/ SaveSession \/ AwaitReady \/ CancelStartup \/ Rollback \/ StopCommand
    \/ Hook \/ RolloutGrows \/ WatcherReads \/ AskRestart \/ TimePasses

(* It appears, goes, or keeps its turns, its readiness and its restarts; a *)
(* stop that is recorded finds an owned turn, or a startup to cancel before*)
(* its manager is ready; and a request appears only where there is none    *)
(* and no stop.                                                            *)
OthersWrite ==
    \/ file' \in {file, NoFile}
    \/ enabling = "save" /\ enabling' = "spawn" /\ file' = NewFile
    \/ /\ file # NoFile /\ file' \in RuntimeFile
       /\ SameTurns(file', file) /\ SameReady(file', file) /\ NoRestart(file', file)
       /\ \/ SameStop(file', file)
          \/ /\ file'.shutdown /\ ~file'.interrupt /\ ~file.ready
             /\ enabling = "cancel"
          \/ file'.shutdown /\ file.ready /\ file.managed # None
       /\ \/ SameRequest(file', file)
          \/ file'.claimed = "never"
          \/ file'.request = file.request /\ file.claimed # "never"
          \/ file.request = NoRequest /\ file'.claimed = file.claimed

(* How the enabling command goes on.                                       *)
EnablingStep ==
    /\ launched' = launched
    /\ \/ enabling' = enabling
       \/ enabling = "idle" /\ enabling' = "save" /\ file' = file /\ file = NoFile /\ lock = None
       \/ enabling = "save" /\ enabling' = "spawn" /\ file' = NewFile
       \/ enabling = "wait" /\ enabling' = "cancel" /\ file' = file
       \/ enabling = "wait" /\ enabling' = "rollback"
       \/ enabling = "wait" /\ enabling' = "idle" /\ file' = file /\ file.ready
       \/ enabling = "cancel" /\ enabling' = "rollback"
       \/ enabling = "rollback" /\ enabling' = "idle" /\ file' = NoFile

(* Every step of theirs writes so.                                         *)
LEMMA OthersEffect ==
    ASSUME TypeOK, Others
    PROVE  /\ OthersWrite /\ EnablingStep
           /\ UNCHANGED <<pc, snap, turn, turnVars, leaseVars, faults>>
           /\ TypeOK'
<1>1. FileType
  BY DEF TypeOK, FileType
<1>2. UNCHANGED <<pc, snap, turn, turnVars, leaseVars, faults>>
  BY DEF Others, Enable, SaveSession, AwaitReady, CancelStartup, Rollback, StopCommand, RequestStop,
         RemoveSession, Hook, RolloutGrows, WatcherReads, AskRestart, TimePasses, Rewrite,
         engineVars
<1>3. OthersWrite /\ FileType'
  <2>1. CASE Enable \/ SaveSession \/ AwaitReady \/ Rollback \/ RemoveSession \/ RolloutGrows
    BY <1>1, <2>1, FreshFile
    DEF Enable, SaveSession, AwaitReady, Rollback, RemoveSession, RolloutGrows, OthersWrite,
        FileType, Enabling, engineVars
  <2>2. CASE CancelStartup
    <3>1. CASE file = NoFile
      BY <1>1, <2>2, <3>1 DEF CancelStartup, Update, OthersWrite, FileType
    <3>2. CASE file # NoFile
      <4>1. file \in RuntimeFile /\ file' = StartupCancelled(file)
        BY <1>1, <2>2, <3>2 DEF CancelStartup, Update, FileType
      <4>2. CASE file.ready
        BY <1>1, <4>1, <4>2, OthersUpdates DEF OthersWrite, FileType
      <4>3. CASE ~file.ready
        <5>1. file'.shutdown /\ ~file'.interrupt
          BY <4>1, <4>3 DEF StartupCancelled, RuntimeFile
        <5>2. enabling = "cancel"
          BY <2>2 DEF CancelStartup, Enabling
        <5> QED
          BY <3>2, <4>1, <4>3, <5>1, <5>2, OthersUpdates DEF OthersWrite, FileType
      <4> QED
        BY <4>2, <4>3
    <3> QED
      BY <3>1, <3>2
  <2>3. ASSUME NEW i \in BOOLEAN, RequestStop(i) PROVE OthersWrite /\ FileType'
    <3>1. file # NoFile /\ file \in RuntimeFile
      BY <1>1, <2>3 DEF RequestStop, FileType
    <3>2. CASE MayDefer(file)
      <4>1. file' = Deferred(file, i) /\ file.managed # None /\ file.ready
        BY <2>3, <3>2 DEF RequestStop, MayDefer
      <4> QED
        BY ZenonT(60), <3>1, <4>1, OthersUpdates DEF OthersWrite, FileType
    <3>3. CASE ~MayDefer(file)
      BY <1>1, <2>3, <3>3 DEF RequestStop, OthersWrite, FileType
    <3> QED
      BY <3>2, <3>3
  <2>4. CASE Hook
    <3>1. file # NoFile /\ file \in RuntimeFile
      BY <1>1, <2>4 DEF Hook, FileType
    <3>2. file' \in {PromptSubmitted(file), ToolUsed(file), StopReported(file)}
          /\ file' \in RuntimeFile
      BY <2>4, <3>1, OthersUpdates DEF Hook, Rewrite
    <3> QED
      BY ZenonT(60), <3>1, <3>2, OthersUpdates DEF OthersWrite, FileType
  <2>5. CASE WatcherReads
    <3>1. file # NoFile /\ file \in RuntimeFile /\ file.epoch < MaxEpoch
          /\ file' = [file EXCEPT !.epoch = @ + 1]
      BY <1>1, <2>5 DEF WatcherReads, FileType
    <3> QED
      BY <3>1, OthersUpdates DEF OthersWrite, FileType
  <2>6. CASE AskRestart
    <3> DEFINE r == [turn |-> file.managed, epoch |-> file.epoch]
    <3>1. file # NoFile /\ file \in RuntimeFile /\ file.request = NoRequest
          /\ file' = [file EXCEPT !.request = r]
      BY <1>1, <2>6 DEF AskRestart, Rewrite, FileType
    <3>2. r \in Request
      BY <3>1 DEF Request, RuntimeFile
    <3> HIDE DEF r
    <3>3. /\ file' \in RuntimeFile /\ SameTurns(file', file) /\ SameReady(file', file)
          /\ NoRestart(file', file) /\ SameStop(file', file)
          /\ file'.claimed = file.claimed
      BY <3>1, <3>2 DEF RuntimeFile, SameTurns, SameReady, SameStop, NoRestart
    <3> QED
      BY <3>1, <3>3 DEF OthersWrite, FileType
  <2>7. CASE TimePasses
    <3>1. file # NoFile /\ file \in RuntimeFile
          /\ \/ file' = [file EXCEPT !.waited = "late"]
             \/ file.claimed = "recent" /\ file' = [file EXCEPT !.claimed = "late"]
      BY <1>1, <2>7 DEF TimePasses, Rewrite, FileType
    <3> QED
      BY ZenonT(60), <3>1, OthersUpdates DEF OthersWrite, FileType
  <2> QED
    BY <2>1, <2>2, <2>3, <2>4, <2>5, <2>6, <2>7 DEF Others, StopCommand
<1>4. unread' \in BOOLEAN
  BY DEF Others, Enable, SaveSession, AwaitReady, CancelStartup, Rollback, StopCommand, RequestStop,
         RemoveSession, Hook, RolloutGrows, WatcherReads, AskRestart, TimePasses, Rewrite,
         TypeOK, engineVars
<1>5. /\ enabling' \in {"idle", "save", "spawn", "wait", "cancel", "rollback"}
      /\ launched' \in Process \cup {None} /\ disabling' \in BOOLEAN
  BY DEF Others, Enable, SaveSession, AwaitReady, CancelStartup, Rollback, StopCommand, RequestStop,
         RemoveSession, Hook, RolloutGrows, WatcherReads, AskRestart, TimePasses, Rewrite,
         TypeOK, engineVars, Enabling, userVars
<1>6. EnablingStep
  BY DEF Others, Enable, SaveSession, AwaitReady, CancelStartup, Rollback, StopCommand,
         RequestStop, RemoveSession, Hook, RolloutGrows, WatcherReads, AskRestart, TimePasses,
         Rewrite, engineVars, Enabling, userVars, EnablingStep, ReadyInTime
<1> QED
  BY <1>2, <1>3, <1>4, <1>5, <1>6 DEF TypeOK, TurnTypeOK, FileType, turnVars, leaseVars

(* The manager that an enabling command launches, and the app-server.      *)
LEMMA RestType ==
    ASSUME TypeOK, Launch \/ \E t \in Turn : AppServer(t)
    PROVE  TypeOK'
<1>1. CASE Launch
  <2>1. pc' \in [Process -> ProcessStates] /\ launched' \in Process \cup {None}
    BY <1>1 DEF Launch, Goto, TypeOK, ProcessStates
  <2> QED
    BY <1>1, <2>1 DEF Launch, Enabling, TypeOK, TurnTypeOK, turnVars, leaseVars
<1>2. ASSUME NEW t \in Turn, AppServer(t) PROVE TypeOK'
  <2>1. TurnTypeOK'
    <3>1. CASE Ends(t)
      BY <3>1 DEF Ends, Ended, TypeOK, TurnTypeOK
    <3>2. CASE Observes(t)
      BY <3>2 DEF Observes, ObserveStart, ObserveEnd, TypeOK, TurnTypeOK
    <3> QED
      BY <1>2, <3>1, <3>2 DEF AppServer
  <2> QED
    BY <1>2, <2>1 DEF AppServer, TypeOK, engineVars, leaseVars, userVars
<1> QED
  BY <1>1, <1>2

-----------------------------------------------------------------------------
(* What a step of a tick leaves alone. *)

(* The rest of the file when a tick has written it.                        *)
KeptByTick == file' # NoFile => file # NoFile /\ SameReady(file', file) /\ SameStop(file', file)

(* A tick neither makes a manager ready nor records a stop.                *)
LEMMA TickFile ==
    ASSUME TypeOK, TurnInv, NEW p \in Process, Tick(p)
    PROVE  KeptByTick
<1> USE DEF None
<1>1. /\ FileType /\ turn[p] \in Turn \cup {None} /\ snap[p] \in LoadedRuntime
  BY DEF TypeOK, FileType
<1>2. snap[p].managed \in Turn \cup {None} /\ snap[p].pending \in Turn \cup {None}
  BY <1>1 DEF LoadedRuntime
<1>3. 1 \in Turn
  BY DEF Turn
<1>4. ASSUME UNCHANGED file \/ file' = NoFile PROVE KeptByTick
  BY <1>4 DEF KeptByTick, SameReady, SameStop
<1>5. ASSUME NEW new, Update(new), file # NoFile => SameReady(new, file) /\ SameStop(new, file)
      PROVE  KeptByTick
  BY <1>5 DEF KeptByTick, Update
<1>6. ASSUME NEW ok, NEW new, NEW next, Checked(p, ok, new, next),
             file # NoFile => SameReady(new, file) /\ SameStop(new, file)
      PROVE  KeptByTick
  BY <1>4, <1>5, <1>6 DEF Checked
<1>7. \A f \in RuntimeFile, t \in Turn :
        \A g \in {Pending(f, t), TimedOut(f), WithoutPending(f), Started(f, t), Finished(f),
                  Restarted(f)} :
          SameReady(g, f) /\ SameStop(g, f)
  BY TurnUpdates
<1>8. ASSUME NEW f \in RuntimeFile, NEW r, NEW u
      PROVE  /\ ClearedIfStale(f, r, u) \in RuntimeFile
             /\ SameReady(ClearedIfStale(f, r, u), f) /\ SameReady(ClearedIfSame(f, r), f)
             /\ SameStop(ClearedIfStale(f, r, u), f)
             /\ SameStop(ClearedIfSame(f, r), f)
  <2>1. f \in RuntimeFile /\ SameReady(f, f) /\ SameStop(f, f)
    BY DEF SameReady, SameStop
  <2> QED
    BY <2>1, Without DEF ClearedIfStale, ClearedIfSame
<1>9. ASSUME NEW f \in RuntimeFile
       PROVE  LET g == [f EXCEPT !.claimed = "recent"] IN SameReady(g, f) /\ SameStop(g, f)
  BY DEF RuntimeFile, SameReady, SameStop
<1>10. ASSUME NEW f, Cancelled(p, f), file = NoFile => f = NoFile,
             file # NoFile => f \in RuntimeFile /\ SameReady(f, file) /\ SameStop(f, file)
      PROVE  KeptByTick
  <2>1. CASE file = NoFile
    BY <1>10, <2>1 DEF Cancelled, KeptByTick
  <2>2. CASE file # NoFile
    <3>1. f \in RuntimeFile
      BY <1>10, <2>2
    <3>2. \A g \in {Finished(f), ClearedIfSame(f, snap[p].request)} :
            SameReady(g, f) /\ SameStop(g, f)
      <4>1. SameReady(Finished(f), f) /\ SameStop(Finished(f), f)
        BY <1>3, <1>7, <3>1
      <4>2. SameReady(ClearedIfSame(f, snap[p].request), f)
            /\ SameStop(ClearedIfSame(f, snap[p].request), f)
        BY <1>8, <3>1
      <4> QED
        BY <4>1, <4>2
    <3>3. file' \in {f, Finished(f), ClearedIfSame(f, snap[p].request)}
      BY <1>10 DEF Cancelled
    <3> QED
      BY <1>10, <2>2, <3>2, <3>3 DEF KeptByTick, SameReady, SameStop
  <2> QED
    BY <2>1, <2>2
<1> HIDE DEF KeptByTick
<1>11. CASE Load(p) \/ ServerAsks(p) \/ Expire(p) \/ Shutdown(p) \/ ShutdownWait(p) \/ Disable(p)
            \/ Decide(p) \/ Start(p) \/ Recover(p)
  BY <1>4, <1>11
  DEF Load, ServerAsks, Expire, Shutdown, ShutdownWait, Disable, Decide, Start, Recover
<1>12. CASE Reconcile(p)
  <2>1. snap[p].pending \in Turn
    BY <1>2, <1>12 DEF Reconcile, InPending
  <2>2. CASE file = NoFile
    BY <1>4, <1>12, <2>2 DEF Reconcile, Checked, Update
  <2>3. CASE file # NoFile
    <3>1. \A g \in {WithoutPending(file), Started(file, snap[p].pending)} :
            SameReady(g, file) /\ SameStop(g, file)
      BY <1>1, <1>7, <2>1, <2>3 DEF FileType
    <3>2. file' \in {file, WithoutPending(file), Started(file, snap[p].pending)}
      BY <1>12, <2>3 DEF Reconcile, Checked, Update
    <3> QED
      BY <2>3, <3>1, <3>2 DEF KeptByTick, SameReady, SameStop
  <2> QED
    BY <2>2, <2>3
<1>13. CASE Resolve(p)
  <2>1. file # NoFile => \A g \in {Finished(file), Restarted(file)} :
                           SameReady(g, file) /\ SameStop(g, file)
    BY <1>1, <1>3, <1>7 DEF FileType
  <2>2. \/ UNCHANGED file
        \/ Checked(p, file.managed = snap[p].managed, Finished(file), "rest")
        \/ Checked(p, MayCountRestart(file, snap[p].managed), Restarted(file), "rest")
    BY <1>13 DEF Resolve
  <2> QED
    BY <1>4, <1>6, <2>1, <2>2
<1>14. CASE Record(p)
  <2>1. turn[p] \in Turn
    BY <1>1, <1>14 DEF Record, TurnInv, Step, StepTurn, AboutTurn
  <2>2. file # NoFile => LET g == Pending(file, turn[p]) IN
                           SameReady(g, file) /\ SameStop(g, file)
    BY <1>1, <1>7, <2>1 DEF FileType
  <2> QED
    BY <1>4, <1>5, <1>14, <2>2 DEF Record
<1>15. CASE WaitStart(p)
  <2>1. turn[p] \in Turn
    BY <1>1, <1>15 DEF WaitStart, TurnInv, Step, StepTurn, AboutTurn
  <2>2. file # NoFile => \A g \in {Started(file, turn[p]), TimedOut(file)} :
                           SameReady(g, file) /\ SameStop(g, file)
    BY <1>1, <1>7, <2>1 DEF FileType
  <2>3. \/ UNCHANGED file
        \/ Checked(p, MayStart(file, turn[p]), Started(file, turn[p]), "rest")
        \/ Checked(p, file.pending = turn[p], TimedOut(file), "rest")
    BY <1>15 DEF WaitStart
  <2> QED
    BY <1>4, <1>6, <2>2, <2>3
<1>16. CASE Claim(p)
  <2>1. CASE file = NoFile
    BY <1>4, <1>16, <2>1 DEF Claim
  <2>2. CASE file # NoFile
    <3>1. \/ UNCHANGED file
          \/ file' = [file EXCEPT !.claimed = "recent"]
          \/ file' = ClearedIfStale(file, snap[p].request, unread)
      BY <1>16, <2>2 DEF Claim
    <3>2. file \in RuntimeFile
      BY <1>1, <2>2 DEF FileType
    <3>3. CASE file' = [file EXCEPT !.claimed = "recent"]
      BY <1>9, <2>2, <3>2, <3>3 DEF KeptByTick
    <3>4. CASE file' = ClearedIfStale(file, snap[p].request, unread)
      BY <1>8, <2>2, <3>2, <3>4 DEF KeptByTick
    <3> QED
      BY <1>4, <3>1, <3>3, <3>4
  <2> QED
    BY <2>1, <2>2
<1>17. CASE Recheck(p)
  <2> DEFINE f == IF file = NoFile THEN file ELSE ClearedIfStale(file, snap[p].request, unread)
  <2>1. file # NoFile => f \in RuntimeFile /\ SameReady(f, file) /\ SameStop(f, file)
    BY <1>1, <1>8 DEF FileType
  <2>2. (file = NoFile => f = NoFile) /\ (UNCHANGED file \/ Cancelled(p, f))
    BY <1>17 DEF Recheck
  <2> HIDE DEF f
  <2> QED
    BY <1>4, <1>10, <2>1, <2>2
<1>18. CASE SendInterrupt(p)
  <2>1. file # NoFile => file \in RuntimeFile /\ SameReady(file, file) /\ SameStop(file, file)
    BY <1>1 DEF FileType, SameReady, SameStop
  <2> QED
    BY <1>4, <1>10, <1>18, <2>1 DEF SendInterrupt
<1>19. CASE WaitEnd(p)
  <2>1. file # NoFile => SameReady(Restarted(file), file) /\ SameStop(Restarted(file), file)
    BY <1>1, <1>3, <1>7 DEF FileType
  <2>2. \/ UNCHANGED file
        \/ Checked(p, MayCountRestart(file, turn[p]), Restarted(file), "rest")
    BY <1>19 DEF WaitEnd
  <2> QED
    BY <1>4, <1>6, <2>1, <2>2
<1> QED
  BY <1>11, <1>12, <1>13, <1>14, <1>15, <1>16, <1>17, <1>18, <1>19 DEF Tick

(* Where it goes, and whose state it changes.                              *)
LEMMA TickPlaces ==
    ASSUME TypeOK, NEW p \in Process, Tick(p)
    PROVE  /\ pc[p] \in TickStates \ {"stopping", "failing"}
           /\ \E x \in TickStates : Goto(p, x) /\ (x = "act" => Load(p))
           /\ \A q \in Process : q # p => pc'[q] = pc[q] /\ snap'[q] = snap[q] /\ turn'[q] = turn[q]
           /\ owner' = owner \/ \E t \in Turn : Accept(p, t)
<1>1. pc[p] \in TickStates \ {"stopping", "failing"}
  BY DEF Tick, Load, ServerAsks, Reconcile, Expire, Resolve, Shutdown, ShutdownWait, Disable,
         Decide, Start, Record, Recover, WaitStart, Claim, Recheck, SendInterrupt, WaitEnd,
         InPending, InOutcome, InShutdown, InDecision, TickStates, InTick
<1>2. \E x \in TickStates : Goto(p, x) /\ (x = "act" => Load(p))
  <2>1. CASE Load(p) \/ ServerAsks(p) \/ Expire(p) \/ Shutdown(p) \/ ShutdownWait(p) \/ Disable(p)
             \/ Decide(p) \/ Start(p) \/ Record(p) \/ Recover(p)
    BY <2>1
    DEF Load, ServerAsks, Expire, Shutdown, ShutdownWait, Disable, Decide, Start, Record, Recover,
        RequestInterrupt, TickStates, InTick
  <2>2. CASE Reconcile(p) \/ Resolve(p) \/ WaitStart(p) \/ Claim(p) \/ WaitEnd(p)
    BY <2>2 DEF Reconcile, Resolve, WaitStart, Claim, WaitEnd, Checked, TickStates, InTick
  <2>3. CASE Recheck(p) \/ SendInterrupt(p)
    BY <2>3 DEF Recheck, SendInterrupt, Cancelled, RequestInterrupt, TickStates, InTick
  <2> QED
    BY <2>1, <2>2, <2>3 DEF Tick
<1>3. \/ snap' = snap /\ turn' = turn
      \/ snap' = [snap EXCEPT ![p] = Loaded(file)] /\ turn' = turn
      \/ \E t : KeepTurn(p, t)
  <2>1. CASE Load(p)
    BY <2>1 DEF Load
  <2>2. ASSUME Keep(p) \/ \E t : KeepTurn(p, t) PROVE \E t : KeepTurn(p, t)
    BY <2>2 DEF Keep
  <2>3. CASE ~Load(p)
    BY <2>2, <2>3
    DEF Tick, ServerAsks, Reconcile, Expire, Resolve, Shutdown, ShutdownWait, Disable, Decide,
        Start, Record, Recover, WaitStart, Claim, Recheck, SendInterrupt, WaitEnd
  <2> QED
    BY <2>1, <2>3
<1>4. \A q \in Process : q # p => snap'[q] = snap[q] /\ turn'[q] = turn[q]
  <2>1. snap \in [Process -> LoadedRuntime] /\ turn \in [Process -> Turn \cup {None}]
    BY DEF TypeOK
  <2> QED
    BY <1>3, <2>1 DEF KeepTurn
<1>5. \A q \in Process : q # p => pc'[q] = pc[q]
  BY <1>2 DEF Goto, TypeOK
<1>6. owner' = owner \/ \E t \in Turn : Accept(p, t)
  BY DEF Tick, Load, ServerAsks, Reconcile, Expire, Resolve, Shutdown, ShutdownWait, Disable,
         Decide, Start, Record, Recover, WaitStart, Claim, Recheck, SendInterrupt, WaitEnd, turnVars
<1> QED
  BY <1>1, <1>2, <1>4, <1>5, <1>6


-----------------------------------------------------------------------------
(* The lease. *)

(* Who is where once p has moved to x.                                     *)
LEMMA Moves ==
    ASSUME TypeOK, NEW p \in Process, NEW x, Goto(p, x)
    PROVE  pc'[p] = x /\ \A q \in Process : q # p => pc'[q] = pc[q]
BY DEF TypeOK, Goto

(* A tick keeps the lease, and the turns it starts are its process's own.  *)
LEMMA LeaseTick ==
    ASSUME TypeOK, LeaseInv, TurnInv, NEW p \in Process, Tick(p), UNCHANGED leaseVars
    PROVE  LeaseInv'
<1> USE DEF None
<1>1. pc[p] \in TickStates /\ pc'[p] \in TickStates /\ \A q \in Process : q # p => pc'[q] = pc[q]
  BY TickPlaces, Moves
<1>2. KeptByTick
  BY TickFile
<1>3. lock' = lock /\ \A q \in Process : pc[q] \in Locked => lock = q
  BY DEF leaseVars, LeaseInv
<1>4. \A x \in TickStates : x \in Locked /\ x \in Closing /\ x \in Announced
  BY DEF Locked, Closing, Announced
<1>5. \A q \in Process : pc'[q] \in Locked => lock' = q
  BY <1>1, <1>3, <1>4
<1>6. /\ \A t \in Turn : owner[t] \in Process \cup {None}
      /\ FileType /\ \A q \in Process : ~(q = None)
  BY RuntimeAssumption DEF TypeOK, TurnTypeOK, FileType
<1> HIDE DEF TickStates
<1>7. \A t \in Turn : owner'[t] \in {owner[t], p}
  <2>1. ASSUME NEW u \in Turn, Accept(p, u) PROVE \A t \in Turn : owner'[t] \in {owner[t], p}
    BY <2>1 DEF Accept, TypeOK, TurnTypeOK
  <2> QED
    BY <2>1, TickPlaces
<1>8. \A t \in Turn : owner'[t] # None => pc'[owner'[t]] \in Closing
  BY <1>1, <1>4, <1>6, <1>7 DEF LeaseInv
<1>9. file' # NoFile /\ file'.ready => file'.pid # None /\ pc'[file'.pid] \in Announced
  <2> SUFFICES ASSUME file' # NoFile, file'.ready
               PROVE  file'.pid # None /\ pc'[file'.pid] \in Announced
    OBVIOUS
  <2>1. file # NoFile /\ file.ready /\ file'.pid = file.pid
    BY <1>2 DEF KeptByTick, SameReady, SameStop
  <2>2. file.pid # None /\ pc[file.pid] \in Announced
    BY <2>1 DEF LeaseInv
  <2>3. file.pid \in Process
    BY <1>6, <2>1, <2>2 DEF FileType, RuntimeFile
  <2> QED
    BY <1>1, <1>4, <2>1, <2>2, <2>3
<1> QED
  BY <1>5, <1>8, <1>9 DEF LeaseInv

(* The steps of a process outside its ticks.                               *)
LEMMA LeaseManager ==
    ASSUME TypeOK, TypeOK', LeaseInv, NEW p \in Process,
           \/ Begin(p) \/ Acquire(p) \/ Initialize(p) \/ RecordFailure(p) \/ MarkStopped(p)
           \/ CloseClient(p) \/ RemoveMarker(p) \/ Release(p) \/ Crash(p) \/ ChildDies(p)
    PROVE  LeaseInv'
<1> USE DEF None
<1>1. /\ \A t \in Turn : owner[t] \in Process \cup {None}
      /\ FileType /\ \A q \in Process : ~(q = None)
      /\ lock \in Process \cup {None}
  BY RuntimeAssumption DEF TypeOK, TurnTypeOK, FileType
<1>2. /\ \A q \in Process : pc[q] \in Locked => lock = q
      /\ \A t \in Turn : owner[t] # None => pc[owner[t]] \in Closing
      /\ file # NoFile /\ file.ready => file.pid \in Process /\ pc[file.pid] \in Announced
  BY <1>1 DEF LeaseInv, FileType, RuntimeFile
<1>3. \A x : Goto(p, x) => pc'[p] = x /\ \A q \in Process : q # p => pc'[q] = pc[q]
  BY Moves
<1>4. FileType'
  BY DEF TypeOK, FileType
(* Where p keeps its turns, if it has any. *)
<1>5. ASSUME NEW x, Goto(p, x), UNCHANGED owner, pc[p] \in Closing => x \in Closing,
             x \in Locked => lock' = p, lock' = lock \/ lock = None \/ lock = p,
             \/ UNCHANGED file /\ (pc[p] \in Announced => x \in Announced)
             \/ file' # NoFile => ~file'.ready
             \/ file' # NoFile => file'.ready /\ file'.pid = p /\ x \in Announced
      PROVE  LeaseInv'
  <2>1. pc'[p] = x /\ \A q \in Process : q # p => pc'[q] = pc[q]
    BY <1>3, <1>5
  <2>2. \A q \in Process : pc'[q] \in Locked => lock' = q
    <3> SUFFICES ASSUME NEW q \in Process, pc'[q] \in Locked PROVE lock' = q
      OBVIOUS
    <3>1. CASE q = p
      BY <1>5, <2>1, <3>1
    <3>2. CASE q # p
      BY <1>1, <1>2, <1>5, <2>1, <3>2
    <3> QED
      BY <3>1, <3>2
  <2>3. \A t \in Turn : owner'[t] # None => pc'[owner'[t]] \in Closing
    BY <1>1, <1>2, <1>5, <2>1
  <2>4. file' # NoFile /\ file'.ready => file'.pid # None /\ pc'[file'.pid] \in Announced
    BY <1>1, <1>2, <1>5, <2>1
  <2> QED
    BY <2>2, <2>3, <2>4 DEF LeaseInv
<1>6. /\ \A x \in {"born", "idle", "loaded", "idle_locked", "locked", "init", "spawned", "unmark",
                   "unlock"} : x \notin Closing /\ x \notin Announced
      /\ \A x \in {"unmark_bad", "unlock_bad", "late", "late_locked", "exit", "dead"} :
           x \notin Closing /\ x \in Announced
      /\ \A x \in {"rest", "failing", "stopping", "close_bad"} : x \in Closing /\ x \in Announced
      /\ "close" \in Closing /\ "close" \notin Announced
  BY DEF TickStates, InTick, Closing, Announced
<1>7. /\ \A x \in {"idle_locked", "locked", "init", "spawned", "failing", "stopping", "close",
                   "close_bad", "unmark", "unmark_bad", "unlock", "unlock_bad", "late_locked",
                   "exit"} : x \in Locked
      /\ \A x \in {"born", "idle", "loaded", "late", "dead"} : x \notin Locked
  BY DEF TickStates, InTick, Locked
<1>8. CASE Begin(p)
  <2>1. pc[p] = "born" /\ UNCHANGED <<file, owner, lock>>
        /\ \E x \in {"idle", "loaded"} : Goto(p, x)
    BY <1>8 DEF Begin, turnVars, leaseVars
  <2> QED
    BY <1>5, <1>6, <1>7, <2>1
<1>9. CASE Acquire(p)
  <2>1. UNCHANGED <<file, owner>>
    BY <1>9 DEF Acquire, turnVars
  <2>2. \/ /\ pc[p] \in {"idle", "loaded"} /\ lock' = lock /\ Goto(p, "dead")
        \/ /\ pc[p] \in {"idle", "loaded"} /\ lock = None /\ lock' = p
           /\ \E x \in {"idle_locked", "locked"} : Goto(p, x)
        \/ pc[p] = "locked" /\ lock' = lock /\ Goto(p, "init")
        \/ pc[p] = "idle_locked" /\ lock' = lock /\ Goto(p, "stopping")
    BY <1>9 DEF Acquire
  <2> QED
    BY <1>2, <1>5, <1>6, <1>7, <2>1, <2>2
<1>10. CASE Initialize(p)
  <2>1. UNCHANGED owner /\ UNCHANGED lock /\ pc[p] \in {"init", "spawned"}
    BY <1>10 DEF Initialize, Spawn, turnVars, leaseVars
  <2>2. CASE UNCHANGED file /\ \E x \in {"spawned", "failing", "rest"} : Goto(p, x)
    BY <1>2, <1>5, <1>6, <1>7, <2>1, <2>2
  <2>3. CASE Update(Ready(file, p)) /\ Goto(p, "rest")
    <3>1. file' # NoFile => file'.ready /\ file'.pid = p
      BY <1>1, <2>3, ReadinessUpdates DEF Update, FileType
    <3> QED
      BY <1>2, <1>5, <1>6, <1>7, <2>1, <2>3, <3>1
  <2> QED
    BY <1>10, <2>2, <2>3 DEF Initialize
<1>11. \A f \in RuntimeFile : ~Failed(f).ready /\ ~Stopped(f).ready
  <2>1. ASSUME NEW f \in RuntimeFile PROVE ~Failed(f).ready /\ ~Stopped(f).ready
    BY <1>1, <2>1, ReadinessUpdates DEF Failed, Stopped, RuntimeFile
  <2> QED
    BY <2>1
<1>12. CASE RecordFailure(p)
  <2>1. UNCHANGED file \/ (file' # NoFile => ~file'.ready)
    BY <1>1, <1>11, <1>12 DEF RecordFailure, Update, FileType
  <2>2. \/ pc[p] = "failing" /\ Goto(p, "stopping")
        \/ pc[p] = "late" /\ Goto(p, "dead")
        \/ pc[p] = "late_locked" /\ Goto(p, "exit")
    BY <1>12 DEF RecordFailure
  <2>3. UNCHANGED <<owner, lock>>
    BY <1>12 DEF RecordFailure, turnVars, leaseVars
  <2> QED
    BY <1>2, <1>5, <1>6, <1>7, <2>1, <2>2, <2>3
<1>13. CASE MarkStopped(p)
  <2>1. \/ Goto(p, "close_bad") /\ UNCHANGED file
        \/ Goto(p, "close") /\ (file' # NoFile => ~file'.ready)
    BY <1>1, <1>11, <1>13 DEF MarkStopped, Update, FileType
  <2>2. pc[p] = "stopping" /\ UNCHANGED <<owner, lock>>
    BY <1>13 DEF MarkStopped, turnVars, leaseVars
  <2> QED
    BY <1>2, <1>5, <1>6, <1>7, <2>1, <2>2
(* Where p gives up its turns. *)
<1>14. ASSUME NEW x, Goto(p, x), Close(p), UNCHANGED file, pc[p] \in Announced => x \in Announced,
              x \in Locked => lock' = p, lock' = lock \/ lock = p
       PROVE  LeaseInv'
  <2>1. pc'[p] = x /\ \A q \in Process : q # p => pc'[q] = pc[q]
    BY <1>3, <1>14
  <2>2. \A t \in Turn : owner'[t] = IF owner[t] = p THEN None ELSE owner[t]
    BY <1>14 DEF Close
  <2>3. \A q \in Process : pc'[q] \in Locked => lock' = q
    <3> SUFFICES ASSUME NEW q \in Process, pc'[q] \in Locked PROVE lock' = q
      OBVIOUS
    <3>1. CASE q = p
      BY <1>14, <2>1, <3>1
    <3>2. CASE q # p
      BY <1>2, <1>14, <2>1, <3>2
    <3> QED
      BY <3>1, <3>2
  <2>4. \A t \in Turn : owner'[t] # None => pc'[owner'[t]] \in Closing
    BY <1>1, <1>2, <2>1, <2>2
  <2>5. file # NoFile /\ file.ready => file.pid # None /\ pc'[file.pid] \in Announced
    BY <1>1, <1>2, <1>14, <2>1
  <2> QED
    BY <1>14, <2>3, <2>4, <2>5 DEF LeaseInv
<1>15. CASE CloseClient(p)
  <2>1. \/ pc[p] = "close" /\ Goto(p, "unmark")
        \/ pc[p] = "close_bad" /\ Goto(p, "unmark_bad")
    BY <1>15 DEF CloseClient
  <2>2. Close(p) /\ file' = file /\ lock' = lock
    BY <1>15 DEF CloseClient, leaseVars
  <2> QED
    BY <1>2, <1>6, <1>7, <1>14, <2>1, <2>2
<1>16. CASE RemoveMarker(p) \/ Release(p)
  <2>1. UNCHANGED <<file, owner>>
    BY <1>16 DEF RemoveMarker, Release, turnVars
  <2>2. \/ /\ lock' = lock
           /\ \/ pc[p] = "unmark" /\ Goto(p, "unlock")
              \/ pc[p] = "unmark_bad" /\ Goto(p, "unlock_bad")
              \/ pc[p] \in {"unmark", "unmark_bad"} /\ Goto(p, "late_locked")
        \/ /\ lock' = None
           /\ \/ pc[p] \in {"unlock", "exit"} /\ Goto(p, "dead")
              \/ pc[p] \in {"unlock_bad", "unlock"} /\ Goto(p, "late")
    BY <1>16 DEF RemoveMarker, Release
  <2> QED
    BY <1>2, <1>5, <1>6, <1>7, <2>1, <2>2
<1>17. CASE Crash(p)
  <2>1. Goto(p, "dead") /\ Close(p) /\ UNCHANGED file /\ (lock' = lock \/ lock = p)
    BY <1>17 DEF Crash
  <2> QED
    BY <1>6, <1>7, <1>14, <2>1
<1>18. CASE ChildDies(p)
  <2>1. UNCHANGED <<file, pc, owner, lock>>
    BY <1>18 DEF ChildDies, ChildEnds, engineVars, leaseVars
  <2> QED
    BY <2>1 DEF LeaseInv
<1> QED
  BY <1>8, <1>9, <1>10, <1>12, <1>13, <1>15, <1>16, <1>17, <1>18

(* The others, a manager that is launched, and the app-server.             *)
LEMMA LeaseRest ==
    ASSUME TypeOK, LeaseInv, Others \/ Launch \/ \E t \in Turn : AppServer(t)
    PROVE  LeaseInv'
<1> USE DEF None
<1>1. CASE Others
  <2>1. UNCHANGED <<pc, owner, lock>>
    BY <1>1, OthersEffect DEF turnVars, leaseVars
  <2>2. file' # NoFile /\ file'.ready => file # NoFile /\ file.ready /\ file'.pid = file.pid
    BY <1>1, OthersEffect, FreshFile DEF OthersWrite, SameReady, SameStop
  <2> QED
    BY <2>1, <2>2 DEF LeaseInv
<1>2. CASE Launch
  <2>1. UNCHANGED <<file, owner, lock>>
    BY <1>2 DEF Launch, turnVars, leaseVars
  <2>2. CASE UNCHANGED pc
    BY <2>1, <2>2 DEF LeaseInv
  <2>3. ASSUME NEW p \in Process, pc[p] = "off", Goto(p, "born") PROVE LeaseInv'
    <3>1. pc'[p] = "born" /\ \A q \in Process : q # p => pc'[q] = pc[q]
      BY <2>3, Moves
    <3>2. "off" \notin Closing /\ "off" \notin Announced /\ "born" \notin Locked
      BY DEF TickStates, InTick, Locked, Closing, Announced
    <3>3. /\ \A t \in Turn : owner[t] \in Process \cup {None}
          /\ file # NoFile => file.pid \in Process \cup {None}
      BY DEF TypeOK, TurnTypeOK, RuntimeFile
    <3> QED
      BY ZenonT(60), <2>1, <2>3, <3>1, <3>2, <3>3 DEF LeaseInv
  <2> QED
    BY <1>2, <2>2, <2>3 DEF Launch
<1>3. CASE \E t \in Turn : AppServer(t)
  <2>1. UNCHANGED <<file, pc, owner, lock>>
    BY <1>3 DEF AppServer, Ends, Observes, ObserveStart, ObserveEnd, engineVars, leaseVars
  <2> QED
    BY <2>1 DEF LeaseInv
<1> QED
  BY <1>1, <1>2, <1>3

-----------------------------------------------------------------------------
(* What the connections know. *)

(* The interruption of a turn that was accepted and not asked to stop.     *)
Interrupts(t) ==
    /\ asked' = [asked EXCEPT ![t] = asked[t] + 1] /\ asked[t] = 0 /\ status[t] # "none"
    /\ UNCHANGED <<status, owner, seen, active, child>>

(* A tick does one thing to the turns, if anything.                        *)
LEMMA TickTurns ==
    ASSUME TypeOK, ConnectionInv, TurnInv, NEW p \in Process, Tick(p)
    PROVE  \/ UNCHANGED turnVars
           \/ \E t \in Turn : Accept(p, t)
           \/ \E t \in Turn : Interrupts(t) /\ (t = turn[p] \/ active[p] = t)
           \/ \E t \in Turn : Bind(p, t) /\ WasStarted(p, t)
                              /\ UNCHANGED <<status, owner, seen, child, asked>>
<1> USE DEF None
<1>1. /\ asked \in [Turn -> Nat] /\ turn[p] \in Turn \cup {None}
      /\ snap[p].managed \in Turn \cup {None}
  BY DEF TypeOK, TurnTypeOK, LoadedRuntime
<1>2. StepTurn(p) /\ AskedEnded(p) /\ \A t \in Turn : asked[t] <= 1
  BY DEF TurnInv, Step, OneInterruptPerTurn
(* An active turn of p's was not asked to stop. *)
<1>3. ASSUME NEW t \in Turn, active[p] = t, pc[p] \in {"act", "send"}
      PROVE  asked[t] = 0 /\ status[t] # "none"
  <2>1. owner[t] = p /\ seen[t] = "start"
    BY <1>3 DEF ConnectionInv
  <2>2. asked[t] # 1
    BY <1>2, <1>3, <2>1 DEF AskedEnded, AboutTurn
  <2>3. status[t] # "none"
    BY <2>1 DEF ConnectionInv
  <2> QED
    BY <1>1, <1>2, <2>2, <2>3
<1>4. ASSUME NEW t \in Turn, NEW next, RequestInterrupt(p, t, next),
             asked[t] = 0 /\ status[t] # "none", UNCHANGED <<status, owner, seen, active, child>>
      PROVE  UNCHANGED turnVars \/ Interrupts(t)
  BY <1>4, AskType DEF Interrupts, turnVars
<1>5. CASE Load(p) \/ ServerAsks(p) \/ Reconcile(p) \/ Resolve(p) \/ ShutdownWait(p) \/ Disable(p)
           \/ Decide(p) \/ Record(p) \/ Claim(p) \/ Recheck(p) \/ WaitEnd(p)
  BY <1>5
  DEF Load, ServerAsks, Reconcile, Resolve, ShutdownWait, Disable, Decide, Record, Claim, Recheck,
      WaitEnd
<1>6. CASE Start(p)
  BY <1>6 DEF Start
<1>7. CASE WaitStart(p)
  <2>1. turn[p] \in Turn
    BY <1>1, <1>2, <1>7 DEF WaitStart, StepTurn, AboutTurn
  <2> QED
    BY <1>7, <2>1 DEF WaitStart, turnVars
<1>8. CASE Expire(p) \/ Recover(p)
  <2>1. turn[p] \in Turn /\ asked[turn[p]] = 0 /\ status[turn[p]] # "none"
    BY <1>1, <1>2, <1>8 DEF Expire, Recover, StepTurn, AboutTurn
  <2>2. /\ UNCHANGED asked \/ RequestInterrupt(p, turn[p], "failing")
        /\ UNCHANGED <<status, owner, seen, active, child>>
    BY <1>8 DEF Expire, Recover
  <2> QED
    BY <1>4, <2>1, <2>2 DEF turnVars
<1>9. CASE Shutdown(p)
  <2> DEFINE t == snap[p].managed
  <2>1. /\ \/ UNCHANGED asked
           \/ t # None /\ active[p] = t /\ RequestInterrupt(p, t, "stop_wait")
        /\ UNCHANGED <<status, owner, seen, active, child>> /\ pc[p] = "act"
    BY <1>9 DEF Shutdown, InShutdown
  <2> HIDE DEF t
  <2>2. t \in Turn \cup {None}
    BY <1>1 DEF t
  <2> QED
    BY <1>3, <1>4, <2>1, <2>2 DEF turnVars
<1>10. CASE SendInterrupt(p)
  <2>1. /\ \/ UNCHANGED asked
           \/ active[p] = turn[p] /\ RequestInterrupt(p, turn[p], "wait_end")
        /\ UNCHANGED <<status, owner, seen, active, child>> /\ pc[p] = "send"
    BY <1>10 DEF SendInterrupt
  <2>2. turn[p] \in Turn
    BY <1>1, <1>2, <2>1 DEF StepTurn, AboutTurn
  <2> QED
    BY <1>3, <1>4, <2>1, <2>2 DEF turnVars
<1> QED
  BY <1>5, <1>6, <1>7, <1>8, <1>9, <1>10 DEF Tick

(* No step makes a connection know what is not so.                         *)
LEMMA ConnectionKept ==
    ASSUME TypeOK, ConnectionInv,
           \/ UNCHANGED turnVars
           \/ \E p \in Process, t \in Turn : Accept(p, t)
           \/ \E t \in Turn : Interrupts(t)
           \/ \E p \in Process, t \in Turn :
                Bind(p, t) /\ WasStarted(p, t) /\ UNCHANGED <<status, owner, seen, child, asked>>
           \/ \E p \in Process : Spawn(p) \/ Close(p) \/ ChildEnds(p)
           \/ \E t \in Turn : Ends(t) \/ Observes(t)
    PROVE  ConnectionInv'
<1> USE DEF None, Live, Ended
<1>1. /\ status \in [Turn -> {"none", "running", "gone"} \cup Ended]
      /\ owner \in [Turn -> Process \cup {None}]
      /\ seen \in [Turn -> {"nothing", "start", "end"}]
      /\ active \in [Process -> Turn \cup {None}]
      /\ asked \in [Turn -> Nat]
      /\ \A q \in Process : ~(q = None)
      /\ \A t \in Turn : ~(t = None)
  BY RuntimeAssumption DEF TypeOK, TurnTypeOK, Turn
<1>2. CASE UNCHANGED turnVars
  BY <1>2 DEF turnVars, ConnectionInv
<1>3. ASSUME NEW p \in Process, NEW t \in Turn, Accept(p, t) PROVE ConnectionInv'
  <2>1. /\ status[t] = "none" /\ status' = [status EXCEPT ![t] = "running"]
        /\ owner' = [owner EXCEPT ![t] = p] /\ UNCHANGED <<seen, asked>>
        /\ \A q \in Process : active'[q] \in {active[q], None}
    BY <1>1, <1>3 DEF Accept
  <2> QED
    BY <1>1, <2>1 DEF ConnectionInv
<1>4. ASSUME NEW t \in Turn, Interrupts(t) PROVE ConnectionInv'
  BY <1>1, <1>4 DEF Interrupts, ConnectionInv
<1>5. ASSUME NEW p \in Process, NEW t \in Turn,
             Bind(p, t), WasStarted(p, t), UNCHANGED <<status, owner, seen, child, asked>>
      PROVE  ConnectionInv'
  BY <1>1, <1>5 DEF Bind, WasStarted, ConnectionInv
<1>6. ASSUME NEW p \in Process, Spawn(p) \/ Close(p) \/ ChildEnds(p) PROVE ConnectionInv'
  <2>1. CASE Spawn(p)
    BY <2>1 DEF Spawn, ConnectionInv
  <2>2. CASE Close(p)
    <3>1. /\ \A q \in Process : active'[q] = IF q = p THEN None ELSE active[q]
          /\ \A t \in Turn :
               /\ status'[t] = IF owner[t] = p THEN "gone" ELSE status[t]
               /\ owner'[t] = IF owner[t] = p THEN None ELSE owner[t]
               /\ seen'[t] = IF owner[t] = p THEN "nothing" ELSE seen[t]
          /\ asked' = asked
      BY <1>1, <2>2 DEF Close
    <3> QED
      BY <1>1, <3>1 DEF ConnectionInv
  <2>3. CASE ChildEnds(p)
    <3>1. \A t \in Turn : status'[t] \in {status[t], "gone"} /\ (status[t] = "none" => status'[t] = "none")
                          /\ (status'[t] = "none" => status[t] = "none")
      BY <1>1, <2>3 DEF ChildEnds
    <3>2. UNCHANGED <<owner, seen, active, asked>>
      BY <2>3 DEF ChildEnds
    <3> QED
      BY <1>1, <3>1, <3>2 DEF ConnectionInv
  <2> QED
    BY <1>6, <2>1, <2>2, <2>3
<1>7. ASSUME NEW t \in Turn, Ends(t) \/ Observes(t) PROVE ConnectionInv'
  <2>1. CASE Ends(t)
    BY <1>1, <2>1 DEF Ends, ConnectionInv
  <2>2. CASE owner[t] # None /\ ObserveStart(t)
    BY <1>1, <2>2 DEF ObserveStart, ConnectionInv
  <2>3. CASE owner[t] # None /\ ObserveEnd(t)
    <3>1. /\ seen' = [seen EXCEPT ![t] = "end"] /\ ~Live(t) /\ UNCHANGED <<status, owner, asked>>
          /\ status[t] # "none"
      BY <2>3 DEF ObserveEnd
    <3>2. \A q \in Process : active'[q] # t /\ active'[q] \in {active[q], None}
      BY <1>1, <2>3 DEF ObserveEnd, ConnectionInv
    <3> QED
      BY <1>1, <3>1, <3>2 DEF ConnectionInv
  <2> QED
    BY <1>7, <2>1, <2>2, <2>3 DEF Observes
<1> QED
  BY <1>2, <1>3, <1>4, <1>5, <1>6, <1>7

-----------------------------------------------------------------------------
(* The turns. *)

\* Where the invariant says something of a process.
Busy == {"rest", "act", "wait_end"} \cup AboutTurn

(* Nothing is claimed of a process anywhere else.                          *)
LEMMA AwayFromTurns ==
    ASSUME NEW q, pc[q] \notin Busy
    PROVE  Step(q)
BY DEF Busy, AboutTurn, Step, Snapshot, StepTurn, Named, AskedEnded

(* What others do to the turns and the file of a process that stays where  *)
(* it is.                                                                  *)
FileKept == file' # NoFile => file # NoFile /\ SameTurns(file', file)

TurnsKept ==
    /\ asked' = asked
    /\ \A t \in Turn : status[t] # "none" => status'[t] # "none"
    /\ \A t \in Turn : status'[t] = "running" => status[t] = "running"

SeenKept(q) ==
    \A t \in Turn : owner'[t] = q => owner[t] = q /\ (seen[t] = "end" => seen'[t] = "end")

(* What the invariant says of such a process stays so.                     *)
LEMMA StepKept ==
    ASSUME TypeOK, NEW q \in Process, Step(q), FileKept, TurnsKept, SeenKept(q),
           pc'[q] = pc[q], snap'[q] = snap[q], turn'[q] = turn[q]
    PROVE  Step(q)'
<1> USE DEF None
<1>1. turn[q] \in Turn \cup {None}
  BY DEF TypeOK
<1>2. \A t \in Turn : Loose(t)' => Loose(t)
  BY DEF Loose, Live, TurnsKept
<1>3. Snapshot(q)'
  BY DEF Snapshot, Step, FileKept, SameTurns
<1>4. StepTurn(q)'
  BY <1>1 DEF StepTurn, Step, FileKept, SameTurns, TurnsKept, AboutTurn
<1>5. Named(q)'
  BY <1>2 DEF Named, Step, FileKept, SameTurns
<1>6. AskedEnded(q)'
  BY DEF AskedEnded, Step, TurnsKept, SeenKept
<1> QED
  BY <1>3, <1>4, <1>5, <1>6 DEF Step

(* So does what it says of the file,                                       *)
LEMMA FileInvKept ==
    ASSUME TypeOK, FileInv, FileKept,
           asked' = asked, \A t \in Turn : status[t] # "none" => status'[t] # "none"
    PROVE  FileInv'
<1>1. file # NoFile => file.pending \in Turn \cup {None}
  BY DEF TypeOK, RuntimeFile
<1> QED
  BY <1>1 DEF FileInv, FileKept, SameTurns

(* and of the turns together.                                              *)
LEMMA TurnCountKept ==
    ASSUME OneLiveTurn, OneInterruptPerTurn, TurnsKept
    PROVE  OneLiveTurn' /\ OneInterruptPerTurn'
BY DEF OneLiveTurn, OneInterruptPerTurn, TurnsKept, Live

(* The steps of a process outside its ticks.                               *)
LEMMA TurnManager ==
    ASSUME TypeOK, LeaseInv, ConnectionInv, TurnInv, NEW p \in Process,
           \/ Begin(p) \/ Acquire(p) \/ Initialize(p) \/ RecordFailure(p) \/ MarkStopped(p)
           \/ CloseClient(p) \/ RemoveMarker(p) \/ Release(p) \/ Crash(p) \/ ChildDies(p)
    PROVE  TurnInv'
<1> USE DEF None
<1>1. /\ FileType /\ pc \in [Process -> ProcessStates] /\ turn \in [Process -> Turn \cup {None}]
      /\ snap \in [Process -> LoadedRuntime] /\ TurnTypeOK
  BY DEF TypeOK, FileType
<1>2. FileKept
  <2>1. CASE UNCHANGED file
    BY <2>1 DEF FileKept, SameTurns
  <2>2. ASSUME NEW new, Update(new), file # NoFile => SameTurns(new, file) PROVE FileKept
    BY <2>2 DEF Update, FileKept
  <2>3. file # NoFile => /\ SameTurns(Ready(file, p), file) /\ SameTurns(Failed(file), file)
                         /\ SameTurns(Stopped(file), file)
    BY <1>1, ReadinessUpdates DEF FileType
  <2> QED
    BY <2>1, <2>2, <2>3
    DEF Begin, Acquire, Initialize, RecordFailure, MarkStopped, CloseClient, RemoveMarker, Release, Crash,
        ChildDies, engineVars
<1>3. TurnsKept /\ \A q \in Process : q # p => SeenKept(q)
  <2>1. CASE UNCHANGED turnVars \/ Spawn(p)
    BY <2>1 DEF turnVars, Spawn, TurnsKept, SeenKept
  <2>2. CASE Close(p)
    <3>1. /\ \A t \in Turn :
               /\ status'[t] = IF owner[t] = p THEN "gone" ELSE status[t]
               /\ owner'[t] = IF owner[t] = p THEN None ELSE owner[t]
               /\ seen'[t] = IF owner[t] = p THEN "nothing" ELSE seen[t]
          /\ asked' = asked /\ \A q \in Process : ~(q = None)
      BY <2>2, RuntimeAssumption DEF Close
    <3> QED
      BY <3>1 DEF TurnsKept, SeenKept
  <2>3. CASE ChildEnds(p)
    BY <2>3 DEF ChildEnds, TurnsKept, SeenKept
  <2> QED
    BY <2>1, <2>2, <2>3
    DEF Begin, Acquire, Initialize, RecordFailure, MarkStopped, CloseClient, RemoveMarker, Release, Crash,
        ChildDies
<1>4. \A q \in Process : q # p => pc'[q] = pc[q] /\ snap'[q] = snap[q] /\ turn'[q] = turn[q]
  <2>1. CASE Crash(p)
    BY <1>1, <2>1 DEF Crash, Goto, Keep, KeepTurn
  <2>2. CASE ~Crash(p)
    BY <1>1, <2>2
    DEF Begin, Acquire, Initialize, RecordFailure, MarkStopped, CloseClient, RemoveMarker, Release, ChildDies,
        Goto, engineVars
  <2> QED
    BY <2>1, <2>2
<1>5. \A q \in Process : q # p => Step(q)'
  BY <1>2, <1>3, <1>4, StepKept DEF TurnInv
<1>6. Step(p)'
  <2>1. ASSUME pc'[p] \notin Busy PROVE Step(p)'
    BY <2>1 DEF Busy, AboutTurn, Step, Snapshot, StepTurn, Named, AskedEnded
  <2>2. CASE Begin(p) \/ Acquire(p) \/ RecordFailure(p) \/ MarkStopped(p) \/ CloseClient(p)
             \/ RemoveMarker(p) \/ Release(p) \/ Crash(p)
    <3>1. pc'[p] \in {"idle", "loaded", "dead", "idle_locked", "locked", "stopping", "init", "close",
                      "close_bad", "unmark", "unmark_bad", "unlock", "unlock_bad", "late",
                      "late_locked", "exit"}
      BY <1>1, <2>2
      DEF Begin, Acquire, RecordFailure, MarkStopped, CloseClient, RemoveMarker, Release, Crash, Goto
    <3> QED
      BY <2>1, <3>1 DEF Busy, AboutTurn
  <2>3. CASE ChildDies(p)
    <3>1. UNCHANGED <<pc, snap, turn>> /\ SeenKept(p)
      BY <2>3 DEF ChildDies, ChildEnds, engineVars, SeenKept
    <3> QED
      BY <1>2, <1>3, <3>1, StepKept DEF TurnInv
  <2>4. CASE Initialize(p)
    <3>1. CASE \E x \in {"spawned", "failing"} : Goto(p, x)
      <4>1. pc'[p] \in {"spawned", "failing"}
        BY <1>1, <3>1 DEF Goto
      <4> QED
        BY <2>1, <4>1 DEF Busy, AboutTurn
    <3>2. CASE Goto(p, "rest") /\ pc[p] \in {"init", "spawned"} /\ (pc[p] = "init" => file = NoFile)
      <4>1. pc'[p] = "rest" /\ UNCHANGED <<snap, turn, owner, status, asked>>
        BY <1>1, <2>4, <3>2 DEF Initialize, Goto, turnVars, Spawn
      <4>2. "init" \notin Closing /\ "spawned" \notin Closing /\ "spawned" \in Locked
            /\ \A x \in Closing : x \in Locked
        BY DEF TickStates, InTick, Locked, Closing
      <4>3. \A t \in Turn : owner[t] # p
        BY <3>2, <4>2 DEF LeaseInv
      <4>4. ASSUME NEW t \in Turn, pc[p] = "spawned" PROVE ~Live(t)
        <5>1. SUFFICES ASSUME Live(t) PROVE FALSE
          OBVIOUS
        <5>2. owner[t] \in Process /\ pc[owner[t]] \in Closing
          BY <1>1, <5>1 DEF ConnectionInv, LeaseInv, TurnTypeOK
        <5>3. lock = owner[t] /\ lock = p
          BY <4>2, <4>4, <5>2 DEF LeaseInv
        <5> QED
          BY <4>3, <5>3
      <4>5. Snapshot(p)' /\ StepTurn(p)'
        BY <4>1 DEF Snapshot, StepTurn, AboutTurn
      <4>6. Named(p)'
        BY <1>2, <3>2, <4>1, <4>4 DEF Named, Loose, Live, FileKept
      <4>7. AskedEnded(p)'
        BY <4>1, <4>3 DEF AskedEnded
      <4> QED
        BY <4>5, <4>6, <4>7 DEF Step
    <3> QED
      BY <2>4, <3>1, <3>2 DEF Initialize
  <2> QED
    BY <2>2, <2>3, <2>4
<1>7. FileInv'
  BY <1>2, <1>3, FileInvKept DEF TurnInv, TurnsKept
<1>8. OneLiveTurn' /\ OneInterruptPerTurn'
  BY <1>3, TurnCountKept DEF TurnInv
<1>9. \A q \in Process : Step(q)'
  BY <1>5, <1>6
<1> QED
  BY <1>7, <1>8, <1>9 DEF TurnInv

(* The others, a manager that is launched, and the app-server.             *)
LEMMA TurnRest ==
    ASSUME TypeOK, ConnectionInv, TurnInv, SaveInv, Others \/ Launch \/ \E t \in Turn : AppServer(t)
    PROVE  TurnInv'
<1> USE DEF None
<1>1. TurnsKept /\ \A q \in Process : SeenKept(q)
  <2>1. CASE Others \/ Launch
    <3>1. UNCHANGED turnVars
      BY <2>1, OthersEffect DEF Launch
    <3> QED
      BY <3>1 DEF turnVars, TurnsKept, SeenKept
  <2>2. ASSUME NEW t \in Turn, Ends(t) PROVE TurnsKept /\ \A q \in Process : SeenKept(q)
    BY <2>2 DEF Ends, Ended, TurnsKept, SeenKept, TypeOK, TurnTypeOK
  <2>3. ASSUME NEW t \in Turn, Observes(t) PROVE TurnsKept /\ \A q \in Process : SeenKept(q)
    BY <2>3 DEF Observes, ObserveStart, ObserveEnd, TurnsKept, SeenKept, TypeOK, TurnTypeOK
  <2> QED
    BY <2>1, <2>2, <2>3 DEF AppServer
<1>2. \/ FileKept
      \/ enabling = "save" /\ file' = NewFile /\ UNCHANGED <<pc, turnVars>>
  <2>1. UNCHANGED file => FileKept
    BY DEF FileKept, SameTurns
  <2>2. CASE Others
    BY <2>2, OthersEffect DEF OthersWrite, FileKept, SameTurns
  <2>3. CASE Launch \/ \E t \in Turn : AppServer(t)
    BY <2>1, <2>3 DEF Launch, AppServer, engineVars
  <2> QED
    BY <2>2, <2>3
<1>3. \A q \in Process : \/ pc'[q] = pc[q] /\ snap'[q] = snap[q] /\ turn'[q] = turn[q]
                         \/ pc'[q] = "born"
  <2>1. CASE Launch
    BY <2>1 DEF Launch, Goto, TypeOK
  <2>2. CASE Others \/ \E t \in Turn : AppServer(t)
    BY <2>2, OthersEffect DEF AppServer, engineVars
  <2> QED
    BY <2>1, <2>2
<1>4. ASSUME NEW q \in Process, pc'[q] \notin Busy PROVE Step(q)'
  BY <1>4 DEF Busy, AboutTurn, Step, Snapshot, StepTurn, Named, AskedEnded
<1>5. "born" \notin Busy /\ "stopping" \notin Busy /\ \A x \in Busy : x \in TickStates
  BY DEF Busy, AboutTurn, TickStates, InTick
<1>6. OneLiveTurn' /\ OneInterruptPerTurn'
  BY <1>1, TurnCountKept DEF TurnInv
<1>7. CASE FileKept
  <2>1. \A q \in Process : Step(q)'
    BY <1>1, <1>3, <1>4, <1>5, <1>7, StepKept DEF TurnInv
  <2>2. FileInv'
    BY <1>1, <1>7, FileInvKept DEF TurnInv, TurnsKept
  <2> QED
    BY <1>6, <2>1, <2>2 DEF TurnInv
<1>8. CASE enabling = "save" /\ file' = NewFile /\ UNCHANGED <<pc, turnVars>>
  <2>1. \A t \in Turn : owner'[t] = None /\ ~Live(t)'
    BY <1>8 DEF SaveInv, ConnectionInv, Live, turnVars
  <2>2. ASSUME NEW q \in Process, pc'[q] = "rest" PROVE Step(q)'
    <3>1. q # None
      BY RuntimeAssumption
    <3> QED
      BY <2>1, <2>2, <3>1
      DEF Step, Snapshot, StepTurn, Named, AskedEnded, AboutTurn, Loose
  <2>3. \A q \in Process : pc'[q] \in Busy => pc'[q] = "rest"
    BY <1>5, <1>8 DEF SaveInv
  <2>4. \A q \in Process : Step(q)'
    BY <1>4, <2>2, <2>3
  <2>5. FileInv'
    BY <1>8, FreshFile DEF FileInv
  <2> QED
    BY <1>6, <2>4, <2>5 DEF TurnInv
<1> QED
  BY <1>2, <1>7, <1>8

(* A tick of a manager that holds the lease.                               *)
LEMMA TurnTick ==
    ASSUME TypeOK, LeaseInv, ConnectionInv, TurnInv, NEW p \in Process, Tick(p)
    PROVE  TurnInv'
<1> USE DEF None
<1>1. /\ FileType /\ TurnTypeOK /\ turn[p] \in Turn \cup {None} /\ snap[p] \in LoadedRuntime
      /\ snap[p].managed \in Turn \cup {None} /\ snap[p].pending \in Turn \cup {None}
      /\ \A t \in Turn : ~(t = None)
      /\ pc \in [Process -> ProcessStates] /\ snap \in [Process -> LoadedRuntime]
      /\ turn \in [Process -> Turn \cup {None}]
      /\ \A t \in Turn : asked[t] \in Nat /\ asked[t] <= 1
  <2>1. FileType /\ TurnTypeOK /\ snap[p] \in LoadedRuntime
    BY DEF TypeOK, FileType
  <2>2. snap[p].managed \in Turn \cup {None} /\ snap[p].pending \in Turn \cup {None}
    BY <2>1 DEF LoadedRuntime
  <2>3. \A t \in Turn : ~(t = None)
    BY DEF Turn
  <2>4. \A t \in Turn : asked[t] \in Nat /\ asked[t] <= 1
    BY <2>1 DEF TurnInv, OneInterruptPerTurn, TurnTypeOK
  <2> QED
    BY <2>1, <2>2, <2>3, <2>4 DEF TypeOK
<1>2. FileInv /\ OneLiveTurn /\ OneInterruptPerTurn /\ Snapshot(p) /\ StepTurn(p) /\ Named(p)
      /\ AskedEnded(p)
  BY DEF TurnInv, Step
<1>3. file # NoFile => file \in RuntimeFile
  BY <1>1 DEF FileType
(* Only p is where anything is claimed. *)
<1>4. \A q \in Process : q # p => Step(q)'
  <2> SUFFICES ASSUME NEW q \in Process, q # p PROVE Step(q)'
    OBVIOUS
  <2>1. pc'[q] = pc[q] /\ pc[p] \in TickStates
    BY TickPlaces
  <2>2. \A x \in Busy \cup TickStates : x \in Locked
    BY DEF Busy, AboutTurn, Locked, TickStates, InTick
  <2> HIDE DEF Busy, TickStates, Locked
  <2>3. pc'[q] \notin Busy
    BY <2>1, <2>2 DEF LeaseInv
  <2> QED
    BY <2>3 DEF Busy, AboutTurn, Step, Snapshot, StepTurn, Named, AskedEnded
<1>5. ASSUME OneLiveTurn', OneInterruptPerTurn', FileInv', Step(p)' PROVE TurnInv'
  BY <1>4, <1>5 DEF TurnInv
(* A step that changes neither what turns do nor what was asked of them. *)
<1>6. ASSUME UNCHANGED <<status, asked>>, FileInv', Step(p)' PROVE TurnInv'
  <2>1. TurnsKept
    BY <1>6 DEF TurnsKept
  <2> QED
    BY <1>2, <1>5, <1>6, <2>1, TurnCountKept
<1>7. ASSUME UNCHANGED <<status, asked>>, FileKept PROVE FileInv'
  BY <1>2, <1>7, FileInvKept
<1>8. ASSUME UNCHANGED file PROVE FileKept
  BY <1>8 DEF FileKept, SameTurns
(* Where it ends up. *)
<1>9. ASSUME NEW x, Goto(p, x), x \notin Busy PROVE Step(p)'
  <2>1. pc'[p] = x
    BY <1>9, Moves
  <2> QED
    BY <1>9, <2>1 DEF Busy, AboutTurn, Step, Snapshot, StepTurn, Named, AskedEnded
<1>10. ASSUME Goto(p, "failing") \/ Goto(p, "stopping") \/ Goto(p, "disable") \/ Goto(p, "stop_wait")
       PROVE  Step(p)'
  BY <1>9, <1>10 DEF Busy, AboutTurn
<1>11. ASSUME Goto(p, "rest"), UNCHANGED <<status, owner, seen, asked>>,
              pc[p] \in {"rest", "act"} \cup AboutTurn \/ (pc[p] = "wait_end" /\ seen[turn[p]] = "end"),
              file' # NoFile => \A t \in Turn : Loose(t) => t \in {file'.pending, file'.managed}
       PROVE  Step(p)'
  <2>1. pc'[p] = "rest"
    BY <1>11, Moves
  <2>2. Snapshot(p)' /\ StepTurn(p)'
    BY <2>1 DEF Snapshot, StepTurn, AboutTurn
  <2>3. Named(p)'
    BY <1>11, <2>1 DEF Named, Loose, Live, AboutTurn
  <2>4. AskedEnded(p)'
    BY <1>2, <1>11, <2>1 DEF AskedEnded, AboutTurn
  <2> QED
    BY <2>2, <2>3, <2>4 DEF Step
(* What the tick has loaded is still so. *)
<1>12. ASSUME pc[p] = "act"
       PROVE  /\ \A t \in Turn : Loose(t) => t \in {snap[p].pending, snap[p].managed}
              /\ file # NoFile => snap[p].managed = file.managed /\ snap[p].pending = file.pending
              /\ snap[p].pending # None => snap[p].managed = None
  BY <1>2, <1>12 DEF Named, Snapshot
<1>13. ASSUME pc[p] = "act", Goto(p, "rest"), UNCHANGED <<status, owner, seen, asked>>, FileKept
       PROVE  TurnInv'
  <2>1. file' # NoFile => \A t \in Turn : Loose(t) => t \in {file'.pending, file'.managed}
    BY <1>12, <1>13 DEF FileKept, SameTurns
  <2> QED
    BY <1>6, <1>7, <1>11, <1>13, <2>1
<1>14. ASSUME UNCHANGED <<file, status, asked>>,
              Goto(p, "failing") \/ Goto(p, "stopping") \/ Goto(p, "disable") \/ Goto(p, "stop_wait")
       PROVE  TurnInv'
  BY <1>6, <1>7, <1>8, <1>10, <1>14
(* The file gives up its turn once it no longer runs. *)
<1>15. ASSUME NEW f \in RuntimeFile, file' = Finished(f) \/ file' = Restarted(f)
       PROVE  FileInv' /\ file' \in RuntimeFile /\ file'.managed = None /\ file'.pending = None
  <2>1. 1 \in Turn
    BY DEF Turn
  <2>2. \A g \in {Finished(f), Restarted(f)} : g \in RuntimeFile /\ g.managed = None /\ g.pending = None
    BY <1>15, <2>1, TurnUpdates
  <2> QED
    BY <1>15, <2>2 DEF FileInv
<1>16. ASSUME NEW f \in RuntimeFile, file' = Finished(f) \/ file' = Restarted(f), Goto(p, "rest"),
              UNCHANGED <<status, owner, seen, asked>>,
              pc[p] \in {"rest", "act"} \cup AboutTurn \/ (pc[p] = "wait_end" /\ seen[turn[p]] = "end"),
              \A t \in Turn : ~Loose(t)
       PROVE  TurnInv'
  BY <1>6, <1>11, <1>15, <1>16
<1>17. ASSUME NEW f \in RuntimeFile \cup {NoFile}, Cancelled(p, f), pc[p] \in {"recheck", "send"},
              f # NoFile => file # NoFile /\ SameTurns(f, file), UNCHANGED <<status, owner, seen, asked>>
       PROVE  TurnInv'
  <2>1. file # NoFile => /\ file.managed = turn[p] /\ turn[p] # None /\ file.pending = None
                         /\ \A t \in Turn : Loose(t) => t = turn[p]
    BY <1>1, <1>2, <1>3, <1>17 DEF StepTurn, AboutTurn, FileInv, Named, RuntimeFile
  <2>2. turn[p] \in Turn /\ pc[p] \in AboutTurn
    BY <1>1, <1>2, <1>17 DEF StepTurn, AboutTurn
  <2>3. CASE file' = f /\ ((Goto(p, "rest") /\ f = NoFile) \/ Goto(p, "failing"))
    <3>1. FileKept
      BY <1>17, <2>3 DEF FileKept
    <3>2. Step(p)'
      BY <1>10, <1>11, <1>17, <2>2, <2>3
    <3> QED
      BY <1>6, <1>7, <1>17, <3>1, <3>2
  <2>4. CASE WasCompleted(p, turn[p]) /\ f # NoFile /\ file' = Finished(f) /\ Goto(p, "rest")
    <3>1. ~Live(turn[p])
      BY <2>2, <2>4 DEF WasCompleted, ConnectionInv
    <3>2. \A t \in Turn : ~Loose(t)
      BY <1>17, <2>1, <2>4, <3>1 DEF Loose
    <3> QED
      BY <1>16, <1>17, <2>2, <2>4, <3>2
  <2>5. CASE file' = (IF f = NoFile THEN f ELSE ClearedIfSame(f, snap[p].request)) /\ Goto(p, "rest")
    <3>1. \A g \in RuntimeFile : SameTurns(ClearedIfSame(g, snap[p].request), g)
      BY Without DEF ClearedIfSame, SameTurns
    <3>2. FileKept
      BY <1>17, <2>5, <3>1 DEF FileKept, SameTurns
    <3>3. file' # NoFile => \A t \in Turn : Loose(t) => t \in {file'.pending, file'.managed}
      BY <2>1, <3>2 DEF FileKept, SameTurns
    <3>4. Step(p)'
      BY <1>11, <1>17, <2>2, <2>5, <3>3
    <3> QED
      BY <1>6, <1>7, <1>17, <3>2, <3>4
  <2> QED
    BY <1>17, <2>3, <2>4, <2>5 DEF Cancelled
<1> HIDE DEF Busy
<1>18. CASE Load(p)
  <2>1. pc[p] = "rest" /\ UNCHANGED <<file, turn, status, owner, seen, asked>>
    BY <1>18 DEF Load, turnVars
  <2>2. CASE file = NoFile
    BY <1>14, <1>18, <2>1, <2>2 DEF Load
  <2>3. CASE file # NoFile
    <3>1. Goto(p, "act") /\ snap' = [snap EXCEPT ![p] = Loaded(file)]
      BY <1>18, <2>3 DEF Load
    <3>2. pc'[p] = "act" /\ snap'[p].managed = file.managed /\ snap'[p].pending = file.pending
      BY <1>1, <1>3, <2>3, <3>1, Moves, LoadedType
    <3>3. Snapshot(p)'
      BY <1>2, <2>1, <2>3, <3>2 DEF Snapshot, FileInv
    <3>4. StepTurn(p)'
      BY <3>2 DEF StepTurn, AboutTurn
    <3>5. Named(p)'
      BY <1>2, <2>1, <2>3, <3>2 DEF Named, Loose, Live
    <3>6. AskedEnded(p)'
      BY <1>2, <2>1, <3>2 DEF AskedEnded
    <3>7. Step(p)'
      BY <3>3, <3>4, <3>5, <3>6 DEF Step
    <3> QED
      BY <1>6, <1>7, <1>8, <2>1, <3>7
  <2> QED
    BY <2>2, <2>3
<1>19. CASE ServerAsks(p)
  BY <1>14, <1>19 DEF ServerAsks, turnVars
<1>20. CASE Reconcile(p)
  <2> DEFINE t == snap[p].pending
  <2>1. /\ pc[p] = "act" /\ UNCHANGED <<status, owner, seen, asked>> /\ KeepTurn(p, t)
        /\ t # None
    BY <1>20 DEF Reconcile, InPending, turnVars
  <2>2. CASE file # NoFile /\ file.pending = t /\ file' = WithoutPending(file) /\ Goto(p, "expire")
    <3>1. file'.pending = None /\ file' \in RuntimeFile
      BY <1>3, <2>2, Without DEF WithoutPending, RuntimeFile
    <3>2. FileInv'
      BY <3>1 DEF FileInv
    <3>3. pc'[p] = "expire" /\ turn'[p] = t
      BY <1>1, <2>1, <2>2, Moves DEF KeepTurn, InTick
    <3>4. StepTurn(p)'
      BY <1>2, <2>1, <2>2, <3>1, <3>3 DEF StepTurn, FileInv, AboutTurn
    <3>5. AskedEnded(p)'
      BY <1>2, <2>1, <3>3 DEF AskedEnded, AboutTurn
    <3>6. Step(p)'
      BY <3>3, <3>4, <3>5 DEF Step, Snapshot, Named
    <3> QED
      BY <1>6, <2>1, <3>2, <3>6
  <2>3. CASE UNCHANGED file /\ Goto(p, "failing")
    BY <1>14, <2>1, <2>3
  <2>4. CASE UNCHANGED file /\ Goto(p, "rest")
    BY <1>8, <1>13, <2>1, <2>4
  <2>5. CASE Checked(p, MayStart(file, t), Started(file, t), "rest")
    <3>1. CASE file = NoFile
      BY <1>8, <1>13, <2>1, <2>4, <2>5, <3>1 DEF Checked, Update
    <3>2. CASE file # NoFile /\ file' = Started(file, t) /\ Goto(p, "rest")
      <4>1. file'.managed = t /\ file'.pending = None
        BY <1>1, <1>3, <2>1, <3>2, TurnUpdates
      <4>2. \A u \in Turn : Loose(u) => u = t
        BY <1>1, <1>12, <2>1
      <4>3. FileInv'
        BY <4>1 DEF FileInv
      <4> QED
        BY <1>6, <1>11, <2>1, <3>2, <4>1, <4>2, <4>3
    <3> QED
      BY <2>3, <2>5, <3>1, <3>2 DEF Checked, Update
  <2> QED
    BY <1>20, <2>2, <2>3, <2>4, <2>5 DEF Reconcile
(* An interruption that is asked for once. *)
<1>21. ASSUME NEW t \in Turn, asked[t] = 0, NEW next, RequestInterrupt(p, t, next),
              UNCHANGED <<file, status, owner, seen>>,
              file # NoFile => file.pending # t,
              next \in {"failing", "stop_wait"} \/ Step(p)'
       PROVE  TurnInv'
  <2>1. \/ UNCHANGED asked /\ Goto(p, "failing")
        \/ /\ asked' = [asked EXCEPT ![t] = asked[t] + 1]
           /\ Goto(p, next)
    BY <1>21, AskType
  <2>2. CASE UNCHANGED asked /\ Goto(p, "failing")
    BY <1>14, <1>21, <2>2
  <2>3. CASE asked' = [asked EXCEPT ![t] = asked[t] + 1] /\ Goto(p, next)
    <3>1. asked' = [asked EXCEPT ![t] = 1]
      BY <1>21, <2>3
    <3>2. \A u \in Turn : asked'[u] = IF u = t THEN 1 ELSE asked[u]
      BY <1>1, <3>1 DEF TurnTypeOK
    <3>3. OneLiveTurn' /\ OneInterruptPerTurn'
      BY <1>2, <1>21, <3>2 DEF OneLiveTurn, OneInterruptPerTurn, Live
    <3>4. FileInv'
      BY <1>2, <1>3, <1>21, <3>2 DEF FileInv, RuntimeFile
    <3>5. Step(p)'
      BY <1>10, <1>21, <2>3
    <3> QED
      BY <1>5, <3>3, <3>4, <3>5
  <2> QED
    BY <2>1, <2>2, <2>3
<1>22. CASE Expire(p)
  <2>1. turn[p] \in Turn /\ asked[turn[p]] = 0 /\ (file # NoFile => file.pending # turn[p])
    BY <1>1, <1>2, <1>22 DEF Expire, StepTurn, AboutTurn
  <2>2. RequestInterrupt(p, turn[p], "failing") /\ UNCHANGED <<file, status, owner, seen>>
    BY <1>22 DEF Expire
  <2> QED
    BY <1>21, <2>1, <2>2
<1>23. CASE Recover(p)
  <2>1. turn[p] \in Turn /\ asked[turn[p]] = 0 /\ UNCHANGED <<file, status, owner, seen>>
    BY <1>1, <1>2, <1>23 DEF Recover, StepTurn, AboutTurn
  <2>2. \/ Goto(p, "failing") /\ UNCHANGED asked
        \/ RequestInterrupt(p, turn[p], "failing") /\ (file # NoFile => file.pending # turn[p])
    BY <1>23 DEF Recover
  <2> QED
    BY <1>14, <1>21, <2>1, <2>2
(* A turn of p's that its connection holds active. *)
<1>24. ASSUME NEW t \in Turn, active[p] = t, pc[p] \in {"act", "send"} PROVE asked[t] = 0
  <2>1. owner[t] = p /\ seen[t] = "start"
    BY <1>24 DEF ConnectionInv
  <2>2. asked[t] # 1
    BY <1>2, <1>24, <2>1 DEF AskedEnded, AboutTurn
  <2> QED
    BY <1>1, <2>2
<1>25. CASE Resolve(p)
  <2> DEFINE t == snap[p].managed
  <2>1. /\ pc[p] = "act" /\ UNCHANGED <<status, owner, seen, asked>>
        /\ snap[p].pending = None /\ Outcome(p, t) # "unknown"
    BY <1>25 DEF Resolve, InOutcome, turnVars
  <2>2. t \in Turn /\ ~Live(t)
    BY <1>1, <2>1 DEF Outcome, WasCompleted, ConnectionInv
  <2>3. \A u \in Turn : ~Loose(u)
    BY <1>1, <1>12, <2>1, <2>2 DEF Loose
  <2>4. ASSUME NEW ok, NEW new, Checked(p, ok, new, "rest"),
               file # NoFile => new \in {Finished(file), Restarted(file)}
        PROVE  TurnInv'
    <3>1. CASE UNCHANGED file /\ Goto(p, "failing")
      BY <1>14, <2>1, <3>1
    <3>2. CASE file = NoFile /\ UNCHANGED file /\ Goto(p, "rest")
      BY <1>8, <1>13, <2>1, <3>2
    <3>3. CASE file # NoFile /\ file' = new /\ Goto(p, "rest")
      BY <1>3, <1>16, <2>1, <2>3, <2>4, <3>3
    <3> QED
      BY <2>4, <3>1, <3>2, <3>3 DEF Checked, Update
  <2>5. \/ UNCHANGED file /\ (Goto(p, "failing") \/ Goto(p, "disable"))
        \/ Checked(p, file.managed = t, Finished(file), "rest")
        \/ Checked(p, MayCountRestart(file, t), Restarted(file), "rest")
    BY <1>25 DEF Resolve
  <2> QED
    BY <1>14, <2>1, <2>4, <2>5
<1>26. CASE Shutdown(p)
  <2> DEFINE t == snap[p].managed
  <2>1. /\ pc[p] = "act" /\ UNCHANGED <<file, status, owner, seen>> /\ snap[p].pending = None
    BY <1>26 DEF Shutdown, InShutdown
  <2>2. \/ UNCHANGED asked /\ (Goto(p, "disable") \/ Goto(p, "failing"))
        \/ UNCHANGED asked /\ Goto(p, "rest")
        \/ t # None /\ active[p] = t /\ RequestInterrupt(p, t, "stop_wait")
    BY <1>26 DEF Shutdown
  <2>3. CASE UNCHANGED asked /\ Goto(p, "rest")
    BY <1>8, <1>13, <2>1, <2>3
  <2>4. CASE t # None /\ active[p] = t /\ RequestInterrupt(p, t, "stop_wait")
    <3>1. t \in Turn /\ asked[t] = 0
      BY <1>1, <1>24, <2>1, <2>4
    <3>2. file # NoFile => file.pending # t
      BY <1>1, <1>12, <2>1, <2>4
    <3> QED
      BY <1>21, <2>1, <2>4, <3>1, <3>2
  <2> QED
    BY <1>14, <2>1, <2>2, <2>3, <2>4
<1>27. CASE ShutdownWait(p)
  BY <1>14, <1>27 DEF ShutdownWait, turnVars
<1>28. CASE Disable(p)
  <2>1. file' = NoFile /\ UNCHANGED <<status, asked>> /\ Goto(p, "stopping")
    BY <1>28 DEF Disable, turnVars
  <2> QED
    BY <1>6, <1>7, <1>10, <2>1 DEF FileKept
<1>29. CASE Decide(p)
  <2>1. /\ pc[p] = "act" /\ UNCHANGED <<file, status, owner, seen, asked>>
        /\ Goto(p, "failing") \/ Goto(p, "rest")
    BY <1>29 DEF Decide, InDecision, turnVars
  <2> QED
    BY <1>8, <1>13, <1>14, <2>1
<1>30. CASE Start(p)
  <2>1. pc[p] = "act" /\ UNCHANGED file /\ snap[p].pending = None
    BY <1>30 DEF Start, InDecision
  <2>2. snap[p].managed = None
    BY <1>1, <1>30 DEF Start, Decision
  <2>3. \A u \in Turn : ~Loose(u)
    BY <1>1, <1>12, <2>1, <2>2
  <2>4. CASE Goto(p, "failing") /\ UNCHANGED turnVars
    BY <1>14, <2>1, <2>4 DEF turnVars
  <2>5. ASSUME NEW t \in Turn, Accept(p, t), KeepTurn(p, t), Goto(p, "record") \/ Goto(p, "failing")
        PROVE  TurnInv'
    <3>1. /\ status[t] = "none" /\ UNCHANGED <<seen, asked>>
          /\ \A u \in Turn : status'[u] = IF u = t THEN "running" ELSE status[u]
          /\ \A u \in Turn : owner'[u] = IF u = t THEN p ELSE owner[u]
          /\ asked[t] = 0
      BY <1>1, <2>5 DEF Accept, TurnTypeOK, ConnectionInv
    <3>2. \A u \in Turn : Loose(u)' => u = t
      BY <2>3, <3>1 DEF Loose, Live
    <3>3. OneLiveTurn' /\ OneInterruptPerTurn'
      BY <1>2, <3>1, <3>2 DEF OneLiveTurn, OneInterruptPerTurn, Loose
    <3>4. FileInv'
      BY <1>1, <1>12, <2>1 DEF FileInv
    <3>5. CASE Goto(p, "failing")
      BY <1>5, <1>10, <3>3, <3>4, <3>5
    <3>6. CASE Goto(p, "record")
      <4>1. pc'[p] = "record" /\ turn'[p] = t
        BY <1>1, <2>5, <3>6, Moves DEF KeepTurn, InTick
      <4>2. StepTurn(p)'
        BY <1>1, <1>12, <2>1, <3>1, <4>1 DEF StepTurn, AboutTurn
      <4>3. Named(p)'
        BY <3>2, <4>1 DEF Named
      <4>4. AskedEnded(p)'
        BY <1>2, <2>1, <3>1, <4>1 DEF AskedEnded, AboutTurn
      <4>5. Step(p)'
        BY <4>1, <4>2, <4>3, <4>4 DEF Step, Snapshot
      <4> QED
        BY <1>5, <3>3, <3>4, <4>5
    <3> QED
      BY <2>5, <3>5, <3>6
  <2> QED
    BY <1>30, <2>4, <2>5 DEF Start
<1>31. CASE Record(p)
  <2>1. /\ pc[p] = "record" /\ UNCHANGED <<status, owner, seen, asked>> /\ Keep(p)
        /\ turn[p] \in Turn /\ status[turn[p]] # "none" /\ asked[turn[p]] = 0
        /\ \A u \in Turn : Loose(u) => u = turn[p]
        /\ file # NoFile => file.pending # turn[p]
    BY <1>1, <1>2, <1>31 DEF Record, StepTurn, Named, AboutTurn, turnVars
  <2>2. turn'[p] \in {turn[p], None} /\ (pc'[p] \in InTick => turn'[p] = turn[p])
    BY <1>1, <2>1 DEF Keep, KeepTurn
  <2>3. CASE UNCHANGED file /\ Goto(p, "recover")
    <3>1. pc'[p] = "recover" /\ turn'[p] = turn[p]
      BY <2>2, <2>3, Moves DEF InTick
    <3>2. AskedEnded(p)'
      BY <1>2, <2>1, <3>1 DEF AskedEnded, AboutTurn
    <3>3. Step(p)'
      BY <1>1, <2>1, <3>1, <3>2 DEF Step, Snapshot, StepTurn, Named, AboutTurn, Loose, Live
    <3> QED
      BY <1>6, <1>7, <1>8, <2>1, <2>3, <3>3
  <2>4. CASE Update(Pending(file, turn[p])) /\ Goto(p, "wait_start") /\ (file = NoFile \/ MayPend(file))
    <3>1. pc'[p] = "wait_start" /\ turn'[p] = turn[p]
      BY <2>2, <2>4, Moves DEF InTick
    <3>2. file' # NoFile => file # NoFile /\ file'.pending = turn[p] /\ file'.managed = None
      BY <1>3, <2>1, <2>4, TurnUpdates DEF Update, MayPend
    <3>3. FileInv'
      BY <2>1, <3>2 DEF FileInv
    <3>4. AskedEnded(p)'
      BY <1>2, <2>1, <3>1 DEF AskedEnded, AboutTurn
    <3>5. Step(p)'
      BY <1>1, <2>1, <3>1, <3>2, <3>4 DEF Step, Snapshot, StepTurn, Named, AboutTurn, Loose, Live
    <3> QED
      BY <1>6, <2>1, <3>3, <3>5
  <2> QED
    BY <1>31, <2>3, <2>4 DEF Record
<1>32. CASE WaitStart(p)
  <2>1. /\ pc[p] = "wait_start" /\ UNCHANGED <<status, owner, seen, asked>> /\ turn[p] \in Turn
        /\ file # NoFile => \A u \in Turn : Loose(u) => u \in {file.pending, file.managed}
        /\ pc[p] \in AboutTurn
    BY <1>1, <1>2, <1>32 DEF WaitStart, StepTurn, Named, AboutTurn
  <2>2. CASE UNCHANGED file /\ Goto(p, "failing")
    BY <1>14, <2>1, <2>2
  <2>3. ASSUME FileKept, Goto(p, "rest") PROVE TurnInv'
    <3>1. file' # NoFile => \A t \in Turn : Loose(t) => t \in {file'.pending, file'.managed}
      BY <2>1, <2>3 DEF FileKept, SameTurns
    <3> QED
      BY <1>6, <1>7, <1>11, <2>1, <2>3, <3>1
  <2>4. CASE Checked(p, MayStart(file, turn[p]), Started(file, turn[p]), "rest")
    <3>1. CASE file = NoFile /\ UNCHANGED file /\ Goto(p, "rest")
      BY <1>8, <2>3, <3>1
    <3>2. CASE file # NoFile /\ MayStart(file, turn[p]) /\ file' = Started(file, turn[p])
               /\ Goto(p, "rest")
      <4>1. file'.managed = turn[p] /\ file'.pending = None
        BY <1>3, <2>1, <3>2, TurnUpdates
      <4>2. \A u \in Turn : Loose(u) => u = turn[p]
        BY <1>1, <2>1, <3>2 DEF MayStart
      <4>3. FileInv'
        BY <4>1 DEF FileInv
      <4> QED
        BY <1>6, <1>11, <2>1, <3>2, <4>1, <4>2, <4>3
    <3> QED
      BY <2>2, <2>4, <3>1, <3>2 DEF Checked, Update
  <2>5. CASE Checked(p, file.pending = turn[p], TimedOut(file), "rest")
    <3>1. file # NoFile => SameTurns(TimedOut(file), file)
      BY <1>3, <2>1, TurnUpdates
    <3>2. \/ UNCHANGED file /\ Goto(p, "failing")
          \/ FileKept /\ Goto(p, "rest")
      BY <1>8, <2>5, <3>1 DEF Checked, Update, FileKept
    <3> QED
      BY <2>2, <2>3, <3>2
  <2> QED
    BY <1>32, <2>2, <2>4, <2>5 DEF WaitStart
<1>33. CASE Claim(p)
  <2>1. /\ pc[p] = "act" /\ UNCHANGED <<status, owner, seen, asked>>
        /\ KeepTurn(p, snap[p].managed) /\ Decision(snap[p], active[p]) = "interrupt"
    BY <1>33 DEF Claim, InDecision, turnVars
  <2>2. snap[p].managed # None
    BY <2>1 DEF Decision
  <2>3. FileKept
    <3>1. CASE UNCHANGED file
      BY <1>8, <3>1
    <3>2. CASE file # NoFile
      <4>1. \/ UNCHANGED file
            \/ file' = [file EXCEPT !.claimed = "recent"]
            \/ file' = ClearedIfStale(file, snap[p].request, unread)
        BY <1>33, <3>2 DEF Claim
      <4>2. SameTurns(ClearedIfStale(file, snap[p].request, unread), file)
        BY <1>3, <3>2, Without DEF ClearedIfStale, SameTurns
      <4>3. [file EXCEPT !.claimed = "recent"].managed = file.managed
            /\ [file EXCEPT !.claimed = "recent"].pending = file.pending
        BY <1>3, <3>2 DEF RuntimeFile
      <4> QED
        BY <1>8, <3>2, <4>1, <4>2, <4>3 DEF FileKept, SameTurns
    <3> QED
      BY <1>33, <3>1, <3>2 DEF Claim
  <2>4. CASE Goto(p, "rest")
    BY <1>13, <2>1, <2>3, <2>4
  <2>5. CASE Goto(p, "recheck")
    <3>1. pc'[p] = "recheck" /\ turn'[p] = snap[p].managed
      BY <1>1, <2>1, <2>5, Moves DEF KeepTurn, InTick
    <3>2. file' # NoFile => file # NoFile /\ file'.managed = snap[p].managed
                            /\ file'.pending = snap[p].pending
      BY <1>12, <2>1, <2>3 DEF FileKept, SameTurns
    <3>3. StepTurn(p)'
      BY <2>2, <3>1, <3>2 DEF StepTurn, AboutTurn
    <3>4. Named(p)'
      BY <1>12, <2>1, <3>1, <3>2 DEF Named, Loose, Live
    <3>5. AskedEnded(p)'
      BY <1>2, <2>1, <3>1 DEF AskedEnded, AboutTurn
    <3>6. Step(p)'
      BY <3>1, <3>3, <3>4, <3>5 DEF Step, Snapshot
    <3> QED
      BY <1>6, <1>7, <2>1, <2>3, <3>6
  <2> QED
    BY <1>33, <2>4, <2>5 DEF Claim
<1>34. CASE Recheck(p)
  <2> DEFINE f == IF file = NoFile THEN file ELSE ClearedIfStale(file, snap[p].request, unread)
  <2>1. /\ pc[p] = "recheck" /\ UNCHANGED <<status, owner, seen, asked>> /\ Keep(p)
    BY <1>34 DEF Recheck, turnVars
  <2>2. f \in RuntimeFile \cup {NoFile} /\ (f # NoFile => file # NoFile /\ SameTurns(f, file))
    BY <1>3, Without DEF ClearedIfStale, SameTurns
  <2>3. Cancelled(p, f) \/ (UNCHANGED file /\ Goto(p, "send"))
    BY <1>34 DEF Recheck
  <2> HIDE DEF f
  <2>4. CASE UNCHANGED file /\ Goto(p, "send")
    <3>1. pc'[p] = "send" /\ turn'[p] = turn[p]
      BY <1>1, <2>1, <2>4, Moves DEF Keep, KeepTurn, InTick
    <3>2. StepTurn(p)'
      BY <1>2, <2>1, <2>4, <3>1 DEF StepTurn, AboutTurn
    <3>3. Named(p)'
      BY <1>2, <2>1, <2>4, <3>1 DEF Named, Loose, Live
    <3>4. AskedEnded(p)'
      BY <1>2, <2>1, <3>1 DEF AskedEnded, AboutTurn
    <3>5. Step(p)'
      BY <3>1, <3>2, <3>3, <3>4 DEF Step, Snapshot
    <3> QED
      BY <1>6, <1>7, <1>8, <2>1, <2>4, <3>5
  <2> QED
    BY <1>17, <2>1, <2>2, <2>3, <2>4
<1>35. CASE SendInterrupt(p)
  <2>1. pc[p] = "send" /\ UNCHANGED <<status, owner, seen>> /\ Keep(p) /\ turn[p] \in Turn
        /\ (file # NoFile => file.managed = turn[p] /\ file.pending = None)
    BY <1>1, <1>2, <1>3, <1>35 DEF SendInterrupt, StepTurn, AboutTurn, FileInv, RuntimeFile
  <2>2. CASE Cancelled(p, file) /\ UNCHANGED asked
    BY <1>1, <1>17, <2>1, <2>2 DEF FileType, SameTurns
  <2>3. CASE Goto(p, "failing") /\ UNCHANGED <<file, asked>>
    BY <1>14, <2>1, <2>3
  <2>4. CASE active[p] = turn[p] /\ RequestInterrupt(p, turn[p], "wait_end") /\ UNCHANGED file
    <3>1. asked[turn[p]] = 0
      BY <1>24, <2>1, <2>4
    <3>2. file # NoFile => file.pending # turn[p]
      BY <1>1, <2>1
    <3>3. Step(p)'
      <4>1. CASE Goto(p, "failing")
        BY <1>10, <4>1
      <4>2. CASE Goto(p, "wait_end") /\ asked' = [asked EXCEPT ![turn[p]] = asked[turn[p]] + 1]
        <5>1. pc'[p] = "wait_end" /\ turn'[p] = turn[p]
          BY <1>1, <2>1, <4>2, Moves DEF Keep, KeepTurn, InTick
        <5>2. \A u \in Turn : asked'[u] = IF u = turn[p] THEN 1 ELSE asked[u]
          BY <1>1, <2>1, <3>1, <4>2 DEF TurnTypeOK
        <5>3. Named(p)'
          BY <1>2, <2>1, <2>4, <5>1, <5>2 DEF Named, Loose, Live
        <5>4. AskedEnded(p)'
          BY <1>2, <2>1, <5>1, <5>2 DEF AskedEnded, AboutTurn
        <5> QED
          BY <5>1, <5>3, <5>4 DEF Step, Snapshot, StepTurn, AboutTurn
      <4> QED
        BY <2>1, <2>4, <4>1, <4>2, AskType
    <3> QED
      BY <1>21, <2>1, <2>4, <3>1, <3>2, <3>3
  <2> QED
    BY <1>35, <2>2, <2>3, <2>4 DEF SendInterrupt
<1>36. CASE WaitEnd(p)
  <2> DEFINE t == turn[p]
  <2>1. pc[p] = "wait_end" /\ UNCHANGED <<status, owner, seen, asked>>
    BY <1>36 DEF WaitEnd, turnVars
  <2>2. Outcome(p, t) # "unknown" => t \in Turn /\ seen[t] = "end" /\ ~Live(t)
    BY <1>1 DEF Outcome, WasCompleted, ConnectionInv
  <2>3. file # NoFile => \A u \in Turn : Loose(u) => u \in {file.pending, file.managed}
    BY <1>2, <2>1 DEF Named
  <2>4. \/ UNCHANGED file /\ Goto(p, "failing")
        \/ Outcome(p, t) # "unknown" /\ UNCHANGED file /\ Goto(p, "rest")
        \/ /\ Outcome(p, t) # "unknown" /\ file # NoFile /\ MayCountRestart(file, t)
           /\ file' = Restarted(file) /\ Goto(p, "rest")
    BY <1>36 DEF WaitEnd, Checked, Update
  <2>5. CASE UNCHANGED file /\ Goto(p, "failing")
    BY <1>14, <2>1, <2>5
  <2>6. CASE Outcome(p, t) # "unknown" /\ UNCHANGED file /\ Goto(p, "rest")
    <3>1. Step(p)'
      BY <1>11, <2>1, <2>2, <2>3, <2>6
    <3> QED
      BY <1>6, <1>7, <1>8, <2>1, <2>6, <3>1
  <2>7. CASE /\ Outcome(p, t) # "unknown" /\ file # NoFile /\ MayCountRestart(file, t)
             /\ file' = Restarted(file) /\ Goto(p, "rest")
    <3>1. \A u \in Turn : Loose(u) => u = t
      BY <1>1, <1>2, <1>3, <2>2, <2>3, <2>7 DEF MayCountRestart, FileInv, RuntimeFile
    <3>2. \A u \in Turn : ~Loose(u)
      BY <2>2, <2>7, <3>1 DEF Loose
    <3> QED
      BY <1>3, <1>16, <2>1, <2>2, <2>7, <3>2
  <2> QED
    BY <2>4, <2>5, <2>6, <2>7
<1> QED
  BY <1>18, <1>19, <1>20, <1>22, <1>23, <1>25, <1>26, <1>27, <1>28, <1>29, <1>30, <1>31, <1>32,
     <1>33, <1>34, <1>35, <1>36 DEF Tick

-----------------------------------------------------------------------------
(* The invariant. *)

IInv == TypeOK /\ LeaseInv /\ ConnectionInv /\ TurnInv /\ SaveInv

(* Who takes a step.                                                       *)
LEMMA NextCases ==
    ASSUME Next
    PROVE  \/ \E p \in Process : Tick(p) /\ UNCHANGED <<leaseVars, userVars, faults>>
           \/ \E p \in Process :
                \/ Begin(p) \/ Acquire(p) \/ Initialize(p) \/ RecordFailure(p) \/ MarkStopped(p)
                \/ CloseClient(p) \/ RemoveMarker(p) \/ Release(p) \/ Crash(p) \/ ChildDies(p)
           \/ Others
           \/ Launch \/ \E t \in Turn : AppServer(t)
BY DEF Next, Manager, EnableCommand, Others

(* Nothing happens to a session that is being saved.                       *)
LEMMA SaveKept ==
    ASSUME IInv, Next PROVE SaveInv'
<1> USE DEF None
<1> SUFFICES ASSUME enabling' = "save"
             PROVE  /\ file' = NoFile
                    /\ \A t \in Turn : owner'[t] = None
                    /\ \A p \in Process : pc'[p] \in TickStates => pc'[p] \in {"rest", "stopping"}
  BY DEF SaveInv
<1>1. /\ TypeOK /\ LeaseInv /\ SaveInv /\ FileType
      /\ \A t \in Turn : owner[t] \in Process \cup {None}
      /\ \A p \in Process : ~(p = None)
  BY RuntimeAssumption DEF IInv, TypeOK, TurnTypeOK, FileType
<1>2. \A x \in TickStates \cup Closing : x \in Locked
  BY DEF Locked, Closing
<1>3. CASE enabling # "save"
  <2>1. CASE Others
    <3>1. file' = NoFile /\ lock = None /\ UNCHANGED <<pc, owner>>
      BY <1>1, <1>3, <2>1, OthersEffect DEF EnablingStep, turnVars
    <3> QED
      BY <1>1, <1>2, <3>1 DEF LeaseInv
  <2>2. CASE ~Others
    <3>1. UNCHANGED enabling \/ Launch
      BY <2>2, NextCases
      DEF Begin, Acquire, Initialize, RecordFailure, MarkStopped, CloseClient, RemoveMarker,
          Release, Crash, ChildDies, AppServer, userVars
    <3> QED
      BY <1>3, <3>1 DEF Launch, Enabling
  <2> QED
    BY <2>1, <2>2
<1>4. CASE enabling = "save"
  <2>1. /\ file = NoFile /\ \A t \in Turn : owner[t] = None
        /\ \A p \in Process : pc[p] \in TickStates => pc[p] \in {"rest", "stopping"}
    BY <1>1, <1>4 DEF SaveInv
  <2>2. ASSUME NEW p \in Process, Tick(p)
        PROVE  UNCHANGED <<file, owner>> /\ Goto(p, "stopping")
    <3>1. pc[p] = "rest"
      BY <1>1, <2>1, <2>2, TickPlaces
    <3>2. Load(p)
      BY <2>2, <3>1
      DEF Tick, ServerAsks, Reconcile, Expire, Resolve, Shutdown, ShutdownWait, Disable, Decide,
          Start, Record, Recover, WaitStart, Claim, Recheck, SendInterrupt, WaitEnd, InPending,
          InOutcome, InShutdown, InDecision
    <3> QED
      BY <2>1, <3>2 DEF Load, turnVars
  <2>3. ASSUME NEW p \in Process,
               \/ Begin(p) \/ Acquire(p) \/ Initialize(p) \/ RecordFailure(p) \/ MarkStopped(p)
               \/ CloseClient(p) \/ RemoveMarker(p) \/ Release(p) \/ Crash(p) \/ ChildDies(p)
        PROVE  /\ UNCHANGED file /\ \A t \in Turn : owner'[t] \in {owner[t], None}
               /\ UNCHANGED pc \/ \E x : Goto(p, x) /\ (x \in TickStates => x \in {"rest", "stopping"})
    <3>1. UNCHANGED file
      BY <2>1, <2>3
      DEF Begin, Acquire, Initialize, RecordFailure, MarkStopped, CloseClient, RemoveMarker,
          Release, Crash, ChildDies, engineVars, Update
    <3>2. \A t \in Turn : owner'[t] \in {owner[t], None}
      <4>1. UNCHANGED owner \/ Close(p)
        BY <2>3
        DEF Begin, Acquire, Initialize, RecordFailure, MarkStopped, CloseClient, RemoveMarker,
            Release, Crash, ChildDies, ChildEnds, Spawn, turnVars
      <4> QED
        BY <4>1 DEF Close
    <3>3. \/ UNCHANGED pc
          \/ \E x \in {"idle", "loaded", "dead", "idle_locked", "locked", "stopping", "init",
                       "close", "close_bad", "unmark", "unmark_bad", "unlock", "unlock_bad", "late",
                       "late_locked", "exit", "rest"} : Goto(p, x)
      BY <2>1, <2>3
      DEF Begin, Acquire, Initialize, RecordFailure, MarkStopped, CloseClient, RemoveMarker,
          Release, Crash, ChildDies, engineVars
    <3>4. \A x \in {"idle", "loaded", "dead", "idle_locked", "locked", "stopping", "init",
                    "close", "close_bad", "unmark", "unmark_bad", "unlock", "unlock_bad", "late",
                    "late_locked", "exit", "rest"} : x \in TickStates => x \in {"rest", "stopping"}
      BY DEF TickStates, InTick
    <3> QED
      BY <3>1, <3>2, <3>3, <3>4
  <2>4. CASE Others
    BY <1>1, <1>4, <2>1, <2>4, OthersEffect DEF OthersWrite, turnVars
  <2>5. CASE Launch \/ \E t \in Turn : AppServer(t)
    <3>1. ~Launch
      BY <1>4 DEF Launch, Enabling
    <3>2. UNCHANGED <<file, pc, owner>>
      BY <2>5, <3>1 DEF AppServer, Ends, Observes, ObserveStart, ObserveEnd, engineVars
    <3> QED
      BY <2>1, <3>2
  <2>6. ASSUME NEW p \in Process, UNCHANGED file, \A t \in Turn : owner'[t] \in {owner[t], None},
               UNCHANGED pc \/ \E x : Goto(p, x) /\ (x \in TickStates => x \in {"rest", "stopping"})
        PROVE  /\ file' = NoFile
               /\ \A t \in Turn : owner'[t] = None
               /\ \A q \in Process : pc'[q] \in TickStates => pc'[q] \in {"rest", "stopping"}
    BY <1>1, <2>1, <2>6, Moves
  <2> QED
    BY <2>2, <2>3, <2>4, <2>5, <2>6, NextCases
<1> QED
  BY <1>3, <1>4

(* A session that was never enabled.                                       *)
LEMMA InitIInv == Init => IInv
<1> SUFFICES ASSUME Init PROVE IInv
  OBVIOUS
<1> USE DEF None
<1>1. NothingLoaded \in LoadedRuntime
  BY DEF NothingLoaded, Loaded, NewFile, LoadedRuntime, NoRequest, Request, Age
<1>2. "off" \in ProcessStates /\ "off" \notin Locked /\ "off" \notin Busy
  BY DEF ProcessStates, Locked, TickStates, InTick, Busy, AboutTurn
<1>3. TypeOK
  <2>1. TurnTypeOK
    BY DEF Init, TurnInit, TurnTypeOK, Ended
  <2>2. 0 \in 0..MaxFaults
    BY SessionAssumption
  <2> QED
    BY <1>1, <1>2, <2>1, <2>2 DEF Init, TypeOK
<1>4. LeaseInv
  BY <1>2 DEF Init, TurnInit, LeaseInv
<1>5. ConnectionInv
  <2>1. \A t \in Turn : t # None
    BY DEF Turn
  <2> QED
    BY <2>1 DEF Init, TurnInit, ConnectionInv, Live
<1>6. TurnInv
  <2>1. \A p \in Process : Step(p)
    BY <1>2, AwayFromTurns DEF Init
  <2>2. \A t \in Turn : status[t] = "none" /\ asked[t] = 0
    BY DEF Init, TurnInit
  <2>3. FileInv /\ OneLiveTurn /\ OneInterruptPerTurn
    BY <2>2 DEF Init, FileInv, OneLiveTurn, OneInterruptPerTurn, Live
  <2> QED
    BY <2>1, <2>3 DEF TurnInv
<1>7. SaveInv
  BY DEF Init, SaveInv
<1> QED
  BY <1>3, <1>4, <1>5, <1>6, <1>7 DEF IInv

(* Every step keeps it.                                                    *)
LEMMA NextIInv == IInv /\ [Next]_vars => IInv'
<1> SUFFICES ASSUME IInv, [Next]_vars PROVE IInv'
  OBVIOUS
<1>6. Next => SaveInv'
  BY SaveKept
<1>1. TypeOK /\ LeaseInv /\ ConnectionInv /\ TurnInv /\ SaveInv
  BY DEF IInv
<1>2. ASSUME NEW p \in Process, Tick(p), UNCHANGED <<leaseVars, userVars, faults>>, SaveInv' PROVE IInv'
  <2>1. TypeOK'
    BY <1>1, <1>2, TickType
  <2>2. LeaseInv'
    BY <1>1, <1>2, LeaseTick
  <2>3. ConnectionInv'
    BY <1>1, <1>2, TickTurns, ConnectionKept
  <2>4. TurnInv'
    BY <1>1, <1>2, TurnTick
  <2> QED
    BY <1>2, <2>1, <2>2, <2>3, <2>4 DEF IInv
<1>3. ASSUME NEW p \in Process,
             \/ Begin(p) \/ Acquire(p) \/ Initialize(p) \/ RecordFailure(p) \/ MarkStopped(p)
             \/ CloseClient(p) \/ RemoveMarker(p) \/ Release(p) \/ Crash(p) \/ ChildDies(p),
             SaveInv'
      PROVE  IInv'
  <2>1. TypeOK'
    BY <1>1, <1>3, ManagerType
  <2>2. LeaseInv'
    BY <1>1, <1>3, <2>1, LeaseManager
  <2>3. UNCHANGED turnVars \/ Spawn(p) \/ Close(p) \/ ChildEnds(p)
    BY <1>3
    DEF Begin, Acquire, Initialize, RecordFailure, MarkStopped, CloseClient, RemoveMarker, Release, Crash, ChildDies
  <2>4. ConnectionInv'
    BY <1>1, <2>3, ConnectionKept
  <2>5. TurnInv'
    BY <1>1, <1>3, TurnManager
  <2> QED
    BY <1>3, <2>1, <2>2, <2>4, <2>5 DEF IInv
<1>4. ASSUME Others \/ Launch \/ \E t \in Turn : AppServer(t), SaveInv' PROVE IInv'
  <2>1. TypeOK'
    BY <1>1, <1>4, OthersEffect, RestType
  <2>2. LeaseInv'
    BY <1>1, <1>4, LeaseRest
  <2>3. UNCHANGED turnVars \/ \E t \in Turn : Ends(t) \/ Observes(t)
    BY <1>1, <1>4, OthersEffect DEF Launch, AppServer
  <2>4. ConnectionInv'
    BY <1>1, <2>3, ConnectionKept
  <2>5. TurnInv'
    BY <1>1, <1>4, TurnRest
  <2> QED
    BY <1>4, <2>1, <2>2, <2>4, <2>5 DEF IInv
<1>5. CASE UNCHANGED vars
  BY <1>1, <1>5
  DEF vars, engineVars, turnVars, leaseVars, userVars, IInv, TypeOK, TurnTypeOK, LeaseInv,
      ConnectionInv, TurnInv, FileInv, OneLiveTurn, OneInterruptPerTurn, Live, Step, Snapshot,
      StepTurn, Named, AskedEnded, Loose, SaveInv
<1> QED
  BY <1>2, <1>3, <1>4, <1>5, <1>6, NextCases

(* What the invariant says of a state.                                     *)
LEMMA IInvTurns == IInv => TurnsAreOwned /\ OneInterruptPerTurn
<1> SUFFICES ASSUME IInv PROVE TurnsAreOwned /\ OneInterruptPerTurn
  OBVIOUS
<1>1. TypeOK /\ LeaseInv /\ ConnectionInv /\ TurnInv
  BY DEF IInv
<1>2. ReadyMeansLeased
  <2>1. file # NoFile => file.pid \in Process \cup {None}
    BY <1>1 DEF TypeOK, RuntimeFile
  <2>2. \A x \in Announced : x \in Locked \cup {"late", "dead"}
    BY DEF Locked, Announced
  <2> QED
    BY <1>1, <2>1, <2>2 DEF ReadyMeansLeased, LeaseInv
<1>3. LiveTurnsAreRecorded
  <2> SUFFICES ASSUME NEW p \in Process, NEW t \in Turn,
                      Resting(p), file # NoFile, owner[t] = p, Live(t), ~(asked[t] > 0)
               PROVE  t \in {file.pending, file.managed}
    BY DEF LiveTurnsAreRecorded
  <2>1. Loose(t)
    BY <1>1 DEF Loose, TypeOK, TurnTypeOK
  <2>2. Snapshot(p) /\ Named(p)
    BY <1>1 DEF TurnInv, Step
  <2> QED
    BY <2>1, <2>2 DEF Resting, Snapshot, Named
<1> QED
  BY <1>1, <1>2, <1>3 DEF TurnsAreOwned, TurnInv

(* Along every behaviour.                                                  *)
LEMMA SpecIInv == Spec => []IInv
BY InitIInv, NextIInv, PTL DEF Spec

(* For any number of managers, turns, hooks, requests and faults: what the *)
(* file says of readiness is said of the holder of the lease, or of one    *)
(* that has released it and is dead or about to record that its cleanup    *)
(* failed (manager_lease.py, run_manager); no two turns of the session run *)
(* unless one was asked to stop; and a manager that is between two steps   *)
(* of control left no turn of its own running that neither the file names  *)
(* nor an interrupt has reached (_persist_accepted_turn,                   *)
(* _reconcile_pending_turn).                                               *)
THEOREM ManagersOwnTheirTurns == Spec => []TurnsAreOwned
BY SpecIInv, IInvTurns, PTL

(* No turn is asked to stop twice, whichever of expiry, a lost race for    *)
(* the handoff, a restart and a shutdown asks (expire_pending,             *)
(* _recover_accepted_turn, InterruptController.execute, handle_shutdown).  *)
THEOREM TurnsAreStoppedOnce == Spec => []OneInterruptPerTurn
BY SpecIInv, IInvTurns, PTL

-----------------------------------------------------------------------------
(* What was decided is kept to. *)

(* Where a tick is about to decide, act or rest.                           *)
Deciding == {"rest", "act", "recheck", "send", "wait_end"}

(* A stop of a session whose manager is not ready is the cancelled startup *)
(* of another one, or of one the file has called failed.                   *)
NotForIt(p) == ~file.ready /\ ~file.interrupt /\ (file.failed \/ launched # p)

(* A manager past its start is ready, or the file says one failed, or it   *)
(* is not the one being launched, which the command cancels only once it   *)
(* has launched it; and while a tick has loaded a file with no turn and no *)
(* stop, none is added but such a cancelled startup.                       *)
StopStep(p) ==
    file # NoFile =>
      /\ pc[p] \in TickStates \ {"stopping", "failing"} =>
            \/ file.ready \/ file.failed \/ launched # p
            \/ enabling \in {"spawn", "rollback"} /\ ~file.shutdown
      /\ pc[p] = "act" /\ ~snap[p].shutdown /\ snap[p].managed = None
            => ~file.shutdown \/ NotForIt(p)

(* A claim is of a request, and there is none without one.                 *)
ClaimFile == file # NoFile /\ file.claimed # "never" => file.request.turn # None

(* It is of the request that the tick has loaded until the interruption is *)
(* sent, and then the owned turn was asked to stop.                        *)
ClaimStep(p) ==
    /\ pc[p] \in {"recheck", "send"} /\ file # NoFile /\ file.claimed # "never"
          => file.request = snap[p].request
    /\ pc[p] \in {"rest", "act"} /\ file # NoFile /\ file.claimed # "never"
       /\ file.managed # None /\ owner[file.managed] = p /\ file.request.turn = file.managed
          => asked[file.managed] = 1
    /\ pc[p] = "wait_end" =>
          /\ turn[p] # None /\ asked[turn[p]] = 1
          /\ file # NoFile => file.managed = turn[p]

ControlInv == ClaimFile /\ \A p \in Process : StopStep(p) /\ ClaimStep(p)

(* What the others do to the control of a process in its tick.             *)
LEMMA ControlKept ==
    ASSUME TypeOK, ControlInv, FileKept, NEW q \in Process, pc'[q] = pc[q], snap'[q] = snap[q],
           turn'[q] = turn[q], asked' = asked, \A t \in Turn : owner'[t] = q => owner[t] = q,
           UNCHANGED <<enabling, launched>>,
           file' # NoFile => SameRequest(file', file) /\ SameStop(file', file),
           file' # NoFile => SameReady(file', file) \/ (file'.failed /\ ~file'.ready)
    PROVE  StopStep(q)' /\ ClaimStep(q)' /\ ClaimFile'
<1> USE DEF None
<1>1. file # NoFile => file.managed \in Turn \cup {None}
  BY DEF TypeOK, RuntimeFile
<1>2. file' # NoFile => file # NoFile /\ file'.managed = file.managed /\ file'.pending = file.pending
                        /\ file'.request = file.request /\ file'.claimed = file.claimed
  BY DEF FileKept, SameTurns, SameRequest
<1>3. StopStep(q)'
  BY <1>2 DEF ControlInv, StopStep, NotForIt, SameReady, SameStop
<1>4. ClaimStep(q)' /\ ClaimFile'
  BY <1>1, <1>2 DEF ControlInv, ClaimStep, ClaimFile
<1> QED
  BY <1>3, <1>4

(* The steps of a process outside its ticks.                               *)
LEMMA ControlManager ==
    ASSUME IInv, ControlInv, NEW p \in Process,
           \/ Begin(p) \/ Acquire(p) \/ Initialize(p) \/ RecordFailure(p) \/ MarkStopped(p)
           \/ CloseClient(p) \/ RemoveMarker(p) \/ Release(p) \/ Crash(p) \/ ChildDies(p)
    PROVE  /\ ControlInv'
           /\ file # NoFile /\ file' # NoFile => ~(file'.restarts > file.restarts)
           /\ \A t \in Turn : status'[t] = "running" => status[t] = "running"
<1> USE DEF None
<1>1. /\ TypeOK /\ LeaseInv /\ FileType /\ pc \in [Process -> ProcessStates]
      /\ turn \in [Process -> Turn \cup {None}] /\ snap \in [Process -> LoadedRuntime]
      /\ \A t \in Turn : owner[t] \in Process \cup {None}
      /\ \A q \in Process : ~(q = None)
  BY RuntimeAssumption DEF IInv, TypeOK, TurnTypeOK, FileType
<1>2. file # NoFile => file \in RuntimeFile
  BY <1>1 DEF FileType
(* The file. *)
<1>3. \/ UNCHANGED file
      \/ pc[p] = "spawned" /\ Goto(p, "rest") /\ UNCHANGED owner /\ Update(Ready(file, p))
      \/ pc[p] \in {"late", "late_locked"} /\ Update(Failed(file))
      \/ pc[p] \in {"failing", "stopping"} /\ Update(Failed(file))
      \/ pc[p] = "stopping" /\ Update(Stopped(file))
  BY DEF Begin, Acquire, Initialize, RecordFailure, MarkStopped, CloseClient, RemoveMarker, Release, Crash,
         ChildDies, engineVars, turnVars
<1>4. file # NoFile =>
        \A g \in {file, Ready(file, p), Failed(file), Stopped(file)} :
          SameTurns(g, file) /\ SameRequest(g, file) /\ NoRestart(g, file) /\ SameStop(g, file)
  BY <1>2, ReadinessUpdates DEF SameTurns, SameRequest, NoRestart, SameStop
<1>5. file' # NoFile =>
        /\ file # NoFile
        /\ SameTurns(file', file) /\ SameRequest(file', file) /\ NoRestart(file', file)
        /\ SameStop(file', file)
  BY <1>3, <1>4 DEF Update
<1>6. FileKept
  BY <1>5 DEF FileKept
<1>7. /\ asked' = asked /\ \A t \in Turn : owner'[t] \in {owner[t], None}
      /\ \A t \in Turn : status'[t] = "running" => status[t] = "running"
  <2>1. CASE UNCHANGED turnVars \/ Spawn(p)
    BY <2>1 DEF turnVars, Spawn
  <2>2. CASE Close(p)
    BY <2>2 DEF Close
  <2>3. CASE ChildEnds(p)
    BY <2>3 DEF ChildEnds
  <2> QED
    BY <2>1, <2>2, <2>3
    DEF Begin, Acquire, Initialize, RecordFailure, MarkStopped, CloseClient, RemoveMarker, Release, Crash,
        ChildDies
<1>8. \A q \in Process : q # p => pc'[q] = pc[q] /\ snap'[q] = snap[q] /\ turn'[q] = turn[q]
  <2>1. CASE Crash(p)
    BY <1>1, <2>1 DEF Crash, Goto, Keep, KeepTurn
  <2>2. CASE ~Crash(p)
    BY <1>1, <2>2
    DEF Begin, Acquire, Initialize, RecordFailure, MarkStopped, CloseClient, RemoveMarker, Release, ChildDies,
        Goto, engineVars
  <2> QED
    BY <2>1, <2>2
<1>9. ClaimFile'
  BY <1>5 DEF ControlInv, ClaimFile, SameRequest
<1>10. ASSUME NEW q \in Process, pc'[q] \notin TickStates \ {"stopping", "failing"}
       PROVE  StopStep(q)' /\ ClaimStep(q)'
  BY <1>10 DEF StopStep, ClaimStep, TickStates, InTick
<1>14. UNCHANGED <<enabling, launched>>
  BY DEF Begin, Acquire, Initialize, RecordFailure, MarkStopped, CloseClient, RemoveMarker, Release,
         Crash, ChildDies, userVars
(* The others: only one of them can be in a tick. *)
<1>11. ASSUME NEW q \in Process, q # p PROVE StopStep(q)' /\ ClaimStep(q)'
  <2>1. CASE pc'[q] \notin TickStates
    BY <1>10, <2>1
  <2>2. CASE pc'[q] \in TickStates
    <3>1. pc[p] \notin Locked
      BY <1>1, <1>8, <1>11, <2>2 DEF LeaseInv, Locked
    <3>2. UNCHANGED file \/ Update(Failed(file))
      BY <1>3, <3>1 DEF Locked, TickStates
    <3>3. file' # NoFile => SameReady(file', file) \/ (file'.failed /\ ~file'.ready)
      BY <1>2, <3>2, ReadinessUpdates DEF Update, SameReady
    <3>4. \A t \in Turn : owner'[t] = q => owner[t] = q
      BY <1>1, <1>7
    <3> HIDE DEF TickStates
    <3> QED
      BY <1>1, <1>5, <1>6, <1>7, <1>8, <1>11, <1>14, <3>3, <3>4, ControlKept
  <2> QED
    BY <2>1, <2>2
<1>12. StopStep(p)' /\ ClaimStep(p)'
  <2>1. CASE ChildDies(p)
    <3>1. UNCHANGED <<pc, snap, turn, file, owner, asked>>
      BY <2>1 DEF ChildDies, ChildEnds, engineVars
    <3> QED
      BY <1>14, <3>1 DEF ControlInv, StopStep, NotForIt, ClaimStep
  <2>2. CASE Initialize(p)
    <3>1. CASE \E x \in {"spawned", "failing"} : Goto(p, x)
      <4>1. pc'[p] \in {"spawned", "failing"}
        BY <1>1, <3>1 DEF Goto
      <4> QED
        BY <1>10, <4>1 DEF TickStates, InTick
    <3>2. CASE Goto(p, "rest") /\ file' = NoFile
      <4>1. pc'[p] = "rest"
        BY <1>1, <3>2 DEF Goto
      <4> QED
        BY <3>2, <4>1 DEF StopStep, ClaimStep
    <3>3. CASE pc[p] = "spawned" /\ Goto(p, "rest") /\ UNCHANGED owner /\ Update(Ready(file, p))
      <4>1. pc'[p] = "rest"
        BY <1>1, <3>3 DEF Goto
      <4>2. \A t \in Turn : owner'[t] # p
        BY <1>1, <3>3 DEF LeaseInv, TickStates, InTick, Closing
      <4>3. file' # NoFile => file'.ready /\ file'.managed \in Turn \cup {None}
        BY <1>2, <1>5, <3>3, ReadinessUpdates DEF Update, SameTurns, RuntimeFile
      <4> QED
        BY <4>1, <4>2, <4>3 DEF StopStep, ClaimStep
    <3> QED
      BY <2>2, <3>1, <3>2, <3>3 DEF Initialize, turnVars
  <2>3. CASE Begin(p) \/ Acquire(p) \/ RecordFailure(p) \/ MarkStopped(p) \/ CloseClient(p)
             \/ RemoveMarker(p) \/ Release(p) \/ Crash(p)
    <3>1. pc'[p] \in {"idle", "loaded", "dead", "idle_locked", "locked", "stopping", "init", "close",
                      "close_bad", "unmark", "unmark_bad", "unlock", "unlock_bad", "late",
                      "late_locked", "exit"}
      BY <1>1, <2>3
      DEF Begin, Acquire, RecordFailure, MarkStopped, CloseClient, RemoveMarker, Release, Crash, Goto
    <3> QED
      BY <1>10, <3>1 DEF TickStates, InTick
  <2> QED
    BY <2>1, <2>2, <2>3
<1>13. file # NoFile /\ file' # NoFile => ~(file'.restarts > file.restarts)
  BY <1>2, <1>5 DEF NoRestart, RuntimeFile
<1> QED
  BY <1>7, <1>9, <1>11, <1>12, <1>13 DEF ControlInv

(* The others, a manager that is launched, and the app-server.             *)
LEMMA ControlRest ==
    ASSUME IInv, ControlInv, Others \/ Launch \/ \E t \in Turn : AppServer(t)
    PROVE  /\ ControlInv'
           /\ file # NoFile /\ file' # NoFile => ~(file'.restarts > file.restarts)
           /\ \A t \in Turn : status'[t] = "running" => status[t] = "running"
<1> USE DEF None
<1>1. /\ TypeOK /\ LeaseInv /\ TurnInv /\ pc \in [Process -> ProcessStates]
      /\ \A q \in Process : ~(q = None)
      /\ file # NoFile => file \in RuntimeFile
  BY RuntimeAssumption DEF IInv, TypeOK
<1>2. ASSUME NEW q \in Process, pc'[q] \notin TickStates PROVE StopStep(q)' /\ ClaimStep(q)'
  BY <1>2 DEF StopStep, ClaimStep, TickStates, InTick
<1>3. CASE Others
  <2>1. OthersWrite /\ EnablingStep /\ UNCHANGED <<pc, snap, turn, owner, asked, status>>
    BY <1>1, <1>3, OthersEffect DEF turnVars
  <2>2. CASE file' \in {file, NoFile}
    <3>1. ASSUME NEW q \in Process PROVE StopStep(q)'
      BY <2>1, <2>2, FreshFile DEF ControlInv, StopStep, NotForIt, EnablingStep
    <3> QED
      BY <1>1, <2>1, <2>2, <3>1 DEF ControlInv, ClaimFile, ClaimStep, RuntimeFile
  <2>3. CASE enabling = "save" /\ enabling' = "spawn" /\ file' = NewFile
    <3>1. ASSUME NEW q \in Process PROVE StopStep(q)' /\ ClaimStep(q)'
      <4>1. pc[q] \in TickStates => pc[q] \in {"rest", "stopping"}
        BY <2>3 DEF IInv, SaveInv
      <4>2. \A y \in {"act", "recheck", "send", "wait_end"} : y \in TickStates
        BY DEF TickStates, InTick
      <4> HIDE DEF TickStates
      <4> QED
        BY <2>1, <2>3, <4>1, <4>2, FreshFile DEF StopStep, ClaimStep
    <3>2. ClaimFile'
      BY <2>3, FreshFile DEF ClaimFile
    <3>3. file # NoFile => ~(file'.restarts > file.restarts)
      BY <1>1, <2>3, FreshFile DEF RuntimeFile
    <3> QED
      BY <2>1, <3>1, <3>2, <3>3 DEF ControlInv
  <2>4. CASE /\ file # NoFile /\ file' \in RuntimeFile
             /\ SameTurns(file', file) /\ SameReady(file', file) /\ NoRestart(file', file)
             /\ \/ SameStop(file', file)
                \/ /\ file'.shutdown /\ ~file'.interrupt /\ ~file.ready
                   /\ enabling = "cancel"
                \/ file'.shutdown /\ file.ready /\ file.managed # None
             /\ \/ SameRequest(file', file)
                \/ file'.claimed = "never"
                \/ file'.request = file.request /\ file.claimed # "never"
                \/ file.request = NoRequest /\ file'.claimed = file.claimed
    <3>1. file.managed \in Turn \cup {None}
      BY <1>1, <2>4 DEF RuntimeFile
    <3>2. \/ file'.claimed = "never"
          \/ file'.request = file.request /\ file.claimed # "never"
      BY <2>4 DEF SameRequest, ControlInv, ClaimFile, NoRequest
    <3>3. ClaimFile'
      BY <2>4, <3>2 DEF ControlInv, ClaimFile
    <3>4. ASSUME NEW q \in Process PROVE ClaimStep(q)'
      BY <2>1, <2>4, <3>1, <3>2 DEF ControlInv, ClaimStep, SameTurns
    <3>5. ASSUME NEW q \in Process PROVE StopStep(q)'
      <4>1. Snapshot(q) /\ StopStep(q)
        BY <1>1 DEF TurnInv, Step, ControlInv
      <4>2. "act" \in TickStates \ {"stopping", "failing"}
        BY DEF TickStates, InTick
      <4> HIDE DEF TickStates
      <4>3. /\ launched' = launched /\ pc' = pc /\ snap' = snap
            /\ enabling \in {"spawn", "rollback"} => enabling' = enabling \/ file' \in {NoFile}
            /\ file.ready = file'.ready /\ file.failed = file'.failed
        BY <2>1, <2>4 DEF EnablingStep, SameReady
      <4>4. \/ file'.shutdown = file.shutdown /\ file'.interrupt = file.interrupt
            \/ file'.shutdown /\ ~file'.interrupt /\ ~file.ready /\ enabling = "cancel"
            \/ file'.shutdown /\ file.ready /\ file.managed # None
        BY <2>4 DEF SameStop
      <4>5. pc[q] \in TickStates \ {"stopping", "failing"} /\ file' # NoFile =>
              \/ file'.ready \/ file'.failed \/ launched' # q
              \/ enabling' \in {"spawn", "rollback"} /\ ~file'.shutdown
        BY <2>4, <4>1, <4>3, <4>4 DEF StopStep
      <4>6. pc[q] = "act" /\ ~snap[q].shutdown /\ snap[q].managed = None /\ file' # NoFile =>
              ~file'.shutdown \/ (~file'.ready /\ ~file'.interrupt /\ (file'.failed \/ launched' # q))
        BY <2>4, <4>1, <4>2, <4>3, <4>4 DEF StopStep, NotForIt, Snapshot
      <4> QED
        BY <4>3, <4>5, <4>6 DEF StopStep, NotForIt
    <3> QED
      BY <1>1, <2>1, <2>4, <3>3, <3>4, <3>5 DEF ControlInv, NoRestart, RuntimeFile
  <2> QED
    BY <2>1, <2>2, <2>3, <2>4 DEF OthersWrite
<1>4. CASE Launch \/ \E t \in Turn : AppServer(t)
  <2>1. /\ UNCHANGED <<file, snap, turn, owner, asked>>
        /\ \A t \in Turn : status'[t] = "running" => status[t] = "running"
    BY <1>1, <1>4
    DEF Launch, AppServer, Ends, Ended, Observes, ObserveStart, ObserveEnd, engineVars, turnVars,
        TypeOK, TurnTypeOK
  <2>2. \A q \in Process : pc'[q] \in {pc[q], "born"}
    BY <1>1, <1>4 DEF Launch, AppServer, engineVars, Goto
  <2>3. "born" \notin TickStates
    BY DEF TickStates, InTick
  <2>4. \A q \in Process : ClaimStep(q)'
    BY <2>1, <2>2 DEF ControlInv, ClaimStep
  <2>6. ASSUME NEW q \in Process, pc'[q] \in TickStates PROVE StopStep(q)'
    <3>1. pc'[q] = pc[q]
      BY <2>2, <2>3, <2>6
    <3>2. \/ launched' = launched /\ enabling' = enabling
          \/ launched' = launched /\ enabling' = "rollback" /\ enabling = "spawn"
          \/ launched' # q
      <4>1. CASE Launch
        <5>1. ASSUME NEW p \in Process, Goto(p, "born"), launched' = p PROVE launched' # q
          <6>1. pc'[p] = "born"
            BY <1>1, <5>1 DEF Goto
          <6> QED
            BY <2>3, <2>6, <5>1, <6>1
        <5> QED
          BY <4>1, <5>1 DEF Launch, Enabling
      <4> QED
        BY <1>4, <4>1 DEF AppServer, userVars
    <3>3. StopStep(q)
      BY DEF ControlInv
    <3> HIDE DEF TickStates
    <3> QED
      BY <2>1, <3>1, <3>2, <3>3 DEF StopStep, NotForIt
  <2>5. ClaimFile'
    BY <2>1 DEF ControlInv, ClaimFile
  <2>7. \A q \in Process : StopStep(q)'
    BY <1>2, <2>6
  <2> QED
    BY <1>1, <2>1, <2>4, <2>5, <2>7 DEF ControlInv, RuntimeFile
<1> QED
  BY <1>3, <1>4

\* What NoStartAfterStop and RestartCountsAnInterrupt say of a step.
StartsUnstopped ==
    \A t \in Turn :
        (status[t] = "none" /\ status'[t] = "running" /\ file # NoFile /\ file.shutdown)
            => /\ ~file.ready /\ ~file.interrupt
               /\ file.failed \/ owner'[t] # launched

CountsAnInterrupt ==
    (file # NoFile /\ file' # NoFile /\ file'.restarts > file.restarts)
        => asked[file.managed] = 1 /\ status[file.managed] = "interrupted"

(* A tick of a manager that holds the lease.                               *)
LEMMA ControlTick ==
    ASSUME IInv, ControlInv, NEW p \in Process, Tick(p), UNCHANGED userVars
    PROVE  ControlInv' /\ StartsUnstopped /\ CountsAnInterrupt
<1> USE DEF None
<1>1. /\ TypeOK /\ LeaseInv /\ ConnectionInv /\ TurnInv
      /\ turn[p] \in Turn \cup {None} /\ snap[p] \in LoadedRuntime
      /\ snap[p].managed \in Turn \cup {None} /\ snap[p].pending \in Turn \cup {None}
      /\ \A t \in Turn : ~(t = None)
      /\ pc \in [Process -> ProcessStates] /\ snap \in [Process -> LoadedRuntime]
      /\ turn \in [Process -> Turn \cup {None}] /\ status \in [Turn -> {"none", "running", "gone"} \cup Ended]
      /\ asked \in [Turn -> Nat]
  <2>1. TypeOK /\ TurnTypeOK /\ snap[p] \in LoadedRuntime
    BY DEF IInv, TypeOK
  <2>2. snap[p].managed \in Turn \cup {None} /\ snap[p].pending \in Turn \cup {None}
    BY <2>1 DEF LoadedRuntime
  <2>3. \A t \in Turn : ~(t = None)
    BY DEF Turn
  <2> QED
    BY <2>1, <2>2, <2>3 DEF IInv, TypeOK, TurnTypeOK
<1>2. file # NoFile => file \in RuntimeFile /\ file.managed \in Turn \cup {None}
  BY <1>1 DEF TypeOK, RuntimeFile
<1>3. /\ Snapshot(p) /\ StepTurn(p) /\ FileInv
      /\ ClaimFile /\ ClaimStep(p) /\ StopStep(p)
  BY <1>1 DEF TurnInv, Step, ControlInv
<1>4. KeptByTick
  BY <1>1, TickFile
<1>5. PICK x \in TickStates : Goto(p, x) /\ (x = "act" => Load(p))
  BY <1>1, TickPlaces
<1>6. pc[p] \in TickStates \ {"stopping", "failing"} /\ pc'[p] = x
      /\ \A q \in Process : q # p => pc'[q] = pc[q]
  BY <1>1, <1>5, TickPlaces, Moves
(* The others are not in a tick. *)
<1>7. ASSUME NEW q \in Process, q # p PROVE StopStep(q)' /\ ClaimStep(q)'
  <2>1. \A y \in TickStates : y \in Locked
    BY DEF Locked
  <2>2. pc'[q] \notin TickStates
    BY <1>1, <1>6, <1>7, <2>1 DEF LeaseInv
  <2> QED
    BY <2>2 DEF StopStep, ClaimStep, TickStates, InTick
(* A stop is not recorded by a tick. *)
<1>8. StopStep(p)'
  <2>1. CASE Load(p)
    <3>1. UNCHANGED file /\ (file # NoFile => snap' = [snap EXCEPT ![p] = Loaded(file)])
      BY <2>1 DEF Load
    <3>2. file # NoFile => snap'[p].shutdown = file.shutdown
      BY <1>1, <1>2, <3>1, LoadedType
    <3> HIDE DEF TickStates
    <3> QED
      BY <1>3, <1>6, <3>1, <3>2 DEF StopStep, userVars
  <2>2. CASE ~Load(p)
    <3> HIDE DEF TickStates
    <3> QED
      BY <1>3, <1>4, <1>5, <1>6, <2>2 DEF StopStep, KeptByTick, SameReady, SameStop, userVars
  <2> QED
    BY <2>1, <2>2
(* A turn is started by Start. *)
<1>9. StartsUnstopped
  <2>1. CASE Start(p)
    <3>1. pc[p] = "act" /\ ~snap[p].shutdown /\ snap[p].managed = None
      BY <1>1, <2>1 DEF Start, InDecision, Decision
    <3>2. \A t \in Turn : status[t] = "none" /\ status'[t] = "running" => owner'[t] = p
      BY <1>1, <2>1 DEF Start, Accept, TypeOK, TurnTypeOK, turnVars
    <3> QED
      BY <1>3, <3>1, <3>2 DEF StopStep, NotForIt, StartsUnstopped
  <2>2. CASE ~Start(p)
    <3>1. status' = status
      BY <2>2 DEF Tick, Load, ServerAsks, Reconcile, Expire, Resolve, Shutdown, ShutdownWait,
                  Disable, Decide, Record, Recover, WaitStart, Claim, Recheck, SendInterrupt,
                  WaitEnd, turnVars
    <3> QED
      BY <3>1 DEF StartsUnstopped
  <2> QED
    BY <2>1, <2>2
<1>10. ASSUME ClaimFile', ClaimStep(p)', CountsAnInterrupt
       PROVE  ControlInv' /\ StartsUnstopped /\ CountsAnInterrupt
  BY <1>7, <1>8, <1>9, <1>10 DEF ControlInv
(* What becomes of a claim that a step leaves or drops. *)
<1>11. ASSUME file' # NoFile => /\ file # NoFile /\ NoRestart(file', file)
                                /\ SameRequest(file', file) \/ file'.claimed = "never"
       PROVE  ClaimFile' /\ CountsAnInterrupt
  <2>1. ClaimFile'
    BY <1>3, <1>11 DEF ClaimFile, SameRequest
  <2>2. CountsAnInterrupt
    BY <1>2, <1>11 DEF CountsAnInterrupt, NoRestart, RuntimeFile
  <2> QED
    BY <2>1, <2>2
<1>12. UNCHANGED file => ClaimFile' /\ CountsAnInterrupt
  BY <1>11 DEF SameRequest, NoRestart
<1>13. ASSUME x \notin Deciding PROVE ClaimStep(p)'
  BY <1>6, <1>13 DEF Deciding, ClaimStep
<1>14. ASSUME UNCHANGED file, x \notin Deciding PROVE ControlInv' /\ StartsUnstopped /\ CountsAnInterrupt
  BY <1>10, <1>12, <1>13, <1>14
<1>15. ASSUME x = "rest", file' # NoFile => file'.claimed = "never" \/ file'.managed = None
       PROVE  ClaimStep(p)'
  BY <1>6, <1>15 DEF ClaimStep
<1>16. ASSUME x = "rest", pc[p] = "act", UNCHANGED <<owner, asked>>,
              file' # NoFile => /\ file # NoFile /\ SameTurns(file', file)
                                /\ SameRequest(file', file) \/ file'.claimed = "never"
       PROVE  ClaimStep(p)'
  BY <1>3, <1>6, <1>16 DEF ClaimStep, SameTurns, SameRequest
<1>17. ASSUME UNCHANGED <<file, owner, asked>>, x = "rest", pc[p] = "act"
       PROVE  ControlInv' /\ StartsUnstopped /\ CountsAnInterrupt
  <2>1. ClaimStep(p)'
    BY <1>16, <1>17 DEF SameTurns, SameRequest
  <2> QED
    BY <1>10, <1>12, <1>17, <2>1
<1>18. \A y : Goto(p, y) => y = x
  BY <1>1, <1>6, Moves
<1>19. /\ "rest" \in Deciding /\ "act" \in Deciding
       /\ \A y \in {"failing", "stopping", "disable", "expire", "stop_wait", "record", "recover",
                    "wait_start"} : y \notin Deciding
  BY DEF Deciding
(* A restart that the file counts. *)
<1>20. ASSUME file # NoFile, file' = Restarted(file), NEW t \in Turn, MayCountRestart(file, t),
              asked[t] = 1, status[t] = "interrupted", x = "rest"
       PROVE  ControlInv' /\ StartsUnstopped /\ CountsAnInterrupt
  <2>1. file'.managed = None /\ file'.claimed = "never" /\ file.managed = t
    BY <1>2, <1>20, TurnUpdates DEF MayCountRestart
  <2>2. ClaimFile' /\ CountsAnInterrupt
    BY <1>20, <2>1 DEF ClaimFile, CountsAnInterrupt
  <2> QED
    BY <1>10, <1>15, <1>20, <2>1, <2>2
(* A request that is dropped before the interruption is sent. *)
<1>21. ASSUME NEW f, Cancelled(p, f), pc[p] \in {"recheck", "send"},
              f # NoFile => /\ f \in RuntimeFile /\ file # NoFile /\ NoRestart(f, file)
                            /\ SameRequest(f, file) \/ f.claimed = "never"
       PROVE  ControlInv' /\ StartsUnstopped /\ CountsAnInterrupt
  <2> DEFINE r == snap[p].request
  <2>1. CASE file' = f /\ ((Goto(p, "rest") /\ f = NoFile) \/ Goto(p, "failing"))
    <3>1. ClaimFile' /\ CountsAnInterrupt
      BY <1>11, <1>21, <2>1
    <3>2. ClaimStep(p)'
      BY <1>13, <1>15, <1>18, <1>19, <2>1
    <3> QED
      BY <1>10, <3>1, <3>2
  <2>2. CASE f # NoFile /\ file' \in {Finished(f), ClearedIfSame(f, r)} /\ Goto(p, "rest")
    <3>1. 1 \in Turn
      BY DEF Turn
    <3>2. Finished(f).claimed = "never" /\ NoRestart(Finished(f), f)
      BY <1>21, <2>2, <3>1, TurnUpdates
    <3>3. NoRestart(ClearedIfSame(f, r), f)
          /\ (ClearedIfSame(f, r).claimed = "never" \/ (ClearedIfSame(f, r) = f /\ f.request # r))
      BY <1>21, <2>2, Without DEF ClearedIfSame, NoRestart
    <3>4. f.claimed = "never" \/ f.request = r
      BY <1>3, <1>21, <2>2 DEF ClaimStep, SameRequest
    <3>5. file'.claimed = "never" /\ NoRestart(file', f)
      BY <2>2, <3>2, <3>3, <3>4
    <3>6. ClaimFile' /\ CountsAnInterrupt
      BY <1>11, <1>21, <2>2, <3>5 DEF NoRestart
    <3> QED
      BY <1>10, <1>15, <1>18, <2>2, <3>5, <3>6
  <2>3. CASE f = NoFile /\ file' = f /\ Goto(p, "rest")
    BY <2>1, <2>3
  <2> QED
    BY <1>21, <2>1, <2>2, <2>3 DEF Cancelled
<1> HIDE DEF Deciding, TickStates
<1>22. CASE Load(p)
  <2>1. pc[p] = "rest" /\ UNCHANGED <<file, turn, owner, asked>>
    BY <1>22 DEF Load, turnVars
  <2>2. Goto(p, "stopping") \/ Goto(p, "act")
    BY <1>22 DEF Load
  <2>3. CASE Goto(p, "act")
    <3>1. ClaimStep(p)'
      BY <1>3, <1>6, <1>18, <2>1, <2>3 DEF ClaimStep
    <3> QED
      BY <1>10, <1>12, <2>1, <3>1
  <2> QED
    BY <1>14, <1>18, <1>19, <2>1, <2>2, <2>3
<1>23. CASE ServerAsks(p)
  BY <1>14, <1>18, <1>19, <1>23 DEF ServerAsks
<1>24. CASE Reconcile(p)
  <2> DEFINE t == snap[p].pending
  <2>1. pc[p] = "act" /\ UNCHANGED <<owner, asked>> /\ t \in Turn
    BY <1>1, <1>24 DEF Reconcile, InPending, turnVars
  <2>2. CASE file # NoFile /\ file' = WithoutPending(file) /\ Goto(p, "expire")
    <3>1. SameRequest(file', file) /\ NoRestart(file', file)
      BY <1>2, <2>1, <2>2, TurnUpdates
    <3> QED
      BY <1>10, <1>11, <1>13, <1>18, <1>19, <2>2, <3>1
  <2>3. CASE UNCHANGED file /\ Goto(p, "failing")
    BY <1>14, <1>18, <1>19, <2>3
  <2>4. CASE UNCHANGED file /\ Goto(p, "rest")
    BY <1>17, <1>18, <2>1, <2>4
  <2>5. CASE file # NoFile /\ file' = Started(file, t) /\ Goto(p, "rest")
    <3>1. file'.claimed = "never" /\ NoRestart(file', file)
      BY <1>2, <2>1, <2>5, TurnUpdates
    <3> QED
      BY <1>10, <1>11, <1>15, <1>18, <2>5, <3>1
  <2> QED
    BY <1>24, <2>2, <2>3, <2>4, <2>5 DEF Reconcile, Checked, Update
<1>25. CASE Resolve(p)
  <2> DEFINE t == snap[p].managed
  <2>1. /\ pc[p] = "act" /\ UNCHANGED <<owner, asked>>
        /\ t \in Turn /\ owner[t] = p /\ Outcome(p, t) = status[t] /\ Outcome(p, t) # "unknown"
    BY <1>1, <1>25 DEF Resolve, InOutcome, Outcome, WasCompleted, turnVars
  <2>2. CASE UNCHANGED file /\ (Goto(p, "failing") \/ Goto(p, "disable"))
    BY <1>14, <1>18, <1>19, <2>2
  <2>3. CASE UNCHANGED file /\ Goto(p, "rest")
    BY <1>17, <1>18, <2>1, <2>3
  <2>4. CASE file # NoFile /\ file' = Finished(file) /\ Goto(p, "rest")
    <3>1. file'.claimed = "never" /\ NoRestart(file', file)
      BY <1>2, <2>1, <2>4, TurnUpdates
    <3> QED
      BY <1>10, <1>11, <1>15, <1>18, <2>4, <3>1
  <2>5. CASE /\ file # NoFile /\ MayCountRestart(file, t) /\ Outcome(p, t) = "interrupted"
             /\ file' = Restarted(file) /\ Goto(p, "rest")
    <3>1. asked[t] = 1
      BY <1>1, <1>3, <2>1, <2>5 DEF ClaimStep, MayCountRestart
    <3> QED
      BY <1>18, <1>20, <2>1, <2>5, <3>1
  <2>6. \/ UNCHANGED file /\ (Goto(p, "failing") \/ Goto(p, "disable"))
        \/ Checked(p, file.managed = t, Finished(file), "rest")
        \/ /\ Checked(p, MayCountRestart(file, t), Restarted(file), "rest")
           /\ Outcome(p, t) = "interrupted"
    <3>1. Outcome(p, t) # "matched"
      BY <1>1, <2>1 DEF Ended
    <3> QED
      BY <1>25, <3>1 DEF Resolve
  <2> HIDE DEF t
  <2> QED
    BY <2>2, <2>3, <2>4, <2>5, <2>6 DEF Checked, Update
<1>26. CASE Shutdown(p)
  <2>1. pc[p] = "act" /\ UNCHANGED <<file, owner>>
    BY <1>26 DEF Shutdown, InShutdown
  <2>2. \/ Goto(p, "disable") \/ Goto(p, "failing") \/ Goto(p, "stop_wait")
        \/ Goto(p, "rest") /\ UNCHANGED asked
    BY <1>26 DEF Shutdown, RequestInterrupt
  <2> QED
    BY <1>14, <1>17, <1>18, <1>19, <2>1, <2>2
<1>27. CASE ShutdownWait(p) \/ Expire(p) \/ Recover(p)
  BY <1>14, <1>18, <1>19, <1>27 DEF ShutdownWait, Expire, Recover, RequestInterrupt
<1>28. CASE Disable(p)
  <2>1. file' = NoFile /\ Goto(p, "stopping")
    BY <1>28 DEF Disable
  <2> QED
    BY <1>10, <1>11, <1>13, <1>18, <1>19, <2>1
<1>29. CASE Decide(p)
  <2>1. pc[p] = "act" /\ UNCHANGED <<file, owner, asked>> /\ (Goto(p, "failing") \/ Goto(p, "rest"))
    BY <1>29 DEF Decide, InDecision, turnVars
  <2> QED
    BY <1>14, <1>17, <1>18, <1>19, <2>1
<1>30. CASE Start(p)
  <2>1. UNCHANGED file /\ (Goto(p, "failing") \/ Goto(p, "record"))
    BY <1>30 DEF Start
  <2> QED
    BY <1>14, <1>18, <1>19, <2>1
<1>31. CASE Record(p)
  <2>1. turn[p] \in Turn
    BY <1>1, <1>3, <1>31 DEF Record, StepTurn, AboutTurn
  <2>2. CASE UNCHANGED file /\ Goto(p, "recover")
    BY <1>14, <1>18, <1>19, <2>2
  <2>3. CASE Update(Pending(file, turn[p])) /\ Goto(p, "wait_start")
    <3>1. file' # NoFile => file # NoFile /\ SameRequest(file', file) /\ NoRestart(file', file)
      BY <1>2, <2>1, <2>3, TurnUpdates DEF Update
    <3> QED
      BY <1>10, <1>11, <1>13, <1>18, <1>19, <2>3, <3>1
  <2> QED
    BY <1>31, <2>2, <2>3 DEF Record
<1>32. CASE WaitStart(p)
  <2>1. turn[p] \in Turn
    BY <1>1, <1>3, <1>32 DEF WaitStart, StepTurn, AboutTurn
  <2>2. CASE UNCHANGED file /\ Goto(p, "failing")
    BY <1>14, <1>18, <1>19, <2>2
  <2>3. CASE file' = NoFile /\ Goto(p, "rest")
    BY <1>10, <1>11, <1>15, <1>18, <2>3
  <2>4. CASE file # NoFile /\ file' = Started(file, turn[p]) /\ Goto(p, "rest")
    <3>1. file'.claimed = "never" /\ NoRestart(file', file)
      BY <1>2, <2>1, <2>4, TurnUpdates
    <3> QED
      BY <1>10, <1>11, <1>15, <1>18, <2>4, <3>1
  <2>5. CASE file # NoFile /\ file.pending = turn[p] /\ file' = TimedOut(file) /\ Goto(p, "rest")
    <3>1. SameRequest(file', file) /\ NoRestart(file', file) /\ SameTurns(file', file)
      BY <1>2, <2>1, <2>5, TurnUpdates
    <3>2. file'.managed = None
      BY <1>1, <1>3, <2>1, <2>5, <3>1 DEF FileInv, SameTurns
    <3> QED
      BY <1>10, <1>11, <1>15, <1>18, <2>5, <3>1, <3>2
  <2>6. \/ UNCHANGED file /\ Goto(p, "failing")
        \/ Checked(p, MayStart(file, turn[p]), Started(file, turn[p]), "rest")
        \/ Checked(p, file.pending = turn[p], TimedOut(file), "rest")
    BY <1>32 DEF WaitStart
  <2> QED
    BY <2>2, <2>3, <2>4, <2>5, <2>6 DEF Checked, Update
<1>33. CASE Claim(p)
  <2> DEFINE r == snap[p].request
  <2>1. /\ pc[p] = "act" /\ UNCHANGED <<owner, asked>> /\ r.turn # None
        /\ snap'[p] = snap[p] \/ x \notin InTick
    <3>1. Decision(snap[p], active[p]) = "interrupt" /\ KeepTurn(p, snap[p].managed)
      BY <1>33 DEF Claim
    <3> QED
      BY <1>1, <1>6, <1>33, <3>1 DEF Claim, InDecision, Decision, KeepTurn, turnVars
  <2>2. CASE UNCHANGED file /\ Goto(p, "rest")
    BY <1>17, <1>18, <2>1, <2>2
  <2>3. CASE file # NoFile /\ file' = ClearedIfStale(file, r, unread) /\ Goto(p, "rest")
    <3>1. /\ SameTurns(file', file) /\ NoRestart(file', file)
          /\ SameRequest(file', file) \/ file'.claimed = "never"
      BY <1>2, <2>3, Without DEF ClearedIfStale, SameTurns, NoRestart, SameRequest
    <3> QED
      BY <1>10, <1>11, <1>16, <1>18, <2>1, <2>3, <3>1
  <2>4. CASE /\ file # NoFile /\ Fresh(file, r, unread)
             /\ file' = [file EXCEPT !.claimed = "recent"] /\ Goto(p, "recheck")
    <3>1. file'.request = r /\ file'.restarts = file.restarts
      BY <1>2, <2>4 DEF Fresh, RuntimeFile
    <3>2. "recheck" \in InTick
      BY DEF InTick
    <3>3. ClaimStep(p)'
      BY <1>6, <1>18, <2>1, <2>4, <3>1, <3>2 DEF ClaimStep
    <3>4. ClaimFile' /\ CountsAnInterrupt
      BY <1>2, <2>1, <3>1 DEF ClaimFile, CountsAnInterrupt, RuntimeFile
    <3> QED
      BY <1>10, <3>3, <3>4
  <2> QED
    BY <1>33, <2>2, <2>3, <2>4 DEF Claim
<1>34. CASE Recheck(p)
  <2> DEFINE f == IF file = NoFile THEN file ELSE ClearedIfStale(file, snap[p].request, unread)
  <2>1. /\ pc[p] = "recheck" /\ (snap'[p] = snap[p] \/ x \notin InTick)
    BY <1>1, <1>6, <1>34 DEF Recheck, Keep, KeepTurn
  <2>2. f # NoFile => /\ f \in RuntimeFile /\ file # NoFile /\ NoRestart(f, file)
                      /\ SameRequest(f, file) \/ f.claimed = "never"
    BY <1>2, Without DEF ClearedIfStale, NoRestart, SameRequest
  <2>3. Cancelled(p, f) \/ (UNCHANGED file /\ Goto(p, "send"))
    BY <1>34 DEF Recheck
  <2> HIDE DEF f
  <2>4. CASE UNCHANGED file /\ Goto(p, "send")
    <3>1. "send" \in InTick
      BY DEF InTick
    <3>2. ClaimStep(p)'
      BY <1>3, <1>6, <1>18, <2>1, <2>4, <3>1 DEF ClaimStep
    <3> QED
      BY <1>10, <1>12, <2>4, <3>2
  <2> QED
    BY <1>21, <2>1, <2>2, <2>3, <2>4
<1>35. CASE SendInterrupt(p)
  <2>1. pc[p] = "send" /\ turn[p] \in Turn /\ (file # NoFile => file.managed = turn[p])
        /\ Keep(p)
    BY <1>1, <1>3, <1>35 DEF SendInterrupt, StepTurn, AboutTurn
  <2>2. CASE Cancelled(p, file)
    BY <1>2, <1>21, <2>1, <2>2 DEF NoRestart, SameRequest
  <2>3. CASE UNCHANGED file /\ Goto(p, "failing")
    BY <1>14, <1>18, <1>19, <2>3
  <2>4. CASE /\ active[p] = turn[p] /\ UNCHANGED file /\ Goto(p, "wait_end")
             /\ asked' = [asked EXCEPT ![turn[p]] = asked[turn[p]] + 1]
    <3>1. asked[turn[p]] = 0
      <4>1. owner[turn[p]] = p /\ seen[turn[p]] = "start"
        BY <1>1, <2>1, <2>4 DEF ConnectionInv
      <4>2. asked[turn[p]] # 1 /\ asked[turn[p]] <= 1
        BY <1>1, <2>1, <4>1 DEF TurnInv, Step, AskedEnded, AboutTurn, OneInterruptPerTurn
      <4> QED
        BY <1>1, <2>1, <4>2
    <3>2. turn'[p] = turn[p] /\ asked'[turn[p]] = 1
      BY <1>1, <1>6, <1>18, <2>1, <2>4, <3>1 DEF Keep, KeepTurn, InTick
    <3>3. ClaimStep(p)'
      BY <1>1, <1>6, <1>18, <2>1, <2>4, <3>2 DEF ClaimStep
    <3> QED
      BY <1>10, <1>12, <2>4, <3>3
  <2>5. \/ Cancelled(p, file)
        \/ UNCHANGED file /\ Goto(p, "failing")
        \/ active[p] = turn[p] /\ UNCHANGED file /\ RequestInterrupt(p, turn[p], "wait_end")
    BY <1>35 DEF SendInterrupt
  <2> QED
    BY <1>1, <2>1, <2>2, <2>3, <2>4, <2>5, AskType
<1>36. CASE WaitEnd(p)
  <2> DEFINE t == turn[p]
  <2>1. /\ pc[p] = "wait_end" /\ UNCHANGED <<owner, asked>>
        /\ t \in Turn /\ asked[t] = 1 /\ (file # NoFile => file.managed = t)
    BY <1>1, <1>3, <1>36 DEF WaitEnd, ClaimStep, turnVars
  <2>2. CASE UNCHANGED file /\ Goto(p, "failing")
    BY <1>14, <1>18, <1>19, <2>2
  <2>3. CASE UNCHANGED file /\ Goto(p, "rest")
    <3>1. ClaimStep(p)'
      BY <1>6, <1>18, <2>1, <2>3 DEF ClaimStep
    <3> QED
      BY <1>10, <1>12, <2>3, <3>1
  <2>4. CASE /\ file # NoFile /\ MayCountRestart(file, t) /\ Outcome(p, t) = "interrupted"
             /\ file' = Restarted(file) /\ Goto(p, "rest")
    <3>1. status[t] = "interrupted"
      BY <2>4 DEF Outcome
    <3> QED
      BY <1>18, <1>20, <2>1, <2>4, <3>1
  <2>5. \/ UNCHANGED file /\ Goto(p, "failing")
        \/ UNCHANGED file /\ Goto(p, "rest")
        \/ /\ Checked(p, MayCountRestart(file, t), Restarted(file), "rest")
           /\ Outcome(p, t) = "interrupted"
    BY <1>36 DEF WaitEnd
  <2> QED
    BY <2>2, <2>3, <2>4, <2>5 DEF Checked, Update
<1> QED
  BY <1>22, <1>23, <1>24, <1>25, <1>26, <1>27, <1>28, <1>29, <1>30, <1>31, <1>32, <1>33, <1>34,
     <1>35, <1>36 DEF Tick

(* A session that was never enabled has made no decision.                  *)
LEMMA InitControl == Init => ControlInv
<1> SUFFICES ASSUME Init PROVE ControlInv
  OBVIOUS
<1>1. file = NoFile /\ \A p \in Process : pc[p] = "off"
  BY DEF Init
<1> QED
  BY <1>1 DEF ControlInv, ClaimFile, StopStep, ClaimStep

(* Every step keeps what was decided.                                      *)
LEMMA NextControl ==
    IInv /\ ControlInv /\ [Next]_vars => ControlInv' /\ StartsUnstopped /\ CountsAnInterrupt
<1> SUFFICES ASSUME IInv, ControlInv, [Next]_vars
             PROVE  ControlInv' /\ StartsUnstopped /\ CountsAnInterrupt
  OBVIOUS
<1>1. ASSUME NEW p \in Process, Tick(p), UNCHANGED userVars
      PROVE  ControlInv' /\ StartsUnstopped /\ CountsAnInterrupt
  BY <1>1, ControlTick
<1>2. ASSUME ControlInv', file # NoFile /\ file' # NoFile => ~(file'.restarts > file.restarts),
             \A t \in Turn : status'[t] = "running" => status[t] = "running"
      PROVE  ControlInv' /\ StartsUnstopped /\ CountsAnInterrupt
  BY <1>2 DEF StartsUnstopped, CountsAnInterrupt
<1>3. ASSUME NEW p \in Process,
             \/ Begin(p) \/ Acquire(p) \/ Initialize(p) \/ RecordFailure(p) \/ MarkStopped(p)
             \/ CloseClient(p) \/ RemoveMarker(p) \/ Release(p) \/ Crash(p) \/ ChildDies(p)
      PROVE  ControlInv' /\ StartsUnstopped /\ CountsAnInterrupt
  BY <1>2, <1>3, ControlManager
<1>4. CASE Others \/ Launch \/ \E t \in Turn : AppServer(t)
  BY <1>2, <1>4, ControlRest
<1>5. CASE UNCHANGED vars
  <2>1. UNCHANGED <<file, pc, snap, turn, status, owner, asked, enabling, launched>>
    BY <1>5 DEF vars, engineVars, turnVars, userVars
  <2>2. ControlInv'
    BY <2>1 DEF ControlInv, ClaimFile, StopStep, NotForIt, ClaimStep
  <2>3. file # NoFile => file.restarts \in Nat
    BY DEF IInv, TypeOK, RuntimeFile
  <2> QED
    BY <1>2, <2>1, <2>2, <2>3
<1> QED
  BY <1>1, <1>3, <1>4, <1>5, NextCases

(* For any number of managers, turns, hooks, requests and faults: once a   *)
(* stop is on record no turn is started, although the tick that starts one *)
(* acts on the file as it was loaded (_tick_runtime, _start_turn,          *)
(* defer_session_shutdown), except the cancelled startup of a manager that *)
(* is not ready, by another one or on a file already called failed         *)
(* (enable_session, cancel_startup); and a restart is counted only for a   *)
(* turn whose interruption was asked for and that ended interrupted        *)
(* (claim_restart_request, record_restart_performed).                      *)
THEOREM DecisionsAreKept == Spec => ControlIsHonoured
<1>1. Spec => [](IInv /\ ControlInv)
  BY InitIInv, NextIInv, InitControl, NextControl, PTL DEF Spec
<1>2. IInv /\ ControlInv /\ [Next]_vars =>
        [\A t \in Turn :
            (status[t] = "none" /\ status'[t] = "running" /\ file # NoFile /\ file.shutdown)
                => /\ ~file.ready /\ ~file.interrupt
                   /\ file.failed \/ owner'[t] # launched]_vars
  BY NextControl DEF StartsUnstopped
<1>3. IInv /\ ControlInv /\ [Next]_vars =>
        [(file # NoFile /\ file' # NoFile /\ file'.restarts > file.restarts)
           => asked[file.managed] = 1 /\ status[file.managed] = "interrupted"]_vars
  BY NextControl DEF CountsAnInterrupt
<1> QED
  BY <1>1, <1>2, <1>3, PTL DEF Spec, ControlIsHonoured, NoStartAfterStop, RestartCountsAnInterrupt
==============================================================================
