# Codex Must Work: specification, model checking and proofs

Codex Must Work (CMW) watches a Codex thread and tells its user, through
Discord, when the thread has stopped making progress; a managed session it also
interrupts and starts again. This directory holds TLA+ specifications of the
parts of it whose correctness depends on the order of events: which step comes
first, what dies in between, who else writes the file. Every definition was
written from the Python code under `scripts/`; comments name the code a property
is about, and `PROJECT.json` gives the lines behind every definition.

How to run, with TLC and TLAPS installed:

    tlc -workers 2 -config MCRequests.cfg MCRequests.tla
    tlapm ActivationProofs.tla

## 1. The system

### What is shipped

`mcp_server.main` is the resident process Codex starts, one per Codex run. It
holds a `NotificationDaemonService`, a control endpoint for the other CMW
processes, a ticket store and the Discord setup form. Hooks and the setup
command are short processes that share its state files. The installer and the
uninstaller are separate programs. The *managed* stack (`DaemonService`,
`DaemonRegistry`, `ManagerEngine`, the app-server client), which interrupts and
restarts turns, is in the repository with its tests but is not reached from
`main`; `scripts/manager.py`, `setup_cli.py` and `hook_event.py` reach parts of
it, and the standalone watcher.

### Components

| Component | State it keeps | Operations | Interacts with |
|---|---|---|---|
| Deadline scheduler (`daemon_scheduler.py`) | heap of entries, generation per key, closed flag, health, worker thread, all under one condition variable | `schedule`, `wake`, `cancel`, `close`, the worker's loop | runs the daemons' callbacks |
| Silence detector (`stall_detector.py`) | per target: phase, last progress, waits, what was emitted | `record_progress`, `set_wait_state`, `evaluate` | called by the watcher engine only |
| Passive watcher and daemon (`notification_daemon.py`, `notification_session.py`, `watcher_*.py`, `monitor_diagnostics.py`) | on disk: runtime file, cursor, diagnostic log; in memory: detectors, open calls, pending notifications, the scheduled tick | `start`, `stop`, `complete`, the tick, `close` | reads the rollout Codex writes; delivers to Discord; driven by the scheduler |
| Rollout parsing (`event_source.py`, `watcher_source.py`) | a cursor | read a bounded batch, classify records | watcher, calibration |
| Standalone leased watcher (`watcher.py`, `watcher_launch.py`) | a lease | launch, acquire, the loop, release | hooks, setup and managers launch it; the same engine |
| Control endpoint (`daemon_control_endpoint*.py`, `control_capability.py`) | listening socket, key file, locator file with process identity and nonce | `start`, one connection at a time, `close` | lets hooks and commands find the service |
| Activation tickets (`work_on_activation*.py`, `work_on_hook.py`) | ticket files with a limited life | `issue`, `consume` | hook issues, `mcp_dispatch` consumes before `start` |
| MCP server (`mcp_*.py`) | its session | one request at a time | service, tickets, settings |
| Notification setup and delivery (`notification_*.py`, `discord_*.py`) | one setup page, the webhook, the offer | open, submit, one POST per event | ledger of the watcher |
| Managed lifecycle (`daemon_service.py`, `daemon_lifecycle.py`, `daemon_start.py`, ...) | admissions, closing flag, reservations, scheduled work | start, stop, complete, control, close | scheduler, registry, pool |
| Shared client pool (`daemon_client_pool.py`, `daemon_client_close.py`) | per client: references; retry of a failed close | borrow, commit, release, close | app-server child process |
| Task registry (`daemon_registry.py`, `daemon_activation_fence.py`, `daemon_recovery.py`) | owned turns, fences, interrupts already sent | start, recover, detach, route, interrupt | lifecycle, manager engine |
| Manager engine, lease, reuse (`manager_*.py`) | the managed part of the runtime file, a lease | `tick`, acquire, restart, shutdown | app-server client |
| App-server client (`app_server_*.py`) | correlations of turns, the child | start and wait for turns, close | Codex |
| Hooks and setup (`hook_*.py`, `setup*.py`, `state*.py`) | locked state files | one command per process | everything with a file |
| Calibration (`calibration*.py`, `threshold_settings.py`) | recommendation and settings files | scan, recommend, answer | detector's thresholds |
| Configuration publication (`config_publication.py`, ...) | `config.toml`, a temporary and a backup | `write_config_bytes` | shares the file with Codex and the user |
| Installer (`install_plugin.py`, `installer_*.py`) | plugin tables, cache, data directory, runtime, receipt | `install`, recovery | configuration publication, uninstaller |
| Uninstaller (`uninstall_*.py`) | pending plan, completion record, quarantine names | `uninstall`, rollback, cleanup | the same files |
| Goal control, portable runtime and platform checks | none | checks | managers, installer |

`PROJECT.json` lists them with their files, what is modelled and what is not,
and the hazards of each at the line where they bite.

### Where the difficulty is

- *Interleavings*: callers and the scheduler's worker; several daemons, servers,
  hooks and managers on one state root; Codex writing the rollout while it is
  read, and `config.toml` while it is replaced.
- *Crashes*: between any two writes of a daemon, between any two renames of the
  log, the installer or the uninstaller, with a lease or a key half taken.
- *Partial failure*: a lock that times out, a start that fails after the session
  was claimed, a system call that fails after the file was moved away.
- *Stale state*: a tick acting on a snapshot, a deadline replaced while it is
  slept for, a turn bound to its thread after it ended, a locator of a server
  that left.
- *Protocols*: tickets that are offered, refused and offered again; fences
  rebuilt by a second daemon; an uninstallation retried after a reinstallation.
- *Something must happen*: a worker must wake, a silence be reported, a stop be
  carried out, a page end, a launched watcher be noticed.

What makes each component correct is in section 3, run by run.

## 2. Modules

| Module | Models | Notes |
|---|---|---|
| `KeyedDeadlines` | what a keyed timer promises | abstract |
| `DeadlineScheduler` | `daemon_scheduler.py`, every section under the condition variable as one action | implements `KeyedDeadlines` |
| `ServiceWork` | the service's callbacks, callers and the keys they arm | over `KeyedDeadlines`' promise |
| `StallDetector` | `stall_detector.py`, as operators | |
| `NotificationLedger` | what a recorder of transitions promises | abstract |
| `NotificationWatcher` | the passive daemon and its tick | implements `NotificationLedger` |
| `WatcherLease` | the standalone watcher's launch and hand-off | |
| `RolloutReader` | reading whole lines from a cursor | |
| `AtomicState` | what the state files of a session promise | abstract |
| `StateFile` | `state.py`, `state_io.py` and the operations of setup and daemon on them, lock by lock | implements `AtomicState` |
| `DiagnosticLog` | `monitor_diagnostics.py` with its rotation | |
| `ProgressGaps`, `Calibration` | what a record means, and the sampling of pauses; the recommendation's files and answers | |
| `ControlKey`, `ActivationTickets`, `ControlEndpoint` | key file, tickets, endpoint and locator | |
| `Activation` | MCP servers and hooks over the three | composition |
| `Notifications` | setup page, stored webhook, offer, delivery | |
| `ManagerRuntime`, `ManagerTurns`, `ManagerEngine` | the managed runtime file's updates; turns on a connection; one tick | |
| `ManagerSession` | managers under their lease, user, hooks, watcher, app-server | composition |
| `ActivityStream` | one client's knowledge of turns, across children | |
| `TurnRouting` | `DaemonRegistry.selected` and its interrupts | |
| `ActivationFence`, `SessionTask` | the fence read from a rollout; one session through the daemons that own it | |
| `SharedClient`, `ManagedDaemon` | the pool; starts, detachments, closes and `close()` | composition |
| `ConfigPublication` | one replacement of `config.toml`, system call by system call | POSIX and Windows |
| `InstalledFiles`, `InstallPlugin`, `UninstallPlugin`, `PluginLifecycle` | installer and uninstaller over one Codex home | composition |
| `DeadlineSchedulerProofs`, `StateFileProofs`, `ActivationProofs`, `WatcherProofs`, `SessionTaskProofs`, `ManagerProofs`, `ManagedDaemonProofs`, `PluginLifecycleProofs` | theorems | TLAPS |
| `MC...` | instances for TLC | |

In several modules an operator stands before an action under a comment that
begins "Fault:". It is a plausible mistake in that action and is not part of any
specification. Substituting it for the action makes a property fail; this is how
the properties were tested for saying something about the code.

An MC module that instantiates several components has a variable `component`
that never changes: TLC explores each of them from its own initial state in one
run, and nothing is claimed of their product. Components that really interact
are composed in the modules marked so above.

### How the models correspond to the code

**DeadlineScheduler.** `entries` is the heap as a set of (deadline, sequence,
key), `generations` the table of live sequences, `worker` where the thread is.
`Schedule`, `Cancel` and `Close` are the methods; `SleepUntimed`,
`SleepUntilDue` and `StartCallback` are the three ways out of `_next_entry`,
which drops stale heads first; a callback returns, raises an `Exception` or a
`BaseException`. `close` from the worker's own callback does not join.

**ServiceWork.** The timer is what `KeyedDeadlines` promises. Callbacks are the
routing of an activity, a reconcile, a drive, a fence poll and a task's
threshold deadline; callers start and stop. What both arm was computed from a
task in an earlier section. A start's inside is `SessionTask`, admissions are
`ManagedDaemon`.

**NotificationWatcher.** `runtime`, `cursor` and `log` are the files;
`detector`, `openCalls`, `pending` and `scheduled` the daemon's memory, lost in
a crash; `pc` says where a request or a tick is. A tick is: snapshot and read a
batch; take the runtime lock and compare the revision; prepare, evaluate and
record; write the runtime; write the cursor; deliver; end. Between any two steps
other daemons, the thread and the clock move. A raised exception takes the way
the code takes.

**WatcherLease.** The same tick over all sessions, reduced to what it finds
active: `todo` are the runtime files listed at its start, `at` the snapshot it
works on and whether a hook has outdated it, `found` the result so far. A hook
first records (`Begin`) and then launches (`Launch`). Time passes only while
somebody waits for the lease.

**RolloutReader.** The file is a sequence of pieces, a line ends with one; Codex
appends pieces, the reader takes whole lines up to a batch's size, the cursor is
written after the runtime, a crash sets the memory back to the cursor.

**StateFile, DiagnosticLog.** Every look at the disk, lock and replacement is a
step of its own; a document is replaced whole. `StateFile` has the setup
commands and the notification daemon's start, commit and stop; two of its
specifications differ in whether the unlocked removal of
`notification_session.py` takes part, because it is the one operation that is
not atomic (section 5). A log is a bounded sequence and two older ones.

**ProgressGaps, Calibration.** A rollout is built record by record beside the
true quiet time of its turns; the scan is a fold over the records. The files of
the recommendation and the settings are read and replaced by several processes.

**Activation.** A server is at a step of `provision_control_key`, then keyed,
bound, serving or leaving. Keys and generations are numbers drawn in order. A
ticket carries the key it was sealed with; issue and consume are one locked step
each, the hook's load of the key and the server's start of the service are
steps before and after. The wall clock may be set back.

**Notifications.** A page's thread looks at its deadline, serves one request or
nobody, and leaves; its handler reads, tests the webhook, saves it and answers.
The offer is a look, a lock, a second look and a write.

**ManagerRuntime, ManagerTurns, ManagerEngine, ManagerSession.** One operator per
locked update of the file; an app-server child per manager, whose announcements
arrive in order; a tick that loads a snapshot and decides, with each update,
request and wait a step of its own. Around it: the lease, readiness and reuse,
launching and stopping, hooks, the watcher's progress, and processes that die. A
manager's way out is one step per thing it gives back, each of which may fail while the
others go on (`close_bad`, `unmark_bad`, `late`). Enabling looks at the lease in one step
(`Enable`) and saves the session in the next (`SaveSession`).

**ActivityStream, TurnRouting.** A caller of `start_turn`, the reader of each
child and the waits share the stream's condition; correlations expire and their
table is bounded. Routing looks at the runtime files twice under the registry's
lock while engines write them without it.

**SessionTask, ActivationFence.** Two daemons, each at a step of a start, a
rollback, a poll, a recovery, a failure or a detachment, over one file, lease
and rollout. The fence is computed from the rollout's turn events.
`shared` is a history variable: two daemons have run at the same time. The code
does not have it; it only says which of the promises a run alone is about.

**SharedClient, ManagedDaemon.** Every thread has a place (`pc`) and what it
works on (`job`); one action is a section under the service lock, or a call made
outside of it. A start is admitted, reserves, borrows, takes the lease, begins,
publishes, schedules; each failure takes the code's way back. An admission that
ends after `close()` began waits for the closer, or does so inside
`client.close()` (`blocked`).

**ConfigPublication.** Files are inodes with contents, a content is a set of
settings. One action per system call or comparison of `write_config_bytes`;
`Edit` lets somebody else write in place or rename a file over the name between
any two; `CallFails` raises at any step. A new file that has its name (`named`) counts as
published after `Identify` only.

**InstalledFiles, InstallPlugin, UninstallPlugin.** Directories are identities
under an original name (`place`) or a quarantine name (`attic`); `pending`,
`receipt` and `completion` are the signed records. A call holds the lock for its
whole duration; a crash releases it. A recovery reads `config.toml` twice, to notice
another's write (`RecoverObserves`) and to disable the plugin (`RecoverDisables`).

## 3. What the runs check

| Run | Components and bounds |
|---|---|
| `timer_and_work` | scheduler: 2 keys, 3 schedules, deadlines 0 to 2, 2 closers; service: 2 callers, 1 session, 2 tasks; reader: 6 pieces, batches of 2, lines up to 3 long; 1 page; 1 manager process, 1 turn; lease: 2 sessions, 2 processes, hand-off 2, ticks of at most 2 seconds |
| `app_server` | stream: 2 turns, 2 children, 1 correlation; routing: 2 sessions, 2 turns, 2 routers; service: 2 callers, 3 requests |
| `requests` | activation: 2 servers, 1 session, 2 keys, 2 generations, clock 0 to 1; notifications: 2 pages, 2 sessions |
| `shared_files` | state files: 3 processes, 2 sessions, 2 updates; log: 2 writers, 7 writes of 2 identities, capacity 2; calibration: 3 processes, 2 versions; gaps: 6 records, 3 calls; publication: 2 hosts, 3 calls, 2 failing calls, 1 crash |
| `watcher_single` | 1 daemon, 1 activation, 1 crash, 1 failed file access, clock to 2 |
| `watcher_again` | 2 daemons on one root: one after the other with 2 activations and a crash or a failed log access, or a pair at once |
| `plugin_lifecycle` | 5 calls in any order, 2 failing steps, 2 crashes, 1 edit, at most 12 directories |
| `managed_daemon` | 2 starting threads, 2 sessions, 2 references, 1 closer, 1 fault |
| `manager` | 2 manager processes, 2 turns, 1 activity epoch, 1 fault |
| `session_overlap` | 2 daemons one by one and 2 at once, 2 turns, 2 starts, 1 fault |
| `state_files_stop`, `calibration_gap` | a counterexample each, section 5 |

**Timer and work.** `NoLostWakeup`: while the worker sleeps, the wait it chose
ends no later than every live deadline. `CloseMeansQuiet`: once `close` has
returned to any thread nothing runs or is armed. `ImplementsTimer`: refinement
of `KeyedDeadlines`. `TimerSettles`: every deadline and every closer is served,
also after a failing callback. `StopsEnd`: a stopped task is detached whatever
deadlines it has left, and a manager told to stop for good ends the session or
itself. `LinesAreTaken`, `EveryLineIsTaken`: the complete lines, in order, none
twice; and all of them in the end. `ExpiredPageEnds`: also a page nobody visits.
`LaunchIsWatched`: a launched watcher that gives up because the lease is taken
leaves no session unwatched, except after a failure, or where a tick of the holder
had passed the session by and lasted as long as the hand-off wait.

**App-server.** `ServiceIsArmed`: what a published task waits for is armed,
although the task and the arming are different sections. `TurnsAreTracked`: a
live turn is routed to its owner, none is active after its end, a loss is
published once. `AnnouncedTurnsAreSettled`: an unowned turn is interrupted, once,
by one caller, while no file names it, and an attempt that others wait for has
somebody who makes it.

**Requests.** `CredentialsWorkOnce`: a ticket starts one service at most,
whichever server and thread takes it, across crashes, key changes and repeated
hooks; and nobody works with a key that is still being written. `EndIsFinal`: a
ticket's time is not extended, a server that leaves takes its locator along, a
page that connected stays connected. `PagesAreOwned`, `OfferedOnce`.

**Shared files.** `IsAtomic`: the locked operations implement `AtomicState`.
`LogIsTheEnd`: log and backups are the end of what was written, each identity
once. `RecommendationIsSound`: the sampled gaps are quiet time and the thresholds
are usable. `AnsweredOnce`: thresholds change by one answer to one version's
scan. `RolledBackUnlessDisplaced`, `SettingsSurvive`: a publication restores or
replaces, and nobody's setting is lost, with the exceptions they name.

**Watcher.** `ImplementsLedger`: refinement, over crashes and failed writes.
`WarningMeansSilence`: a recorded suspicion is true of everything the monitor
had read. `CursorIsCovered`: the persisted progress time is not older than a
consumed record. `StatesAreRecorded`: silence, recovery and completion are
recorded, completion before the session goes. `AnnouncedOnce`,
`SharedProgressCountsOnce`: with repeated activations and two daemons.
`OnlyDaemonPolls`: an unfinished session always has a tick scheduled.

**Plugin.** `InstalledStateAgrees`: between calls receipt, tables and directories
agree. An installation that reports success has left the plugin enabled and a receipt of
what is there. `UninstallationFinishes`: whatever is aside is in the plan, the retry is
not refused, and a success leaves no receipt, no plan and nothing aside, and neither
plugin table nor cache unless it ran beside an unfinished reinstallation; the record of
the completion, data without a purge and a runtime that no receipt names stay. `OnlyAskedForIsDeleted`: directories
go only by a plan or by who made them, data only by a purge.

**Managed daemon.** `UsedClientStaysOpen`: releasing by count never takes more
references than there are, and nobody closes a client in use. `NothingIsOrphaned`:
a running child is pooled or owed a close, a lease has somebody who returns it,
and nothing is left when `close()` returned. `CloseReturnsUnlessBlocked`.

**Manager.** `TurnsAreOwned`: one live managed turn, named by the file or asked to
stop. `OneInterruptPerTurn`: expiry, lost ownership, restart and stop together ask
once. A file that says ready names the holder of the lease or a process that has released
it. `ControlIsHonoured`: no start after a stop on record, except after a cancelled
startup by another manager than the launched one, or on a file already called failed; a
restart is counted for the interruption it asked for.

**Session overlap.** `OwnerIsManager`: who owns the session has its lease, through
every rollback and recovery. As long as no two daemons have run at once, it is
also the ready manager the file names, its fence is on disk, and it hands the
session off only after the turn it waits for. `CapturedFenceLifts`: a fence that
a start captured or a recovery rebuilt lifts after its turn has ended.

### Why the bounds are enough

The hazards are about pairs: a key replaced while another is slept for, a crash
or failure at each step and one in the recovery of the first, a record before
and one after a write, two daemons, servers, managers or routers, a second
activation, a reinstallation between two uninstallations, a second child. Every
run has room for the pairs it is about. Every action and every disjunct of the
next-state relations is taken in some run. Counters exist only as bounds in
guards, are constants named `Max...` and documented where declared. There are two
state constraints besides: `Bounded` of `ManagerSession` bounds the file's counters, and in
`watcher_again` `OneAtATime` lets daemons run together only on a rollout without
tool calls, and has them take turns otherwise, with one crash or failed log
access. Deadlock checking is off
because bounded calls, closed schedulers and ended sessions come to rest
legitimately; what must not rest is a liveness property. Symmetry is used only
in runs whose properties are safety.

### Fairness

Weak fairness is asked of what runs by itself: the scheduler's worker, the clock
and the return of `close` once the worker is gone; the service's worker and the
wake-up a stop owes; the steps a daemon, a manager process, a page's thread or a
managed thread has begun. A thread that can take a lock takes it, a request is
answered or times out, a callback returns. Strong fairness is asked once, of the
reader's commit, which hooks may outdate again and again but not for ever. None
is asked of requests, hooks, users, the monitored thread, other writers, crashes,
restarts or failures.

## 4. What is proved

The theorems hold for every value of the constants: any number of keys,
processes, sessions, turns. TLAPS checks them with Z3, Zenon and, for the one
temporal step at the end of each, LS4. Each follows the same line: a conjunction
`IInv` (or `Inductive`) holds initially, no action breaks it, it implies the
property. The proof that a step keeps it has one case per action. The conjuncts
that are not in the property say why it holds.

**`DeadlineSchedulerProofs`.** `WakeupsAreKept` and `CloseIsQuiet` are the two
safety properties of the scheduler, `ArmedKeysKept` says that the heap holds an
entry for every armed key although stale entries are dropped lazily, and
`SchedulerImplementsTimer` that each step is a step of `KeyedDeadlines` or a
stutter. The invariant (`IInv`) adds that sequences in use are below the next
one and identify their entries, that a retired scheduler is empty, and what the
closed flag and the worker's place say of each other. `TypeCorrect` is the
type invariant alone.

The module extends `MCTimerAndWork` and proves two more invariants of its
`PartsSpec`. `LaunchesAreWatched` is `LaunchIsWatched`, whatever a tick lasts
(`WatcherLeaseTyping` only says that both bounds are naturals). The invariant says that
an active session which no launch is owed to, which the holder's tick has not counted and
will not visit and which is not `excused`, has a process waiting that has waited no longer
than the tick has taken. When that one gives up the tick has lasted as long as the
hand-off, and this is what excuses the session; without the excuse TLC finds a violation
as soon as `TickLimit = HandOff`.
`LinesAreTakenOnce` is `LinesAreTaken`, for lines and batches of any length
(`ReaderAssumption`). `LinesInOrder`: the numbers of the lines do not fall along the
file, do not rise inside a line, and the last piece ends a line when none is left to
write. `CursorInv`: the cursor is where the watch began or where a line ends, and what
was taken is each number after that of the start up to its own. `BatchInv`: a batch is the
lines from the cursor to its end, whatever was written since. That the loop of the
reader stops at all (`ScanStops`) rests on the last line start in the file: what follows it
has no end yet.

**`StateFileProofs`.** `Implementation` is the refinement of `AtomicState`, for
the specification without the notification daemon's unlocked removal. Updates
are counted in it, so that a lost one is not a stutter. `Invariance` is what it
rests on: who holds each lock is where it should be in its operation, what a
process has read under the runtime lock is still what the file holds, and an
update under way is one the bound still allows.

The module extends `MCSharedFiles`. `LogKeepsTheEnd` is `LogIsTheEnd`, for any number of
writers and any capacity. `LogInv`: whoever is past the look under the lock holds it, its
event is in none of the files unless it has no identity, a rotation under way has found
the log full and has emptied the place it moves a file into.
The same module has the publication of `config.toml`, as the instance `Pub` of
`ConfigPublication`. `NoSettingIsLost` is `SettingsSurvive` and `FailedCallsRollBack`
is `RolledBackUnlessDisplaced` of the `shared_files` run, for any number of calls,
other writers, failing calls and crashes, where the installer's own tables are no
setting of another writer's (`OwnTables`). The invariant separates who else wrote.
`ApartInv` always holds: which names may share an inode and which inode may be one
that an earlier call left linked, so that a file found under a name is known.
`SnapshotInv`: what the call read is still in the inode it read, which only grows.
`RaceInv`: a setting added since the snapshot is in a file that the comparison still
to come looks at; at the last one it makes the call fail, hence
`SuccessMeansUncontested`. `CalmInv`: as long as nobody else wrote, the three names
are laid out as the step says (`AtStep`), also in the handler of a failure, where the
step that failed is remembered: only that tells a new file nobody will take away
(`named`) from one that `_restore` removes. `SingleInv`: one writer and no failing call never lead
to a restoration, and what was added is under the name again before the call ends.

**`ActivationProofs`.** `CredentialsHold`: a turn starts monitoring at most
once, and no server or hook works with a key that is still being written, for
any number of servers that crash anywhere and replace each other's keys.
`WindowHolds`: a ticket is spent within `Ttl` of the first offer of its turn,
although the hook offers again and the clock is set back. The invariant adds
that key numbers in use have been drawn, a key some process holds is written in full
if it is still the file's, and that each start or pending start has a spent
ticket behind it.

The module extends `MCRequests`, whose constants the `requests` run gives small values,
and proves its other properties of `PartsSpec` for all values. `EndsAreFinal` is
`EndIsFinal`: `WindowHolds`, `LocatorsEnd` and the end of a connected page. `LocatorsEnd` needs that
generations differ from server to server (`GenerationsDiffer`), and `LocatorFollows`: a
server that serves owns what it published unless its worker has begun the removal, and
one that leaves is removing it, or the file names another generation already.
`PagesStayReachable` is `PagesAreOwned`: `PageIsOwned` is inductive as it stands, since
a start finds no active page and a thread forgets its own page only; for the webhooks
`TestedOnly` follows the address from the request through the test, the file and a
message under way. `SuggestedOnce` is `OfferedOnce`: by `OneClaims` the session between
the look for the file and its writing holds the lock, and no offer was made before it.

Assumed (`KeyAssumption`, `TicketAssumption`, `EndpointAssumption`, `NoteAssumption`):
`None`, `Nothing` and `Unreadable` are none of the values they stand beside, the
webhook of the environment is a webhook or nothing, and the bounds are naturals.

**`WatcherProofs`.** `TransitionsAreAnnouncedOnce`: a recorded transition is sent
at most once and only if it was recorded, for any number of daemons on one root
that crash, restart and fail to write. The invariant `Queues` is about order, not
only membership: a daemon's queue has no repetition, shares nothing with what was
sent nor with another daemon's queue, and holds recorded transitions only. It is
inductive because the recorder queues what its own append added to the log, and
takes the head off before the next is sent.

Its second part is about one daemon (`OneDaemon`) and, but for the first theorem,
one session (`OneSession`), with any number of crashes, restarts and failures; the
`watcher_single` run is its small instance. `SoleDaemonPolls`: an unfinished session is
polled, for any number of sessions. `ConsumedIsCovered` (`CursorIsCovered`): the persisted
anchor covers what was consumed. `SuspicionsAreTrue` (`WarningMeansSilence`): a recorded
suspicion is true of all that was read. `RemovedAsCompleteIsRecorded`
(`CompletedMeansRecorded`). `RecorderKeepsLedger` (`ImplementsLedger`): the watcher
implements `NotificationLedger`, if the log does not fail either (`ReliableLog`).
The argument has three layers. `Alone`: the session that a tick has read is there, at
the same revision, until the tick ends; the batch starts at the cursor; whoever
returns to idle leaves a tick scheduled or a finished session. `History`: a batch is
covered by the anchor that is about to be written, and the runtime is written before
the cursor (`Covered`, `Saving`); the detector's silence began at the anchor or later
(`Interval`); every epoch was paid for with a consumed record, a crash or a failed
write, which bounds the epochs (`EpochsPaid`); and a session is finished, or removed as
complete, after its completion is in the log (`Finishing`). `Warned`: a warning in memory
is one in the log, and what is about to open the next epoch has cleared it. With it
an evaluation records one transition at most, and that one answers a suspicion where
it must. The hypotheses are not for convenience: two daemons undo each other's files, a
detector outlives its session, and an append that fails leaves the warning in memory
without its record; section 5 says what each leads to. The operators of
`StallDetector` are conditionals in the order of the code's early returns: as arms of a
`CASE` they overlap, TLC takes the first that holds, and the prover may not.

**`SessionTaskProofs`.** `OwnersAreManagers`, for any number of daemons, turns and
start requests. `LeaseInv` and `JobInv` hold always: an attempt past its claim has
the lease, a daemon with nothing in progress has not, and what a transaction
captured fits the step it has come to. `AloneInv` holds until `shared`: every
document, the one on disk and those captured for a rollback, is `Coherent` (handed
off only after its parent's end, a deferred stop has a turn to wait for), a file
that nobody owns is of no use to a start, and the fence in memory and the turn in
the file agree at each step. It needs that an end in the rollout is never undone
by what Codex appends (`EndsStay`).

**`ManagerProofs`.** `ManagersOwnTheirTurns`, `TurnsAreStoppedOnce` and
`DecisionsAreKept` are the three properties of the `manager` run, for any number
of manager processes, turns, epochs and faults. The invariant has these parts.
`LeaseInv`: only the process that holds the lease ticks or owns a turn; the file's
ready manager ticks, or is on a way out on which it could not take that back, or is dead;
this is why no other manager can be in between.
`ConnectionInv`: what a connection has heard of a turn is true of it. `TurnInv`:
the file never names a turn as pending and managed at once; the snapshot a tick
decides by is still right about them when the file is; a live turn that the file
does not name is the one its process is about to record or recover; a turn that
was asked to stop has ended, or its process knows, before anything would ask
again. `ControlInv` is about control alone: the stop flag is not set under a tick
that has checked it, unless it is the cancelled startup of another manager (`NotForIt`);
and the restart a file claims belongs to the request that is still in it. The interference lemma is `OthersWrite`: hooks, user and
watcher change epochs, progress and control, and leave turns and readiness to
the manager. `SaveInv` is about enabling: between its look at the lease and the saving of
the file there is no session, so a manager that takes the lease in between finds none
and has nothing loaded when the new file appears.

**`ManagedDaemonProofs`.** `SharedClientStaysOpen` is the property
`UsedClientStaysOpen` of the `managed_daemon` run, for any number of starts,
closers, sessions, references and faults. What it says is
about counting: a detachment takes tasks out of the registry in one section and
references out of the pool in another, and the pool takes the *first* installed
references, not those of the tasks. The invariant has these parts.
`PlaceInv` and `CountInv`: which thread can be where, that `active` is the number
of threads admitted, and that there is room for the references the starts under
way will record. `SessionInv`: one start at a time in a session, which has no task
from the lookup that found none until the start publishes its own.
`ReferenceInv` and `BorrowInv`: a start's reference is its own and borrowed until it
is committed or released; one start at a time is in the reservation; the client
one has just made is in nobody's hands. `DetachInv`: a task counts once, in the
registry or with one detacher, and the installed references are as many as these
tasks; an obligation somebody waits for stays one until it is met. `PoolInv`, as long
as no raising borrow has taken the client from others: all references in use
are to the pooled client, and nobody has that one to close. The step that needs
them all is the last release: it leaves no active reference, hence by
the count no task that relies on one, before the client becomes somebody's to close.

`NothingTakenIsLost` is the property `NothingIsOrphaned` of the same run, proved
over this invariant together with `Giving`, which says of each thing that is taken
who gives it back. `AttemptInv`: an attempt closes the client that is owed, and what
it owes stays owed until that client is closed. `BorrowerInv`: a borrowed reference
is some start's to commit or return, and no client stays pooled without a reference.
`HandleInv`, as long as no raising borrow took a client: a client with a handle is
pooled or to be closed, and one past the drop of its handle has none. `LeaseInv`: a
lease is the task's, or a start's or a detacher's to return. `CloserInv`: one closer
is under way, and every reserved session has its start. `ShutdownInv` follows
`close()` from stage to stage: the scheduler is closed with nothing admitted, so
nothing is published and no reference recorded from then on; joining finds the worker
gone and empties the registry; the count then makes the last release take every
reference there is; and the closer's list holds every obligation left. `FaultFree` is
what holds until the first fault: no obligation was failed, and a child without a
handle has a thread that is stopping it. It rests on the order in `ResidentAppServer.close`
(the handle is dropped before the loss is announced) and on the scheduler being closed
only by `close()`, since an announcement that is refused leaves a child behind.

**`PluginLifecycleProofs`.** `InstallationsAgree`, `UninstallationsFinish` and
`NothingElseIsDeleted` are the three properties of the `plugin_lifecycle` run, for
any number of calls, failures, crashes, edits and replaced runtimes. The invariant
is one for all three, because each call begins with what the calls before it left.
`PlanInv`: a plan is one of three (cache and runtime, cache and all data, or data
alone) and what it would make of `config.toml` follows from which. `IdsInv`: a
directory is told from another that stands in its place. `InstallInv`: what an
installation created is where it put it until it takes it back, so that what it
removes is its own. `AtticInv` and `TodoInv` count how far a plan has come, root by
root, in `quarantine`, `rollback` and `cleanup`; only what the plan names is ever
aside. `StepInv` says what `config.toml` and the records are at a step. `ReceiptInv`:
the receipt fits the directories or is the one the pending plan was made from
(`PlansReceipt`), also where the runtime went aside inside the data directory.
`EnabledInv`: a table that enables the plugin has its cache, as long as no pending
plan has taken it and whenever an installation has ended.
`QuietInv` holds until somebody interferes (an edit, or an installation beside a
pending plan): every state a crash can leave is one that the next call recognises
as `Reverting` or `Finishing`, no root is in two places, and what a retry is
refused for cannot have come about. `NothingElseIsDeleted` needs of all this that
what lies aside is in the plan (`StepsTake`).

The assumptions are those the modules name: bounds are naturals, and the values
that stand for nothing (`None`, `NoFile`, "no process") are none of those they stand beside
(`RuntimeAssumption`, `SessionAssumption`, `TaskAssumption`, `WatcherAssumption`,
`SharedFilesAssumption` with a log that holds a record at least, and those above); for the managed daemon (`ManagedDaemonAssumption`,
`SharedClientAssumption`) that the threads are distinct, those that serve starts
finitely many, and that there is a session and a reference; for the installation
(`InstallPluginAssumption`) that there are identities for the three directories that
`Init` finds installed. The history variable `shared` is not an assumption: without it
`OwnerIsReady` is false, as section 5 tells of two daemons.

**Only model-checked.** All of the liveness (`TimerSettles`, `StopsEnd`,
`EveryLineIsTaken`, `ExpiredPageEnds`, `StatesAreRecorded`, `CapturedFenceLifts`,
`CloseReturnsUnlessBlocked` and others): the prover does not reason about
`ENABLED`, hence not about fairness. What is computed by folding over records
(`GapsAreQuietTime`, `RecommendationIsSound`) is an induction
over data and outside what it can prove for all inputs. Within reach and not
proved: two daemons on one state root beyond `AnnouncedOnce`
(`SharedProgressCountsOnce`), the stream and routing of turns.

## 5. Where the code and what is said of it disagree

Two have a run whose counterexample is an execution of the code.

- `state_files_stop` (`StopIsFinal`). `remove_notification_session`
  (`notification_session.py:97`) unlinks the runtime file and the cursor without
  their locks. A commit of another daemon that is between reading and replacing
  the file brings the session back after the user was told that it is stopped.
- `calibration_gap` (`GapsAreQuietTime`). `_finish_tool` (`calibration_scan.py:145`) counts a tool's
  end twice when the tool reports it by an event and by its output. With another
  tool running the count reaches zero, and its run time is sampled as a pause.
  The watcher's reading of the same records (`watcher_events.py:134`) does not.

The others were met while the models were written. The properties leave them out
by name or by their bound; each place is listed so that whoever changes the code
can tighten the property.

*Watcher.* A later activation of a session in the same daemon inherits the
detector of the first (`watcher_progress.py:108`) and is judged silent by it;
open tool calls are lost at a restart (`:92`), so a wait is reported as silence.
A warning whose log append fails is not emitted again for that silence
(`watcher_engine.py:131`). The completion of a second activation has the identity
of the first, and the log takes it for a repetition (`watcher_diagnostics.py:72`).

*Standalone watcher.* "Its lease makes duplicate launches harmless"
(`watcher_launch.py:15`) needs a tick to be shorter than the two seconds of the
hand-off; nothing in the code bounds a tick. A rollout that cannot be read, with
a snapshot a hook has outdated, is neither recorded nor counted
(`watcher_failure.py:33`, `watcher_runtime.py:57`), and the watcher may leave an
active session. The quarantine of a session (`watcher_runtime.py:50`) outlasts
the turn that caused it.

*Managed daemon.* `close()` never returns when a closing client's announcement
was admitted just before: the announcing thread waits for the closer
(`daemon_lifecycle.py:114`), the closer for the worker or a start, and that one
for the announcing thread. If closing a client raises, the tasks it belonged to
are in no index and keep their leases (`daemon_registry.py:321`); if what raises
is the announcement (`app_server_client.py:126`), the handle of the child is
gone and the retry stops nothing. The rollback of a failed start disables, or
restores an old document over, a session that another daemon may own by then
(`daemon_registry.py:392`, `:406`). A task published while its predecessor of the
same session is being detached may lose its threshold deadline
(`daemon_service.py:232`). A fence adopted for a user's turn is read from the
present end of the rollout (`daemon_activation_fence.py:120`): if the turn has
ended, only an announcement lifts it. With two daemons one may start a managed
turn beside the user's turn the other waits for.

*Manager.* A manager that fails on its way out marks the file failed after it has
given up its lease (`manager.py:85`), when another may own the session; a startup
cancel takes that for a manager that never became ready. If the update that takes its
readiness back is what failed (`manager.py:135`), the file calls it ready from the release
of the lease (`:144`) to that record. Enabling looks at the lease (`setup.py:173`) and
saves (`:175`) under a lock that acquiring the lease (`manager_lease.py:58`) does not take:
a manager that loaded the former file may acquire it in between and tick on the new one
without ever being ready, the launched one leaves, and a startup cancel after the tick's
snapshot does not keep the tick from starting a turn. A stop is deferred to
the manager the file calls ready, also when that one has died
(`session_shutdown.py:35`).

*App-server client.* Binding a turn after its end marks its correlation live
again (`app_server_protocol.py:232`), so it is not expired; the error raised when
the table is full ends the reader of the child (`app_server_activity.py:90`).

*Endpoint and tickets.* The removal of the locator is a look and an unlink: it can
take the locator another server published in between. A request of the MCP server
with `id: null` is carried out and answered as invalid (`mcp_dispatch.py:76`).

*Notification setup.* "At most one temporary listener" (`notification_setup.py:46`)
is per coordinator, and a page whose request hangs in the test of its webhook may
save it after a newer page has connected.

*Files.* On POSIX a call that fails after `config.toml` was displaced, in the
window `CannotRollBack` names, leaves it absent (`config_publication.py:202`). A call
that creates `config.toml` and fails to look at it (`:143`) leaves it, on either host: it
is not `published` yet (`:266`), and there is no backup. A recovery that has read
`config.toml` (`installer_recovery.py:67`) reads it again to disable the plugin (`:72`):
a write in between goes unnoticed, and the restoration overwrites it.
Beside an installation killed before its receipt, an uninstallation reports
success from the completion record of a former one (`uninstall_plugin.py:129`).

## 6. What is not modelled

- *Goal control*: `enforce_goal_companion_policy(requested=True)` always raises,
  so no shipped path reaches it, nor the manager's branches for a companion.
- *Portable runtime, platform, permissions, ownership, ACL*: checks of a file at
  a time. Where they can fail, the model has a failing step.
- *Decoding and wording*: JSON of rollouts and requests, JSON-RPC framing,
  payloads of hooks, command lines, HTML and HTTP headers, texts of reports,
  fingerprints and digests. An identity is a value; two are equal or not.
- *Hook trust* (`hook_trust.py`): a function of file contents.
- *Cryptography*: a client has the present key or not; a capability is the pair
  of the key and the nonce it is bound to.
- *Passive daemon*: several sessions in one tick, heartbeats, start diagnostics
  and child targets. `WatcherLease` has the tick over several sessions, reduced
  to whether they are active.
- *Installer and uninstaller*: the branch that keeps a newer configured version,
  several cache generations and data directories, legacy tables, the copying of
  files inside a publication. Validation of paths and tables is a failing step.
- *Threads of the interpreter and the network*: what `socketserver`, `selectors`
  and `urllib` do inside a call; a call returns, fails or times out.
