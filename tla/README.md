# StageNeth in TLA+

Specifications, model-checking runs and machine-checked proofs for StageNeth, a
router distribution for stage networks: `stagenethd`, the engine that turns one
configuration file into the configuration of a dozen services, and
`stageneth-api`, the web API in front of it. The modules are written from the Go
source in `src/packages/stagenethd/files` and the boot script beside it; every
definition is traced to its lines in `PROJECT.json` ("map").

Paths below are relative to `src/packages/stagenethd/files`.

## 1. The system

### Components

| Component | State | Operations | Talks to |
|---|---|---|---|
| Engine, `internal/engine` | live files under `/etc/config` and `/etc/rsyslog.conf`, `manifest.json`, `last-good/*` with `index.json`, `apply.lock` | `Plan`, `Apply`, `Restore`, `SaveLastGood`, `Rollback` | reads `stcfg`, `render`, sysfs; all callers meet in the files |
| Command, `cmd/stagenethd` and its init script | none of its own; one process per command | `apply`, `apply -noreload`, `rollback`, `preview`; reload of the services; NIC tuning | started by the API, the procd trigger, the boot and the console |
| Rendering, `internal/render` | none | a configuration and the interfaces present become sections per file | called by Plan, twice by Apply |
| Stage configuration, `internal/stcfg`, `internal/ucifile` | `/etc/config/stageneth` | load, and parse and print UCI text | edited by the API |
| Users and sessions, `internal/auth` | `/etc/config/stagenethd`, a map of sessions in memory | `Set`, `SetPassword`, `Remove`, `Verify`; `Create`, `Get`, `Delete`, `DeleteForUser` | API handlers, concurrently |
| Login and accounts API, `internal/api/auth.go` | login failures per address | login, logout, password, user administration | users and sessions |
| Services API, `v1.go`, `uci.go`, `presets.go` | `/etc/config/stageneth`, `stagenethFileMu` | services, bindings, forwardings, globals, presets, raw files | users' browsers; followed by an apply |
| Network, backup, first boot, `network.go` | `firstboot_done`, the packages of a backup | apply, preview, backup, restore, wizard | runs `stagenethd`, `uci` |
| Monitoring, `internal/mon` | last samples, the counters of the sample before, a socket and protocol statistics per bridge | collector loop, clock watch, stop | procfs, packet sockets; event streams of the API |
| NTP, discovery, logs, alerts, audit, `internal/api` | none | read, parse, format, run a command | external commands |
| API process, `cmd/stageneth-api` | listening socket | start, shutdown | all handlers |
| Web interface, `src/packages/stageneth-ui` | browser state | calls of the API | API |

### What is hard about it

Nothing guards the files but one advisory `flock`, and a command holds it for
only part of its run. The shape of an apply is

    load configuration, test show_lock       no lock      main.go:116-141
    Plan, snapshot, write files, manifest    flock        engine.go:484-539
    reload the changed services              no lock      main.go:154-197
      on failure: Restore, reload again      no lock      main.go:162-171
      on success: SaveLastGood               flock        engine.go:388-427

so two commands interleave between any two of these phases, and on the phases
without a lock between any two files. Within a phase each write can fail; the
process can be killed by the time limits of the boot script and of the API; the
machine is an appliance that gets unplugged. The disk state that has to survive
all of this is spread over three places (files, manifest, last-good) that are
written one after another.

What makes the engine correct:

* the user's own sections in the shared files are never lost;
* a file the engine renders in full is never a blend of two renderings;
* an apply is all or nothing for every other command;
* the manifest knows every generated section, so the next apply can remove it;
* a second apply of the same configuration has nothing to do;
* last-good is one snapshot, of a configuration that was replaced by one that
  reloaded;
* when all commands have ended, the services run with the files on disk;
* the boot repairs what a power cut left, and always ends with a running system.

The API serves every request in a goroutine of its own. Three pieces of state are
behind three mutexes that are held for part of a request only: the user file
(`auth.Users.mu`, from load to save), the stage configuration (`stagenethFileMu`,
the same) and the collector (`collectMu`, one collection). What a handler looks at
before or after, it looks at without them: a login verifies, then creates a
session; a change of an account saves, then deletes sessions; the wizard looks
for accounts, then sets one; a restore replaces files behind both mutexes, and the
contents of what it imports are checked by nobody. The process may end between any
two of these steps.

What makes the API correct:

* no account change takes the box its last technician or undoes another one;
* no session outlives a change of its account; the limiter limits;
* first boot happens once;
* no edit of the stage configuration is lost, half written, or forgotten after
  it was answered; restoring a backup is all or nothing;
* whatever has been edited, `mgmt` can be reached, no binding or rendered file
  names what does not exist, and no VLAN belongs to two services, but for what a
  restore brings from outside;
* samples come in order and with sane values as long as the counters they are made
  from grow, sockets and goroutines are not lost, every clock message is seen, and
  stopping ends.

`PROJECT.json` ("hazards") lists where in the code each of these may go wrong, with
the properties that would notice.

## 2. The modules

| Module | Role |
|---|---|
| `Content` | the managed files, section keys, what a configuration renders to (a constant), `Merge`, `PrevManaged`, `NewText` |
| `Engine` | the engine, its processes, the boot and the environment: one action per step of the code |
| `ConfigStore` | what the engine promises its callers: commands as single steps |
| `EngineRefinement` | the refinement mapping from `Engine` to `ConfigStore` |
| `MCEngine` | the constants of TLC's instances, one budget per run |
| `EngineProofs` | types, and what the files can hold: theorems and proofs |
| `LockProofs` | what the flock buys: mutual exclusion, progress, last-good |
| `ConvergeProofs` | that an apply which returns has converged |
| `StoreProofs` | that `Engine` implements `ConfigStore` |
| `QuietProofs` | what holds between commands: the manifest knows every section, the boot repairs what was cut short, the services run with the files |
| `Accounts` | users, sessions, first boot and the login limiter, one action per step of a handler |
| `AccountStore` | what the user file promises: accounts change one at a time, restores excepted |
| `AccountsProofs` | that `Accounts` implements `AccountStore`; the mutex, the limiter, the sessions; first boot and logins where nothing overlaps, is restored or unreadable |
| `AtomicFile` | how a file is replaced, and what a power cut makes of each stage |
| `Render` | `render.go` as operators on a configuration |
| `Presets` | the topologies of `presets.go` |
| `StageConfig` | edits, presets, backup and restore of the stage configuration; extends `Render` and `AtomicFile` |
| `StageConfigProofs` | how a configuration is saved, what the edits and restores make of it, what is rendered from it |
| `ClockWatch` | the socket filter and the PTP decoders of an observer |
| `Monitor` | the collector, its observers and streams; extends `ClockWatch` |
| `MonitorProofs` | that the filter lets clock traffic through; types, sockets, loads, the order of samples, streams, what is reported as heard |
| `MCAccounts`, `MCStageConfig`, `MCMonitor` | the constants of TLC's instances |

### State and actions of Engine

| Variable | In the code |
|---|---|
| `want`, `showLock` | `/etc/config/stageneth` and its `show_lock` |
| `avail` | the interfaces in sysfs (`render.AvailableInterfaces`) |
| `files` | the live files; a file is absent, or the set of its sections |
| `manifest` | `manifest.json`: per managed file the generated keys |
| `good`, `goodIndex` | the data files and the index of last-good |
| `saved` | history: the snapshot of the `SaveLastGood` that last completed |
| `runtime` | what each service loaded last |
| `sys` | off, booting, up |
| `holder` | who holds the flock |
| `proc` | per process the program counter and the locals of `main`, `Apply`, `Restore`, `Rollback`: configuration, plan, snapshot, recorded names, changed files, files left in the current loop |
| `budget` | what may still happen from outside |

An apply is `StartApply` (or `Boot`), `Lock`, `Plan`, `Snapshot`, `WriteFile` once per changed
file, `SaveManifest`; `ApplyFails` leads through `RestoreFile` and `UndoDone`. Then
`Reload` per service; `ReloadFails` leads through `RestoreFile`, `RestoreDone` and a
second round of `Reload`; otherwise `SaveLock`, `SaveEntry` per file,
`RemoveStaleEntry`, `SaveIndex`. A rollback is `StartRollback`, `RollbackLock`,
`RollbackFile` per file, `RollbackDone`, `Reload`, `ReloadDone`. Every write to disk is a step
of its own, so that a kill, a power cut or another process can come between any
two. `Plan` is one step: each file is read once, and the only writers that do not
hold the flock write single files, whose order is free anyway.

The order of the writes is the code's: the managed table for an apply (`First`),
any order where the code iterates over a Go map (restore, the entries of
last-good, rollback and its reloads).

### State and actions of Accounts

| Variable | In the code |
|---|---|
| `users` | `/etc/config/stagenethd`: role and password of each name |
| `done` | `firstboot_done` in the stage configuration |
| `sess` | the map of sessions, in the order of creation |
| `fails` | `loginLimiter.fails`: per address the failures in and out of the window |
| `mu` | the mutex of `auth.Users` |
| `pc`, `job`, `file`, `seen` | each request: its step, its body, the user file it loaded or exported, what it verified |
| `todo`, `was` | a restore: the packages left in its loop, the `firstboot_done` it exported |
| `clash` | history: a wizard has overwritten an account |

A login is `Throttle`, `Verify`, `LoginFailed` or `Grant`; an account change goes through the
`Guard` of its route, for the own password `OwnAccount` and `Confirm`, then `Load` under the
mutex, `Save` or `Refuse`, and `Revoke` (`DeleteForUser`); the wizard through `FirstbootDone`
and `HasUsers`, the account, `MarkFirstbootDone`, `Preset` and `Grant`. Both guards of the wizard
answer "no" when their file cannot be read, so that it may pass them on a box with
accounts; `Verify` and `Confirm` fail closed. `Restart` ends the process between any two steps and
takes sessions, requests and limiter along. A session slides while it is used, so
that `Expire` may happen at any time; failures leave the window with `Age`. A
password hash is abstracted to the password it verifies.

A restore is an `Export` per package, an `Import` per package, after a failure
(`ImportFails`) an `Undo` per package, and the answer (`Restored`). It takes no mutex,
looks for no technician and revokes no session: `Put` replaces users or
`firstboot_done` at any step of the other requests. `Uploads` are the texts clients
send, with any users in them. A session remembers in `late` that its account was
changed this way, or before the session was made.

### State and actions of StageConfig

| Variable | In the code |
|---|---|
| `disk` | `/etc/config/stageneth`: what a reader opens, what is under its name on disk, its temporary file |
| `other` | the other packages of a backup |
| `backup` | the backup the operator downloaded last |
| `brought` | history: the stage configurations that restores have imported |
| `mu` | `stagenethFileMu` |
| `req` | each request: its step, its body, the configuration it loaded, the one it saves, a restore's snapshot and the packages left in its loop |

An edit is `Receive` (with the validation that needs no configuration), `Load` or
`Refuse`, `WriteTmp`, `SyncTmp`, `Rename`, `SyncDir`, with `SaveFails` from each of the first
three. `Edited` is what each of the handlers does to the configuration. A restore is
`ReceiveRestore`, `Export` per package, `Import` per package, and `Undo` per package after
a failure. Neither export nor import takes the mutex. `Restart` and `PowerCut` end
all requests; `AfterCut` says which texts the file may then have. What is restored is any
part of the backup downloaded (`Downloads`) or any text of a client (`Uploads`): only the
names of the packages are checked.

What `Render` makes has the names `render.go` gives it: the interface `Svc(n)` (`svc_<n>`), the
bridge `Br(n)` (`br_<n>`), a zone with the name of its service. A file that names one
kind of thing where the other is meant does not agree with the rest.

Validation is by tables: `WellFormed` names the values that match each pattern,
`Atoi` the numerals. The runs enumerate values on both sides of each check.

### State and actions of Monitor

| Variable | In the code |
|---|---|
| `mutex`, `prev`, `slowly`, `clockObs` | `collectMu`, `prevIdle` and `prevTot`, `lastSlow`, `clockObs` |
| `history` | `latest` and `history`; `taken` counts samples |
| `observers` | every `clockObserver` started: its socket, its `done`, its loop, its `domainStats`; `heard` is history |
| `gor` | the goroutines that collect: `Run`, `Stop`, one per event stream |
| `link`, `stat`, `time` | the bridges' indices, `/proc/stat`, the wall clock |

A collection is `Take`, `Measure`, then on the slow cadence `Halt` and `Close` per observer
that goes, `Halted`, `Start` per bridge that came, `StartedAll`, and `Publish`. `Stop` shares
`Halt` and `Close`. An observer's loop is `Check`, `Hear` or `TimesOut`. A stream is `Poll`,
perhaps a collection of its own (`snapshot` collects when there is no sample),
and `Send`. `ptpBPF` is the program of the socket filter, instruction by instruction;
`Filter` runs it on frames that are records of the fields it loads, in 24 steps: all
its jumps lead forward, so that its 22 instructions need no more.

The counters of `/proc/stat` have `Word` values. Between two readings they stay, grow
(`Grown`), or idle falls, with the total or without it (`Fallen`): `gather.go:76-78` counts the
time waiting for I/O as idle, and the kernel lets that fall now and then. The
unsigned difference then wraps, and the load is nonsense for one sample. A reading may
also fail (`NoReading`, `gather.go:68-71`). `grew` remembers of a sample that its reading
succeeded and idle had not fallen; `CpuInRange` is about these samples.

### Abstractions

* A section is a value with a key. The runs use a handful; the proofs hold for
  every set. The fourth kind of content, the marked block in `rsyslog.conf`, is a
  section with the key `BlockKey` in a foreign text, and is merged like the others.
* To the engine `Render` and `Legacy` are constants: any function from configuration
  and interfaces to sections. What holds for all of them holds for `render.go`.
* A file with comments and order is a set. The order of sections matters to
  no property stated here.
* To `Engine` and `Accounts` a write (`writeFileAtomic`, `Users.save`) happens or fails. That
  this is what the sequence of system calls amounts to is shown in `StageConfig`, for
  `saveStageneth`, which makes the same calls. An error of the directory's fsync is
  ignored by the code; the answer is then not durable, which
  `AnsweredSurvives` excepts.
* A file that exists but cannot be read is taken for absent, as in the code
  (`ReadFile`). It happens at most `Budget["read"]` times.
* A failing reload may or may not have loaded the files.
* An error from `flock` or from loading the configuration ends a command before
  it has done anything, and is not an action. `preview` writes nothing.
* A killed process drops the flock, as the kernel does.
* `uci export` and `uci import` are one step each; a package is replaced or not. An
  upload names a package once.

`Budget` bounds everything that comes from outside: commands, requests, edits,
failing writes, reloads and reads, hot plugs, frames, kills, restarts, power cuts.
It is the only bound in `Engine`, `Accounts` and `StageConfig`, and the proofs hold for
any budget; `Monitor` bounds the history too (`MaxHist`), as the code does. The system
may really stop once all commands have ended and the budget is spent, so the runs
do not check deadlock (`CHECK_DEADLOCK FALSE`); that no command gets stuck is
`CommandsEnd`, that no mutex is left locked `MutexReleased`, that stopping ends `StopReturns`.

## 3. The runs

The instances have one merged file (`network`), one fully rendered file (`umdns`)
and `rsyslog.conf`, three configurations that add, change and drop sections, a
user's section and one of the old orchestrator in `network`, and no `umdns` file
at first. That is one file of each kind the code distinguishes, and each of the
manifest's cases: a section added, changed, removed, recognised without a manifest. Two
processes are enough for every race between two commands: a command reads and
writes shared state only, and its locals are at stake with one other writer. A run
with one process asks for properties that do not hold for two (section 5).

| Run | Instance and budget | Shows |
|---|---|---|
| `engine_crash` | 2 processes; apply, edit, raw edit, hot plug, failing write, failing undo, power cut | the user's sections survive |
| `engine_atomic` | 2; 2 applies, rollback, 2 edits, failing write | types; `Engine` implements `ConfigStore`; an apply that returns leaves nothing to do; no blends; last-good is one snapshot; no command is set back by another |
| `engine_reload` | 1; 2 applies, rollback, 2 edits, failing write, failing reload | with reload failures too, and the services follow |
| `engine_repair` | 1; 2 applies, edit, failing save, power cut | the boot apply repairs what a power cut left; the manifest knows every section |
| `engine_live` | 2; apply, rollback, edit, failing reload, kill, power cut | the flock is given back, commands end, and the system comes up again |
| `engine_late_restore` | 2; 2 applies, 2 edits, failing reload | *violated:* `ApplyConverges` |
| `accounts` | 2 requests at once, 3 and a restore in all, 2 names, 2 passwords, 3 addresses, limit 1, cap 2; one failure of any kind (write, read, import, export) or restart, one passage of time | types; `Accounts` implements `AccountStore`; the mutex is released; stale sessions end; the limiter limits |
| `accounts_stale_session` | a box set up before; 4 requests, no restore, no failure, one passage of time | *violated:* `SessionsCurrent` |
| `accounts_two_wizards` | 4 requests, no restore, no failure, one passage of time | *violated:* `FirstbootOneWay` |
| `stage` | 2 requests at once, 3 in all, from 9 bodies, restores of any part of the backup downloaded, of one of another day, of one of another device; one failing save, fsync, two failing imports, restart, power cut, two faults in all | nothing answered is lost or undone, references hold as far as restores let them, what is rendered agrees with itself |
| `stage_vlan` | one request | *violated:* `SubinterfacesApart` |
| `monitor` | one stream, one bridge, 9 kinds of frames, history of 2, counters of 16 values; two polls, link changes, frames, one tick, stop, second, failing socket, one change of the counters or failing reading, two of the outside events | order, values, sockets, filter and decoder; stopping ends |

Why these sizes. Two requests are enough for a race of two handlers, and a third or
fourth one is there to make the state they race on (an administrator, a session,
a failure on record). A limit of 1 and a cap of 2 with three addresses put the limiter
at both of its limits. The bodies of `stage` touch each type of section and hold a
value that is refused and one that is accepted where two edits can collide: a
VLAN in use, a binding to a service that another request deletes, a preset that
drops both, a collector whose port and protocol the firewall must follow. The backup of
another device (`Foreign`) has no mgmt, a binding and a forwarding to nothing, and two
services on one VLAN; that of `accounts` has no technician. The two violating runs have no
restore and no failure, so that their traces show the overlap alone. One
bridge suffices, since observers share nothing but the mutex; it goes and comes
again within the budget. The frames are one for each branch of the filter and
the decoder, and one on the other side of each test.

`ConfigStore` says it all in five actions: `Apply` replaces all files and the manifest
at once, `Succeed` keeps what was replaced as last-good, `Revert` puts it back,
`Rollback` installs last-good. Under the mapping of `EngineRefinement` an apply takes
effect when it saves its manifest; until then the files are those of its
snapshot, also while it undoes its writes. A restore and a rollback take effect at
their first step, and last-good changes when `SaveLastGood` gets the flock.

`AccountStore` has one action that changes an account (`Change`), in a way that keeps a
technician where there was one, and one that ends first boot (`FinishFirstboot`), when there
is one. An account changes when `Save` has written the file; loads, checks and sessions
map to stuttering. From the moment a restore is asked for (`Ask`) it may replace all
accounts and `firstboot_done` at any time (`Restore`), as nothing in the code keeps it from
doing so. A change it overtakes is made from the accounts of before (`old`), which is
all the store allows it to undo, or is given up (`Forget`).

Each property of a passing run has a mutant in `PROJECT.json`: a change to one
definition, as a plausible slip in the code would make it (a save or an apply
without the flock, a lock file left open, a file loaded before the mutex, an error
path without unlock, a missing fsync, a rollback that ends with its first package,
a jump of the filter one off, a socket closed under its reader, ...), under which
TLC finds the property violated. The mutated definitions stand beside the ones
they mutate and are marked `(mutant)`.

### Fairness

`FairSpec` assumes weak fairness of `Step(p)`, the steps a started command takes by
itself, and of `Machine`, the boot. A process that can run is scheduled, and reloads
and the boot apply have time limits (`main.go:25` 45 s per script, the init script 60 s). No
fairness is assumed of what comes from outside: failures, kills and power cuts may
happen or not. No strong fairness is needed for the flock, since finitely
many commands are started (`Budget`); with an endless stream of them a waiter could
starve, as `flock` promises no order.

`Monitor`'s `FairSpec` assumes weak fairness of each goroutine that collects, of `Stop`
once it has been called, of the end of `Run` and of each observer's loop: the Go
scheduler runs every goroutine, and a read on a socket times out after 500 ms
(`clockwatch.go:247`). Frames, ticks, polls and link changes get no
fairness. Nothing strong is needed for `collectMu`, again because of the budget; in Go a
waiter of a mutex is handed it after a millisecond at the latest.

## 4. The proofs

`tlapm` proves, for any number of processes, requests, files, sections, configurations,
users and edits and any budget that satisfies the assumption:

| Theorem | States | Assumes |
|---|---|---|
| `TypeCorrect` | `Spec => []TypeOK` | - |
| `UserSectionsKept` | `Spec => []UserSectionsSurvive` | `Budget["read"] = 0`: files that exist can be read |
| `OwnedFilesKeptWhole` | `Spec => []OwnedFilesWhole` | `Budget["raw"] = 0`: nobody edits them by hand |
| `FlockIsExclusive` | two processes are never both between lock and close | - |
| `FlockIsReleased` | `Spec => []FlockReleased` | - |
| `CommandsDoAdvance` | `Spec => CommandsAdvance` | - |
| `LastGoodKept` | `Spec => []LastGoodIsOneSnapshot` | no save fails, is killed or loses power: `"save"`, `"kill"`, `"crash"` are 0 |
| `ApplyHasConverged` | `Spec => ApplyConverges` | `"raw"`, `"hotplug"`, `"read"` are 0, and `"reload"` is 0 or there is one process: nothing writes or changes behind the flock |
| `ApplyIdempotent` | rendering into its own result changes nothing | - |
| `EngineImplementsStore` | `Spec => ImplementsStore` | only writes, and with a single process reloads, fail: `"undo"`, `"save"`, `"read"`, `"raw"`, `"hotplug"`, `"kill"`, `"crash"` are 0, and `"reload"` is 0 or there is one process |
| `SectionsTracked` | `Spec => []TrackedSections` | `"rollback"`, `"reload"`, `"raw"`, `"hotplug"`, `"read"` are 0; `"edit"` is 0, or `"undo"`, `"kill"`, `"crash"` are; a section of the installed files that could be generated has a name of the old orchestrator |
| `BootHasRepaired` | `Spec => []BootRepairs` | the same as `SectionsTracked` |
| `RuntimeSettles` | `Spec => []SettledRuntime` | `"write"`, `"reload"`, `"kill"`, `"raw"` are 0; `"rollback"` is 0, or `"save"` and `"crash"` are |
| `RuntimeSettlesAlone` | `Spec => []SettledRuntime` | one process; `"undo"`, `"kill"`, `"raw"`, `"read"` are 0, `"reload"` at most 1; `"rollback"` is 0, or `"save"` and `"crash"` are |
| `StoreImplemented` | `Spec => ImplementsAccountStore` | - |
| `UsersMutexReleased` | `Spec => []MutexReleased` (of `Accounts`) | - |
| `AccountsTyped` | `Spec => []TypeOK` (of `Accounts`) | - |
| `StaleSessionsRevoked` | `Spec => []StaleSessionsEnd` | - |
| `LimiterIsBounded` | `Spec => []LimiterBounded` | - |
| `LimitIsKept` | `Spec => LimitHolds` | - |
| `FirstbootOnce` | `Spec /\ []NoRestore /\ []OneWizard /\ [][UsersRead]_vars => []FirstbootOneWay` | in the statement: no restore is asked for, wizards do not overlap, their look for accounts can read the file |
| `LoginsCurrent` | `Spec /\ []NoRestore /\ []OneWizard /\ []LoginsApart /\ [][UsersRead]_vars => []SessionsCurrent` | in the statement: that, and no login overlaps the change of its account |
| `OneRequestAtATime` | `Spec /\ []NoRestore /\ [][UsersRead]_vars => [](FirstbootOneWay /\ SessionsCurrent)` | requests do not overlap; in the statement: the other two |
| `ConfigReadsWhole` | `Spec => []ReadsWhole` | `TornApart` |
| `ConfigEditsSerialize` | `Spec => EditsSerialize` | `TornApart` |
| `ConfigAnsweredSurvives` | `Spec => AnsweredSurvives` | `TornApart` |
| `ConfigMutexReleased` | `Spec => []MutexReleased` (of `StageConfig`) | `TornApart` |
| `StageConfigTyped` | `Spec => []TypeOK` (of `StageConfig`) | `MarksApart` |
| `BindingsStayBound` | `Spec => []BindingsBound` | `MarksApart` |
| `VlansStayApart` | `Spec => []VlansApart` | `MarksApart` |
| `SubinterfacesStayApart` | `Spec => []((\A d \in brought : AllApart(d)) => SubinterfacesApart)` | `MarksApart`; `VlansGiven`, `OneSpelling`: every service has a VLAN, every VLAN one text; `PlainTrunk`: eth1 has no dot |
| `MgmtStaysReachable` | `Spec => []MgmtReachable` | `MarksApart`; `Budget["export"] = 0`: `uci export` does not fail |
| `RestoresWhole` | `Spec => RestoreAllOrNothing` | `MarksApart` |
| `RenderedFilesAgree` | `Spec => []FilesAgree` | `MarksApart`; `Budget["export"] = 0` |
| `CollectorIsAdmitted` | `Spec => []SyslogAdmitted` | - |
| `MonitorTyped` | `Spec => []TypeOK` (of `Monitor`) | - |
| `SocketsAreOwned` | `Spec => []SocketsOwned` | - |
| `SocketsClosedLast` | `Spec => []ClosedAfterLoop` | - |
| `LoadsInRange` | `Spec => []CpuInRange` | - |
| `HistoryOrdered` | `Spec => []HistoryInOrder` | - |
| `StreamsGoForward` | `Spec => []StreamsForward` | - |
| `AllIsHeard` | `Spec => []HeardAll` | - |
| `GrandmasterIsAnnounced` | `Spec => []GrandmasterAnnounced` | - |

and in addition the assumptions that `Content`, `Engine`, `Accounts`, `StageConfig` and
`Monitor` name:
the kinds of files are disjoint, the ranks of the table are distinct, what is
rendered into `rsyslog.conf` is the marked block, `Absent` is no text, no snapshot of the
files, no account and no request, requests and addresses are finitely many, the user
file starts empty or with a technician, the configuration of the image has mgmt, no
dangling binding or forwarding and no VLAN twice, the presets are as
`Presets` has them in these respects, requests are of the routes there are, what is uploaded
has the shape of packages and nothing else, a counter of
`/proc/stat` has more values than the two jiffies that pass at most between two
reads, no stream is called `Run` or `Stop`, `None` is no sample and no goroutine, frames
have the fields of a frame and clocks have names. TLC
evaluates them on every run. `TornApart` says that the value that stands for a file
whose data is lost is no configuration, whatever record of sections one takes, and
`MarksApart` that neither is the one for a failed export; they concern the model's
constants `Torn` and `Failed` alone.

**Types.** `TypeOK` is not inductive: a process at `plan` must have loaded a
configuration. `Typed` adds that (`HasConfig`); each action has one step in the proofs.

**Contents.** Both safety theorems come from one invariant. Let `A` assign each file
a set of contents. `Closed(A)` says that `A` has the installed contents and is closed
under what the engine can make of a content (`NewText`, for every configuration,
every set of interfaces and every manifest that claims generated keys only), under
raw edits if there are any, and contains the absent file if reads can fail.
`Kept(A)` says that the files are in `A`, and so is everything that may be written to
them later: the plans and snapshots of the processes (`Sound`), the data files of
last-good, and the files its index calls absent; that the manifests on disk and in
memory claim generated keys only; and that budgets that were empty still are. It is
needed because a file is written from a plan that may be long out of date, or from a
snapshot another process took: the files alone say nothing of what is written next.
`ClosedIsKept` proves it inductive, for every `Closed(A)`; the theorems take for `A`
the contents that hold the user's sections (`KeepsUser`) and the whole renderings
(`Whole`). Both instances of `Kept` were checked with TLC before the proofs.

Both theorems hold with and without the flock: they are what is left when
everything else goes wrong.

**The flock.** `FlockExcludes` says that a process between lock and close is the
holder; every step keeps the flock, takes it when it is free, or gives it back
(`MoveExcludes`). Mutual exclusion follows for any budget: kills and power cuts drop
the flock with the process. `FlockReleased` is the converse, inductive beside it: the
holder is a process between lock and close, so that a failing write, save or
rollback, which leaves by another path, does not keep the flock either.

**Progress.** A command goes through its phases in one direction, and within a phase
takes files off its `todo` or stale entries out of last-good. `CommandsDoAdvance` says
that every step of a command does one of the two and that nothing else undoes it.
The second half needs the flock: what is left of a save is read off the shared
directory of last-good, which another save would change. A save itself adds no entry
that its own last loop would have to take out again (`SavesOwn`). What `CommandsEnd` adds is liveness: that a command that
can step does, and that the flock comes free.

**Last-good.** While a process is at `save`, an entry of its snapshot is either still
in its `todo` or in last-good already (`SavesKept`). With mutual exclusion no other
process saves meanwhile, and when the index is written the data files are the
snapshot and no stale one is left. An interrupted save breaks it: the old index then
stands over data files of two snapshots, and a rollback installs the mix.

**Convergence.** `Planned` relates what a process has in memory to the disk: each file
it has still to write is planned as a rendering of its configuration into some text,
and each other file is one already, under the manifest on disk; the names it will
record are those of the same rendering. Another process could spoil that only by
writing a file or the manifest, for which it needs the flock, unless it is in the
restore after a failed reload (`RestoresAlone`). So when the manifest is saved every file
is a rendering, and `ApplyIdempotent` says that a second rendering into it, with the
recorded names, changes nothing: with whatever manifest, so that a restore, which
leaves the manifest of the apply it undoes, does no harm to the next one. Each of
the four budgets in its assumption is needed: `engine_late_restore` shows it for the
reload, with the two processes it takes.

**The abstract store.** `EngineImplementsStore` goes through the steps of `Engine` one by
one. Its invariant (`SInv`) says of each command how far it has carried its work:
at `write` every file still in its `todo` is what its snapshot holds, every other one
what it planned; at `undo`, `restore` and `rollback` the files done are those of the snapshot
or of last-good. It needs the flock, since no other command may touch the files
meanwhile (`OneAtWork`), and an index that says which files of last-good were absent
(`IndexedSaved`). So the files as `EngineRefinement` sees them change in one step, `SaveManifest`
for an apply, and every other step stutters or is `Succeed`, `Revert` or `Rollback`. With two
processes a failed reload restores without the flock, which the mapping does not
survive (`engine_late_restore`); hence the alternative in the assumption.

**Tracked sections.** The manifest is written after the files. `TInv` says that what a
command is about to write is among the names it will record, and that what it would
put back, and what lies in the files while nobody writes, is among the names the
next apply will claim. A kill or a power cut between files and manifest leaves
sections that no manifest lists; the next apply renders them itself as long as the
configuration is the same (`Extra`), which is why the assumption asks for no edits or no
cuts.

**The boot.** `Booted`: a boot apply runs alone (`BootAlone`), before the services do, so
that nobody edits meanwhile and its configuration is the one on disk; each shared
file is still in its `todo` with a right plan, or right already (`BootRight`). A plan is right
because `TInv` says that the merge knows every generated section that lies in the
file, whatever was cut short before, and takes out those no longer rendered.

**The services.** `RInv`: while the machine is up each service runs with the files, or
some command owes it a reload (`Owes`): it has changed a file of that service and not
reached the reload yet. The four failures in the assumption end a command with its debt
unpaid.

With one command at a time failures are harmless, and `AInv` says why: until its reloads
the services run with its snapshot, which an undo puts back; during them, and during
the restore after a failed one, a service runs with the snapshot or is among those to be
reloaded again (`Settles`). The assumption allows one failing reload, since the second
round is not repeated (`main.go:168`): when a reload fails there too, services
stay with what they had. A rollback whose reload fails is excused by the property itself.

With two processes the reloads of one apply, which run without the lock, may load what
another has half written and then puts back without a reload (`main.go:145`,
`main.go:162`). With either, a rollback installs what last-good holds, so that last-good
must be one snapshot (`LastGoodFit`).

**Accounts.** The invariant (`IInv` in `AccountsProofs`) has three parts beside the
types. `Stages`: a request at a step is of a kind that reaches it, and one about to
grant a session has verified a credential. `Locked`: a request holds the mutex
exactly between its load and its save, and meanwhile what it loaded is what is
in the file, as long as no restore has been asked for; without this a save could undo
another account change. `Fresh`: until then, a box
without a technician has no account, no session, no finished first boot and no
wizard past its account; without it a request that came through the guard of an
operator's route could finish first boot on a box nobody can administer. From `Locked`
a save is one change of `AccountStore`, of the accounts it has loaded, and from `Fresh` a
mark is its `FinishFirstboot`; an import or its rollback is `Restore`, which says no more
than that one has been asked for; all other steps stutter. What is left of the guarantee after a
restore is that changes of accounts undo no other change, and take no technician from
the file they were made from.

`StaleSessionsEnd` is inductive beside it: a save makes the sessions of one account
stale and is itself the step to `revoke`, and two requests that revoke the same account
each account for all of its sessions. A session whose account a restore has changed, or
a save that undid one, is marked `late` and left out: nobody revokes it. The bound of the limiter is not: a request between
`loginThrottled` and `loginFailed` will add a failure that no counter shows.
`Room4Pending` counts it in: the failures of an address and the requests let through
for it are together fewer than the limit and the number of requests. A request is let
through when the counter is below the limit, and turns into a failure at most once.

**What the violated account properties lack.** `accounts_two_wizards` and
`accounts_stale_session` have counterexamples; `FirstbootOnce` and `LoginsCurrent` say what
excludes every one of them. Nothing in the code does:

* overlaps: two requests in the wizard at a time (`OneWizard`), and an account saved while
  a login to it, or the wizard, is between the check of the credential and the
  session (`LoginsApart`);
* a restore (`NoRestore`), which changes accounts and revokes no session, and may take
  the accounts away while a session is left to make new ones with;
* a look for accounts that cannot read their file (`UsersRead`): `HasUsers` then says there
  are none, and a wizard that got past `firstbootDone` overwrites the administrator.

Where none of these happens, `WizardFirst` is inductive (a wizard that has seen no account
finds none when it saves, because on a box without accounts nobody else has
a session to save one with, by `Fresh`), and so is `NoneLate` (what a request has verified
is still so when it grants). Everything else may overlap, fail and restart; a
configuration that `firstbootDone` cannot load is among that, since `HasUsers` still looks.
`OneRequestAtATime` follows: in a process that serves its requests one by one only a
restore or an unreadable user file breaks either property.

**Saving a configuration.** The invariant (`IInv` in `StageConfigProofs`) follows the file
through its stages. `Locked`: the mutex is held by the one request that saves. `Tmp`: what
is in the temporary file is the document of that request, synced before the rename;
it needs the mutex, since all requests share one temporary name. `Whole`: only whole
configurations get under the name of the file. `Durable`: the name on disk is the one
seen, unless a request is about to sync the directory, as long as no such fsync
failed and no process died before one. `Based`: what is being saved was made from
what is in the file, or a restore has crossed it. `Carried`: what restores import is
whole. The first four theorems read off the property from one part each, for any edits,
presets and patterns.

**The contents of a configuration.** `CInv` says that every text that can still get into
the file is in order as far as the configurations are that restores have imported
(`Sound(brought, c)`: its bindings name services, if theirs do; its VLANs are apart, its
forwardings name services or deleted ones, and it has mgmt, if theirs; the VLAN
texts in it came with the image, an upload, a preset or a
request): what is in the file and on disk, the documents being saved, the backup
and what restores would put back. Of what a restore carries only the shape is known;
it joins `brought` when it is imported. `EditedSound` shows that a handler which
does not refuse makes a configuration in order of one in order; it needs the refusal
to be decided on the configuration that is then changed, which `Load` under the
mutex gives. mgmt has one more way to go: the rollback of a restore takes a failed export
for a package that was not there and removes the file, hence the assumption of
`MgmtStaysReachable`.

`SubinterfacesStayApart` does for `stage_vlan` what the two account theorems do for
theirs: texts are compared where numbers are rendered, so it takes that texts that
differ denote numbers that differ (`OneSpelling`), and that no service goes without,
which would put it on VLAN 1 (`VlansGiven`); and that no restore brings two services with
the same text. The bodies of `stage` meet the first two conditions, `Foreign` breaks the
third; the body of `stage_vlan` breaks the first.

**Restores.** `Tracked`, in the same invariant, follows a restore that nothing else has
crossed: before its imports the snapshot of a package is its content; during them
each package has its snapshot or, once done, the backup's content; in the rollback
every package done has its snapshot, unless a second import has failed.

**Rendering.** `SyslogAdmitted` is a fact about `Render` alone: it holds for every
configuration, whether the API would accept it or not. Of `FilesAgree` that is true of
devices, bridges, interfaces, zones of rules and addresses, where two functions of
`render.go` must filter, name and number services alike. Forwardings come from sections of
their own, and that they name zones needs the history: a validator, presets that keep
only forwardings between chosen services, and `Sound` for what is in the file.

**The filter.** `ClockPasses`: the program of `ptpBPF` accepts every frame that `handleFrame`
decodes. For such a frame `Accepting` says at which instructions the program may be
and what the two registers hold there; one step keeps that and goes further
(`OneStep`), so that after as many steps as there are instructions the program is at
the `ret` that accepts. This holds for every length of the IPv4 header, every port
and every tag; a run has one frame for each branch.

**Collections.** `Staged` says where each goroutine may be and what it has there: whoever is
between `Take` and `Publish`, or in Stop's part of it, holds `collectMu`; an observer about
to be stopped is one that is kept, one about to be started is not. `Sockets` rests on it:
a socket opens together with its entry in `clockObs` and closes together with it, after
its loop has ended. `Loads`: outside `Measure` the previous reading is the last one
anybody made, or failed, because the reading is made under the mutex. If this one has
not failed and idle has not fallen (`Turn`), the load is the share of one step of the
counters, in which idle time does not exceed the total, also where they wrap, or there is
no reading before and it is none. `Numbers`: a sample under way is the newest taken, and all published ones are
older. `HistoryInOrder` alone is not inductive, as it says nothing of the sample that
comes next.

**Streams.** A stream compares times, not samples. `Forward` says why that is enough: the
last sample pushed is in the history, or older than all of it, with `lastTS` as its
time. So the sample in hand, which is the newest of the history or has been, either is newer
or is the same one with the same time, and then it is not pushed.

**What is heard.** `Heeded` says of each observer that the counters and the grandmaster it
reports are those of the frames it has heard (`Counted`, `NamedBy`). With `ClockPasses`
a frame that is heard is decoded; a socket that is closed takes its report along.

Every safety property the runs check is proved, those of the violating runs under the
conditions the code lacks, the others under the assumptions of the table.
One run goes beyond its theorems: `engine_repair` has an edit and a power cut, of
which `SectionsTracked` and `BootHasRepaired` allow only one kind. With a single edit an
apply that changes files and is cut has loaded the configuration which the boot
applies next; one more edit after it has loaded, and the properties fail (section 5).
Only proved, since the runs would grow too large, is what holds under kills and read errors: the theorems about `UserSectionsSurvive`,
`OwnedFilesWhole`, `ApplyConverges` and `TrackedSections` allow any number of them where the
table does not say otherwise.

Liveness under fairness and `ENABLED` are out of the prover's reach, as is
induction over recursively defined data; `CommandsEnd`, `ComesUp` and `StopReturns` are
checked with TLC.

## 5. What the runs found

Four runs show a disagreement between the code and its own words.

* **`engine_late_restore`.** `engine.go:146`: "lock serializes concurrent applies". When a
  service does not reload, `main.go:164` restores the snapshot without the lock. A second
  apply that has written its files by then, and not yet returned, reports
  success over files that the first one has put back.
* **`accounts_stale_session`.** `auth.go:201`: "a role/password change must not ride on a
  stale session". A login that has verified the old password creates its session
  after the change has deleted the user's sessions: the session keeps the old role.
  `StaleSessionsEnd` shows that every other session does end, as long as the user file is
  not restored.
* **`accounts_two_wizards`.** `network.go:207`: "firstboot is one-way: once an account exists the
  wizard refuses to run again". Two wizards pass the check before either sets the
  administrator; the second overwrites the account. The same happens without an overlap
  when neither file can be read (`users.go:111-115`, `network.go:227-231` answer "no").
* **`stage_vlan`.** `v1.go:241`: "one vlan_id = one broadcast domain". The check compares texts,
  the rendering numbers: 020 beside 20 passes, and both services render the same trunk
  subinterface. `VlansApart` shows that equal texts never coexist, unless restored.

The models show more of the kind, without a run of their own. Each follows from
a budget that the passing runs leave at zero for the property, or from an exception
the property names:

* a restore after a failed reload puts back the files and not the manifest, so
  `TrackedSections` fails: sections generated before are unknown to it from then
  on and stay for ever, taken for the user's. The same after a rollback;
* `SaveLastGood` replaces the data files one by one and the index last; if a write
  fails, the old index stands over data of two snapshots;
* the second reload covers only the services of the failed apply (`main.go:168`), and an
  apply that undoes its writes reloads nothing, though another process may have reloaded
  them meanwhile: with two processes and a failing write or reload `SettledRuntime` fails;
* `Apply` reads sysfs once for the plan and once for the manifest
  (`engine.go:498`); with a hot plug in between, `TrackedSections` fails;
* a power cut between the files and the manifest leaves new sections that the old
  manifest does not list. The boot applies the same configuration and repairs
  it (`BootRepairs`) unless the configuration was edited once more in between;
* a file that cannot be read is rendered as if it were empty (`engine.go:231`): the
  user's sections in it are lost. Hence the assumption of `UserSectionsKept`;
* an apply that waits for the flock goes ahead with the configuration it loaded
  before, even if the show lock has been set since (`main.go:138`);
* an apply that is killed between its files and its reloads leaves the services with
  what they had. A second apply says "No changes." and reloads nothing
  (`main.go:147`); hence no kill in the runs of `SettledRuntime`;
* a rollback whose reload fails exits without another attempt;
* an edit that was loaded before a restore and saved after it undoes the restore's
  import (`network.go:192` takes no mutex); `EditsSerialize` excepts it;
* a restore of the user file revokes no session: those of before keep their roles and
  passwords (`auth.go:201` asks for the opposite of account changes). Nor does it look for
  a technician or take the mutex, so that an account change that crosses it undoes
  it (`network.go:183-204`); `AccountStore`, `StaleSessionsEnd` and `SessionsCurrent` have it as an
  exception or a condition;
* a restore looks at the names of packages only (`network.go:146-183`). A configuration
  without mgmt locks the operator out; one with a binding to nothing, or two services on
  one VLAN, gets what no edit could make. `MgmtReachable`, `BindingsBound`, `VlansApart` and
  `FilesAgree` hold up to that;
* the load of a sample is nonsense when idle fell since the one before, as the time
  waiting for I/O does now and then (`gather.go:76-78`): the difference is unsigned.
  `CpuInRange` leaves such samples out;
* an export that fails looks like a package that did not exist (`network.go:186`): if
  an import fails later, the rollback removes that package's file;
* a service can be deleted while forwardings name it (`v1.go:268-300`): the firewall
  file then forwards to a zone it lacks. Only bindings are looked at;
* a sample whose time equals that of the one pushed before is never pushed
  (`v1.go:452`), also when the clock was set back in between;
* an observer stays bound to the index its bridge had. If the bridge is deleted and
  made again between two slow collections, its name is still there, and the
  observer hears nothing from then on (`clockwatch.go:466`).

Read in passing, and not a property of a run: the `show` preset gives ST 2110 an MTU of
9000 as `docs/protocols.md:23` asks, the `video` preset 1500 (`presets.go:70`); a service
without a valid `vlan_id` renders as VLAN 1; an address derived from a VLAN over 255
is none (`render.go:136`); a forwarding called `mgmt_to_x` by a client shares its name with the
generated one (`render.go:289`); `report` hands out a map that the observer's loop goes on
writing (`clockwatch.go:173`).

## 6. Not modelled

* The web interface, the build scripts and vendored code.
* Conversions without state: parsing and printing of UCI text, JSON, netlink
  messages, password hashing.
* Handlers that only read and format or run one external command: NTP, discovery,
  logs, alerts, audit, interface lists, ping; the gatherers of `gather.go` and `ptp.go` but
  for the counters of the load. They keep nothing between two calls.
* The raw section API (`uci.go`): one `uci` batch and a commit, inside libuci. To the engine it
  is a raw edit of a live file. A commit that fails leaves its change staged for
  the next one; that staging area belongs to libuci.
* The contents of samples, so also `clock_domains`.
* What the packet socket receives between its creation and its binding, and the
  kernel's own treatment of VLAN tags.
* The tuning of network cards, signals and socket activation.
