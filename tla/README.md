# Formal models of stamusctl

TLA+ models of the parts of stamusctl whose correctness depends on the order of
things: the graceful shutdown of the CLI and of the daemon, the operations in
flight, the circuit breaker in front of Docker, the backups of a configuration,
its life under init, set and update, on Docker Compose and on NixOS, the store of
instances and logins, the templates that are pulled and included, and the REST
requests that meet on one configuration. TLC checks every model on a small
instance; TLAPS proves the safety properties for every instance that satisfies the
hypotheses named below.

Everything is translated from the Go code; paths below are relative to `src/`.

## The system

stamusctl is one Go module with two programs. `stamusctl` (`cmd/ctl`) is a
command line tool that creates, updates, backs up and runs configurations of the
Stamus network probe as Docker Compose projects (or NixOS configurations).
`stamusd` (`cmd/daemon`) offers the same handlers over a REST API. Both share the
packages under `internal/`.

| component | state it keeps | operations | what makes it correct |
|---|---|---|---|
| shutdown manager, `internal/shutdown/{manager,handler,exitcodes,global}.go` | an atomic state word, handlers under a lock, exit code, context, `done` | Register, Shutdown, TriggerShutdown, ListenForSignals | one shutdown, no accepted handler lost, priority order, `done` not early, the exit status tells the truth |
| operation tracker, `internal/shutdown/tracker.go` | map of cancel functions, wait group | Start, done, WaitForCompletion, CancelAll | a drained tracker means that operations ended; nobody waits for ever |
| daemon process, `cmd/daemon/run/root.go` | the HTTP server, handlers it registers | serve, fail, exit | goes down on every signal, with handlers run in order |
| CLI process, `cmd/ctl/root.go` | a counter of signals, a timer | run a command, exit | a signal stops what is safe to stop, and cuts nothing short before the user insists |
| REST requests, `cmd/daemon/run/{config,compose}` | a goroutine per request | get, set, up, down, restart | a value that was set stays, an up runs what is recorded, every request is answered |
| compose wrapper, `internal/docker-compose/wrapper.go` | a counter for IDs | the runner around each compose command | a command is refused or finished, never abandoned |
| Docker retries, `internal/docker/{retry,images,pull}.go` | circuit breaker | CanAttempt, RecordSuccess, RecordFailure, WithRetry | no retry storm, recovery |
| Docker objects, `internal/docker/{run,networks,delete,main}.go`, `handlers/compose/readPcap.go` | none | sequences of API calls | leaves no container behind |
| backups, `internal/backup`, `internal/handlers/backup` | directories named by time and type | create, list, restore, delete | nothing is lost, a restore is exact |
| clearing, `internal/handlers/config/clear.go` | the configuration folder | backup, compose down, remove | the backup is there before the folder goes |
| stamus store, `internal/stamus` | `config.json`: instances, registries | SaveLogin, AddInstance, RemoveInstance, GetInstances | an entry is not lost, a removed one does not come back, the file stays readable |
| compose handlers, `internal/handlers/compose` | files of a configuration | init, update, restart, info | a failed update leaves something that runs |
| configuration model, `internal/models` | parameters, values, includes | load, merge, validate, save | user's values survive an update |
| template registry, `internal/models/registry.go` | template folders, a cache of remote includes | pull, unwrap, include | a template directory is one version and whole, so is what is loaded from it |
| configuration handlers, `internal/handlers/config` | values of a configuration | get, set, list | the backup precedes the change |
| NixOS handlers, `internal/handlers/nix`, `internal/nix` | the configuration, `./result`, the running system | init, update, switch, diff, build-vm, iso, test | a switch applies what is recorded, a command uses what it has built |
| token, middleware, validation, completion, logging, utilities | a token; a cache with a time to live | read, refresh | shallow |

How they interact. Every compose command and every REST request passes the
compose wrapper, which asks the shutdown manager whether a shutdown is under way
and then enters the operation in the tracker. The manager calls the handlers that
the process registered: in `stamusd` the one that stops the HTTP server (100),
the tracker's (200) and the Docker client's (300); in `stamusctl` the tracker's.
The main goroutine sits in ListenForSignals, which starts a goroutine for the
shutdown and returns the exit status when `done` is closed. Every Docker call goes
through one breaker shared by all goroutines. Backups, restores, clears and
updates of different processes and requests meet in the file system; there is no
lock between them. All commands of a user share `config.json`, the template
folders and the cache of includes, again without a lock; all requests of the
daemon share a configuration's `values.yaml` and rendered files.

What is hard. Register tests the state under a lock that Shutdown does not take
when it changes it; the loop, the failed server and the signals store exit codes
that race; `wg.Add` is called outside the lock of the map; the test for a shutdown
and the entry in the tracker are two steps; the breaker's lock is released while
the Docker request runs; a restore deletes the configuration before the backup
is copied, so that a failure or a crash falls in between; files are truncated and
then written, and readers take an empty file for an empty document; pulls share one
scratch directory; and a container's removal is deferred after it may have failed. `PROJECT.json` lists
each of these hazards at its line with the properties that cover it.

## The modules

| module | code | state and actions |
|---|---|---|
| `GracefulShutdown` | what `internal/shutdown` promises | `phase`, `accepted`, `ran`, `late`; Accept, Drain, Invoke, TimeOut, Announce |
| `ShutdownManager` | `manager.go`: Register, Shutdown, TriggerShutdown | one action per atomic operation or critical section; `pc[p]` is where a goroutine is in Shutdown, `reg[h]` where the registration of `h` is, `mu` the holder of the write lock, `todo[p]` what is left of the snapshot |
| `DaemonShutdown` | extends the manager with ListenForSignals and `cmd/daemon/run/root.go` | the signal channel of capacity 2, the steps of the loop, the server goroutine, `os.Exit` |
| `OperationTracker` | `tracker.go` | Start and done() in two steps each, WaitForCompletion with the goroutine in `wg.Wait`, CancelAll |
| `ComposeDrain` | `makeCustomRunner`: extends the tracker, with the manager as an instance | the runner's check, Start and done() around the command; what each registered handler does |
| `RetryBreaker` | `retry.go`, with its uses in `pull.go`, `images.go`, `networks.go` and `delete.go` | the breaker; per caller the WithRetry it entered (`call`), a level of nesting, a step and the attempt of each level |
| `BackupStore` | `backup.go`, `clear.go` | directories as functions from file names to versions; copies and removals file by file; `job[p]` holds the local variables of a command |
| `ConfigParameters` | `internal/models`: `parameters.go`, `parameter.go`, the saving half of `config.go` | operators only: what a template declares, optional parameters (switches), choices, prompts and their answers, defaults, smart merge, and what is rendered and recorded |
| `ConfigLifecycle` | `handlers/compose/{init,update}.go`, `handlers/config/set.go`, `models/registry.go`, `SaveConfigTo` | template directories, `values.yaml`, rendered files; one action per step of a command between which it may fail or be killed (`Stop`); `Backups` is what the automatic backup may copy: the configuration itself if it lies where CreateBackup looks (`InStore`), else another one of its base name (`Other`) or nothing; `chosen`, `base`, `torn` are history |
| `StamusStore` | `internal/stamus`, with the commands that call it | `config.json` as a set of entries with a length; each change as a read, a truncation and a write; `folders` the configurations on disk. A name leads to a folder (`Home`), clear deletes one for it (`Stored`), and init is given one name and enters another (`Inits`) |
| `CliProcess` | `cmd/ctl/root.go`, extends `StamusStore` | the channel, the counter and the goroutine of signals beside the command in the main goroutine |
| `NixLifecycle` | `handlers/nix`, `internal/nix`, extends `ConfigLifecycle` | init and update as there, then the version file and the entry of `config.json`; `op[t]` the other commands, `result` the link they share, `system` what the host runs |
| `TemplateRegistry` | `models/registry.go`, the includes of `models/config.go`, `docker/run.go`, `readPcap.go` | directories file by file, images, the cache; `op[c]` the steps of a command, with its container |
| `DaemonRequests` | `cmd/daemon/run`, `handlers/{config,wrapper,compose}` | `values.yaml`, the rendered files and the services that run; `req[r]` the steps of a request, `restart[r]` its goroutines |

`MCx` gives module `x` its finite instance. The theorems are in modules of their own,
which extend what they are about: `ShutdownManagerProofs` (also about
`DaemonShutdown`), `OperationTrackerProofs` (and `ComposeDrain`), `RetryBreakerProofs`,
`BackupStoreProofs`, `ConfigLifecycleProofs` (and `NixLifecycle`),
`TemplateRegistryProofs`, `StamusStoreProofs` (and `CliProcess`) and
`DaemonRequestsProofs`.

`GracefulShutdown` is the abstract specification; `ShutdownManager` implements it
under the mapping `Phase`, which opens the registry until the *snapshot* of the
handlers, later than the change of state that IsShuttingDown reports: this is why
the race between Register and Shutdown is harmless.

Operators whose comment begins with "Mutant:" are not part of a specification.
Each is what a mapped action would be with a plausible mistake in the code, and
`PROJECT.json` names the property that the mistake breaks.

### Abstractions

- Time. A timeout is an action that may happen whenever it is armed. The 2 s of
  the signal loop are a choice made with each signal.
- Errors are what the code tells apart (`isTransientError`), handlers' errors are
  logged only and left out. Log messages and output are left out.
- A file's content in `BackupStore` is one of a few versions, and SaveConfigTo is
  one step there; its own steps are in `ConfigLifecycle`, where the backup store
  is one step in turn.
- Parameters are strings, with or without choices, booleans and switches;
  `ValidateFunc` accepts everything, and lists of choices, int parameters, `--values`,
  `--from-file`, the embedded template and the exemption of `suricata.interfaces`
  are left out. A prompt is answered by one of `Answers`, or not at all.
  `nestMap` and `viper.Set` are modelled by which of a key and the keys below it
  survive. ProcessOptionnalParams is the closed form of its loop.
- A version, once published, does not change; `latest` is any of them at each
  pull. A pre-run script prints `values.yaml` as it is, or nothing. Commands on a
  configuration run one after the other in `ConfigLifecycle`: the code has no lock
  that would make it so. `DaemonRequests` runs them at once, on a configuration
  whose keys are plain values, where rendering is one step.
- A command that names a directory after the clock is given a second of its own
  (`StartsNow`): the names have a resolution of one second, and two backups of a
  kind in the same second would share a directory.
- The folder that a name leads to, and the one clear deletes for it, are functions of
  the name (`Home`, `Stored`): a working directory that moves, and links, are left out.
- An entry of `config.json` is a member of a set; what two writers do to each
  other's text depends on its length, so every entry has one. A malformed file reads
  like an empty one, which is what GetConfig makes of it.
- In `TemplateRegistry` a file is known by the version it comes from. Remote files
  include nothing local, a run or a pcap has its image, and the interfaces cached in
  memory are left out. What Docker or a registry answers is a choice.
- Nobody answers a prompt in `NixLifecycle`. A build reads the folder in one step,
  although an update may render at that time; the property about the next switch
  speaks of the folder at rest.
- The wait group follows the contract of `sync.WaitGroup`, with its panic when it
  is reused while a waiter wakes up. `cp.Copy` of otiai10/copy and `os.RemoveAll`
  are external: file by file, merging into a directory that exists.

## The runs

| run | module, cfg | properties | shows |
|---|---|---|---|
| Manager | `MCShutdownManager`, `Manager.cfg` | OneShutdown, AcceptedIsScheduled, DoneMeansCleanedUp, PriorityOrder, KeepsPromise, ShutdownCompletes | Three goroutines call Shutdown and TriggerShutdown while three registrations race with them: one shutdown only, no accepted handler lost, priority order kept, the promise of GracefulShutdown implemented, and a shutdown that was asked for completes. |
| Daemon | `MCDaemonShutdown`, `Daemon.cfg` | ExitStatusHasCause, ExitIsClean, ThirdInterruptForces, DaemonExits | stamusd from the signal loop to os.Exit with up to three signals and a failing HTTP server: what the exit status says, when the process may go, and that it does go. |
| Tracker | `MCOperationTracker`, `Tracker.cfg` | DrainedMeansFinished, ActiveIsCancellable, WaitersAreReleased | Three operations and one WaitForCompletion, with done called twice and CancelAll at any time: no operation is forgotten, no wake-up is lost. |
| Drain | `MCComposeDrain`, `Drain.cfg` | DockerOutlivesRequests, WaitGroupNotReused, DoneMeansDrained | Compose requests against the daemon's shutdown: the check-then-Start gap is covered by the HTTP server's own drain. |
| Breaker | `MCRetryBreaker`, `Breaker.cfg` | OneLateRequest, RequestsAreBounded, FailedProbeReopens, BreakerRecovers | Two goroutines pass the uses of Docker through one breaker, one of them nesting WithRetry as the image check nests the pull: requests after it opened, requests per call, failed probes, and its recovery. |
| BackupStore | `MCBackupStore`, `BackupStore.cfg` | NothingLost, RestoreIsExact, BackupsAreFrozen | A user saves, backs up, restores, deletes and clears one configuration, with an I/O error or a crash at any step, while another deletes backups: nothing is lost, a restore is exact, backups stay what they were. |
| Config | `MCConfigLifecycle`, `Config.cfg` | ValuesAreExplained, OptionalChoiceKept, RenderedIsRecorded, LoadsWhatItWasWrittenFrom, BackedUpBeforeTruncated | init, set and update of one configuration between two versions of a template and `latest`, with a choice that the new version narrows and a prompt, killed or failing at any step: the user's values and switches, what is rendered, where it came from, and the backup before an update overwrites it. |
| Store | `MCCliProcess`, `Store.cfg` | LostOnlyByRaces, FoldersAreListed, UnreadableHasCause, InterruptsLetWritesFinish | Two CLI processes init, clear, list, log in and pull over one config.json, where the relative name of a configuration and the name entered for it differ, one of them interrupted by up to three signals: how entries get lost or linger, which folders stay listed, when the file is unreadable, and that only a user who insists cuts a write short. |
| Nix | `MCNixLifecycle`, `Nix.cfg` | NextSwitchIsRecorded, RunsWhatItBuilt | nix init and update of a configuration while two terminals switch, diff, build and test it from one working directory: what the next switch applies, and that a command uses the result it built. |
| Templates | `MCTemplateRegistry`, `Templates.cfg` | PulledIsWhole, LoadIsWhole, LeftoversHaveCause | Two commands pull templates into one folder, load parameters with their local and remote includes and run containers, while `latest` moves and any of them fails or is killed: whole templates, whole loads, no container left without a cause. |
| Requests | `MCDaemonRequests`, `Requests.cfg` | SetIsKept, AppliedIsRunning, RequestsAreAnswered | Three REST requests on two goroutines set, read, apply, stop and restart one configuration, failing anywhere and with the daemon killed: a value that was set stays, an up runs what is recorded, and requests are answered. |
| ConfigOptionalLost | `MCConfigLifecycle`, `ConfigOptionalLost.cfg` | CustomizedSwitchSurvivesUpdate | *violation*: A switch that is off by default and that the user switched on is off again after an update. |

The finite instances are the smallest in which each hazard can happen: a third
goroutine can arrive while one shuts down and one is between its check and its
return; three handlers give a pair with different and a pair with equal
priorities, one of them still being registered; three signals are what a forced
quit takes; three operations are one that ended, one that is ending and one that
enters the tracker while the waiter wakes up; two callers, one nested, make every
combination of an attempt admitted before an opening and recorded after it; three
directory names allow an older backup, a newer one and a temporary copy. Two file
names, one of them absent from one configuration, are what tells a merge from a
replacement.

`Config` needs a switch, a key below it, a plain key, one more key below and one
that is arbitrary in the first version and a parameter in the second; versions
with different defaults, of which the second limits the plain key to one choice;
and inputs that differ from a default, equal one, are refused by their type or by
the choices, switch off and switch on again. Commands are not bounded. Two
preconditions are in its constants and would not be met by every template: the
switch is on by default (`ConfigOptionalLost` shows what happens otherwise), and
no key is a textual prefix of another without a dot (then cleanOptionatedParams
deletes too much). No input switches on explicitly *and* leaves an unknown key
below the switch, which viper may drop.

`Breaker` gives one caller the nested check and pull and the other a lookup and a
removal of two requests: `Threshold` 3 is reached within one call or across two,
`MaxAttempts` 2 is what a retry takes. `Store` has a CLI in a working directory below
the folder of all configurations: `config` leads to a folder there, is entered under
its absolute name, and makes clear delete `config` below ConfigsFolder instead, while
the absolute name makes it delete the right one; one login and lengths that differ
(`MCSize`); one process inits and clears and is interrupted, the other lists, logs in
and creates the file; `MaxSignals` 3 is the least number that forces a quit, by three
SIGINTs or by a SIGTERM and two SIGINTs. `StoreNames.cfg` (`MCStamusStore`) checks the
same properties without signals on four names, the daemon's of a folder of the same
base name among them. `Config` sets `InStore`, as in the daemon's update or in a CLI
that works in the folder of all configurations.
In
`Nix`, `MaxBusy` 2 lets any two commands overlap, a terminal with the folder's
writer or two terminals, and `MaxChanges` 2 gives an init, an update and a command
after each. In `Templates`, `MaxJobs` 3 is a pull, one that fails after it or
overlaps it, and a load of what they left; the versions differ in a local include
and a script, which shows mixtures; `MaxIncludeDepth` 2 is the depth of the longer
chain. `MaxRequests` 3 is two requests that overlap and one that comes after them.

`CHECK_DEADLOCK FALSE` stands where a behaviour really ends: a process that has
exited (`Manager`, `Daemon`, `Drain`) or whose operations have all ended (`Tracker`),
the bounds on inits and updates (`Nix`), on jobs (`Templates`) and on requests
(`Requests`), and directory names that are used up (`BackupStore`). The others run
on.

### Fairness

`FairSpec` of the manager asks for weak fairness of each goroutine inside Shutdown
and of a registration that holds the lock: the Go scheduler runs them and handlers
return, because the server's and the tracker's end with their context and the
others close a client. Nobody has to call Shutdown. The daemon adds the signal
loop and the server goroutine. The tracker asks for the waiting side and for the
second half of Start and done() only: no operation has to end. The drain adds that
commands that have begun go on, which is Docker's doing. The breaker asks that time
passes and that callers go on calling. `DaemonRequests` asks for weak fairness of
the goroutine of each request and of those it waits for: the scheduler runs them and
Docker answers in the end, with an error if need be. No strong fairness is used.
Fairness is never put on signals, failing restarts, crashes or user commands.

### Findings

The run marked *violation* shows a place where the code does something else than
what its own comments say; `PROJECT.json` quotes the line.

- ConfigOptionalLost (CustomizedSwitchSurvivesUpdate, `src/internal/models/parameters.go:142`): A switch that is on is deleted from the parameters before they are saved, so values.yaml does not record it; the next update (or config set) falls back to the default, and when that is off the switch is off again and what is below it is dropped. src/internal/models/parameters.go:194 says "It only preserves values that were actually customized by the user" and :195 "A value is considered customized if it differs from the old template's default".

Further disagreements of that kind can be seen with configurations that are kept
beside the models, for example `tlc -config DrainCli.cfg MCComposeDrain`:

| cfg, module | what fails |
|---|---|
| `ManagerOverrun.cfg`, `MCShutdownManager` | `OverrunIsReported`: Shutdown looks at ctx.Err() before it starts a handler only, so a last handler that outlives the timeout leaves the exit code as it was (`internal/shutdown/manager.go:196`; exitcodes.go:23 promises ExitTimeout) |
| `DaemonDoubleInterrupt.cfg`, `MCDaemonShutdown` | `DoubleInterruptForces`: the first SIGINT counts 0, so forcing the exit takes three (`manager.go:134`; manager.go:119 speaks of two) |
| `CliDoubleInterrupt.cfg`, `MCCliProcess` | `SecondInterruptForces`: in the CLI too the first SIGINT sets the count to 0, the second within 2 s makes it 1, and the comparison is with 2 (`cmd/ctl/root.go:59-64`); root.go:48 says "second SIGINT within 2 seconds forces exit", and the message at :72 "press Ctrl+C again to force quit". `InterruptsLetWritesFinish` holds of the documented program as well as of this one: it says that only a user who insists cuts a write short |
| `StoreClear.cfg`, `MCStamusStore` | `ClearedIsGone`: HandleDown stops the configuration that a relative name leads to from the working directory, where init has written it; deleteFolder takes the name below ConfigsFolder, so that it stays and another of that name, if any, is deleted; and the entry stays, since clear.go:53 removes the name as given and init has entered the joined one (`internal/handlers/config/clear.go:69`; `cmd/ctl/config/clear.go:23` "Removes all Docker resources (containers, volumes, networks) and configuration files associated with a deployment") |
| `StoreAbsolute.cfg`, `MCStamusStore` | `FoldersAreListed`: init of an absolute name enters it joined to the working directory, where there is nothing; the list does not show the configuration and removes the entry (`internal/handlers/compose/init.go:208`; `cmd/ctl/config/list.go:16` "Displays all configurations that have been created with 'compose init'") |
| `ConfigBackupElsewhere.cfg`, `MCConfigLifecycle` | `BackedUpBeforeTruncated`: CreateBackup copies the base name of `--config` among all configurations (`internal/backup/backup.go:80`), not the folder that it leads to from the working directory; it fails with a warning or copies another configuration, and values.yaml is overwritten (`internal/handlers/compose/update.go:47`; `cmd/ctl/compose/update.go:24` "Creates a backup before making changes") |
| `DrainCli.cfg`, `MCComposeDrain` | `DoneMeansDrained`: in the CLI no HTTP server waits for the request, and a command may start after the tracker was found empty (`internal/docker-compose/wrapper.go:172`) |
| `BackupFailedRestore.cfg`, `MCBackupStore` | `FailedRestoreIsUndone`: the temporary copy is merged over what was restored before the failure (`internal/backup/backup.go:280`) |
| `NixBackupElsewhere.cfg`, `MCNixLifecycle` | `SwitchIsBackedUp`: CreateBackup looks for the base name in the folder of all configurations, where a folder named by `--config` need not be, and its error is a warning (`internal/handlers/nix/switch.go:37-44`; `cmd/ctl/nix/README.md:35` promises a backup before a switch) |
| `RequestsApply.cfg`, `MCDaemonRequests` | `SetIsApplied`: a set with `apply` reaches HandleUp with a path that HandleUp prefixes once more, finds no compose file and answers 500 with the values saved (`cmd/daemon/run/config/config.go:74`, `internal/handlers/wrapper/direction.go:18`; `pkg/deamon.go` says "Apply the new configuration, relaunch it") |

Observations made while modelling, which no document contradicts:

- In the CLI a signal that comes while TriggerShutdown waits is handled after it, so
  even a third Ctrl+C may wait; the process never exits with the manager's code.
- The count of SIGINTs is not reset by a SIGTERM: two SIGINTs, a pause, a SIGTERM and
  one more SIGINT soon after it force the exit.
- The daemon's init never makes a backup: it has joined ConfigsFolder to the name
  before it takes its base name, and looks for the old folder below ConfigsFolder twice.
- A login whose write of `config.json` fails is reported as successful (SaveLogin).
- `nix init` registers its folder as an absolute path, `nix update` as it was given:
  one configuration may have two entries, as after a `config clear` of a relative name
  and another init; `compose update` never updates the version.
- `config list` removes entries without a compose file, NixOS configurations too.
- The backup of a `config set --apply` in the daemon gets a path that
  ValidateProjectName refuses; in the CLI it is made after the values were saved.
- A container that cannot be restarted blocks its request for ever, since the
  goroutine sends on an unbuffered channel that is read after the wait; and errors
  would not be reported, because the length of an unbuffered channel is always 0.
- A file that is included twice, by two files, is refused as a circle
  (`internal/models/config.go:185`).
- A set that fails after rendering leaves files that differ from `values.yaml`, and
  a later up runs them. `AppliedIsRunning` excepts just this.
- An update does not validate choices, so it can save a value that every later set
  refuses; a set of a switch back to true is refused unless every key below is given.
- `sbin/` of the templates is never cleaned: a script of an old version survives.
- A switch that is off in a file given with `--values` stays on: the switches are
  processed before the file is read (`handlers/config/set.go:51-60`). `--from-file`
  on a boolean stores a string, and reading it back dereferences nil.

## What is proved

`ShutdownManagerProofs`, for any set of goroutines, handlers and codes and any
integer priorities (assumptions `PriorityAssumption`, `CodesAssumption`,
`NobodyAssumption`):

- `TypeCorrect`, `ShutdownRunsOnce`, `NoHandlerForgotten`, `DoneIsHonest`,
  `RunsInPriorityOrder`: the invariants `TypeOK`, `OneShutdown`,
  `AcceptedIsScheduled`, `DoneMeansCleanedUp`, `PriorityOrder`;
- `ManagerImplementsPromise`: every behaviour of `Spec` is one of
  `GracefulShutdown` under the mapping.

None of these invariants is inductive. `IInv` adds what holds between two atomic
steps: `LockInv` ties the write lock to the one registration that is between its
check and its append, and says that nobody holds it once a snapshot was taken or
`done` was closed (a registration checks the state under the lock, and the state
has changed by then); `OwnerInv` says that the one goroutine that won the
compare-and-swap owns the shutdown until it has closed `done`; `ListInv` says that
its list and the handlers that ran are the accepted ones without overlap, in
order. `ManagerInvariant` proves `IInv` action by action, and the theorems above
follow from it; the refinement has one step per action too.

The same module proves `DaemonShutdown`, for any number of signals and any handlers
(`DaemonAssumption`): `DaemonStatusHasCause` (`ExitStatusHasCause`),
`DaemonExitIsClean` (`ExitIsClean`), `DaemonThirdInterrupt` (`ThirdInterruptForces`).
`DaemonInv` is `IInv` with three parts. `CountInv`: signals are taken once each from
those sent, and a series of SIGINTs is at most one longer than the loop's count of it,
which starts at 0. `CodeInv`: the stored code has its cause, and one is stored before
any Shutdown starts, whoever overwrites it later. `ResultInv`: the process returns the
code it finds when `done` is closed, unless it was forced. The loop stores codes beside
the manager, so that the daemon is not a behaviour of the manager's `Spec`;
`DaemonShutsDownOnce` and `DaemonKeepsPromise` show that the manager's invariants and
the steps of its promise survive it. `DaemonReportsSkipped` adds what happens when one
thing alone brings the daemon down: a shutdown that skipped handlers exits with
`ExitTimeout` (`SkippedIsReported`, which no run checks and `SkipInv` makes inductive).

`OperationTrackerProofs`, for any operations and waiters: `NilMeansDrained`
(`DrainedMeansFinished`) and, if no two operations share an ID (`UniqueIDs`: the
runner's IDs carry a counter), `EveryOperationCancellable` (`ActiveIsCancellable`).
The invariant says that the wait group is the number of operations between their
Start and their done, which takes the library's facts on cardinalities, and that
what a released waiter had found is finished.

For the drain, `DrainImplementsTracker` shows that the runner uses the tracker as its
specification says, and in the daemon (`HttpServer \in Handlers`; without the server
`DrainCli` refutes them) hold `DockerClosedLast` (`DockerOutlivesRequests`),
`NoWaitGroupReuse` (`WaitGroupNotReused`) and `DaemonDrains` (`DoneMeansDrained`). The
argument is the order of the priorities: `PassInv` says that nobody who shuts down gets
past the server's handler before every request is answered, unless the timeout has
passed, and `AfterInv` that everything the later handlers do finds none.

`RetryBreakerProofs`, for any callers and any positive threshold and number of
attempts (`BreakerAssumption`): `NoRetryStorm` (`OneLateRequest`), `CallsGiveUp`
(`RequestsAreBounded`), `ProbeReopens` (`FailedProbeReopens`). `RequestsAreBounded`
speaks of a sum over nested loops and is not inductive: `CountInv` says for each
place of a caller how many requests it can have made, the attempts of the outer
level times those of the inner one, and the step between two levels is arithmetic.

`BackupStoreProofs`, for any files, contents and times, if one process does
everything and the others delete backups (`OneUser(u)`): `ConfigurationIsKept`
(`NothingLost`), `BackupsStay` (`BackupsAreFrozen`), `RestoredIsTheBackup`
(`RestoreIsExact`). The assumption is that of the run, and it is needed: of two
processes that copy at once, one makes a backup of what the other has half written.
The invariant has a part for each command of the user, which says what its local
variables know of the folder and of the copy in progress, file by file (`Partial`);
names are fresh until their second has come; and each configuration that is being
removed has a `Keeper`, a directory that nobody writes or deletes.

`ConfigLifecycleProofs`, for any templates, inputs and answers
(`ConfigAssumption`, `KeysAssumption`):

- `RecordedTemplateIsItsOwn` (`LoadsWhatItWasWrittenFrom`), `BackupComesFirst`
  (`BackedUpBeforeTruncated`, of an update, if `InStore`) and the types (`ConfigTypeCorrect`). The invariant adds
  that a version directory holds that version or is missing, and what a command's copy
  of the old file and its backup hold at each step.
- `RenderedFilesAreRecorded` (`RenderedIsRecorded`), of the behaviours in which no save
  holds a key and another one below it, the parameters of a switch excepted
  (`[]SavesUnambiguously`): `Spec` leaves open which of the two viper keeps, for
  rendering and for recording separately, since both go through a Go map.
- `RecordedValuesAreExplained` (`ValuesAreExplained`) and `SwitchChoiceIsKept`
  (`OptionalChoiceKept`), for templates that are `Tidy` and behaviours with
  `[]SavesTidily`. `Tidy`: a switch is on by default (on is recorded by omission, so a
  default of off is lost, see `ConfigOptionalLost`); what its name is a prefix of is
  what lies below it; switches have parameters below them and share none; versions
  agree on the types of their keys. `SavesTidily` adds to the above that no arbitrary
  key is saved above a parameter. `ExplainedInv` follows the choices through a command:
  `Explained` says what `values.yaml` records of them, and each step, collecting,
  merging, prompting and rendering, holds the parameters that `Fits`.
- `NestedConfigurationIsKept` has all three of every behaviour: if only switches have
  keys below them (`NestedBySwitches`), all of them parameters, and no input gives a
  switch together with everything below it, then saves are tidy.

The `Config` run's instance satisfies `Tidy`, and its behaviours `[]SavesTidily`, so
these hypotheses are met where TLC checks the same properties without them.

For NixOS, `NixKeepsFolder` shows that `NixSpec` implies the `Spec` of `ConfigLifecycle`
(registering, rendering the version and the commands of other terminals are stutters),
so that `NixRecordsItsTemplate` and `NixBackupComesFirst` are the first two theorems
again. `ResultIsItsOwn` is `RunsWhatItBuilt`, for any number of terminals.
`SwitchAppliesWhatIsRecorded` is `NextSwitchIsRecorded` under `[]SavesUnambiguously`,
with an invariant for the version file, and `NestedSwitchAppliesWhatIsRecorded` under
the hypotheses on templates and inputs.

`TemplateRegistryProofs`, for any versions, files, includes and commands
(`TemplatesAssumption`: no version is called `data` or `sbin`, the other names in the
folder): `PulledStaysWhole` (`PulledIsWhole`), `LoadedIsWhole` (`LoadIsWhole`),
`LeftoversAlwaysHaveCause` (`LeftoversHaveCause`). A pull rewrites its directory file by
file, so the invariant says what an undisturbed one has written at each step
(`Undisturbed`); that an undisturbed load has read what lies in the directory and will
read all it includes (`LoadInv`); and that a cache file is empty only while it is filled
or after that was cut short (`CacheInv`).

`StamusStoreProofs`, for any processes, names, folders and lengths of texts, whatever
folders the names lead to: `NothingLostUnnoticed` (`LostOnlyByRaces`: what was entered
and not removed under the same name is there) and `ReadableAtRest`
(`UnreadableHasCause`). `FoldersListed` (`FoldersAreListed`) has a hypothesis,
`NamesAgree`: an init enters a name of the folder it has written, and clear deletes the
folder of a name that may be entered, or refuses it. The invariant is about the time
before the first mishap: one process at most is between its truncation and its write,
it has read what is due, and the folder of a name that is about to be removed is gone or
being written again (`FolderKept`). `CliKeepsStore` shows that `CliSpec` implies `Spec`,
and `SignalsLetWritesFinish` is `InterruptsLetWritesFinish` for any number of signals:
the counter passes 1 only after a SIGINT that was taken.

`DaemonRequestsProofs`, for any requests, keys and values: `SavedValuesStay`
(`SetIsKept`). The invariant says that two sets at once have marked their keys, and
that whatever else a request holds for values is, for keys nobody raced on, what
was kept (`HeldInv`). `AppliedRuns` (`AppliedIsRunning`) needs more, `ApplyInv`: as long
as no two sets have overlapped, the rendered files agree with `values.yaml` except while
a set is between the two writes, and an up that is alone works with them.

Every invariant and action property of the passing runs is stated by one of these
theorems. Only model-checked are liveness (`ShutdownCompletes`, `DaemonExits`,
`WaitersAreReleased`, `BreakerRecovers`, `RequestsAreAnswered`), as the prover has no
rule for fairness and ENABLED, and of course the findings.

The modules that state a type invariant satisfy it: for `ShutdownManager`,
`DaemonShutdown`, `OperationTracker`, `RetryBreaker`, `ConfigLifecycle`, `StamusStore`
and `CliProcess` by these proofs, for `ComposeDrain` and `BackupStore` on the instances
of the runs. They are not among the runs' properties, where each has to say something
that a type does not.

## What is not modelled

`PROJECT.json` lists every component with its status. Left out for good: logging,
path helpers, string validation, the generated API documentation, packaging and
VM tests (no state or pure output), completion (a suggestion may be stale), the
token (a string that one goroutine replaces and others read unsynchronised, on which
nothing else depends), the installer and `nix status` (remote machines, output).
Of the partly modelled components: flags, routing, middleware and the rate limiter
of the daemon, uploads and files that the user copies into a configuration, values
from files, int parameters and ValidateFunc.

## Limits, and where to go on

- Two keys of which one is a textual prefix of the other without a dot
  (cleanOptionatedParams, `parameters.go:153`, takes the second to be below the first),
  and an unknown key below a switch that is passed as true, need a model of viper. The
  hypotheses of `RecordedValuesAreExplained` exclude both.
- `ConfigurationIsKept` assumes that one user works beside deletions (`OneUser`), and the
  theorems on templates and sets speak of the commands nothing overlapped: the code has
  no lock that would give more.
- init and update as requests, at once with a set, would join `ConfigLifecycle` and
  `DaemonRequests`.
- `BackupStore` and `ConfigLifecycle` each take the other for one step (see
  Abstractions); a common refinement of both is not stated.

## Running

    tlc -config Manager.cfg MCShutdownManager
    tlapm ShutdownManagerProofs.tla
