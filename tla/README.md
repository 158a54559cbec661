# A TLA+ model of kvmrun

kvmrun manages QEMU-KVM virtual machines on a host: the daemon `kvmrund` serves a
gRPC API, keeps one configuration file per machine, talks QMP to the running QEMU
processes, and moves machines between hosts. This directory models the parts of it
that are hard to test: what keeps concurrent requests apart, what a change of a
machine leaves behind when a step of it fails, the life of a machine under systemd,
live migration, backups, the host's side of the network, and the way of a request from
a command line or an HTTP call to the function that serves it.

## 1. Inventory

| Part | State it keeps | Operations | What is hard about it |
|---|---|---|---|
| Task pool (`server/background_tasks.go`, library go-task) | live tasks, their targets and labels | start with retries, run, cancel by label | concurrency; bit masks; giving up |
| Machine handlers (`server/machine/*.go`) | none of their own | attach, detach, set, remove for each kind of device and resource | read-modify-write cycles; a live change followed by a stored one |
| Stored configuration (`kvmrun/instance_conf.go`) | the JSON file | read, change, save | the file is rewritten in place |
| Running instance (`kvmrun/instance_qemu*.go`) | QEMU's devices, read by QMP | hot-plug, hot-unplug, limits | several commands per operation, some not awaited |
| Outgoing migration (`server/machine/migration.go`) | goroutines, channels, mirror jobs | BeforeStart, Main, OnSuccess, OnFailure | three goroutines, four kinds of failure at any time |
| Incoming migration (`server/system/incoming_migration.go`) | volumes, unit, NBD server, connection counter | the same hooks | must undo a half-done preparation; source may vanish |
| Termination (`server/system/instance_termination.go`) | none | cancel tasks, `cont`, powerdown or quit | runs beside a migration |
| Registration, deregistration (`server/system/instance_*register.go`) | QMP monitors | called by the launcher | kvmrund may restart meanwhile |
| Power control, launcher (`server/machine/power_control.go`, `cmd/launcher`) | systemd units, the down file | start, stop, restart, reset | three processes and systemd |
| Backup (`server/machine/backup.go`) | backup job, bitmap | start, poll, fail | guest goes away under the job |
| Monitor pool (`internal/monitor`, `server/server.go`) | open QMP sockets | connect, reconnect, run | stale entries |
| Device pool (`kvmrun/internal/pool`) | ordered map | append, insert, remove | positions at the ends; two names per disk |
| Host network (`server/network`, `internal/hostnet`) | schemes on disk, interfaces | create, update, remove, configure | file and kernel may disagree |
| Users (`internal/osuser`, `internal/flock`) | user database, lock file | create, remove | concurrent creations; a lock with a time-out |
| Media and cloud-init (`kvmrun/instance_qemu.go`) | media in QEMU, files in the chroot | change, remove | two places that must agree; the old medium |
| gRPC services, gateway, API messages (`services`, `api`) | none | decode, convert, call, map the error | two ways in; fields moved by hand |
| `vmm`, `vnetctl`, hooks (`cmd`, `client`) | none | commands of several requests | zero or unset; order; stopping at an error |
| cloud-init, QEMU command line, disk backends, cgroups, LVM, netstat | none | formatting, parsing, kernel calls | not stateful |
| `gencert`, `printpci`, `netinit` and other tools | none | one-off commands | not stateful |

How they interact: a gRPC call becomes a task of the pool; the task's function is a
handler, which reads file and QEMU (`MachineGet`), works on QEMU through the monitor
pool and saves the file. A migration is a task on each of two hosts; the source calls
the destination's API to start and to cancel the other task, and everything else
between them goes through the two QEMU processes. The launcher and the shutdown
helper run under systemd and call the API of the local `kvmrund`.

What makes the parts correct: two tasks that touch the same thing are never live
together; a change that was answered is in the file, and in QEMU when it was made
live; a guest that is migrated exists once, on one of the hosts, with all its data;
every task ends; a failed task leaves what it found.

## 2. Modules

| Module | Models |
|---|---|
| `TaskPool` | `taskStart` and the pool, with the targets and labels of every API operation |
| `Users` | `CreateUser`, `RemoveUser` and the lock file between them |
| `Handlers` | the handlers of `server/machine`, each by the class it blocks and its effect on QEMU and file |
| `MachineConf` | `TaskPool` with the bodies of the handlers, the file, QEMU, crashes |
| `DiskPool` | the ordered pool of a machine's disks, with its two names per disk, saving and reading |
| `Hotplug` | attaching and detaching devices of a running machine, command by command |
| `Media` | media of the cdrom and the cloud-init drive: QEMU, chroot, images that are rebuilt |
| `Resources` | memory and processors: stored limits, QEMU, balloon, hot-plug, registration |
| `Lifecycle` | files, systemd unit, launcher, QEMU, monitors, registration and termination, power requests |
| `Backup` | one disk's backup: task, job, bitmap, node, result file, watching client |
| `Handover` | abstract specification of a migration: the guest changes hands once, with all its images |
| `MigrationHosts` | the two QEMU processes, mirror jobs, connections, gRPC call (external) |
| `SourceMigration`, `IncomingMigration` | `MachineMigrationTask`, `MachineIncomingMigrationTask` |
| `Migration` | both tasks, QEMU, cancels, shutdown of the source, crashes |
| `NetworkSchemes` | `config_network`, the calls on it, and what of it is applied to the host |
| `RouterLink` | the netlink requests for a routed interface |
| `BridgePorts` | the bridge and the vxlan device that several interfaces share |
| `ApiMessages` | the messages of the six gRPC services |
| `Gateway` | the HTTP routes: which method a request reaches with which message |
| `Services` | every method: its decoding, the function it calls, the status it answers |
| `Rest` | a caller over gRPC or HTTP, with `Services` and `Gateway` |
| `Client` | the commands of `vmm` and `vnetctl` and the interface hooks, with `Services` |
| `TaskPoolProofs`, `UsersProofs`, `MachineConfProofs`, `MigrationProofs`, `LifecycleProofs`, `BackupProofs` | theorems about the module of that name |
| `MachineProofs` | theorems about `DiskPool`, `Hotplug`, `Media` and `Resources` |
| `HostNetworkProofs` | theorems about `NetworkSchemes`, `RouterLink` and `BridgePorts` |
| `MC*` | instances for TLC |

`MCExclusion`, `MCMachine`, `MCHostNetwork` and `MCApi` each instantiate several
modules that share no variable. The parts do not act on each other in the code either
(requests for one machine are one at a time; the user database, a bridge and a scheme
are different objects), so one part moves while the others are in their initial
states: the instance checks each part by itself, in one run.

### TaskPool

An `OperationMode` is a bit mask; the model uses the set of its bits, so that
"the masks intersect" is set intersection. A map of targets is total over the objects,
an absent key blocking nothing. A client is a caller: `Request` is the call of
`TaskStart` or `TaskRunFunc`, `StartTask` an attempt, `Retry` what `taskStart` does
with a `ConcurrentRunningError` (a long-running task on one of the objects ends the
loop, otherwise up to ten attempts), `Finish` the end of the task. `CancelGroup` is
what `InstanceTerminationTask` does first. `Restart` is a new `kvmrund` with an empty
pool. The pool itself is a library and modelled from its use.

A disk has a path and a base name, and a request may give either. `Disks` are base
names, `Paths` the paths, `BaseName` leads from one to the other. A backup names its
object by the base name (`BaseOf`), `DiskRemoveQemuBitmap` by the name as it was given:
a removal by path therefore runs beside a backup of the disk. That two live tasks never
block a common class on one object (`Exclusion`) is the pool's own doing and only a lemma
here; `ChangesAreApart` is about this code: what the tasks change, stated apart from the
targets (`Changes`, `Needs`), is covered by the targets the handlers name, except for the
removal by path (`BitmapStays` in section 5).

Worth knowing: `BitmapRemove` names the object `vm:disk`, and the long-running label
looked up for it is `vm:disk/long-running`, which no task carries. A removal that
collides with a backup is therefore retried for ten seconds and answered with the
bare collision, never with "locked because the backup process is in progress". The
model has this behaviour (`Locked` looks at machines only).

### Handlers and MachineConf

A slot stands for anything that is changed by name, with its parameters as its value.
A handler is a triple: the class it blocks, the effect in QEMU, the effect in the
file. `Load` is `MachineGet`; `LiveChange` and `LiveChangeFails` are the call on
`vm.R`; `ConfRefuses` and `NothingToSave` the call on `vm.C`; `SaveTruncates`,
`SaveWrites` and `SaveFails` are `vm.C.Save()`. Any live change may fail before or
after it took effect. `Boot` and `PowerOff` happen outside the pool, at any time.
Handlers of the same shape are one element of `AllHandlers`; the run explores every
shape on two slots.

A device that the guest was asked to give up is in `leaving` until it does (`Release`),
at any later time: after a wait that timed out, or after the answer, since the removal of
a vsock device is not awaited (effect "release"). What an answer promises is `Promise`
for the file and `LivePromise` for QEMU. A disk that is attached already gets only its
limits (`DiskAttach` for the disk, `DiskAttachLimits` for the limits, two slots).
`FirmwareSet` drops the errors of its two setters: what was asked for is stored, or
something else is (effect "overlay"), and "bios" and "legacy" change nothing at all
(`FirmwareSetLegacy`, effect "ignore"), which is answered as done.

`stored` and `plugged` are history variables: for each slot, the contents that the
answered changes allow. While a slot is being changed everything is allowed.

Not claimed, because it is false of this code: that the file is always readable. A
crash or a full disk between the truncation and the write leaves a file that no
handler and no launcher can read (`LoadFails` is then the only step of a handler).

### Migration

`SourceMigration` has the task's hooks in `main`, the two mirroring processors in
`proc`, `migrateMachineState` in `mover`. Channels are only ever closed, so they are
a set. The group's context is done once a goroutine returned an error or the task was
cancelled; where a `select` has two ready branches both are possible. The order that
Go fixes is kept: the deferred `close(vmstateMigrated)` runs before the errgroup
records the error (`MoverCloses`, then `MoverReturns`).

`IncomingMigration` has the preparation in single steps, each of which may fail and
lead to `OnFailure`, then the two polling loops, the monitor of connections, and the
final hooks. `MigrationHosts` has QEMU as far as QMP shows it. QEMU is started
without `-S` at the destination, so the guest resumes there as soon as its state is
loaded; `OnSuccess` sends `cont` once more. The capability "return-path" is not set, so
the source is done when it has sent the state (`StateCompletes`), and whether the
destination can load it shows later (`StateArrives`, `stream`). `OnSuccess` does not wait
for that: it quits the source, and only the removal of the configuration depends on the
destination (`QuitOnlyIfLoaded` in section 5).

`synced` has the images whose mirror was ready once, `broken` those of them whose mirror
failed or was cancelled before the guest left. The processors look for a job that is gone
once a second, and a failed `block-job-complete` is only logged, so the guest may leave
with a broken mirror; the wait for the completion of the jobs ends at the first one that
was aborted (`Drained`). A mirror that is ready is taken to pass on every write; QEMU
before 6.0, for which the code does not ask for the copy mode "write-blocking", may lag
behind until the job is completed.

`Migration` adds a user who cancels, the shutdown of the source, which the pool does
not keep apart from a migration (it has another object), and crashes of either
`kvmrund`.

`Handover` says what all this amounts to: images are brought into sync, and may be lost
again, then the guest changes hands, then the source goes down, then it is removed, and
the migration may stop anywhere between. `Owner`, `synced \ broken`, `broken` and
`SourceMachine` map the detailed state to it.

### DiskPool

The pool is a list of keys and a map (`pool.go`); a disk's key is the base name of
its path, and the handlers ask for it by base name or by path (`Found`, as `Get`,
`Exists` and `Remove` of `DiskPool` do). `Attach`, `Detach` and `SetLimit` are the
changes of the stored pool by the handlers of the same name, `Reload` the save by one
handler and the reading by the next. The read and the write limit are one value:
both are set in the same way. The loops of `slices.DeleteFunc` and `UnmarshalJSON` are
recursive functions of the number of elements done. QEMU's part of these handlers is in
`MachineConf` and `Hotplug`.

### Lifecycle

One machine: `files` (directory, configuration, user, unit link, down file, chroot),
the `unit` with its main process (`main`: the launcher in its stages, then QEMU), and
`kvmrund` (`up`, the monitor pool `mon`, the tasks `reg` and `term`, one API request
`req` as the steps left of it). systemd is external: a unit of type simple that runs
`launcher stop`, SIGTERM and `launcher cleanup` when its main process ends or it is
stopped, and keeps one queued start (`job`). A request for a power change, a creation
or a deletion is a sequence of steps, between which everything else may happen, and
each of which may fail: with or without its effect (`UnitStep`, `StepFails`), a removal
half-way (`RemovalFails`, `Remainder`). An error ends the request or is passed over, as
the code has it (`Ignored`, `Failed`). `crashes.cut` records that a removal failed, or
that a crash cut a creation or a deletion short. Crashes of `kvmrund` (the pool of tasks
and monitors is lost, then reconnected as far as that succeeds) and of the host are
bounded.

Not promised, because the code does not give it: a restarted `kvmrund` may keep a
monitor to a QEMU that ended before it answered requests; `Delete` may remove the
directory from under a cleanup; a crash of the host leaves the chroot; a crash between
user and configuration in `Create` or `Delete`, an error of `RemoveUser`, which `Delete`
ignores, or one of `os.RemoveAll` after it, leaves one of them, and the name can then
neither be created nor deleted (`UserIffConf` in section 5).

### Users

`CreateUser` in its steps: the lock file with its time-out, the search for the first
vacant UID, `useradd`, the release. `RemoveUser` takes no lock. A time-out may fire
while the lock is being got, and also while it is free.

### Hotplug, Media, Resources

`Hotplug` has for each device the set of its parts that exist (node, backend, device,
tap, file). A request walks through the steps of its kind; any step may fail, a wait
for the guest may time out, `kvmrund` may restart, and the guest releases a device when
it likes. `ReadableOf` is what `initDiskPool` and `initNetIfacePool` demand of the parts
of a device; `half` records the devices whose attachment ended at the one place, between
backend and device or between device and file, after which the code cannot read them.

`Media` has what QEMU has inserted and what the chroot holds, with versions of
images that may be rebuilt under their names. Reading the machine first, with a
goroutine for each pool, is part of every request.

`Resources` has the limits in the file, in QEMU and in the guest. Requests are single
steps because the pool keeps them apart; the guest, which gives processors up in any
order, and the registration task, which sets the balloon, run beside them. Sizes are
MB; `UintMB` is where a 32-bit number of bytes wraps.

Not promised: a detach removes the node first, so a disk whose removal timed out works
without it; a device the guest releases after the time-out of a removal may be
reported as connected by the attach that follows; `DiskAppend` removes the node of a
disk in use when it is asked for it twice with an error in between; a request for
processors while others are leaving counts the leaving ones.

### Backup

The task and its hooks (`task`), the job in QEMU (`job`, with the blocks it has to
copy), the bitmap, the target, the node in the chroot, the result file (`stat`) and a
client that watches by label. The guest writes at any time. `CompletedIsSnapshot`
compares the target with the disk as it was when the job started.

Not promised: a full backup that failed or was cancelled leaves its bitmap, and the
incremental one that follows completes on a target that never was complete (`chain`
records this); a job whose completion is older than the second of the clock is
reported as failed; one that failed before that second, and whose completed event comes
after it, as completed (`ended.how = "unseen"`, `NeverMistaken` in section 5). The mapping
of the device may fail with or without the node being made, the cancel in `OnFailure` may
fail, and any poll may end with an error (`PollFails`).

### NetworkSchemes, RouterLink, BridgePorts

`NetworkSchemes` keeps values with their Go types, because a number that was read from
JSON has another type than one that was set. Calls on the file (`conf`) exclude each
other, calls on the host (`net`) exclude each other, and one of each may overlap, because
they lock different objects; the history variable `overlap` says that one did, until
the next call that runs alone. The file is truncated before it is written: a write that
fails leaves the old file, the new one, or one that cannot be read (`Spoiled`), and then
every later call fails (`ReadFails`). Functions of `internal/hostnet` are single steps
there and are taken apart in the other two modules.

`RouterLink` has one tap with its rules, addresses, routes, limits, class and record, and
two callers: "conf" is `UpdateConf`, which applies a change, "net" is
`ConfigureHostNetwork` or `DeconfigureHostNetwork`. Their requests interleave. Every
request may fail; those of `RouterDeconfigure` fail silently, and leave what they were to
remove. A call is `clean` while no other has run beside it and no request of a removal has
failed; `next` marks a removal that follows an answered configuration at once. The tap
may go and come between any two requests.

`BridgePorts` has several taps on one VNI, with devices known by index; `raced` says that
calls overlapped.

### ApiMessages, Gateway, Services, Rest, Client

A message is a function from field names to values; a value names where it comes from,
so that exchanged or dropped fields are visible. `Marshal` drops zero values, as
proto3 does. `Gateway` has the patterns in the order of their registration and tries
them from the last to the first. `Services` has one action per method: the function of
`server/` it calls, with the arguments it makes of the message; the function may
return any error. `Rest` has a caller who wants a method called, over gRPC or HTTP.
`Client` has one action per command: the flags typed are chosen freely, the requests
are the ones of the functions in `client/`. What the called functions do is the
business of the other modules.

`EveryFieldReachesItsArgument` leaves out the fields the code ignores (`Unused`):
`Create` ignores `persistent`, `extra_files`, storage, network, sockets and machine
type, `Reset` ignores `wait`. `NothingAskedIsLost` leaves out the flags named in
section 5.

## 3. Runs

| Run | Shows |
|---|---|
| `exclusion` | tasks that change the same thing are never live together, labels are unique, every request is answered; no two users share a UID and every call returns with the lock free |
| `machine_conf` | no lost update, live changes stay, a migration sends the current configuration |
| `migration` | the safety of a migration under cancels, shutdown, crashes, broken mirrors and a state that is not loaded; the images are in sync when the guest leaves, unless a mirror broke; it implements `Handover` |
| `migration_liveness` | both tasks end |
| `lifecycle` | an answered Stop lasts, nothing is left of a stopped machine, a machine is created and deleted as a whole |
| `machine` | sound pool of disks, answers about devices and media hold, leftovers are harmless, limits in order, the first processors |
| `backup` | a completed backup is the disk at one moment, nothing is left behind, the result is the watched task's |
| `backup_ends` | every backup task ends, if QEMU goes on with its job |
| `host_network` | file and host agree, a routed link is as asked, interfaces of one VNI are connected and the last one clears up |
| `api` | HTTP and gRPC are the same call, every field and flag arrives, commands stop at an error |
| `migration_complete`, `schemes_types` | two places where the code does not do what it says (section 5) |

Properties that belong together are conjunctions of named parts (`PoolIsSound`,
`AnswersHold`, `LinkIsAsAsked`...); each part has its own comment in its module. The
type invariants (`TypeOK`, `PlugTypeOK`...) are for the proofs (section 4).

Bounds. `exclusion`: two clients, one machine, two disks, one of which has a path too, and
two attempts instead of ten give every collision, retry and refusal of a pair, and
liveness; more than two clients are covered by the proofs. Three machines that create users meet on the lock, behind it
and after a time-out; four UIDs, two of them taken, include a full range.
`machine_conf`: two attempts, two starts of QEMU (a device of the first must not be said of
the second), and only the kinds of task that touch the configuration; two slots
distinguish "mine" from "another's", and one value is enough to tell a slot that was
changed from one that was not. With two values the run is too long for a regular one; the
proofs hold for any. `migration`: the processors for
flash and disks are two already; a second disk adds nothing to the channels; `ConnLimit`
is 1 instead of 12. `lifecycle`: two main processes (a leftover of the first meets
the second) and one crash. `machine`: four paths of which two share a base name, a
device of each kind with four requests and two failures (attach, failed detach, detach,
attach again), four changes of media with two failures and two rebuilds, three settings
over three sizes and four processors. `backup`: two blocks and two writes (before and
during the copy), three tasks (full, incremental, repeated), one fault.
`host_network`: three calls on a scheme (create, then an update beside a configuration or
a removal), three calls on a tap that may be replaced once, with two prefixes, one of them
wide, five tasks on two taps. `api`: every
method and every command, with at most two fields or three flags chosen at once, since
fields and flags interact in pairs and a `oneof` makes three.

Symmetry is declared for values, slots, blocks and taps, which the modules only compare.

Deadlock is checked in `exclusion`, `machine_conf` and `api`, where some request can
always be made. In the others a bounded history ends, and a finished migration stays
finished.

Fairness. `TaskFairness`: the loop of `taskStart` goes on, and a task's function
returns. `UserFairness`: each call of `CreateUser` and `RemoveUser` goes on; a lock
that stays taken is left by its time-out. `FairSpec` of `Migration`: each goroutine that
can go on does; tickers fire; a mirror job and a state transfer end, well or badly, and
a job whose target is gone fails; a call that was answered returns. `FairSpec` of
`Backup`: the task's steps go on, and so does QEMU's job: QEMU is taken to go on with what
it can do. Nothing is assumed of users, guests,
crashes, time-outs of waits and spurious errors: they may never happen.

Operators introduced by "With a bug" or "Mutant" are variants of the definition that
follows them. No specification uses them; put in its place, each makes one property
fail, which shows that the property depends on that piece of the code. The pairs are
listed in `PROJECT.json`.

## 4. Proofs

The proofs are for any sets of clients, machines, disks, slots, values, blocks, taps
and images, and for any natural number as the bound of a counter, so a bound limits no
result. Each invariant below is a conjunction of named parts; it was checked by TLC on
the instance of section 3 before it was proved, and its proof has one lemma or step per
action. The properties themselves are mostly not inductive: they speak of answers, and
what makes an answer true is what the steps before it have read or made.

Assumptions on the constants, each in the module that declares them:
`AttemptsAssumption` (at least one attempt), `PathsAssumption` (every path has a base
name, and no path is one), `UidAssumption` (a range of numbers, and
finitely many users before), `NoneAssumption` (an empty slot is no value),
`InstancesAssumption`, `BoundsAssumption`, `PortAssumption` (bounds are numbers),
`FlashAssumption`, `IncomingAssumption`, `OptionsAssumption`, `EnvironmentAssumption`
(options are Boolean, the flash is not called as a disk, netstat is asked at least
once), `HotplugAssumption` (every device has a kind), `MediaAssumption` (a medium is a
block device, a remote one or an image, and not two of these), `ResourceAssumption`
(sizes and processors are positive), `BaseNameAssumption` (every path has a base name,
no base name is a path, positions are integers), `BackupAssumption` (finitely many
blocks, -1 is none), `SchemeAssumption` (an address is wide, refused or neither), `CallsAssumption`
(what the API can ask for).

**TaskPoolProofs.** `TaskTypes` is inductive. `Exclusion` is so relative to it (lemma
`MutualExclusion`): only `StartTask` adds a live task, after comparing it with all others;
`CollideSymmetric` covers the other order of a pair. With `PendingNamed` (whoever waits or
runs has an operation of the API) it gives `TasksAreKeptApart` and `LabelsAreUnique`, by
cases of the operations: each pair of which one changes what the other needs has an object
and a class of operations in common, which for a disk takes that `BaseOf` of a path is what
the other names.

**UsersProofs.** `UidsAreUnique`. The lock file is held by the one call that searches or
adds (`HolderIsInside`), so what it has chosen stays vacant (`ChosenIsVacant`), although
`RemoveUser` takes no lock. That the walk through the range ends at a vacant uid, or
after the range, is a lemma by way of a least number. `UserTypesHold` are the types, with
one holder of the lock at most.

**MachineConfProofs.** `HandlersUseThePool` shows that the composition implements
`TaskSpec`; with it the theorems about the pool hold here. A handler past `Load` is live
(`BodyIsLive`), so by `Exclusion` no other handler changes its machine, and its copy of
the file is current (`ReadIsCurrent`), as is what it did in QEMU (`LiveIsCurrent`); no
answer says that a device on its way out stays (`LeavingIsKnown`).
`NoUpdateIsLost`, `LiveChangesLast` and `MigratedConfStaysCurrent` follow, and
`ConfTypes`, from the same invariant.

**MigrationProofs.** `HandOver` says that the state changes hosts by the completion of
its transfer and by nothing else; `SourceGuest` where the guest is on the source
meanwhile; together they give `GuestIsOnOneHost` and `GuestIsNotLost`.
`ChannelsTellTheTruth` ties the channels to the mirror jobs, for those who still wait for
them only, because a channel is closed on errors too (section 5); with `BreaksAreSeen` (an
image that was in sync is so until its mirror breaks) it gives `ImagesAreInSync`, an action
property. `SuccessIsHandOver` and `RemovalIsLast` give `SourceIsGivenUpLast`,
`VolumesAccounted` gives `FailureIsCleanedUp`. `MigrationImplementsHandover` is the
refinement of `Handover`: `StateCompletes` changes hands (the transfer runs only once all
images have been in sync, and completes once), a mirror that becomes ready is a `Copy`, one
that breaks, or is cancelled, a `Lose`, `QuitSource`
and `RemoveSource` let the source go in this order, and each of the other
steps, of either task, QEMU, a shutdown or a crash, leaves all four alone.
`MigrationTypes` are the types.

**LifecycleProofs.** A request is the list of its steps left, in the order of its program
(`Ordered`), and `LifeInv` reads from the list what the files are, also after a step that
failed: `FilesInv` for directory, configuration, user and unit link, `StopInv`
for the down file that no launcher gets past, `UnitInv` for what a launcher needs to
clean up after itself. Theorems: `LifecycleTypes`, `StopIsKept`, `StopLeavesNothing`,
`MachineIsWholeOrGone`.

**MachineProofs.** `Resources`: `LimitsStayInOrder` is inductive with the types;
`FirstProcessorsStay` needs that the first processor is never asked for and that those
which stay are an initial part of the list (`FirstStay`), and counts them. `Media`:
between reading, opening and changing, the new medium is in the chroot (`NewIsThere`),
no older than asked for (`CopyIsCurrent`), and every image there is accounted for
(`ImagesAccounted`); theorems `AnsweredMediaAreInserted` and `ImagesAreCurrent`.
`Hotplug`: `Progress` says for each kind of device which parts exist at which rest of
its request's steps, `Backed` that a device has what it stands on, `NodeAccounted` and
`ReadableBetween` what a request that failed may leave; theorems `PlugAnswersHold`,
`PlugLeftoversAreHarmless` and `PlugTypesHold`. `DiskPool`: what its two loops compute is
shown for lists of any length. A loop is a function on `0..n`; two functions that agree at
0, and at a number if they do at the one before, differ nowhere, since there is no least
number at which they do (`LeastNatural`, `EqualByInduction`). So `DeleteFunc` takes out one
place of a list without repetitions (`DeleteFuncDeletes`), and reading what was saved
rebuilds the pool one disk after the other (`PoolIsReadBack`). Each change of the list is
then an insertion or a deletion at one place (`Inserted`, `Deleted`), which keeps the order
of the rest and the invariant `PoolInv`; theorems `PoolStaysSound` and, an action
property, `DisksKeepTheirOrder`.

**BackupProofs.** `CompletedBackupIsASnapshot` needs what the bitmap knows of writes
(`BitmapKnowsWrites`), what the job has still to copy (`OnlyTodoIsMissing`,
`TodoIsFrozen`), where target and disk may differ between increments (`ChainIsClosed`)
and that the job beside a task is the task's own (`JobIsTheTasks`). `BackupCleansUp` rests
on `TaskCleansUp`, `BackupResultIsTrue` on `FileFollowsTask`; `BackupTypesHold` are the
types.

**HostNetworkProofs.** `RouterLink`: `Configuring` and `Removing` say at each request of a
call what the ones before it have made or removed, if the tap is still the one that the
call found. What an update beside it may change, the limits and more prefixes, is left out
of the first unless the call is clean, and `Beside` says that a clean call runs alone;
theorem `RoutedLinkIsAsAsked`.
`BridgePorts`: as long as no calls overlap one call is `Alone` and what it has `Seen` of
bridge and vxlan device stays true; theorems `TapsStayConnected`, `PortTypesHold` (a tap is
in a bridge that is there, also when calls overlap) and, an action property,
`LastRemovalIsComplete`. `NetworkSchemes`: the file is what was stored or is spoiled, and a
call has written what it read (`FileInv`), a call that does not overlap is the only one
(`OneCall`), and what it has read of the file is what it applies (`HostInv`). Numbers
read from the file have the wrong type (section 5), so only schemes without them reach
the host by a configuration (`HostTypes`); theorem `HostHasWhatTheFileSays`.

Only model-checked:

- liveness (`EveryRequestAnswered`, `CallsReturn`, `SourceTaskEnds`,
  `IncomingEndsWithoutConnections`, `BackupsEnd`): liveness under fairness is outside
  what the prover supports;
- `RestSameAsGrpc`, `RequestReachesItsFunction` and `CommandDoesWhatItSays`: the routes,
  messages, methods and commands are finite tables in the modules and not constants, so
  TLC's enumeration of them is the whole check, up to the number of fields and flags
  that are chosen at once.

## 5. Disagreements between code and text

Two have a run of their own:

1. `migration_complete`. `vmstateMigrated` is closed when `migrateMachineState`
   returns, also on an error. A waiting processor that sees the channel before the
   context goes on to `block-job-complete`, and the source guest, which stays, is
   switched to the image at the destination.
2. `schemes_types`. `valueAs` asks whether the stored value is assignable; JSON numbers
   are `float64`, the targets `uint32`. A scheme with an MTU, limits, a VNI or a VLAN
   read from the file cannot be applied or removed.

The following are stated as definitions in the modules and are false of the code too.
Each is found by adding it to the configuration named, as an INVARIANT (a PROPERTY where
it is temporal), with the constants given.

| Definition | Configuration | What the code does |
|---|---|---|
| `BitmapStays` | `MCExclusion` | `server/machine/disks.go:187`: a removal of a bitmap by the disk's path is not kept apart from a backup, which names the base name |
| `LegacyHasNoFirmware` | `MCMachineConf` | `server/machine/configuration.go:286`: the setter refuses the empty image of "legacy", and its error is dropped |
| `AttachedStays` | `MCMachineConf`, `Values = {a, b}` | `instance_qemu.go:914`: a release that was not awaited takes a device away after its attachment was answered |
| `QuitOnlyIfLoaded` | `MCMigration` | `migration.go:349`: the source quits when the state was sent, also if the destination could not load it |
| `InSyncAtHandOver` | `MCMigration` | `migration.go:938`: a mirror that breaks is noticed once a second, and the state may be sent before |
| `NoPanic` (Migration) | `MCMigration` | `migration.go:325`: a cancel during the mirroring of the flash lets `Main` return without its group; the deferred function and the processor both close `firmwareFlashReady` |
| `ReportedCancelIsReal` | `MCMigration`, `OverrideName = TRUE` | `migration.go:450`: with an overridden name the cancel sent to the destination has the wrong key and is logged as successful |
| `IncomingTaskEnds` | `MCMigrationLiveness`, `HasFlash = TRUE` | `migration.go:428`: the flash's job is not cancelled on failure; its connection keeps the destination's monitor from firing |
| `FoundByPathHasPath` | `MCMachine` | `disks.go:203`: a disk asked for by its path is found by base name; with volumes of one name in two groups it may be the other |
| `UserIffConf` | `MCLifecycle` | `server/machine/configuration.go:183`: the error of `RemoveUser` is ignored, that of `os.RemoveAll` comes after it |
| `GraceIsGiven` | `MCLifecycle` | `launcher/stop.go:12`: `QemuInstanceStop` answers at once, so systemd sends SIGTERM while the guest powers down |
| `SocketsDivide` | `MCMachine` | `resources.go:116`: `SetTotal` ignores the sockets; the next start is refused |
| `NoDivisionByZero` | `MCMachine` | `resources.go:135`: zero sockets divide by zero |
| `BalloonIsActual` | `MCMachine` with sizes from 4096 | `launcher/start.go:208`: 32-bit bytes wrap from 4096 MB on |
| `LiveMemoryStays` | `MCMachine` | `instance_register.go:201`: the registration repeats the start value over an answered live change |
| `TotalKept` | `MCMachine` | `server/machine/resources.go:16`: an unset total becomes QEMU's, also in the file |
| `AlwaysReadable` | `MCMachine` | `instance_qemu_i440fx.go:542`: a backend left by a failed attach makes the machine unreadable |
| `DetachedNetIsGone` | `MCMachine` | `instance_qemu_i440fx.go:742`: tap and netdev stay after a failure or a late release |
| `AttachedVSockStays` | `MCMachine` | `instance_qemu.go:914`: the removal of a vsock device is not awaited |
| `TapIsQemus` | `MCMachine`, `Uid = 1025` | `network.go:293`: the tap's owner is always 1024 |
| `OldMediumIsRemoved` | `MCMachine` | `instance_qemu.go:532`: the kind of the new medium decides about the old one's node |
| `NoPanic` (Media) | `MCMachine`, `CdromDriver = "scsi-cd"` | `instance_qemu_i440fx.go:146`: a map is read before the goroutine that makes it has run |
| `NeverMistaken` | `MCBackup` | `server/machine/backup.go:415`: the error event is looked for from the second in which the task read the clock on |
| `WatcherTellsTruth` | `MCBackup` | `client/backup.go:124`: a task that is gone counts as completed |
| `DeconfiguredHasNoClass` | `MCHostNetwork`, `MaxIndex = 1`, `MaxCalls = 2` | `vrouter.go:77`: the class is made before its record, an error of the cgroup between the two is passed over as "Non-fatal error" (`hostnet_configure.go:103`), and the removal does not look for a class without a record, although it says "Remove all TC rules". A stored scheme with a limit does not get that far, because of 2 |
| `FailedWriteKeepsFile` | `MCHostNetwork` | `scheme_properties.go:387`: the file is truncated before it is written |
| `AppliedWhateverElse` | `MCHostNetwork` | `hostnet_configure.go:42`: a configuration that read the file before an update sets the old limit after it |
| `QuietWhateverElse` | `MCHostNetwork` | `network/configuration.go:92`: an update that is applied during a removal leaves its prefixes |
| `AppliesAgain` | `MCHostNetwork` | `vrouter.go:226`: a repeated configuration fails on what is there |
| `OthersKeepTheirBridge` | `MCHostNetwork` | `vxlan_port.go:99`: the bridge is deleted after another tap joined it |
| `OutLimitIsApplied` | `MCHostNetwork` | `network/configuration.go:162`: the test of the error is inverted |
| `StoredIsValid` | `MCHostNetwork` | `network/configuration.go:113`: an update is stored without `Validate` |
| `VlanIdsAreAccepted` | `MCHostNetwork` | `attrs_vlan.go:28`: the largest id is refused |
| `FirstCanBeCreated` | `MCHostNetwork` | `scheme_properties.go:351`: no file is an error, and nothing makes one |
| `BadPrefixIsRefused` | `MCHostNetwork` | `network/configuration.go:117`: the error of `Set` is dropped |
| `RestDetachesVSock` | `MCApi` | `channels.go:37`: a DELETE cannot carry the empty message that selects the vsock |
| `TasksAreServed` | `MCApi` | `tasks/service.go:38`: the task service's routes are never registered |
| `CreatesWithTheLimits` | `MCApi` | `client/configuration.go:36`: a type assertion never holds, memory and processors are not sent |
| `RemovesMediaLive` | `MCApi` | `client/cdroms.go:66`: `--live` is not sent |
| `FlashAlone` | `MCApi` | `boot_options.go:43`: `--flash-device` alone sends nothing |
| `HooksReachKvmrund` | `MCApi` | `ifupdown.go:30`: the hooks send the whole directory as the machine's name |

Visible in the model and left out of the properties on purpose: the shutdown of a
source in `postmigrate` sends `cont`, so guest code may run on both hosts until the
powerdown (the exception in `OneHostExecutes`); an error of QMP or netstat, or a late
cancel, at the destination after the hand-over leads to `OnFailure`, which removes the
only copy of the running guest; a scheme is created and applied, or removed from host
and file, in two calls of which the second may never come; a disk that is named by a
path with a slash has no address over HTTP (404); a command of several requests stops
half-way and what it did stays.

## 6. Plan

Modelled: everything listed as such in `PROJECT.json`. Proved: every safety property that
a run checks, except those of the API tables (section 4), and the refinement of
`Handover`. What would come next:

1. `RestSameAsGrpc` for messages with any number of fields, from what `Gateway`
   guarantees of each binding;
2. an abstract specification of the configuration file: a register per slot, which the
   handlers of `MachineConf` implement.

## 7. Not modelled

- Formatting of QEMU command lines, cloud-init images and printed answers; the wire
  format of protobuf and JSON; statistics and progress of tasks; logging.
- Disk backends, cgroups, LVM, netstat, PCI and other thin wrappers of kernel
  interfaces: parsing and single system calls.
- ARP announcements, the functions for VLAN ports (they do nothing), `netinit`,
  `gencert`, `printpci`, the package updater.
- Errors of the commands of the incoming task's `OnFailure`: the code only logs them, and
  they are taken not to happen.
- Writes of the guest that a ready mirror of QEMU before 6.0 has not passed on yet.
- Collisions of the hash that names traffic classes, and the random order of addresses
  in `config_network`.
- Functions of the device pool that nothing calls.
