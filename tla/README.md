# Formal models of Legion Linux Frontend

TLA+ models of the parts of Legion Linux Frontend where processes, callbacks
and failures interleave: the privileged control service and its command runner,
the frontend's access to that service, the pages that read and write through it,
the keyboard's lights, the tray, the notifications, the energy meter, and the
helper that applies a graphics mode at the next boot. TLC checks the models on
small instances; TLAPS proves every safety property of every model for all
values of its constants, and that the command runner implements what the control
service assumes of it. What must eventually happen stays with TLC.

Paths below are relative to the repository.

## 1. The system

A Flutter app shows and changes the settings of a Lenovo laptop. It reads sysfs
and read-only commands itself. Most writes go over the system bus to a small
C++ service, which asks Polkit, then runs one vetted backend command inside a
transient systemd unit. Two kinds do not: a power mode is first set at Power
Profiles Daemon, and the keyboard's lights are written by `openrgb` or through
`hidraw`. A separate Python helper keeps a graphics request across a reboot.

```
feature page -> bloc -> repository -> bridge queue -> control client -> D-Bus transport
                                                                            |
                          Polkit <- legion-control service <----------------+
                                            |
                                   managed command runner -> systemd unit -> backend
                                                                              |
                                   legion-graphics-boot.py (control | boot) <-+
```

### Inventory

| Component | State it keeps | Operations | What is hard |
| --- | --- | --- | --- |
| Managed command runner (`control/managed_command.cc`) | per `Operation`: outstanding calls, stage, `started`, `unreferenced`, `stopping`, `ending`, `delivered`, deadline, output pipe, kernel lock, dedicated bus connection | `Begin`, `StartUnit`, `Poll`, `Status`, `Read`, `Cancel`, `Stop`, `End`, `Deliver` and the replies of seven D-Bus methods | every reply can be lost, late or an error; the bus or systemd can vanish; the helper can die; the unit outlives all of them |
| Control service (`control/legion_control_service.cc`) | authorized and pending senders, number of Polkit callbacks, the active operation, `cleanup_failed`, shutdown flag | `GetCapabilities`, `Authorize`, every write, name changes of clients, loss of its own name, `main`'s drain | callbacks keyed by sender only, raw pointers into `Ctx`, departures at any time |
| Control commands (`control/control_commands.cc`) | none | argument tables, exit-code classes | none: pure |
| Next-boot graphics helper (`packaging/nixos/legion-graphics-boot.py` with `legion-telemetry.nix` and the detached lifecycle script) | `request.json`, a lock file | `request`, `cancel`, `status`, `boot` | power cuts inside an atomic write, restarts in the middle of an attempt, two invokers |
| Graphics status rendering (`control/graphics_next_boot.cc`) | none | formatting | none |
| Control client (`lib/core/services/legion_control_client.dart`) | `_capabilities`, `_authorization` futures shared by calls, closed signal; transport: bus owner, closed | check, authorize, write, close | code resumes after an await in a world that has changed: another service instance, a closed client |
| Frontend bridge (`lib/core/services/legion_frontend_bridge_service.dart`) | the write queue, pending action keys, history of 20 | `runControlOperation`, `runCommand` | timeouts race answers, duplicate requests, one write blocking the queue |
| Pages with one event queue (power, fans, battery, devices, display: `lib/features/*/bloc`) | snapshot, `isApplying`, tick flag, dirty edits | tick, refresh, write, edit, save, close | edits and readbacks of one setting, failed readbacks, closing in mid-write |
| Pages with concurrent handlers (dashboard, graphics) | snapshot, `isApplying`, `_refreshInFlight`, `_refreshCompleter`, timer | the same, side by side | a poll that began before a write reports after it |
| Other blocs (settings, boot logo, analytics) | snapshot, `isApplying`, a timer | one write, polling on a switch | a timer started after it was switched off |
| Power limits (`power_repository.dart`) | none between calls | a batch with roll back | failure in mid-batch, a timed-out write that did happen |
| Lighting and automation (`rgb_lighting_bloc.dart`, `automation_runtime_provider.dart`) | painting, mode, effects, animation timer, last frame, remembered painting, stored profiles | start, paint, modes, brightness, effects, profiles, close; one queue beside a 30 Hz timer | frames between a change and its write, two ways to one keyboard, a store that is written after the state changed |
| Platform surfaces (tray, notifications, OSD, GTK runner) | registration generation, server owner, replacement ids, pending chain | start, watcher changes, show, close | a desktop service or a bus that restarts, disposal in mid-open, calls that never end |
| Package power telemetry (`telemetry/`) | domain, previous counter, range and time, last reading | sample | counters that wrap, vanish or change their range, interval limits |
| Portable session prototype (`control/prototype`, `portable_lifetime.cc`, `executable_snapshot.cc`) | descriptors | bootstrap, probe | process lifetimes; not shipped |
| Readers of hardware state (`legion_sysfs_service.dart`, CLI, NVIDIA, xrandr, profiles) | none | read and parse | none |
| Agent skills (`.agents/skills`, pinned in `skills-lock.json`) | not part of the program | none | none: vendored tooling |

What makes each modelled component correct:

- **Runner.** At most one backend runs at a time, across helper processes. A
  result is delivered once, after everything outstanding has drained. It is
  honest about the unit: if it does not say `cleanupFailed`, nothing of the
  command is left alive. Nothing pins a unit in systemd for ever.
- **Service.** Every invocation is answered at most once. Access ends with the
  connection. A completion meets its own operation. Payload files live exactly
  as long as needed. After an unconfirmed cleanup nothing is started again. It
  can always shut down.
- **Frontend access.** Only a service instance that was checked and that
  granted access receives a write; the backend runs at most once per request;
  nothing is sent after the app was told that the write failed; queued writes
  never overlap and always end.
- **Pages.** A success that is announced is what the hardware was read back to
  be; a failed batch of limits is undone or says that it is not; edits are kept
  until they are saved; the busy state ends.
- **Lights.** When everything is handled, the keyboard was last told what the
  page shows; the animation's timer never paints into a write, a restore or the
  end of the app.
- **Tray and notifications.** A tray that says it is registered is known to the
  watcher there is, and a watcher that stays gets the item; a notification
  replaces only one of the same server and kind; closing ends and leaves no
  connection.
- **Energy meter.** A reading is what the package used over the interval it
  names, through every wrap of the counter.
- **Next-boot helper.** An accepted request is durable; it is tried once; a
  cancelled one is not tried; hardware is touched only during startup with the
  attempt already recorded on disk.

`PROJECT.json` lists the hazards with their lines, including those of the parts
that are not modelled yet.

## 2. Modules

| Module | Models | EXTENDS / instantiates |
| --- | --- | --- |
| `CommandRunner` | what `ManagedCommandRunner` promises its users (`managed_command.h`): start, launch, vanish, finish once | |
| `ManagedCommand` | every callback of `Operation`, and systemd as those callbacks see it | instance of `CommandRunner` as its abstract specification |
| `ManagedCommandProofs` | the proofs about it, and that it implements `CommandRunner` | `ManagedCommand`, `TLAPS` |
| `ControlService` | the service, over the abstract runner | instance of `CommandRunner` as its environment |
| `ControlServiceProofs` | the proofs about it | `ControlService`, `TLAPS` |
| `ControlAccess` | the bridge's queue, the client, its transport and the service as one connection sees it | |
| `ControlAccessProofs` | the proofs about it | `ControlAccess`, `TLAPS` |
| `QueuedPage` | a page with one event queue: the power page with its batch and roll back, the fans page with its edited curve | |
| `QueuedPageProofs` | the proofs about it | `QueuedPage`, `TLAPS` |
| `Lighting` | the keyboard's bloc, its engine and its two backends, with profiles and the store | |
| `LightingProofs` | the proofs about it, and about the composition `MCPages` | `MCPages`, `QueuedPageProofs`, `TLAPS` |
| `PlatformTray`, `DesktopNotifications` | the tray's registration and the notifications over the session bus | |
| `PackagePowerSampler` | the energy meter over the kernel's counters | |
| `DesktopProofs` | the proofs about these three, and about the composition `MCDesktop` | `MCDesktop`, `TLAPS` |
| `ConcurrentPage` | a page whose handlers run side by side: the dashboard and the graphics page | |
| `ConcurrentPageProofs` | the proofs about it | `ConcurrentPage`, `FiniteSetTheorems`, `TLAPS` |
| `GraphicsBoot` | the helper, both of its callers, the file on disk and in the page cache, the boot order | |
| `GraphicsBootProofs` | the proofs about it | `GraphicsBoot`, `TLAPS` |
| `MCPages`, `MCDesktop` | TLC's instances of parts that share no state, one at a time | `QueuedPage` and an instance of `Lighting`; `PackagePowerSampler` and instances of `PlatformTray` and `DesktopNotifications` |
| other `MC*` | TLC's instances: symmetry, constraints, initial states and the key function | the module each is named after |

### How state and actions correspond to the code

**ManagedCommand.** `op[i]` is the record of an `Operation` (the fields named
above; `progress` stands for the `stage` the chain of replies has reached) and
`sys[i]` is its unit: start request, job, main process, remaining processes,
references. A D-Bus call is three steps: the handler sends it (`call`, with
`answer = "waiting"`), systemd serves it (`ServeOwner`, `AcceptStart`, ...), and
the reply's callback runs (`StartReply`, `UnitReply`, ...). Each callback is one
action that does all that its lambda does, `Deliver` included. `Faults` names
the failures a run allows. The kernel lock is held by the helper's descriptor
(`op.lock`) and by the backend's processes, which inherit it (`HoldsLock`).

**ControlService.** `call` holds the invocations, `inbox` the order in which
GLib delivers messages and `NameOwnerChanged`, `polkit` the outstanding checks,
`ctx` the fields of `Ctx`. `AuthDone` is `auth_done` with its lookup by sender
only; `Complete` is `complete_operation` followed by `finish_operation`; `Quit`,
`CancelChecks` and `Exit` are `main`'s end. The runner is `CommandRunner`: it
is sound to use it because `ManagedCommand` is checked to implement it.

**ControlAccess.** An action is the code between two awaits. `op[o].pc` is where
a write waits: in the queue, for the capabilities, for the authorization, for
its answer, or for the client to close after its timeout. `req[r]` is a D-Bus
request of the transport: the shared capability check and authorization, and
one per write. `Resolve` is the code after the owner lookup, where the transport
looks whether it was closed and whether the service was replaced. Microtasks
that Dart would run back to back are separate steps, which only adds
interleavings. No caller in the app passes `retries` yet; the bridge supports
it, so the model does.

**QueuedPage.** `queue` holds the events that `asyncExpand` has not handed on,
`run` the handler and, while a repository writes, its locals (`todo`, `done` for
`applied`, `orig` for `originals`). `Add` is `add` with its refusals at arrival;
`Skip`, `Load`, `Edit` and `Apply` are the first part of a handler, up to its
first await; `Originals`, `WriteSucceeds`, `SingleFails`, `BatchFails` and the
two `Undo` actions are the repository; `LoadEnds`, `LoadFails` and `LoadIsLate`
the rest of a handler. `Unconfirmed` is what `ControlAccess` leaves of a write
through the bridge that is not confirmed, among it the timeout that closes
access for the session. The power mode (`Mode`) takes another way, that of
`power_profile_service.dart`: `DaemonSets` and `DaemonFails` are the call of Power
Profiles Daemon with its own timeout, `Checked` is the comparison with the
firmware's profile, and only a profile that differs, a mode the daemon does not
know, or a missing daemon leads to `WriteSucceeds` or `SingleFails` of the bridge.
None of the daemon's steps asks for control access or closes it. A call that was
given up stays in `access.daemon` until `LateMode` serves it, at any later time.
`history.astray` records that the mode may not be the one that was confirmed: it
could not be read after the daemon's answer, or something that was given up has
set it since. `page` selects the bloc. A reading of the snapshot is one step; in the code it
is several reads, and another tool may change a setting between them. One bloc
lives in one behaviour: a batch that a page left running while its successor
starts is not modelled.

**ConcurrentPage.** `task[i]` is a handler between two awaits. A snapshot is the
number of writes that had taken effect when it was read, which is what
"stale" means. `Reload` is the start of `_loadStatus` and of `_reloadState`:
load, skip (dashboard) or wait for the completer (graphics). `EndLoad` is the
`finally` with the waiters it wakes, which Dart resumes before the next event of
the loop. The dashboard sets the power mode, which may succeed without control
access (`Writable`) and is not given up by the bridge; of the daemon's calls that
were given up one may have its effect late. Requests about processes and the PCI device are always refused by the
repository ("target").

**GraphicsBoot.** `file` is what a reader of `request.json` sees and `disk` the
set of contents a power cut may leave: between `Replace` and `Sync` it has two
members. Each helper holds a program counter and the state it read. Results of
the panel check and of the hardware commands are open. `history` records what
was asked, answered and selected; it is never read by an action of the helper.
The `status` action only reads and is left out.

**Lighting.** A step is what a handler does between two waits: for the `openrgb`
program or for the store (`running` holds the handler that waits and where). A
painting is the event that made it and the LED list it is for; `bloc` holds the
fields of the bloc and its state, `engine` the timer with its base, `keyboard`
what it was last told by either way and the frame the native repository
remembers (`_lastColors`). `Emit` is a state change with `onChange`, which
starts or stops the engine; `End` is the end of every handler, which stores a
state without an error. `Apply` is `_applyColors` and `_applyStatic`,
`WriteSnapshot` is `_writeSnapshot` for a profile or the remembered painting,
`Probed` the rest of the start. A native write may be refused without a trace
(`hidraw` accepts it, the firmware does not), a run of `openrgb` may exit with a
status. Profiles may be loaded between any two events: that is all the
automation does to the keyboard. The code has a `RgbRefreshRequested` event that
nothing adds; it is left out.

**PlatformTray.** `bus` is the watcher's name with its owner and what the owners
know; `inbox` the owner changes that the broadcast stream has not delivered;
`calls[g]` the registration of generation `g`. `Open` is the part of `start` up
to the question whether a watcher is present, `Present` the rest, `Deliver` the
stream's listener, `Reply` the end of `_register`, `Dispose` and `Close` the two
halves of `dispose`. The tray is not wired into the app yet; its unit tests say
how it is meant to be used. A question for the watcher that fails is not
modelled.

**DesktopNotifications.** `adapter` holds the fields, `send` the send that runs
with its locals, `queue` the sends behind it in `_pending`. `Found` and
`Notified` are the code after the owner lookup and after `Notify`, `CallFails`
and `UntilDisposed` what the `catch` does, `ClosedByCatch` the await in it. Only
`ClientClosed` and `Drained` are needed for `close` to end. The bus itself may
go down and come back with the same unique names. It is not wired into the app
yet either.

**PackagePowerSampler.** `counter` is what the kernel shows of each package,
`domain` and `prev` the sampler's fields, `reading` its answer as energy and
time. `since` is a history variable: what the package in use really spent since
the last sample. `Sample` has one disjunct per way through `Sample()`. The
division by the interval and the unit of the answer are left out; the comparison
with the limit is multiplied out.

## 3. Runs

| Run | Instance | What it shows |
| --- | --- | --- |
| `managed_command_lifecycle` | 1 command, all eight kinds of failure, fair helper | `ConfirmedCleanup`, `SettledVerdict`, `EventuallyDelivered`, `LockEventuallyFree`, and refinement `ImplementsRunner` |
| `managed_command_lock` | 2 commands of 2 helpers, deadlines and crashes, symmetric | `OneBackendAtATime` |
| `managed_command_nofault` | 1 command, no failures | finding 1 |
| `control_service` | 2 clients, 3 calls, fair | seven safety properties, `WritesAreAnswered`, `ShutdownCompletes` |
| `graphics_boot` | 3 requests, 3 further boots | `OneShot`, `AcceptedRequestIsKept`, `HardwareIsGuarded`, `CancelHolds` |
| `graphics_boot_cancel` | 1 request, 1 further boot | finding 2 |
| `control_access` | up to 3 queued writes, 2 of them equal, 1 direct write, 1 retry, 2 service starts, fair | `WritesReachTheCheckedService`, `ExecutedAtMostOnce`, `QueuedWritesDoNotOverlap`, `NoLateWrite`, `QueuedWritesEnd` |
| `pages` | settings: 3 settings, one of them the mode, 2 values, 1 event behind the handler and the tick, 1 late call of the daemon; lights: 3 events after the start, 1 profile | `SuccessIsShown`, `FailedBatchIsRestored`, `EditsAreKept`; `AnimationYields`, `KeyboardShowsThePage` |
| `concurrent_page` | 3 handlers, 2 writes, fair | `GraphicsResultIsShown`, `BusyEnds` |
| `dashboard_result` | the same, without fairness | finding 3 |
| `desktop` | meter: 2 packages, 2 ranges, 4 units of time, 2 disturbances; tray: 2 watchers; notifications: 2 buses, 2 servers on each, 3 sends; fair | `ReadingIsTheLoad`; `RegistrationIsCurrent`, `WatcherGetsTheItem`; `ReplacesItsOwnNotification`, `CloseEnds` |
| `lighting_reports` | 2 events after the start, 1 profile | finding 4 |

The runs `pages` and `desktop` hold several parts that share no state and cannot
influence each other. Their initial states choose the `part` that runs; the
others stay as they began. That explores each part alone, which is all there is:
a behaviour of the parts side by side, seen by the properties of one part, is a
behaviour of that part with stuttering steps.

### Bounds, and why they are enough

- *Commands (`Op`).* All callbacks of an operation touch only its own record;
  operations meet only at the lock, which two suffice to contend for. The proofs
  hold for any number.
- *Clients and calls.* Authorization is per sender, so two senders show every
  confusion between them; three calls let a second `Authorize` or a second write
  overlap a first one of the same sender while the other client holds the
  active operation. The constraint `InOrder` (`MCControlService`) keeps of the
  behaviours that differ by a renaming of calls and clients one, which a symmetry
  set may not do in a run with temporal properties: calls are first sent in the
  order of their names, and the first sender is always the same. Any
  behaviour has such a renaming and no property names a call or a client.
- *`MaxRequests`, `MaxBoots` = 3.* One attempt spans two boots (request, apply);
  three boots leave one in which it might be repeated after an interruption, and
  three requests let a request replace one that replaced another.
- *`MaxOwners` = 2.* One replacement of the service between any two steps.
- *`MaxRetries` = 1.* One retry is what could run a backend twice.
- *Queue of three.* One runs, one waits, and one is the duplicate of either. All
  four writes at once are beyond TLC; `Continued` (`MCControlAccess`) starts from
  the states of the app in which some of them have already ended because no
  service was there, so that the rest are a queued write beside the one of the
  settings, two different or two equal writes, or all three while the service
  stays down. Every one of these states is reachable from `Init`.
- *`MaxQueue` = 1.* An event that waits is looked at when its turn comes, and may
  be added just then: a second one behind it differs only in what was refused
  at arrival and in what is left when the page closes. `Tick` may add a second.
  A batch of two limits has one that is rolled back and one that failed. The
  proofs hold for any queue.
- *The mode.* One of the two values is a profile of the daemon (`Standard`) and
  one a mode of the firmware alone, which goes with the same profile: `MaxLate` = 1
  call of it that was given up may outlive any number of later writes. The proofs
  hold for any profiles and any number of such calls.
- *First values.* The settings other than the mode begin with the same value
  (`First` in `MCPages`). Exchanging the two values of such a setting throughout
  a behaviour gives a behaviour, and no property tells them apart; of the
  mode's values that is not so, and it begins with either.
- *Three handlers, `MaxWrites` = 2.* One writes, one polls, and the third is a
  second request or a load that waits for the same completer. With three writes
  the same properties were found to hold.
- *Lights: four events with the start.* An effect, a write that replaces it and
  an event behind that; or two profiles. One profile is enough because a profile is
  read once, when it is loaded. The initial states have a remembered painting and a profile of
  every mode and for either LED list.
- *Meter.* A range of 2 wraps within two units of time; an interval may be too
  short, valid or too long; two disturbances let a range change and change back.
- *Tray and notifications.* The second watcher comes while the first one's
  registration is on its way; the second bus has servers with the names of the
  first. A third send meets the ids that two servers gave out.

`CHECK_DEADLOCK FALSE` appears in `ControlAccess.cfg`, where all writes may have
ended and the service may stay stopped, and in `Pages.cfg`, `Desktop.cfg` and
`LightingReports.cfg`, where the bounded events, watchers and time run out.
Elsewhere the models end in an explicit idle step.

### Fairness, and why the code justifies it

- `ManagedCommand`: the helper's GLib loop runs a callback that is ready, and its
  100 ms timer ticks; nothing is assumed of systemd for `EventuallyDelivered`
  because every call has a 3 s timeout and every stage a deadline.
  `LockEventuallyFree` is stated under `SystemdFairness`: a backend keeps the
  lock until systemd has stopped and collected its unit.
- `ControlService`: the loop handles messages and finishes its drain; a command
  that was started completes, which is `EventuallyDelivered` of the runner;
  Polkit answers a check that was cancelled, as GIO guarantees. A user may leave
  a dialog open for ever.
- `ControlAccess`: a queued write starts and its `.timeout` fires, the future
  of `close` completes, and the queue's chained future advances. Nothing is
  assumed of the bus, the service or the user.
- `ConcurrentPage`: the bridge ends every write (`QueuedWritesEnd`; the timeout of
  a graphics request is 45 s), reads return or fail. Nothing is assumed of the
  timer or of the user. `QueuedPage` and `Lighting` have safety only: nothing ends
  a run of `openrgb` that hangs.
- `PlatformTray`: the bus delivers, a watcher answers, the event loop turns.
  Nothing makes the app start or dispose the tray, or a watcher come or go.
- `DesktopNotifications`: the event loop turns and the close of a connection
  ends. No call is ever answered by fairness: that is the point of `CloseEnds`.
- `GraphicsBoot` and `PackagePowerSampler` have safety only: a machine may stay
  off, and time may stop being sampled.

### Findings

1. **Cleanup reported as unconfirmed although it was confirmed**
   (`managed_command_nofault`). `Cancel` sends `StopUnit` when the unit's
   reference is just being released; systemd has collected the unit and answers
   with an error, which counts as `cleanupFailed` and disables all writes until
   a restart. `docs/architecture/portable-control.md` reserves that for an
   uncertain cleanup.
2. **A reported cancel that a power cut undoes** (`graphics_boot_cancel`). When a
   first cancel fails after `os.replace` and before the directory's `fsync`,
   the repeated cancel finds the request cancelled and answers without
   syncing. `CancelHolds` shows that every cancel that wrote the file holds.
3. **A success announced without a readback** (`dashboard_result`). On the
   dashboard a write that ends while a poll is in flight skips its readback and
   still announces success, over the snapshot from before the write. The error
   and feedback standard forbids that, and `SuccessIsShown` holds for the pages
   with an event queue, whose every success is read back.
4. **A refused profile that counts as applied** (`lighting_reports`). The exit
   status of `openrgb` is dropped, so a profile that the program could not apply
   is shown without an error and remembered as the keyboard's state.
   `docs/keyboard-automation.md:15-17` says that failed writes are reported.

More observations that no run states. A power mode that is announced is read
back but not compared: when Power Profiles Daemon serves a call late that the
app gave up after 10 s, or the firmware's profile cannot be read after the
daemon's answer, the announced mode is not the one that is active.
`SuccessIsShown` names this exception (`history.astray`) and holds for everything
else; a later poll shows the true mode under the old announcement. On the graphics page any load clears
the busy state, so a refresh allows a second request while the first is
under way; then two forced loads overlap and the older may end last
(`GraphicsResultIsShown` holds even so). A keyboard whose start failed still
takes a brightness change by `openrgb`; when that succeeds the error is cleared
and the empty painting is stored over the remembered one. An automation that
cannot read the power mode for one poll applies its profile again, over a manual
edit that `docs/keyboard-automation.md:18-19` keeps. The settings repository calls the client
directly, beside the bridge's queue, against
`docs/architecture/sysfs-vs-cli-access-audit.md:49-50`; `ControlAccess` models
it as its direct write and shows that the safety of the queue does not suffer.

## 4. Proofs

### The command runner

`ManagedCommandProofs` proves, for every set of commands and of failures, as
theorems `Spec => []P`: the types (`TypeCorrect`), `ConfirmedCleanup`
(`CleanupIsConfirmed`), `SettledVerdict` (`VerdictsAreSettled`), `NoPinnedUnit`
(`NoUnitIsPinned`) and `OneBackendAtATime` (`BackendsAreSerialized`).

None of these is inductive alone. The invariant `IInv` adds, per command,
`CommandInv`: which outstanding call and answer go with which progress of the
operation, what the answer says of the unit at the time it is read (for
instance, that after a `terminal` answer nothing of the unit can come alive
again), when a reference exists and through which connection, and what an ending
operation has already given up; and across commands `LockInv`: two commands
never hold the lock at the same time. Each handler is first shown to preserve
the per-command invariant as a lemma on one record; `NextIInv` then goes through
the disjuncts of `Next`, and the theorems follow from `IInv` by unfolding.

The assumption of the constants is `FaultsAssumption`, named in `ManagedCommand`
and evaluated by TLC in its runs.

The same module proves from the same invariant that `ManagedCommand` implements
`CommandRunner` (`RunnerIsImplemented`, the property `ImplementsRunner`). A step concerns one command. A handler moves its phase and
leaves the backend alone, except `StartUnit`, which launches it while nobody
holds the lock; systemd moves the backend and leaves the phase alone, and never
brings one back that was gone. That a completion is allowed to say what it says
is `EndInv` in the state after it. With it, what `ControlServiceProofs` assumes
of the runner is proved of the runner's code.

### The control service

`ControlServiceProofs` proves, for every set of clients and of calls, the types
(`TypeCorrect`) and every safety property of the run `control_service`:
`CallsAreAnsweredOnce`, `AccessIsOfConnections`, `CompletionsMatch`,
`PayloadsLastAsLongAsNeeded`, `NothingOutlivesCtx`, `RepliesAreHonest`, and the
action property in `UncertainCleanupIsFinal`.

What keeps the service right is spread over the bus, Polkit, the runner and
`Ctx`, so the invariant `IInv` relates them:

- `InboxInv`: a call is queued once, and until it is handled nobody has touched
  it; its sender is on the bus, or the departure of the sender is queued behind
  it. This is the bus's ordering, and without it access could be given to a
  client whose departure was already handled.
- `CallInv`: an unanswered call waits in one place, Polkit or the runner, and an
  answered one in none.
- `CommandInv`: what the service may conclude from a completion of the runner.
- `ActiveInv`: the active operation is the one running command and owns the only
  payload directory. From it follows that `Complete` finds its operation.
- `PhaseInv`: what `main` has waited for when it goes on.

Frame lemmas for the bus (`InboxStays`, `InboxPops`, `AccessPops`, `AccessStays`)
carry the first part through the actions; one lemma per action does the rest. The assumption is `NoCallAssumption`: the null pointer is no operation.
The runner's promise is used as its abstract specification, `CommandRunner`.

### The frontend's access to the service

`ControlAccessProofs` proves, for any queued and direct writes, any number of
retries and of starts of the service, `TypeCorrect`, `CheckedServiceTheorem`,
`ExecutedAtMostOnceTheorem`, `QueuedWritesDoNotOverlapTheorem` and the action
property `NoLateWriteTheorem`. Two ideas carry them. The transport resolves the
service once and never accepts another, and what that service has said stays
true: so it is enough that a write passed the check and the authorization once
(`ClientInv`, `PassedInv`). And a write that has not been called, or may be
called again, has neither a request on the bus nor a run behind it
(`CallInv`, `RunInv`): that is why only answers given without a run, busy and
denied, lead to a retry. `QueueInv` says that of the queued writes only the
first has begun, from which the absence of overlaps follows while the client is
open. The assumptions are that a write is either queued or direct, that retries
and starts are counted by numbers, and that no write has the name of one of the
two shared requests (`OpsAssumption`, `BoundsAssumption`, `NamesAssumption`);
TLC evaluates them in the run `control_access`.

### The next-boot helper

`GraphicsBootProofs` proves, for any number of requests and boots, `TypeCorrect`,
`OneShotHolds`, `AcceptedRequestIsKeptHolds`, `HardwareIsGuardedHolds` and
`CancelHoldsAlways` (an action property). The invariant says which helper may
hold the lock and where it then is (`Serial`, `ControlRole`, `BootRole`), what
the disk and the page cache may hold at each step of the atomic write (`Files`),
that every content that can be there after a power cut agrees with what was
answered and selected (`States` over `Sound`), and that a request under way has
been selected as often as its place says (`Selection`). `Sound` of *every*
content of `disk` is what a power cut needs: `OneShot` alone says nothing of the
content that comes back.

### Pages with one event queue

`QueuedPageProofs` proves, for any settings, values and queue, `TypeCorrect`,
`SuccessIsShownHolds`, `FailedBatchIsRestoredHolds` and `EditsAreKeptHold`. As
long as no write has failed, what was confirmed is in the hardware and in what
is read back (`ConfirmedIsThere`), unless it is the mode and went astray
(`Astray`). A backend that was given up and could still change something else
exists only after control access was closed, when nothing but a mode can be
confirmed or announced any more (`NoticeWaits`). Calls of the daemon that were
given up exist at any time, but concern only the mode, which is written on its
own and never in a batch (`ModeIsAlone`); that either kind of late effect disturbs
nothing else is one lemma (`LateKeeps`). A limit that a roll back has passed has its original,
and what may end late is about another limit (`RollsBack`, `LateIsApart`),
because a batch writes each limit once (`WritesApart`). The assumption is
`ConstantsAssumption`: the curve and the mode are two settings, and the profile
that goes with the firmware's own modes is one of the daemon's.

### Pages with concurrent handlers

`ConcurrentPageProofs` proves, for any number of handlers and writes,
`TypeCorrect` and the action property in `GraphicsResultIsShownTheorem`. A
handler whose load found another in flight waits and then loads itself, so what
it has read is never older than its write (`TaskInv`); `EndLoadFacts` says what
the end of one load does to all the others at once. The rest of the invariant
counts the handlers that write, which keeps the hardware within its bound.
`HandlerAssumption` says that the handlers are finitely many. The dashboard has
no such theorem: its counterpart is finding 3.

The safety half of `BusyEnds` is proved for both pages from a second invariant,
`OwedInv`. `BusyIsAlwaysOwed`: while an open page is busy there is a handler
whose end clears the busy state, on the dashboard the write's own, on the
graphics page any that writes or loads. `NobodyWaitsInVainHolds`: whoever waits
holds the current completer, and the handler that ends it does load. The second
is what makes the first inductive, for two forced loads may overlap and only one
of them owns the completer.

### The lights

`LightingProofs` proves `AnimationYieldsHolds` and `KeyboardShowsThePageHolds` for
any names of profiles and any number of events. Neither is inductive.

- `EngineFollows`: the engine runs only while the page wants it to, over the
  page's painting; a page that wants it and has none has its failure queued.
- `BusyWhileWriting`: `loading` and `applying` are set exactly as long as a handler
  waits for `openrgb`. They are what keeps the engine off, so `AnimationYields`
  follows from these two.
- `KeyboardFollows` says `KeyboardShowsThePage` of every state in which `openrgb`
  has nothing left to write, not only of the quiet ones: an animation runs, or a
  native write failed and the page says so, or the keyboard shows the page
  (`Shows`) and the frame the native repository remembers is the page's
  (`Remembers`). The second half is there for the brightness, which sends the
  remembered frame again.
- `WritesThePage`: a write under way is of what the page shows or, for a start or
  a profile, will show. `StartComesFirst`: until the start has looked for the
  keyboard nothing was sent.

The assumption is `EventsAssumption` (`MCPages`): the start is an event.
`PagesKeepTheirPromises` states all five properties of the run `pages` of the
specification that run checks (`SuccessIsShown` with its exception for a mode that
went astray), from `PagesRunTheirParts`: a behaviour of `PagesSpec`
is one of the settings' page and one of the lights.

### The energy meter

`DesktopProofs` proves `ReadingIsTheLoadHolds` for any packages,
ranges, limits and intervals that satisfy `SamplerAssumption`: a package does
not use up its counter within the longest valid interval. The invariant
(`MeterInv`) follows the counter between two samples: it is the load away from
the baseline, having started again at most once (`CounterFollowsLoad`). The code
takes the range for the modulus of the counter and so loses one unit at each
wrap, which the property states.

### The tray

`RegistrationHolds` is proved for any finite set of watchers. A registration that
the tray believes, or whose accepted reply it would believe, is one with the
watcher of now unless a change of the owner is on its way (`ConfirmedIsCurrent`).
The generations that tell replies apart are bounded by two for each watcher that
ever comes; `GenerationsLast` counts what is left of them, so that the bound cuts
no behaviour off.

`WatchersAreNotMissed` is the safety half of `WatcherGetsTheItem`: when nothing is
on its way any more, a watcher that stays has the item or has refused it. Its
invariant (`WakeInv`) says that the last change on its way tells of the owner of
now (`LastTells`), that the answer of `start` counts only until a change comes
(`AskedOnce`), and that a watcher that is there has been heard of (`Heard`).

### The notifications

`NotificationsReplaceTheirOwn` is proved for any servers, buses, kinds and sends. An
id that the adapter remembers, sends or has just received was given out by the
owner it knows (`IdsAreIssued`, `SendIsIssued`), and a send under way uses the
adapter's client and owner until `close` (`SendUsesTheClient`). That an id stands
for one kind of event (`IdsStandForOneKind`) needs the count of what each server
has given out (`IdsAreCounted`). `CloseLeavesNothingOpen`, the safety half of
`CloseEnds`, rests on `OpenIsHeld`: an open connection is the adapter's, or
`close`'s, or that of a failed send whose `catch` closes it.

`DesktopAssumption` (`MCDesktop`) says that the watchers are finitely many and that
there are a kind, a bus and a number of sends. `DesktopKeepsItsPromises` states the
three safety properties of the run `desktop` of the specification that run
checks.

### Only model-checked

The eight properties under fairness: `EventuallyDelivered`, `LockEventuallyFree`,
`WritesAreAnswered`, `ShutdownCompletes`, `QueuedWritesEnd`, `BusyEnds`,
`WatcherGetsTheItem` and `CloseEnds`. Fairness is about what is `ENABLED`, which the
installed provers cannot reason about. What is safety in the last three is a
theorem: that somebody always owes the end of the busy state, that no watcher is
left out once nothing is on its way, and that nothing is open after `close`. That
these states are reached is left to TLC. The four runs that end in a violation have no theorem: what they
check is false.

## 5. Not modelled, and why

- Argument checks, argv tables, output encoding and wording: pure functions that
  end in one of the refusals or error replies the models have.
- `runCommand` (reads through a child process) and the bridge's history: no
  write depends on either.
- Rendering, widgets, theming, sysfs parsing: no shared state.
- The portable prototype: not shipped, mostly descriptor passing.
- The bloc of the settings page beyond its write, boot logo and analytics: they
  only guard one write, or read. Battery, devices and display pages have the
  handlers of `QueuedPage`.
- Lighting: the colours of single keys, the HID packets and the firmware's own
  answer to them; the automation's configuration file and the provider that
  compares power modes.
- What the firmware couples, such as limits that change with the power mode: a
  write of `QueuedPage` changes its own setting only.
- Which exceptions the boot helper's checks can really raise, and with which
  content of the request: `GraphicsBoot` lets `Raise` end any of its steps, a few
  more than the helper can. That only adds behaviours.
- The tray's menu, errors of the bus stream and the GTK shell.
- The agent skills under `.agents/skills`: third-party tooling, vendored at the
  hashes of `skills-lock.json`. All JavaScript of the repository is theirs;
  nothing of the program loads or calls it. The program is Dart, C++, Python
  and Nix, and the models are of those.

## 6. Plan

In order of what matters most to a user's hardware.

1. `ManagedCommand`, `CommandRunner`, their proofs and the refinement: done.
2. `ControlService` over `CommandRunner` and its proofs: done.
3. `GraphicsBoot` and its proofs: done.
4. `QueuedPage` and its proofs: done.
5. `PackagePowerSampler`, `PlatformTray`, `DesktopNotifications` and their proofs:
   done.
6. `ControlAccess` and its proofs: done.
7. `Lighting` and its proofs: done. Next: the provider of the automation in front
   of the queue, with the power mode unreadable.
8. `ConcurrentPage` and its proofs: done.
9. The safety halves of the other properties under fairness: a queued write has
   one in front of it that will end (`QueuedWritesEnd`), a drain waits for
   something that will come (`ShutdownCompletes`), an unfinished operation has a
   call, a timer or a stage of its own ahead (`EventuallyDelivered`).
10. The analytics timer that is started after it was switched off, and the
   portable session once it is shipped.
