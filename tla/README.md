# Dfps in TLA+

Dfps is a daemon for Android that switches the screen's refresh rate: up while
the user touches the screen or presses a button, down some seconds after, with
rules per app, for gestures and for the time the screen is off. It is about
3600 lines of C++ under `src/source`; the rest of `src` is third-party code
(spdlog, scnlib) and the scripts that install it.

The program is small but its behaviour is not easy to test: six threads, shared
members without locks, deferred works that race the events that cancel them,
one POSIX timer for every deadline, and commands run by processes nobody waits
for. This directory holds TLA+ models of those parts, TLC runs that check
them on small instances, and proofs, checked by TLAPS, that the most important
properties hold for every instance.

## The system

| Component | State | Operations | Who calls it |
|---|---|---|---|
| `DelayedWorker` (platform/delayed_worker.cpp) | `slots_` (a deadline and a work per handle), one POSIX timer | `Create`, `SetWork`, `_OnTimer` | any thread; `_OnTimer` runs on the timer's thread |
| `HeavyWorker` (platform/heavy_worker.cpp) | `works_` (one work per handle), `pending_`, a condition variable | `Create`, `SetWork`, the thread's loop | any thread |
| `CoBridge`, `ModuleBase` (platform/) | `pubsub_`: topic to callbacks | `Publish`, `Subscribe`, `HasSubscriber` | every module; a callback runs on the publisher's thread |
| `Inotifier`, `Inotify` (platform/, utils/) | `items_`: watch descriptor to path, mask, callback | `Add`, `WaitAndHandle` | `Add` on the main thread, the rest on the inotify thread |
| `InputListener`, `InputReader` (modules/, utils/) | readers by descriptor, lists of pending hot-plugs, the poll table, the last touch, the button counter, gesture state | `AddReader`, `RemoveReader`, `FlushPendingReaders`, `HandleTouchInput`, `HandleBtnInput` | hot-plug callbacks on the inotify thread, the rest on the input thread |
| `CgroupListener` (modules/) | four updaters: delay, time of the last start | `On*Modified`, `Updater::Start`, `ReadAndPub` | inotify thread, then the timer thread (top-app, restricted) or the heavy thread (foreground, background) |
| `TopappMonitor`, `OffscreenMonitor` (modules/) | last task count and package name; last screen state | `OnTopappList`, `OnRestrictedList` | the thread that publishes the lists: the timer thread; the look at the top app is a heavy work |
| `DynamicFps` (modules/dynamic_fps.cpp) | what is pressed, `active_`, `overridedApp_`, `curApp_`, `curHz_`, `forceSwitch_`, `lowBrightness_`, the rules | `OnInput*`, `OnInputScene`, `OnOffscreen`, `OnTopAppSwitch`, the deferred `enterIdle`, `resume`, `exitOffscreen`, the two rate lambdas | input, timer and heavy threads |
| `DynamicFps` configuration | rules and tunables | `LoadConfig`, `ParseLine`, `AddRule`, `SetTunable`, `FindInvalidRule` | once, from the constructor |
| Commands (utils/misc.cpp, misc_android.cpp) | child processes and their pipes | `ExecCmd`, `ExecCmdSync`, `SysPeakRefreshRate`, `SysSurfaceflingerBackdoor`, `GetScreenBrightness`, `GetTopAppNameDumpsys` | the heavy thread |
| Daemon (main.cpp) | `new_pid`, `old_pid`, `dead_pid` | `Daemon`, `StartNewApp`, `KillOldApp`, `DaemonSigHandler` | a process of its own, with its signals |

How a press gets to the screen: the input thread reads the device, counts the
press and publishes `input.btn` or `input.touch`; `DynamicFps::OnInput` runs on
the same thread, sets `active_`, submits a lambda to `HeavyWorker` and withdraws
its idle timeout from `DelayedWorker`. The heavy thread takes the lambda, looks
up the rule that is current by then, and runs the commands. Meanwhile the timer
thread may be in `enterIdle`, doing the opposite.

### What is hard, and what makes each part correct

* `DelayedWorker`: the timer is re-armed from two critical sections with the
  work run in between and without the lock, and by every `SetWork` that falls
  there. Correct means: no deadline is left without a timer, nothing runs early,
  twice or out of order, a withdrawn work does not run unless it had already
  been picked.
* `HeavyWorker`: `pending_` is cleared before an unlocked walk over `works_`,
  the notify comes after the unlock, `Create` takes no lock. Correct means: no
  submission and no wakeup is lost, every handle is served, `works_` does not
  grow under the iterator.
* `DynamicFps`: three threads read and write the same members, each handler
  being several accesses. Correct means: a timeout never survives the event
  that withdraws it, `active_` and the overrides never outlive their reasons,
  and at rest the rate in force is the one the state calls for.
* The input modules: descriptors are reused, hot-plug lists are replayed, the
  counter counts reports and not presses, all touch devices share one state, a
  touchpad reports several keys for its fingers. Correct means: every known device
  is polled, what is published is what is held down. (A removed device should also
  leave nothing pressed; the code does not see to that, see below.)
* The cgroup modules: debouncing by postponing, thresholds against a remembered
  count, an answer that may be empty. Correct means: a change of the top app or
  of the screen is noticed in the end.
* The daemon: SIGCHLD is not queued and cuts sleeps short, pids are kept after
  their process is gone. Correct means: one app runs, with the last
  configuration, and only its own children are signalled.
* Commands: nobody waits for `settings put`, and the app inherits the daemon's
  SIGCHLD handler, whose `wait()` takes the status of any child on any thread.
  Correct means: every command comes back, no thread is left in the handler, and
  the last rate asked for is the one the system ends up with.

`PROJECT.json` lists these hazards at their lines, with the properties that
cover them.

## The modules

| Module | What it is |
|---|---|
| `TimedSlots` | abstract: what `DelayedWorker` promises its users |
| `DelayedWorker` | `platform/delayed_worker.cpp`, refines `TimedSlots` |
| `WorkMailbox` | abstract: what `HeavyWorker` promises its users |
| `HeavyWorker` | `platform/heavy_worker.cpp`, refines `WorkMailbox` |
| `DynamicFps` | `modules/dynamic_fps.cpp` on its three threads, over what the two abstract modules promise |
| `InputListener` | `modules/input_listener.cpp` and `utils/input_reader.cpp` on the input and inotify threads, with the kernel's devices |
| `Monitors` | `modules/cgroup_listener.cpp`, `topapp_monitor.cpp`, `offscreen_monitor.cpp`, `platform/cobridge.cpp` and `Dfps::Start`, from a write to a cgroup to what `DynamicFps` is told |
| `Config` | `LoadConfig` of `modules/dynamic_fps.cpp`, line by line |
| `Commands` | extends `Config`: `SwitchRefreshRate(int)` and the commands of `utils/misc_android.cpp` and `utils/misc.cpp`, with the handler of `main.cpp` |
| `Inotify` | `utils/inotify.cpp` watching one file that editors write, replace, delete and move |
| `Daemon` | extends `Inotify`: `main.cpp`, the daemon and its children |
| `MCDynamicFps`, `MCInputListener`, `MCMonitors`, `MCCommands` | rules, devices, numbers of tasks and files for TLC, and the parts of an instance that are run one at a time |
| `*_proofs` | theorems about the module they are named after |

### DelayedWorker

Each critical section under `mut_` is one step: `Create`, `SetWork`, the pick
(`OnTimerPick`, `OnTimerNothingDue`) and the reload (`OnTimerReload`). While
`pc = "run"` the work runs without the lock and any `SetWork` may fall there,
the work's own included. `Scheduled`, `Ready`, `IsEarliestWork` and
`IsEarliestReadyWork` are the two searches, `ReloadTimer` the re-arming with
its minimum of one microsecond. The kernel is `TimerExpires` and `Tick`. The
timer is created with `SIGEV_THREAD`, for which the C library of the target
keeps one thread per timer, so notifications are handled one at a time, and
re-arming does not take back a notification that is already queued.

`TimerCoversEarliest` is the worker's central invariant: while the timer thread
waits with nothing queued, the timer is armed no later than the earliest
deadline, or for the next instant. `ImplementsTimedSlots` is the refinement: a
slot with `preserveTs` of `SLEEP_TS` is an empty slot, the copied work is the
running one. `DrainsWhenQuiet` is liveness: when submissions stop, everything
scheduled is run.

`TimedSlots` states no liveness. Under a clock that stops at `Horizon` a
deadline would be met even if some thread re-armed the timer for ever, which
the program's endless clock does not guarantee: a steady stream of `SetWork`
with a late work at its head moves the timer one microsecond ahead each time.
So only `DrainsWhenQuiet`, which asks for quiet, is claimed.

### HeavyWorker

`SetWork` is one step under the lock and `Notify` another after it; `Block`,
`BeginWalk`, `Skip`, `Take`, `WorkDone`, `EndWalk` are the thread's loop, with
the work run outside the lock. `Create` takes no lock; what makes it safe is
`Dfps::Start`, which constructs every module before it starts any
(`StartModules`), and `NoCreateDuringWalk` says it is enough. The thread may
submit from its own works (`Self`), as `OnTopAppSwitch` does.

`NoLostSubmission` is the invariant of the unlocked walk: a filled slot is still
ahead of the walk or has left `pending_` set. `NoLostWakeup` is that of the late
notify. `ServesEveryHandle` is liveness, for every handle, however often the
others are refilled.

### DynamicFps

One step per access to a shared member or call into a worker. A handler is a
`job` of one of three threads at a step `pc`:

| Step | Code |
|---|---|
| `InputEvent`, `SceneEvent`, `OffscreenEvent`, `TopAppEvent` | entry of `OnInputTouch`/`OnInputBtn`/`OnInput`, `OnInputScene`, `OnOffscreen`, and of `TopappMonitor`'s delayed work |
| `Pick` | `DelayedWorker` starts `enterIdle`, `resume` or `exitOffscreen` |
| `Check` | `resume`, `exitOffscreen` compare `overridedApp_` |
| `Activate`, `Write` | assignments to `active_`, to `overridedApp_` |
| `SetForce`, `ChooseKind`, `Post` | `SwitchRefreshRate(bool)` |
| `Cancel`, `Schedule` | `DwSetWork` with and without `nullptr` |
| `TakeWork`, `Dumpsys`, `BindName`, `ComputeRate`, `TakeForce`, `Apply` | the heavy thread: the top app, `GetCurrentRule`, the lambdas, `SwitchRefreshRate(int)` |

Reading or assigning `overridedApp_` while another thread assigns it is a data
race on a `std::string`. The model lets the reader see the old value, the new
one, or, when one of them is empty and the other has one character, a `"torn"`
value equal to nothing; `OverlappingWrites` lets two assignments leave either
value or a torn one.

`TimeoutsWithdrawn`, `ActiveJustified`, `GestureOverrideJustified` and
`OffscreenOverrideJustified` say that no timeout, no `active_` and no override
outlives its reason, and `OverridesEnd` that overrides end. A torn name counts as
an override by the default rule, since `GetCurrentRule` finds no rule of its own for it
(`DefaultOverrides`). The code has one way to leave such a name behind: `OnInputScene`
assigns `"*"` while `resume` or `exitOffscreen` assigns `""`, and the string is
neither (`collided`, a history variable). `resume` compares with `"*"` and
`exitOffscreen` with `"-"`, so nothing clears it, and the default rule stays in force
until the next gesture or screen off. The properties leave out exactly this state
(`LeftTorn`) and no other.

`SettledRule` and `SettledRate` speak of the moments when no
thread is in a handler and no lambda waits: the rate in force then is one of the
current rule, and is the one `active_` and the brightness call for, unless the
last change of `active_` fell between another thread's reading of it and its
post (`raced`, a history variable). That exception is real: an app switch on
the heavy thread can read `active_` as true, let `enterIdle` clear it and post the
idle lambda, and then replace that lambda by the active one, which stays in force
after the slack.
`UsesWorkMailbox` says that what the three threads do to `HeavyWorker` is a
behaviour of `WorkMailbox`, so that composing the two is sound.

Abstractions: delays are not measured (a scheduled work may come due at any
time after it is scheduled, which includes the real delays); the order in which
input events arrive is any (an over-approximation of `InputListener`, which
publishes changes only); writing the notify file and the commands themselves
are left out, `curHz` being what was last handed to the system.

### InputListener

The constructor's scan (`AddReader` while `pc = "scan"`), `Start` in two steps, since
`Inotify::Add` has the kernel watch the directory (`Start`) before it stores whom to
tell (`StoreItem`), then the thread's loop: `Flush` takes `mut_` and replays the two lists, one
`RemoveReader` or `AddReader` at a time, `Poll` waits, `HandleInput` reads all
there is from the next readable entry of the table, `ParseReport` parses one
packet and calls `HandleTouchInput` or `HandleBtnInput`, `LoopAgain` starts over.
`OnInputDevUpdated` is the inotify thread; it waits while `mut_` is held. Between
`Start` and `StoreItem` it finds no item for the watch and drops what it reads
(`Unclaimed`).

The devices are part of the model: keys and fingers go down and up (`held`), one at
a time (`Press`, `Release`) or several in one packet (`Chord`, `Fingers`),
nodes come and go, the watch reports them once `Start` has added it and in order
(`notices`), `open()` returns the lowest free descriptor, other parts of the
program open and close descriptors too (`foreign`), a descriptor of a device that
is gone polls as hung up. `Features` is what a device answers to the `ioctl`s of
`IsTouchPanel`, `IsMouseDev` and `IsBtnDev`.

Abstractions: the pending lists are sets, because they are never cleared and
replaying a path twice in a row changes nothing; a report is an evdev packet (or,
for a mouse, a key event), of one of nine kinds, told apart by what the parser makes
of them: it acts on `EV_SYN`, with what the last event before it left in
`info_.pressed`. A position is "at the edge or
not" and a movement "enough for a swipe or not"; the hold time is left out, since
nobody reads `inHold`. On a panel `"key"` stands for `BTN_TOUCH`, on a touchpad
`"finger"` for the `BTN_TOOL_FINGER` it has besides, which ends when a second finger
lands (`"second"`) and begins again when one is left (`"first"`). A poll table longer than `PollLimit` is not followed.

`ReadersPolled` is about the table: `AddPoll` stores a descriptor in every free
entry and `RemovePoll` frees only the first one that holds it, so stale and
repeated entries pile up, and still no open device is ever missing from it.
`HotplugHonoured` relates three threads' worth of state: what is plugged in, what
the inotify thread has been told, and the readers, at every moment the input
thread is about to sleep. It leaves out the nodes that changed after the directory was
listed and before the watch's item was stored (`missed`), until they are next
deleted: nothing opens those, or closes them. `ButtonsReported` and `TouchReported` relate what was
published to the keys and fingers that are down; `ReportsRead` is freedom from
starvation.

The code has four outcomes these two leave out. The
counter of the buttons counts packets: one in which two keys change counts once, so
releasing the first of them publishes a release with the other still down, and
autorepeat counts as releases; `unheard` marks the devices that did either.
`RemoveReader` subtracts one from the same counter, whatever the removed device had
down, so that a keyboard unplugged with two keys down leaves a button pressed for
ever: `ButtonsReported` is checked and proved of button devices that stay. A touchpad's second finger clears `info_.pressed` with
both fingers down; `TouchReported` says nothing while several are on it
(`Ambiguous`), and holds again once one is left. And two panels share one touch state:
it is stated for one panel that stays.

### Monitors

`Boot` is the main thread in `Dfps::Start`: watches, entries of `items_` and
subscriptions appear one by one while the other threads already run. `SwitchApp`,
`Restrict` and `OtherWrite` change the cgroups; `OnModified` is the inotify thread,
which starts the scans of `Starts` unless the `tm_` of the updater shows less than a
millisecond (`recent`); `ScanTopapp` and `ScanRestricted` are `ReadAndPub` on the
timer thread with the monitor it publishes to; `Look` and `GetTopAppName` are the two
works of `TopappMonitor`. A list may fail to open, of which nobody is told
(`ScanFails`); or a read of it may fail after that, which `ReadFile` does not tell from
the end of the file: what was read by then, nothing perhaps, is published as the
list (`TopappCut`, `RestrictedCut`, with the numbers of tasks in `Cut`). `dumpsys` may
answer nothing or with the app of a moment ago.

`ChangesNoticed`: no change that happens once the program listens is forgotten
before its list is read, although every change is only a hint that pushes one scan
ahead and some hints are swallowed. `AppAnnounced` and `OffscreenKnown` relate what
`DynamicFps` knows, two threads and two thresholds later, to what is the case.
`AppSettles`: when the writes stop, so does the error. The assumption `FarApart` is
the program's own: apps are told apart by the number of their tasks.

Three exceptions are history variables, and all are real. `tracked`: after a read that
failed or was cut short the monitor may know nothing, or the wrong thing (an empty list of
restricted tasks says that the screen is on), until the next change is read to its end;
then it is right again, whatever it was told before. `missed`: a read or
`dumpsys` that failed is not repeated, and when `dumpsys` answers for a switch
whose scan is still to come and the app then switches back before that scan, the
count is the one `topappNr_` has and the switch back is never noticed. `lost`: the
first screen state may be published before `DynamicFps` has subscribed.

### Config and Commands

`ReadLine` is one turn of `LoadConfig`'s loop with `ParseLine`, `EndOfFile` the checks
after it. A line is what it amounts to: a rule, a tunable, a tunable whose value
`std::stoi` refuses, or nothing. `ConfigAsWritten` compares the loop with the file
read as a whole: of several rules for an app the first counts, of `*`, `-` and the
tunables the last, and the kind of a rule is judged by the tunable that counts,
wherever in the file it stands. What a rule should be is the help file's: -1, or with
`PEAK_REFRESH_RATE` at least 20, with the backdoor below 20, for each of its two values
(`Suits`, `Suited`). `FindInvalidRule` tests something else, whether both values are below
20, and the difference is what `Mixed` names: with `PEAK_REFRESH_RATE` an index beside
a rate is let through. A file is refused only when the help file rules it out, and one
that is accepted has nothing against it but mixed rules; `RulesOfTheirKind`, without
that exception, does not hold (`mixed_rule`).

In `Commands` the heavy thread has a list of commands to run (`todo`): the settings
of `SysPeakRefreshRate`, which nobody waits for, or the calls of
`SysSurfaceflingerBackdoor`, or a question, which it does wait for (`WaitAndRead`).
Children run, end, and raise a SIGCHLD that is not queued. `EnterHandler` delivers
it to some thread, which leaves (`LeaveHandler`) when there is a child to reap or
none at all; while the heavy thread is in there it does nothing else.

`RatesOfTheirKind` connects the two: the one check at the end of `LoadConfig` is
enough for every value SurfaceFlinger will be told. (It says nothing of the values
put as settings: those of mixed rules are among them.) `RateInForce` relates `curHz_`,
which decides whether later switches do anything, to the system: always with the
backdoor, and with the settings unless a switch began before the settings of the
last one were put. Then they really can end up in the other order, or one of each,
and `curHz_` hides it until another rate is asked for. `CommandsReturn` and
`ThreadsReleased` are the liveness of commands whose statuses are stolen. They
need answers that fit into the pipe (`OutputAssumption`): `ExecCmdSync` waits for the
child before it reads, so a longer one blocks both for ever, which these properties
do not show.

### Inotify and Daemon

Editors write in place (`BeginWrite`, `EndWrite`), rename another file to the path
(`Put`), delete it, or move it away and back; the kernel's watches belong to inodes,
and the events carry descriptors. `Wait`, `Skip`, `Access`, `Creat`, `AddWatch` are
`WaitAndHandle`. After it `KillOldApp`, `Fork`, `Assign`, `Check` are the rest of the
daemon's loop; `Handler`, the SIGCHLD handler, may run between any two steps, also
between `fork()` and the assignment of `new_pid`. Apps load the file at some time
after they were forked, whatever it says by then.

`OneApp` says that the daemon never loses its child, whatever order death, signal
and assignment come in. `ChangesLoaded` follows a change through the kernel's queue,
the watch that has to be added again, the kill, the fork and the app's reading
of the file, all of which overlap the next edit; `lapsed` is its exception, see
the findings. `inotify_add_watch` fails when the file is gone, or when
there is no watch left to give. `LastChangeServed` is the same as liveness.

Process numbers are not used again while the daemon remembers them. A fork that
fails leaves -1 in `old_pid`, and the next change sends the signal to every process
there is; the app then has to be found among them, and is. An app that crashes is
not restarted before the next change.

## The runs

| Run | Instance | Question |
|---|---|---|
| `delayed_worker` | two handles, two works, clock 0..4 | does the one timer cover every deadline, and is `TimedSlots` implemented? |
| `heavy_worker` | three handles, two works, two clients and the worker itself | is any submission or wakeup lost, is every handle served, is `WorkMailbox` implemented? |
| `dynamic_fps` | gestures, screen and app switches with two apps, one with a rule; or presses from two sources, gestures and brightness samples of either kind | does a timeout, an override or `active_` outlive its reason; is the rate at rest the right one? |
| `dynamic_fps_ends` | gestures and the screen, or presses, under fairness | do overrides and `active_` end? |
| `pressed_rate`, `offscreen_rate` | the events each needs | counterexamples to what the help file says, see below |
| `input_listener` | a panel and a keyboard that come and go, with a device of no known type and foreign descriptors, two undelivered notices, a table of four; or a panel beside a keyboard, a panel alone with swipes, a touchpad, or a keyboard beside a mouse, that stay, with two fingers and two keys, packets of several, autorepeat | is every open device polled and every change of the directory honoured; is what is published what is held down, and is every report read? |
| `monitors` | two apps, jitter at the threshold, the screen's count on both sides of its own, lists cut to nothing or to the other app's number, writes to another cgroup | is any change forgotten; is what `DynamicFps` was told true? |
| `commands` | every file of up to four lines with one app, four rules and four tunings; then one file of each kind: two settings, three processes, the main and the heavy thread, one failure | is the file in force as written; do commands return; is `curHz_` what the system has? |
| `mixed_rule` | files of two lines | counterexample to what the help file says, see below |
| `daemon` | three edits of five kinds, a valid and a refused content, one crash or failed fork | is one app left, and does it run what the file says? |
| `config_reload` | a file that is replaced, moved away and back | counterexample to a comment of the configuration file, see below |

Why the bounds are enough. Two deferred works at two times are needed for every
order of expiry, and a clock of five instants for a deadline in the past, at
now and ahead, with a re-arming in between. Three handles give the walk of
`HeavyWorker` a slot behind, at and ahead of the cursor, and three submitters
cover every pair of threads inside `SetWork` at once. In `DynamicFps` the
threads and handles are the program's own, all of them; only apps and sources
are reduced: two apps, because a switch needs a before and an after, two
sources, because `AnyPressed` is their disjunction. Rules have distinct rates
wherever a property must tell them apart. All kinds of event at once are too many
states; a behaviour keeps to one set of kinds (`Instances`), chosen such that
every two handlers that write the same member meet. The devices of `InputListener` are
taken in `Instances`, too: two that come and go and report nothing, with two
notices, have a removal and an addition in one replay and a change that
arrives meanwhile (the notes are never cleared, so that all four are replayed
in time); four entries of the table are the pipe, both devices and a stale copy. Those
that report stay. Two keys and two fingers are the least number for a
chord, and `IntMax = 4` is what two devices can hold down, and what repeated packets
without a key drive the counter up to. `Monitors` needs two apps, and
numbers of tasks just beyond the thresholds; its events and scans are bounded by
themselves. Four lines are the two that must be there and two more: two rules for one
app, or a tunable before or after them. Three processes are the settings of one switch
overlapping one of the next. Three edits are one that the daemon is handling, one that
overlaps it and one after; three inodes, three descriptors and four process numbers are
as many as those can keep in use. The theorems below remove the
bounds altogether for the safety properties they name.

Every property has a mutant in `PROJECT.json`: a plausible bug in one of the
definitions it depends on, with which the property fails. Mutants are written
beside the definitions they alter and are used by nothing else.

### Fairness

Weak fairness of a thread's own steps: the operating system schedules it. `SF`
of `WorkDone` in `HeavyWorker`: a work returns after finitely many `SetWork` of
its own. In `DynamicFps`, `SF` of `Pick(h)`: a deferred work that nobody
reschedules comes due, even though the timer thread is busy with others
in between (`DelayedWorker` serves the earliest first, and a deadline that does
not move becomes the earliest); `SF` of `TakeWork(b)`: `ServesEveryHandle`,
checked on `HeavyWorker`. In `InputListener`, `SF` of `Poll`: a signal may
interrupt `poll()` and send the thread round the loop, but not every time. In
`Commands` and `Daemon`, weak fairness of every process and of a pending signal's
delivery: a command ends, an app that was told to end does, a file that is being
written is closed. No event ever has to happen: each liveness property
either asks for events to stop or holds whatever they do. Nothing is assumed of
spurious wakeups.

## What is proved

For every value of the constants, under the assumptions named in the modules
(`*Assumption`), TLAPS checks:

* `DelayedWorker_proofs`: `TypeCorrect`, `TimerCovers` and `KeepsPromise`
  (`DelayedWorker` implements `TimedSlots`). With `TypeOK`, `TimerCoversEarliest` is
  inductive: it says nothing of the moments the timer thread is busy, and the only
  way back to waiting passes through `ReloadTimer`, which establishes it from any
  table (`ReloadCovers`). The refinement needs that a scheduled slot has a work (part
  of `TypeOK`) and that no work is held outside `pc = "run"`
  (`IdleHoldsNothing`).
* `HeavyWorker_proofs`: `TypeCorrect`, `SubmissionsKept`, `WakeupsKept`,
  `WalkUndisturbed`, `KeepsPromise`. The strengthening says where the walk is
  (`cursor` within `works_`, a work held exactly while `pc = "run"`) and that
  nothing is submitted before `started`, from which the unlocked `Create` never
  meets a walk.
* `DynamicFps_proofs`: `TypeCorrect`, `TimeoutsAreWithdrawn`, `ActiveIsJustified`,
  `GestureOverrideIsJustified`, `OffscreenOverrideIsJustified`, `RuleSettles`,
  `RateSettles` and `RelyOnMailbox` (the threads use `HeavyWorker` as `WorkMailbox`
  allows). The inductive invariant `Inv` is a conjunction: which handlers a thread
  can be in and at which step (`Threading`, `Paths`), that a lambda is chosen exactly
  between `ChooseKind` and `Post` (`Posting`), `TimeoutsWithdrawn`,
  `ActiveJustified`, and the two properties of overrides strengthened with the steps of
  other threads that are about to write (`GestureInv`, `OffscreenInv`), of which the first also
  says that a torn name comes from two assignments at once. The two about rest are proved over
  `Inv` from `SettledInv`: whenever no lookup is to come (no lambda waits, no thread is
  on the way to posting one) the rate in force, or the one the heavy thread
  has looked up, fits the rule and, unless `raced`, `active_` and the brightness.
* `InputListener_proofs`: `TypeCorrect`, `OpenIsPolled`, `ChangesHonoured`,
  `TouchFollowed` and `ButtonsFollowed`. All rest on `Base`: types, one reader per device,
  the descriptor that is being read is open, and there are descriptors left for the
  devices, without which `open()` would fail. `OpenIsPolled` is inductive with it: `AddPoll`
  stores the descriptor somewhere, and `RemovePoll` only frees an entry of the
  descriptor that is closed. For `ChangesHonoured` the strengthening (`HotplugInv`)
  follows a change through the threads: the last undelivered notice of a device says
  whether the device is there (`LastNotice`), a reader whose device is gone, and a device without a
  reader, are still in the notices, in a pending list or in the replay at hand (`DeadNoted`,
  `CreatedNoted`, `RemovesReplayed`, `AddsReplayed`), or the device is `missed`.
  `TouchFollowed` is proved for one touch panel or touchpad that stays and has a touch
  key (`OnePanel`), beside any other devices: two panels share one touch state. The
  argument, for keys and fingers alike, is that the reports on their way lead from what
  was published to what is held down (`Runs`).
  `ButtonsFollowed` is for any number of button devices that stay, with no more keys in
  all than `IntMax` counts (`ButtonsFixed`); the sum over the devices is the
  cardinality of the set of keys that are down. What the run shows of one panel and
  one keyboard thus holds for any instance of that kind. Nothing is claimed outside the
  hypotheses: `RemoveReader`'s decrement, the one touch state of two panels and a counter
  at its cap are then in the way.
* `Monitors_proofs`: `TypeCorrect`, `ChangesAreNoticed`, `AppIsAnnounced` and
  `OffscreenIsKnown`. `Base` adds that nothing is tracked before the start-up is over
  and that a millisecond swallows an event only while a scan waits. For the app the
  strengthening relates `topappNr_`, to within the jitter, to the number of the app
  that is in the foreground, or is about to be asked for.
* `Commands_proofs`: `ConfigInForce`, `RatesAreOfTheirKind` and `RateIsInForce`. For a file
  of any length: the tunables and rules are at every line those of the lines read so
  far (`Followed`), and why reading ended (`Judged`). A first or last line is the
  minimum or maximum of a set of line numbers, so that no induction over the file is
  needed. What `FindInvalidRule` lets pass is exactly what the help file asks for and the
  mixed rules (`InvalidIsUnsuited`). From an accepted file follows that every lookup gives a rule of the file's kind
  (`Kinds`), and from that which requests can be on their way; what is to come of the
  last one is accounted for by the commands still to put or already running: with the
  backdoor by the last of them (`BackdoorPending`, which needs that only the child the
  heavy thread waits for runs a call, `SyncWaited`), with the settings by one for
  each (`SettingsPending`).
* `Daemon_proofs`: `TypeCorrect`, `OneAppAtATime` and `ChangesAreLoaded`. For one app at a time the
  strengthening follows the apps that were not told to end (`Left`): none when the
  daemon is about to fork, at most fork()'s child until it has looked at `dead_pid`, and
  at most `old_pid` from then on, where a child whose number is in `dead_pid` is not
  left (`DeadIsDead`). For the changes (`FileInv`): while the watch is not `lapsed`, the
  file at the path is watched by a descriptor of `items_` (`Watching`) or the event that
  has it watched again is still to come (`WatchRenewed`), and a content the last app has
  not loaded is still being written, reported by an event, or about to be
  loaded (`LoadOwed`).

Every safety invariant the runs check is stated by one of these theorems, and so are the
three refinements. What the constants are assumed to be is in the modules; the
assumptions that carry weight are that there are as many descriptors as devices
(`FdsAssumption`), two inodes at least, so that a file can be replaced
(`WatchAssumption`), and that apps are told apart by their tasks (`FarApart`).

Only model-checked are the liveness properties: `DrainsWhenQuiet`, `ServesEveryHandle`,
`ReportsRead`, `BecomesInactive`, `OverridesEnd`, `AppSettles`, `CommandsReturn`,
`ThreadsReleased` and `LastChangeServed`. Fairness and ENABLED are outside the prover's
reach.

## Findings

Four runs end in counterexamples, three to the help file
(`src/magisk/config/dfps_help_en.md`) and one to the comment at the head of the
configuration file (`src/magisk/config/dfps.txt`); each is a behaviour of the code.

* `pressed_rate`: `OnInput` withdraws the idle timeout as its last step and
  cannot withdraw one that is already running; `enterIdle` then clears
  `active_` after the press has been handled, and the press is shown at the idle
  rate.
* `offscreen_rate`: `OnOffscreen(true)` does not withdraw the wakeup timeout of
  the screen-on before it, which drops the offscreen rule while the screen is
  off.
* `mixed_rule`: the help file asks of `PEAK_REFRESH_RATE` that "the value in the perapp
  configuration" be at least 20. A rule such as `10 60` is accepted, because
  `FindInvalidRule` only rejects rules of which both values are below 20; the 10 is put as a
  rate in Hz when the app is idle.
* `config_reload`: "Dfps will automatically reload this config file after
  modification", but the watch can be lost. The run's counterexample is a file that is
  moved away between `access()` and `inotify_add_watch`, whose failure nobody
  looks at: the app is restarted without a file, and nothing happens when the file is
  back. A wider window leads to the same: a file that was moved away and is back by the time
  the event is handled, during the second the daemon sleeps, say, still has its watch;
  `inotify_add_watch` returns the same descriptor, and `items_.erase(evt->wd)` removes
  the entry just stored. In-place writes are still noticed after that, and one
  replacement of the file; none after it.

## What is not modelled

* Time is measured only in `DelayedWorker`. The other modules take delays to be of
  any length, so nothing is shown about how soon a rate changes, only about
  the order of things. The daemon's sleeps are cut short by SIGCHLD and order
  nothing.
* `NotifyRefreshRate`'s file, and what Android makes of the settings. What a brightness
  sample says is any of its two outcomes in `DynamicFps`.
* The parsing of dumpsys' and settings' answers and of the lines of the
  configuration file, character by character. A line longer than the buffer is read
  as several lines.
* A process number that is used again while the daemon remembers it; an answer longer than
  a pipe holds.
* Undefined behaviour other than the race on `overridedApp_`: `Subscribe` and
  `Inotify::Add` on the main thread change containers other threads search. `Monitors`
  takes each for one step.
* Several files of one `Inotify` that are replaced; a full inotify queue.
* Tombstones, SIGTERM to the daemon, tracing, backtraces, thread names, scheduling
  hints and time counters have no state the program's behaviour depends on.
* `src/thirdparty` (spdlog, scnlib) is third-party code the program calls to log and
  to parse numbers.

## Plan

What could be added, in this order:

1. A composition of `InputListener` and `DynamicFps` in which `active_` follows
   what is held down, at a cost that may need one device of each kind.
2. `Monitors` over `TimedSlots` and `WorkMailbox`, as `DynamicFps` is over `WorkMailbox`.
3. `Inotify` with several watched files, so that one file's renewed watch can take a
   descriptor another file's late event still names.
