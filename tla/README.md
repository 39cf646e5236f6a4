# Verification of logid

TLA+ models of logid, the user-space driver for Logitech HID++ devices of this
repository, the TLC runs that check them and the theorems TLAPS proves about
them. Paths below are relative to `src/logid/` of the repository unless they
begin with `README`, `tools` or `src`.

    cd tla
    tlc -workers 2 -config MCTasks.cfg MCTasks           # one run; see "Runs"
    tlapm ThreadingProofs.tla                             # one proof module

`PROJECT.json` lists, for tools and for readers, the components, the runs, a
mutant for every property (a plausible bug that makes it fail), the source lines
each definition stands for, the findings, the hazards and the theorems.

## 1. The system and its parts

logid finds HID++ receivers and devices (udev), talks to them over hidraw,
configures their features, diverts buttons and gestures into uinput events or
actions, and runs user commands when a device connects or disconnects. It is
multi-threaded:

- one **I/O thread** (`backend/raw/IOMonitor.cpp`) polls all descriptors and runs
  every report handler;
- a pool of **workers** (`util/task.cpp`, four by default) runs whatever handlers
  do not want to do on the I/O thread, now or after a delay;
- a detached **hook thread** per device that has connection commands to run
  (`util/CommandQueue.cpp`);
- the **IPC** thread, which calls into features and managers.

| part | state | operations | what is hard |
|---|---|---|---|
| worker pool, `util/task.cpp` | priority queue of timed tasks, `workers_run`, condition variable | `run_task`, `run_task_after`, `worker`, `stop_workers` | one notification per push, two kinds of wait, stop with an unlocked gap |
| hook queue, `util/CommandQueue.cpp` | deque, `running`, children | `run`, the thread, spawn, wait | `run()` meeting a thread that returns, failing spawn or thread, death of the Device |
| I/O monitor, `backend/raw/IOMonitor.cpp` | descriptors, two mutexes, eventfd, `_is_running` | `add`, `remove`, `_listen`, `_yield`, `_stop` | interrupting a poll, handlers that call back, destruction |
| event handlers, `backend/EventHandlerList.h` | list, flags, two mutexes | `add`, `remove`, `cleanup`, `run_all` | changing the list while it is run |
| HID++ transactions, `backend/hidpp20/Device.cpp`, `backend/hidpp10/Device.cpp` | response slots, condition variable | `sendReport`, `sendReportNoACK`, `handleEvent` | sharing of slots, timeouts, late replies, failed writes |
| receiver, `backend/hidpp10/ReceiverMonitor.cpp`, `Receiver.cpp` | waiters, pending adds, devices, `_devices_change` | notification handlers, `_addHandler`, `addDevice`, `removeDevice`, enumeration | order of notifications, retries, input from sleeping devices, unplugging |
| device, `Device.cpp` | `_awake`, features, profile | `sleep`, `wakeup`, constructors, profiles | wakeups from three sources with different locks, while the device or its receiver is removed |
| features, `features/` | per feature | `configure`, `listen`, `setProfile`, IPC setters, events | delayed work after sleep; several threads that set the same setting; profiles that are erased; number ranges |
| buttons and actions, `features/RemapButton.cpp`, `actions/` | `_pressed_buttons`, an action per button | events, `configure`, `setProfile`, `setAction`, the actions' tasks | buttons held across a sleep or a change of action; tasks of an action that is gone |
| gestures, `actions/GestureAction.cpp`, `actions/gesture/` | motion since the press, an axis per gesture | `press`, `move`, `release`, `setGesture` | one motion across the origin, remainders, changes of direction |
| battery, `features/BatteryStatus.cpp`, `UhidBatteryDevice.cpp` | `_sleep_generation`, `_uhid_battery`, the UHID thread | readings, publishing, withdrawing, kernel events | no lock on the UHID device; withdrawals and wakeups; a driver that binds late |
| probing, `backend/hidpp/Device.cpp` | one response slot, `_sent_sub_id` | version, pings, name | late replies to an earlier try |
| raw device, `backend/raw/RawDevice.cpp` | descriptor, node | open, ask, register, read, destroy | reuse of descriptors by the kernel |
| device manager, hotplug, `DeviceManager.cpp`, `backend/raw/DeviceMonitor.cpp` | maps of devices and receivers, nicknames | add and remove by udev | add with backoff against remove |
| pairing, `ReceiverMonitor.cpp`, `backend/hidpp10/Receiver.cpp` | pairing state, discovery event | Bolt and Unifying pairing, search for paired devices | delayed start against stop; names in blocks |
| virtual devices, `InputDevice.cpp`, `TouchpadDevice.cpp` | declared codes, contacts | register, press, move, begin and end gestures | a code declared while others write |
| messages, `backend/hidpp/Report.cpp`, `backend/hidpp20/features/` | none | building and reading reports | telling replies, errors and events apart; bytes behind a report |
| configuration, `Configuration.cpp`, `config/` | devices, profiles | read, `_getConfig`, setters, `save` | old and new forms, a kill while saving |
| start-up, `logid.cpp` | options, two flags | options, `main`, the signal thread | a signal against the loss of the bus |
| host switching, `features/HostSwitch.cpp`, `tools/host-switch` | persisted "away", jobs | link and host events, monitor commands | crash between persisting and switching; failing commands |

How they interact. The I/O monitor calls a raw device's handlers; those run the
event handler list of the HID++ device, in which the transactions are completed,
the receiver monitor turns notifications into tasks, and features and actions see
their events. Tasks run on the workers, make transactions (and so depend on the
I/O thread), and change receiver, device and features. A device's connection
hooks go through its hook queue. Nothing on the I/O thread may wait for an answer,
because nobody else can deliver it; that rule is why tasks exist, and the battery
feature breaks it (`features/BatteryStatus.cpp:192`).

What makes them correct:

- pool: a queued task is run, not before its time, not after stop, and nobody is
  left asleep;
- hook queue: every accepted command is run, in order, one at a time;
- I/O monitor: the descriptors are changed only while the thread is not looking;
  whoever wants to change them gets to; every ready descriptor gets its handler;
  the destructor returns;
- handler list: handlers that are in the list are called, whatever is added and
  removed meanwhile; the iterator stays valid;
- transactions: one owner per slot, an answer goes to its request, every call
  returns;
- receiver and device: hooks alternate and agree with the device's state; a device that
  goes is told; events take effect in order; no index is left ignored;
- buttons: nothing stays down that is not held, and the buttons diverted in the
  device are those with an action;
- actions: what a press or a release asks for is done once, as it was set then, and
  nothing for an action that is gone;
- gestures: each direction gets the motion in its direction, and one of them fires;
- settings: a device at rest has the settings of its profile, whoever set them;
- battery: it is published for a device that is awake and only for one, and the
  kernel shows what was published;
- probing, messages, raw devices: an answer, an event or a report is taken for
  what it is and given to whom it is for;
- manager: it has what is plugged in, once everything is handled;
- pairing: its state is the receiver's, and PairReady names the device it pairs;
- configuration: what was saved is read again;
- host switching: the monitor is where the keyboard is, in the end, or the state
  file says that it has to come back.

Components that are modelled in part, or not at all, are in section 7.

## 2. Modules

| module | models | role |
|---|---|---|
| `TaskQueue` | `util/task.cpp` | state machine |
| `CommandQueue` | `util/CommandQueue.cpp` | state machine |
| `OrderedCommands` | what `CommandQueue` promises | abstract specification; `CommandQueue!Ordered` is the refinement |
| `IOMonitor` | `backend/raw/IOMonitor.cpp` | state machine |
| `ThreadingProofs` | | theorems about `TaskQueue`, `CommandQueue` and `IOMonitor` |
| `RawDevices` | `backend/raw/RawDevice.cpp` with `IOMonitor.cpp` | composes raw devices, the I/O thread and the kernel's descriptors |
| `EventHandlers` | `backend/EventHandlerList.h` | state machine |
| `Transactions` | `backend/hidpp20/Device.cpp`, `backend/hidpp10/Device.cpp`, `backend/raw/RawDevice.cpp` (`sendReport`) | state machine for both protocols |
| `TransactionsProofs` | | theorems about `Transactions` |
| `DeviceLink` | `backend/hidpp10/ReceiverMonitor.cpp`, `Receiver.cpp`, `Device.cpp`, `DeviceManager.cpp` (removal), `features/DeviceStatus.cpp` | composes the pool's queue, the receiver monitor, the receiver and the device |
| `DeviceLinkProofs` | | theorems about `DeviceLink` |
| `Buttons`, `MCButtons` | `features/RemapButton.cpp`, `actions/KeypressAction.cpp`, `actions/TouchpadGestureAction.cpp`, `Device.cpp` (`sleep`, `wakeup`, `reconfigure`, `setProfile`) | composes the button feature, its actions, the device and the virtual devices; values for TLC |
| `ButtonsProofs` | | theorems about `Buttons` |
| `Actions` | the other actions of `actions/`, with `task.cpp` | state machine |
| `Gestures` | `actions/GestureAction.cpp`, `actions/gesture/`, wheel, thumb wheel and touchpad gestures | state machines of four hosts of gestures |
| `Settings` | `features/DPI.cpp`, `SmartShift.cpp`, `HiresScroll.cpp`, `ThumbWheel.cpp`, `Device.cpp` (profiles), `ToggleHiresScroll`, `ToggleSmartShift`, `ChangeDPI` | composes features, profiles and three threads |
| `Battery` | `features/BatteryStatus.cpp`, `UhidBatteryDevice.cpp`, `features/DeviceStatus.cpp` | composes the feature, the pool, the UHID thread and the kernel |
| `BatteryProofs` | | theorems about `Battery` |
| `BatteryReading` | the choice of a reading in `features/BatteryStatus.cpp`, `backend/hidpp20/features/BatteryStatus.cpp` | algorithm against its definition |
| `Probing` | `backend/hidpp/Device.cpp`, `Root.cpp`, `DeviceName.cpp`, `EssentialFeature.cpp` | state machine |
| `Messages` | `backend/hidpp/Report.cpp`, `backend/hidpp20/features/`, `backend/hidpp10/Receiver.cpp` | encodings against a device that keeps what it is sent |
| `Pairing` | `backend/hidpp10/ReceiverMonitor.cpp`, `Receiver.cpp` | composes pairing, the D-Bus caller and the receiver |
| `Hotplug` | `DeviceManager.cpp`, `backend/raw/DeviceMonitor.cpp`, `backend/hidpp/Device.cpp`, `Device.cpp` (construction) | composes udev, the workers and the manager |
| `VirtualKeyboard` | `InputDevice.cpp`, `KeypressAction.cpp`, `AxisGesture.cpp` | composes three threads, the device and the kernel |
| `VirtualTouchpad` | `TouchpadDevice.cpp`, `TouchpadGestureAction.cpp` | composes two buttons, the touchpad and the kernel |
| `ConfigStore` | `Configuration.cpp`, `config/`, `Device::_getConfig` | state machine with the reading and writing of values |
| `Startup` | `logid.cpp` | state machine of the two threads of `main()` |
| `HostSwitch` | `features/HostSwitch.cpp`, `tools/host-switch/logi-host-switch.py` | composes keyboard, logid's signals, the script and the monitor |
| `MCTasks` | | one model for TLC of `TaskQueue` and `CommandQueue` |
| `MCIO` | | one model for TLC of `Transactions` and `IOMonitor`, with values for them |
| `MCComponents` | | one model for TLC of thirteen modules that share nothing |
| `ComponentsProofs` | | theorems about `EventHandlers`, `RawDevices`, `Probing`, `BatteryReading` and `Pairing`, as parts of `MCComponents` |
| `FeaturesProofs` | | theorems about `Gestures`, and about `Settings` and `Actions` as parts of `MCComponents` |
| `PresenceProofs` | | theorems about `HostSwitch` and `Hotplug` |

Conventions. A step is what a thread does while it holds the lock that guards the
state, up to where it releases it or waits; where the code releases a lock in the
middle, the model has two steps. Local program counters are functions from
threads (`wstate`, `thread`, `pc`, `ystate`) or a single value for the I/O thread
(`listener`, `io`). Condition variables are the set of woken waiters, so a
notification nobody waits for is lost and spurious wakeups are possible. Variables
marked *(history)* are in no guard: properties are about them. A guard marked
*bound of the model* keeps TLC's state space finite and nothing else; in
several modules `spare` holds what is left of such bounds. `Unset` is an empty
`std::optional`. An operator commented as a mutant of X is used by nothing; put in
X's place, it must make a property fail.

### TaskQueue

`tasks` and `time` are the priority queue, `wstate`, `woken` and `deadline` the
workers and `task_cv`. `Enter`, `WaitReturns` and `WaitForReturns` are the stretches
of `worker()` between two places where `task_mutex` is given up; they share
`LoopHead`. A worker in `wait_for()` has copied the time of the top task when it
began to wait; after `wait_for()` it starts what is on top then. `StopWorkers` and
`StopNotifies` are the two halves of `stop_workers()`, `Exited` the end. Ties in the
priority queue go either way. Tasks are names used once; their functions are the
business of the modules that compose the pool with something.

### CommandQueue, OrderedCommands

`jobs`, `running` and `children` are the shared state; `thread` and `job` say where
each detached thread is. `Run` is `run()` including the failure of `std::thread`'s
constructor, after the command has been queued; `Pop`, `Return`, `Spawn`,
`SpawnFails` and `WaitPid` are the thread; `ChildEnds` is the child's;
`DestroyDevice` is the Device's destructor, after which the thread goes on with
the state it shares. The history `accepted` and `taken` is for `NothingLost`.

`Ordered` maps a command that has been popped and not finished to `active`, the
deque to `queue`: accepting is `Submit`, popping is `Begin`, a failed spawn or a
reaped child is `End`, everything else stutters.

### Transactions

`slot` is the array of response slots (16 in 2.0, indexed by feature modulo 16; 4 in
1.0), `pc`, `request` and `woken` the callers and the condition variable, `replies`
what the device may still send. `Protocol` selects the differences the code
has: what a reply is matched against, and whether releasing a slot notifies. A
tag tells two equal requests apart; it is in no guard, since the protocol has none.
`Write` is the raw device's write, which may fail; `TimesOut` may happen whenever a
caller waits for a response. `SendReportNoACK` shares the write only.

### Probing

The third kind of transaction, that of `hidpp::Device`, has one slot and remembers
what it waits for before it takes the lock. `step` is the request of `_init()`: the
version, five pings ("hello"), the three requests of the name. `try` numbers the
objects: a probing that ends with DeviceNotReady is repeated with a new one, while
the device may still answer the old one's requests, whose keys are the same.
`Accepts` is the comparison of the ping's echo, which is what puts the two back in step.

### Messages

One call at a time of one *item*, of which there is one for every feature and
register that logid uses (`At`): `Encode` gives the bytes of a call as the wrapper
puts them, `Decode` what it takes from a reply, `EventOf` what a handler takes from an
event; `Kept` and `Image` are the device, modelled from what the wrappers expect. It keeps the bytes of a setting as they came, so that
a field that is put in one place and taken from another, or a flag whose
partner is forgotten, is not read back. Errors (both forms), events and replies
share the wire; `IsReply` tells them apart as `responseReport()` does, `EventOf` as the
conditions of the event handlers do. `Behind` is what lies in memory after a report.

### IOMonitor

`listener` is the I/O thread's place in `_listen()`, `batch` the events
`epoll_wait()` returned, `run` and `yield` the owners of the two mutexes, `eventfd`
whether it is readable. `ystate` is every thread's place in `_yield()`: free, at
`_yield_mutex`, at `try_lock`, writing, blocked on `_run_mutex`, owning it, or joining.
Handlers run with `_run_mutex` released and may call `add()` and `remove()`
themselves, so the I/O thread is also a caller. The removal of a descriptor
that is in the current batch makes the I/O thread skip it.

`Stop` may come before the thread has run at all: `_listen()` then sets `_is_running`
after `_stop()` cleared it, and `join()` never returns. The model has that hang
(`lateStart`); `StopEnds` excepts it.

### RawDevices

`table` is the process's descriptors, of which `open()` takes the lowest that is free;
`monitor` is `IOMonitor::_fds`; `stage` is where an object is between its constructor and
its destructor. `add()` and `remove()` are single steps, which is what `IOMonitor`
shows. The I/O thread works through a batch that may name descriptors that were
closed and opened again since; it holds a reference while it reads and may thus run
the destructor itself.

### EventHandlers

`list` and `flagged` are the nodes and their flags, `excl` the exclusive owner of
`mutex` (the I/O thread while it cleans up or a remover); that the I/O thread holds
`mutex` shared is `Running`, and `add_mutex` is held exactly in the steps
that need it. `pos` is the iterator. `cleanup()` erases without `add_mutex`, a data
race with `add()`: `AddHandler` may then lose its node, and the race is recorded
in `raced`. What a corrupted list does later is not modelled.

### DeviceLink

`queue` and `delayed` are the tasks given to the pool, `pc` and `task` the workers,
`change` the owner of `_devices_change`. `ConnectNotification`,
`DisconnectNotification`, `Input` and `StatusBroadcast` are the I/O thread's handlers;
`Enumerate` is the delayed enumeration; `Begin` to `Failed` are the stretches of
`_addHandler()` and `addDevice()`; `Sleep` and `Wakeup` are the parts
of `Device::sleep()` and `wakeup()` under `_state_lock`.

Three parts of the code take different locks and meet in the middle:

- `DeviceStatus`'s task, in `TakeWakeTask` (its weak pointer locks) and `WakeTaskRuns`
  (`wakeup()`), takes neither `_devices_change` nor the manager's `_map_lock`. It holds the
  feature, not the Device: if that goes in between, what it does is a use of freed memory, of
  whose outcomes the model has two, the Device found as it was left and nothing at all;
- `removeDevice()` of the receiver is `RemoveSleeps` and `RemoveErases`, between which a
  wakeup may come; it holds `_devices_change` and `_map_lock` throughout (`MapLocked`);
- `removeDevice()` of the manager is `Unplug`, `UnpluggedSleeps` for each device and
  `RemoveReceiver`, under `_map_lock` alone. A worker that makes a Device meanwhile puts it into
  the receiver (`Emplace`) before or after, since its task holds the Receiver (`SelfLocks`).

`Lives` says how long a Device is there: while it is in `_devices`, or with the worker that
made it, and the Receiver is held by somebody. `raced` *(history)* are the indices whose
Device was woken, or put into the map, when no `sleep()` was to come any more (`TooLate`).

Simplifications: the queue is taken in order (equal delays, by `TaskQueue`), enumeration's
calls of `_addHandler()` are tasks of their own, the features' callbacks are left out but for
what they throw, and hooks count when they are given to the hook queue, whose order is
`CommandQueue`'s business.

### Pairing

`state` and `event` are `_pair_state` and `_discovery_event`, `receiver` and `target` what the
receiver really does. `StartPair` and `StopPair` change the state, `SendCall` is the
request they then make, which the receiver obeys or which is lost and throws.
`Handle` takes the receiver's next report on the I/O thread; a complete name queues
`StartBoltPairing`. The length of a name is all that is kept of it, so `Fills` is
exactly the arithmetic of its blocks. `raced` marks a queued start, or an end of the
receiver's own, that overtakes a call. `GetDeviceCount` and `ReadSlot` are the search
for paired devices, which shares nothing with the rest and is explored on its own.

### Hotplug

One hidraw node; `plugged` is the number of the device that is in it, so that a
node whose name was used again is told apart. `tasks` are udev's events, which workers
take in order and handle at once; `main()` enumerates at the same time. `Probe` is
`hidpp::Device::make()`'s outcome (see `Probing`), `BackOff` the delayed repetition, `Make`
and `InitDevice` are the construction of the object, with its nickname, `Insert` and `Remove` are
under `_map_lock`. The construction probes the node a second time: a failed ping or a HID++ 2.0
error is DeviceNotReady there too, and repeated whatever the device is, while other errors of
that probing and of the features (`AnswerLost`) are repeated for a corded device only. `crossed` marks an insertion of what is no longer there and a
removal of what has just come, which the code does not prevent (hazard at
`DeviceManager.cpp:119`): the device then stays in the map, or is missing from it.

### Buttons

`held`, `diverted`, `link` and `reports` are the device and its user; `pressed` is
`_pressed_buttons`, `action` and `active` the actions and their `_pressed`, `down` and
`fingers` what is down in the virtual keyboard and touchpad. `ButtonEvent` is
`_buttonEvent()` under `_button_lock`; `OnSleep` is `onSleep()`; `Reset` and `Configure`
are `reconfigure()`, one request a step; `LockButtons` and `MakeAction` are
`RemapButton::setProfile()`, which makes actions (and, for ChangeHost, requests) under
the lock; `ClearDivert` is the destructor. A request is answered or times out, and
one that times out may have reached the device. It cannot be answered while the I/O
thread waits for the caller's lock or is itself the caller. `missed`, `blind`
and `orphans` *(history)* are the exceptions of the properties: buttons whose last
request failed, buttons that lost their diversion while down, and what stays down
for an action that was replaced.

Simplifications: an action is one key, a gesture without click, ChangeHost or none;
motion is left out; a control id is below 128; `sleep()` and `wakeup()` come in the order
of the link's changes (`DeviceLink` is about when they do not); a Device is dropped when
no worker and no IPC call is inside it. A handler that still runs then destroys the
feature on the I/O thread, with the device already gone: in the model all its requests
time out.

### Actions

One button and the actions that do their work later: `tasks` are those the
pool has, each with the number of the report that asked for it; `action` is the
object with its identity, of which a task has a weak pointer (`Locked`). `SetValue`
changes the configuration the action refers to, `SetAction` and `ChangeProfile`
replace the action. `Does` records what was done for a report. `ReleaseThrows` is
the command whose waiting thread cannot be made: the exception goes through
`release()` and leaves the button pressed. `ActsAsAsked` is about what was asked; that a
CycleDPI with a list asks for nothing is a matter of its own (`CyclesItsList`, section 5).

### Gestures

A behaviour has one of four hosts: a button with `GestureAction`, the wheel, the thumb
wheel, a button with `TouchpadGestureAction`. `gs` is the gesture of each direction:
its kind, its axis, what it has fired and scrolled. `MoveButton` splits one motion between
two directions as `move()` does when it crosses the origin (`CrossMinus`);
`_x` and `_y` have 16 bits. `Scroll` and `Rotate` are the handlers of
the two wheels, with the pause after which the wheel starts afresh and the gestures that
`wheelCompatibility()` refuses. What a gesture that fires does is left to `Actions`.

### Settings

The configuration is a function from profiles to what they say of each feature; `ref` is
the profile a feature's `_config` refers to, `device` what the device has. A thread
(wakeup, IPC, a button's task) has a list of jobs: `Adopt` and `Configure` are
`setProfile()` and `configure()` of one feature, `GetMode` and `SetMode` the two requests of
the wheel's mode, between which the feature's lock is held, or not, if an action
toggles it. `Fail` is a request that times out: an exception ends the jobs that are
left. `PowerCycle` makes the device forget. `spoiled` names the settings that a failed
request or an action changed behind the configuration, `torn` a `setProfile()` that an
exception cut short. `ClosestDPI` is `getClosestDPI()` of a range.

### Battery, BatteryReading

`gen` is `_sleep_generation`, `uhid` the object in `_uhid_battery` (the charge it keeps),
`kernel` what the kernel shows. `OnSleep` and `OnWakeup` are the feature's callbacks,
outside the lock of `sleep()` and `wakeup()`; `Read` to `Write` are the steps of
`_readAndPublish()` between which other threads run; `CheckWithdrawal` and `Withdraw`
are the delayed task. `BatteryEvent` reads the battery on the I/O thread, during
which no reply arrives. The UHID thread (`ReadKernelEvent`, `Resend`) sends the
state again while the driver is being bound. Two creations at once, an update of an
object that is gone and a withdrawal that comes too late are steps of the model, whose
outcome is `crashed`. Delays are what the code says relative to one another: a
refresh and a reading are over before a withdrawal of the same generation.

`BatteryReading` is the loop over the readers: `Read` takes an answer or a failure,
`Better` compares it with what was selected, `Estimate` is the table of voltages.

### VirtualKeyboard, VirtualTouchpad

A thread's `job` is a sequence of calls into the virtual device, taken one at a time.
`Enable` destroys the uinput device and makes one that has one more code, upon which the
kernel lets go of all keys; `EnableFails` makes none. The test whether a code is
declared is made without a lock (`Register`) and noted after it (`Note`).

`VirtualTouchpad` keeps what the kernel was told (`tracked`, `tools`, `touch`) beside
what the program believes (`contacts`, `active`, `fingers`), for two buttons that share
the touchpad.

### ConfigStore

A libconfig setting is a pair of a type and a value. `GetInt` to `GetDevice` are the
`config_io` of the schema's types, one example for each shape (variants, lists, signed
groups, required and optional fields, maps); `SetDPI` to `SetDevice` the way back.
`GetConfig` is the migration of an older form, `Change` an IPC setter. `Kill` may come
inside `writeFile()`. `SavedIsRead` compares what a start would read with what was saved.

### Startup

`ReadOption` is one turn of `readCliOptions()`; `After` is the order of the steps of
`main()`. The signal thread waits for what is blocked; `StopThread`, `Kill` and `Join` are
`main()`'s end when the server has ended by itself.

### HostSwitch

`keyboard` is where the user put the keyboard, `unsent` the signals that tasks of logid
will emit (each in a task of its own, so in any order), `jobs` the queue of the
script's worker or of its hooks. `Departure` and `Return` are the orders in which
`switched()` and `connected()` save, tell the mouse and switch the monitor. A monitor
command that fails may have been obeyed. `Kill` stops the daemon between any two steps,
`Restart` loads the state file.

### MCTasks, MCIO, MCComponents

Each puts modules together that share no variable: two, two and thirteen. `part` says which
of them a behaviour explores; the variables of the others stay as they started (`Off` in
`MCComponents`). The states of such a run are the sum of theirs, not the product, and each
property is that of its module for its part. `MCTasks` and `MCIO` have liveness properties, for which
their specifications state the fairness of each part's own.

## 3. Runs

| run | instance | states | shows |
|---|---|---|---|
| `tasks`, pool | 2 workers, 3 tasks, delays 0 and 2, clock to 2 | 193,374 in both parts | `StartsInTurn`, `Progress`; deadlock checked |
| `tasks`, hooks | 4 commands, one empty, 2 thread identities | | `OneChild`, `NothingLost`, `EveryJobTaken`, refinement `Ordered` |
| `io`, requests | 2.0; 3 callers, features 1, 2 and 17, 3 calls, 1 write error | 173,776 in both parts | `SlotsAreOwned`, `OwnReplyUntilTimeout`, `EveryCallReturns` |
| `io`, monitor | 2 clients, 2 descriptors, 3 calls | | `FdsExclusive`, `NoMissedYield`, `NobodyBlocked` |
| `device_link` | 1 device, 2 workers, 4 events, 1 broadcast, 2 retries, both removals | 10,603,256 | `LinkIsFollowed` |
| `buttons` | 2 buttons, 2 profiles, 3 moves, 1 lost link, 1 lost reply, 2 IPC calls | 9,295,535 | `HeldIsKnown`, `DivertsAreKnown` |
| `battery` | 2 workers (symmetric), 2 changes of the link, 1 broadcast, 1 event of each kind, 1 refresh, 1 resend | 6,089,405 | `BatteryFollowsSleep`, `KernelIsTold`, `UsedWhileThere` |
| `host_switch` | daemon or hooks, both modes, 3 moves, 2 failures of 2 attempts, 1 kill | 1,804,686 | `DepartureIsKept`, `ReturnsHome` |
| `hotplug` | main and 2 workers, 2 devices in turn, 1 retry, 2 answers that are not ready | 971,331 | `ManagerAgrees`, `PluggedIsAdded` |
| `components` | thirteen modules, below | 1,958,871 | the properties below |
| `device_link_order` | 1 device, 2 workers, 3 events, 1 try, no broadcast | violation | `HooksInEventOrder` fails (finding) |
| `device_link_told` | 1 device, 2 workers, 1 event, 1 try, 1 broadcast | violation | `RemovalIsTold` fails (finding) |
| `gestures_vertical` | a button, threshold gestures, 4 steps of at most 2 | violation | `VerticalFollowsMotion` fails (finding) |
| `cycle_dpi` | a button, 3 hosts, 2 profiles, 2 reports | violation | `CyclesItsList` fails (finding) |

| part of `components` | instance | states | properties |
|---|---|---|---|
| gestures | 4 hosts, 5 kinds of gestures, 4 events of at most 2 units, thresholds and intervals of 2 | 422,498 | `HorizontalFollowsMotion`, `MotionIsCounted`, `OneGestureFires` |
| settings | 2 profiles, 4 features in two devices, 2 calls, 1 failure, 1 power cycle | 629,365 | `SettingsApplied`, `ProfilesAreAlive` |
| actions | 3 hosts, 2 profiles, 4 reports, 1 setter, 1 failure | 47,236 | `ActsAsAsked` |
| reading | 5 voltages, 3 percentages, 3 level bytes, every state byte | 19,680 | `PublishesBest` |
| pairing | 2 devices, names of up to 3 characters in blocks of 2, 3 calls, 2 discoveries, 1 timeout; 3 slots | 296,104 | `StateIsTheReceivers`, `NamesTheTarget`, `EveryPairedSlot` |
| probing | 6 tries, 2 lost requests, 1 error | 110,799 | `AnswersAreOwn` |
| messages | every item, 3 words, 2 bytes behind a report, 2 calls, 1 event | 218,276 | `ReadBack` |
| raw devices | 2 objects, 2 nodes, 1 unplugging | 17,013 | `DescriptorsAreOwn` |
| handlers | 2 threads and the I/O thread, 3 handlers, 2 reports | 19,252 | `ListIsExact`, `EveryHandlerCalled` |
| configuration | 2 names, 53 forms of a file, 2 changes, 1 kill | 113,917 | `SavedIsRead` |
| keyboard | 3 threads, 2 declared and 2 undeclared codes, 4 reports, 2 setters, 1 failure | 55,814 | `KernelAgrees` |
| touchpad | 2 buttons, 1, 3 and 4 fingers, 6 reports, 1 setter | 4,366 | `KernelAgrees` |
| startup | 2 options of 8, 2 signals | 4,551 | `EndsAsAsked` |

The composite properties are conjunctions of named parts, each commented where it is
defined: `Progress` of `TaskQueue` is `EveryTaskStarts` and `WorkersEnd`, `NobodyBlocked` of
`IOMonitor` is `EveryYieldServed`, `EveryEventHandled` and `StopEnds`; `LinkIsFollowed`
is `HooksAlternate`, `GoneAreTold` and `PendingIsWorkedOn`; and so on.
`CHECK_DEADLOCK FALSE` stands where the program may come to rest with nothing to do (an
idle queue, no more calls or events). The pool ends in an explicit stutter, and its deadlock is
checked (`tasks`, whose other part has the stutter of a queue at rest); that nobody is blocked on
the I/O monitor is `NobodyBlocked`.

Many properties have exceptions (`crossed`, `overtaken`, `raced`, `spoiled`, ...). They
are histories of the one thing the code does not guard against, set in the step
where it happens, and section 5 or the hazard list says what it is. Without the
exception TLC finds the property violated; with it, the property says that nothing else
goes wrong.

Why the bounds are enough.

- *tasks, pool*: two workers are what a stolen task and a misdirected notification
  need, the third task is the one that arrives while both sleep in different waits; two
  delays give a task that is due and one that is not.
- *tasks, hooks*: a thread that returns, its successor, and a command that arrives
  in between need two identities (the old one may be reused); of four commands one
  fails, one is empty and two remain to be ordered.
- *io, requests*: features 1 and 17 collide, 2 does not. Three calls are an owner,
  a late reply and a second owner; each may time out.
- *io, monitor*: two clients contend for `_yield_mutex` while the thread
  handles the second of two descriptors. `MaxOps` bounds calls, so a client
  cannot be overtaken for ever: starvation on the mutexes themselves, which POSIX allows,
  is hidden by the bound.
- *device_link*: an event, its contrary, and another pair; the retry chain has a try that is
  retried and a last one (the code has `max_tries` 5); one broadcast meets either removal, and
  a second one would find the device awake. One index, since indices share
  only `_devices_change` and `_map_lock`, which only delay them.
- *buttons*: the first button keeps a key or gets another, the second has a gesture and gets
  an action that makes a request. Three moves are a press, a release and what
  another button reports meanwhile; a lost link with a move inside; two calls that
  meet one wakeup.
- *battery*: a loss and a return of the link with a broadcast between them gives every
  order of two callbacks and of a withdrawal; one refresh and one resend stand for
  three and twelve, which differ in nothing but their time.
- *host_switch*: away, back and away again, with a command that fails twice (given up)
  or once (retried), and a kill at every step of any of them.
- *hotplug*: two devices in turn are a node that is reused; a device that is not ready
  twice is retried and then given up; three threads are an add, a removal and an enumeration.
- *gestures*: four events are a press, a motion past a threshold, one back across the
  origin, and a release; the thresholds are small so that one event passes them and two are
  needed to.
- *pairing*: a discovery that another one interrupts, each in two blocks, of which
  the last may be short; a start that meets a stop; three slots, of which those between
  may be empty.
- *settings*: three threads that meet in two profiles; the two devices put together
  the features that share a mechanism. A DPI range of three values has a middle.
- *configuration*: the forms are a flat profile, a device and their mistakes; two changes
  put together a value and a removed one.
- *probing*: six tries are what the code makes (`max_tries` 5 in `backend/raw/DeviceMonitor.h`,
  after a first one); with a seventh `AnswersAreOwn` fails, since five pings no longer
  use up the late answers there may be.
- *the others*: each needs two of what collides (objects, buttons, tries), and a bound of
  one on what may fail.

## 4. Fairness

Liveness is checked under weak fairness of the steps of threads that can run, of
requests that time out and of the clock; nobody is assumed to call anything,
to send a report, to unplug or to stop. In particular:

- `TaskQueue`: worker steps (the scheduler), `Finish` among them (task functions end,
  since HID++ requests time out), the clock, and the two remaining steps of
  `stop_workers()` once begun;
- `CommandQueue`: the threads and the end of a child; a hook that does not
  end holds up the later ones, by design;
- `Transactions`: each caller's step; `TimesOut` is one, so no reply is assumed;
- `IOMonitor`: the listener and each thread inside `_yield()`; nothing is asked of the
  mutexes beyond that a thread gets one that stays free;
- `Hotplug`: each worker's step, a delayed task's begin among them; nothing is asked of
  the device, whose answers that are not ready are bounded by `MaxNaps` and by the
  number of tries;
- `HostSwitch`: the link is noticed, a task emits its signal, the script's worker goes on, its
  timer ticks (every 5 s) and systemd restarts it after a kill (`Restart=on-failure` in
  `logi-host-switch.service`). Monitor commands fail at most `MaxFaults` times.

The other modules have safety properties only; `EveryHandlerCalled` and
`OneGestureFires` are about single steps.

## 5. Findings

1. **Hooks out of event order** (`device_link_order`;
   `backend/hidpp10/ReceiverMonitor.cpp:53`, README:59). Link-down and link-up become tasks
   that two workers may finish in the other order: the last hook is on_disconnect and
   the device is left asleep with its link up. With one worker the invariant holds.
2. **A device that is removed is not told** (`device_link_told`; `Receiver.cpp:120`,
   README:55-56). `DeviceManager::removeDevice()` puts to sleep the devices that it finds in a
   receiver; one that a worker is making is put into it afterwards, and goes with it. A broadcast's
   wakeup between `sleep()` and the erase of `Receiver::removeDevice()` does the same. In either case
   the last hook is on_connect. `LinkIsFollowed` says that nothing else does (`raced`).
3. **Up and down are exchanged at the origin** (`gestures_vertical`;
   `actions/GestureAction.cpp:187`). Up is the negative y everywhere else in the file, but the
   motion that crosses the origin vertically in one report is given to the opposite
   direction: what was moved downwards before is added to Up, so that Up's
   gesture may fire for a motion that went down. Left and right are as they should be
   (`HorizontalFollowsMotion`).
4. **CycleDPI does not cycle** (`cycle_dpi`; `actions/CycleDPI.cpp:68`, `logid.example.cfg:48`).
   `press()` asks for a DPI only if the list is empty, and then reads behind its end; with a
   list, as the example has one, nothing is asked for.

The models also show the following, which no text of the repository contradicts clearly
enough to count as a finding; the properties name them as their exceptions.

- A worker that waited for a task which another worker took starts the next one, due or
  not (`util/task.cpp:73`; `StartsInTurn`).
- A HID++ 1.0 caller may sleep for ever: releasing a slot notifies nobody, other than in 2.0
  (`backend/hidpp10/Device.cpp:78-85`; the mutant of `EveryCallReturns`).
- The waiter that `addDevice()` registers after a timeout is erased when it returns to
  `_addHandler()` (`ReceiverMonitor.cpp:237`): input is not waited for.
- An action replaced while its button is held is dropped without being released: its
  keys and fingers stay down (`features/RemapButton.cpp:296` and `334`; `orphans`).
- A device unplugged while it is being probed stays in the manager, and one that was
  replaced may be missing (`DeviceManager.cpp:119`; `crossed`).
- The features learn of a sleep and a wakeup in the other order, and an awake device
  loses its battery (`Device.cpp:201`; `overtaken`); two threads may create a UHID
  battery at once (`features/BatteryStatus.cpp:214`; `twice`).
- A status broadcast's task keeps its feature alive and uses the Device through a plain pointer
  (`features/DeviceStatus.cpp:53`), which may be gone by then (`WakeTaskRuns`).
- A battery event is read on the I/O thread, whose own requests, and the workers', time
  out meanwhile (`features/BatteryStatus.cpp:192`).
- A queued start of a pairing comes after its stop (`ReceiverMonitor.cpp:87`; `raced`).
- `IOMonitor` destroyed before its thread began never returns from `join()` (`lateStart`).
- `ChangeHost` to "prev" from the first host asks for host 255
  (`actions/ChangeHostAction.cpp:102`).
- ChangeHost and ChangeProfile act on a release, whether they saw the press or not; only
  CommandAction asks (`actions/CommandAction.cpp:50-58`).
- With an "ignore" list in the file nothing is saved, since a set of numbers is written as
  groups (`config/types.h:327`); `writeFile()` does not replace the file atomically.
- A list of seven DPIs may end with one that is half in the byte behind the reply
  (`backend/hidpp20/features/AdjustableDPI.cpp`).
- `getLowResAxis()` of an axis (`actions/gesture/AxisGesture.cpp:82`) and the signed
  comparison of listed DPIs (`features/DPI.cpp:48`) were read and not modelled.

## 6. Proofs

| theorem | states |
|---|---|
| `ThreadingProofs!QueueTypeCorrect` | `Spec => []TypeOK` |
| `ThreadingProofs!AtMostOneChild` | `Spec => []OneChild` |
| `ThreadingProofs!FirstInFirstOut` | `Spec => []NothingLost` |
| `ThreadingProofs!Implements` | `Spec => Ordered`: every step of the queue is a step of `OrderedCommands` or a stutter |
| `ThreadingProofs!MonitorTypeCorrect` | `Spec => []TypeOK` |
| `ThreadingProofs!DescriptorsAreExclusive` | `Spec => []FdsExclusive` |
| `ThreadingProofs!WakeupsAreKept` | `Spec => []NoMissedYield` |
| `ThreadingProofs!PoolTypeCorrect` | `Spec => []TypeOK` |
| `ThreadingProofs!InTurn` | `Spec => StartsInTurn`, an action property |
| `ThreadingProofs!RunByOne` | `Spec => []RunsOnce`: a task is popped by one worker only |
| `ThreadingProofs!NoneStranded` | `Spec => []NoStrandedTask`: one notification for each push is enough |
| `ThreadingProofs!StopWakesAll` | `Spec => []StopReachesAll`: the unlocked gap of `stop_workers()` leaves nobody asleep |
| `TransactionsProofs!TypeCorrect` | `Spec => []TypeOK` |
| `TransactionsProofs!SlotOwnership` | `Spec => []SlotsAreOwned`, for both protocols |
| `TransactionsProofs!OwnReply` | `Spec => []OwnReplyUntilTimeout`, for HID++ 2.0 |
| `DeviceLinkProofs!TypeCorrect` | `Spec => []TypeOK` |
| `DeviceLinkProofs!LinkFollowed` | `Spec => []LinkIsFollowed` |
| `ButtonsProofs!TypeCorrect` | `Spec => []TypeOK` |
| `ButtonsProofs!HeldStaysKnown` | `Spec => []HeldIsKnown` |
| `ButtonsProofs!DivertsStayKnown` | `Spec => []DivertsAreKnown` |
| `BatteryProofs!BatteryFollows` | `Spec => []BatteryFollowsSleep` |
| `BatteryProofs!KernelStaysTold` | `Spec => []KernelIsTold` |
| `BatteryProofs!UsedOnlyWhileThere` | `Spec => []UsedWhileThere` |
| `ComponentsProofs!ListExact` | `MCSpec => []ListIsExact` |
| `ComponentsProofs!ReportReachesAll` | `MCSpec => EveryHandlerCalled`, an action property |
| `ComponentsProofs!DescriptorsOwned` | `MCSpec => []DescriptorsAreOwn` |
| `ComponentsProofs!DeviceIsNamed` | `MCSpec => []AnswersAreOwn`, for 1 to 6 tries |
| `ComponentsProofs!BestAnswer` | `MCSpec => []PublishesBest` |
| `ComponentsProofs!StateStaysTheReceivers` | `MCSpec => []StateIsTheReceivers` |
| `ComponentsProofs!TargetIsNamed` | `MCSpec => []NamesTheTarget` |
| `ComponentsProofs!EverySlotFound` | `MCSpec => []EveryPairedSlot` |
| `ComponentsProofs!KernelAlwaysAgrees` | `MCSpec => []KernelAgrees` |
| `FeaturesProofs!MotionIsFollowed` | `Spec => []HorizontalFollowsMotion` |
| `FeaturesProofs!MotionCounts` | `Spec => []MotionIsCounted` |
| `FeaturesProofs!OneFires` | `Spec => OneGestureFires`, an action property |
| `FeaturesProofs!NoDeadProfile` | `MCSpec => []ProfilesAreAlive` |
| `FeaturesProofs!SettingsAreApplied` | `MCSpec => []SettingsApplied` |
| `FeaturesProofs!DoesAsAsked` | `MCSpec => []ActsAsAsked` |
| `PresenceProofs!DeparturesAreKept` | `Spec => []DepartureIsKept` |
| `PresenceProofs!ManagerIsRight` | `HotplugSpec => []ManagerAgrees` |

Each module also has the theorem (`Invariance` or, for a part of `MCComponents`,
`HandlersInvariance` and so on) that its inductive invariant holds, from which the
others follow.

They hold for any sets of commands, threads, workers, callers, buttons, devices,
descriptors and handlers, and for any value of the bounds. The assumptions are those the
modules make of their constants, which TLC evaluates in the runs: special values are
none of the ordinary ones, bounds are natural numbers, and little more. The keyboard and
the touchpad are proved for the codes, actions and buttons that `MCComponents` gives them;
nothing in those proofs depends on how many calls are made. Of these assumptions,

- `Resends > 0` (`BatteryAssumption`): the UHID thread sends the state again at least once
  (twelve times in `UhidBatteryDevice.cpp`), without which `KernelIsTold` is false;
- `PairingAssumption`: the receiver's slots are numbered from 1, and a block of a name
  has at least one character;
- `Protocol = "hidpp20"` is a hypothesis of `OwnReply` alone: the 1.0 device compares the
  sub id only, and promises less;
- `MaxTries \in 1 .. 6` is a hypothesis of `DeviceIsNamed`: the code makes six tries
  (`backend/raw/DeviceMonitor.h:36` and a first one). With seven TLC finds a device that is
  named by late replies: each try leaves at most one request unanswered, and there
  are five pings to use the answers up.
- `SettingsAssumption`, `ActionsAssumption`: DPIs and hosts are numbers that fit their bytes
  (a device has 1 to 255 hosts), and the profile that is there at the start is a profile;
- `HotplugAssumption`: finitely many workers, of which the main thread is one.

### The arguments

*CommandQueue.* `OneChild` is not inductive: nothing in it prevents a second thread.
`IInv` adds that any two live threads are one (`OneThread`), that `running` is true
exactly while there is one (`RunningIsTrue`, which is what `run()` decides on), that a
thread holds a job exactly between taking and finishing it (`HoldsWhenBusy`) and that
every child is some thread's job (`ChildIsAwaited`). Order is `accepted = taken \o jobs`;
the two lemmas about sequences (`MoveHead`, `AppendRight`) are what popping and
accepting need. The refinement uses `IInv` to know that the job a step finishes is the only one held.

*IOMonitor.* Exclusion needs to know who holds `_run_mutex` (`RunOwned`), the wakeup
who holds `_yield_mutex` (`YieldOwned`): a thread that waits for the run mutex
does so under the yield mutex, and the I/O thread drains the eventfd under the same
mutex, so the eventfd stays readable as long as somebody waits (`WaitIsCovered`).

*TaskQueue.* A worker goes to sleep in `wait()` only when the queue is empty, so the only
way to strand a task is to push it while all sleep; that push notifies one of them, and
who is woken stays woken. `NoStrandedTask` is thus inductive together with the types.
`StopReachesAll` needs that `workers_run` is cleared before the notification, after
which nobody goes to sleep any more. `StartsInTurn` is about a step; it needs that what is
in the queue has a time (`QueuedHaveTimes`).

*Transactions.* That a slot has one owner (`OneOwner`) is inductive once the callers
have requests. The counting of slots that a failed write leaks (`LeaksAreWriteErrors`)
uses two lemmas about cardinality. `OwnReplyUntilTimeout` speaks of the moment at which a
reply is in a caller's slot, but a reply may be the caller's own and still be on its way, when the
caller times out and another one takes the slot. The invariant therefore is about every
reply, wherever it is: it belongs to no request, to one that has timed out, or to
a caller that waits for it (`RepliesAreExpected`), and is delivered once
(`DeliveredOnce`).

*DeviceLink.* `HooksAlternate` is inductive, since `_state_lock` makes a hook and `_awake` one
step. `GoneAreTold` is not: whether a Device that is awake will be told of its end depends on how
far its removals have come. `WillBeTold` says that it is still to be put into the map by the worker that
made it, or that a `sleep()` is still to come for it (`WillSleep`), or that it is in `raced`.
For this the owner of `_devices_change` has to be where the devices are changed
(`ChangeIsExclusive`), so that only one worker makes or erases, and the receiver is let go only when
all its devices were put to sleep (`ManagerInv`). `PendingIsWorkedOn` is not inductive, since a task that finds its index
pending goes away: it does not count as work. The invariant `PendingHasChain`
says that a pending index has the chain of tries that made it pending, in the queue, delayed,
or with a worker.

*Buttons.* What is down is down for a pressed button whose action is active
(`DownIsActive`). That nothing stays pressed needs the reports that are on their way: the last
one tells what is held and diverted unless the link was lost after it (`LastReport`), and
`_pressed_buttons` agrees with it when it was handled unless `onSleep()` is still to come
(`PressedSeen`). That `onSleep()` does come needs that every sleep that is told finds the Device
awake (`SleepsAwake`), so that it is not ignored as a repetition. Of a diversion
`DivertsSet` says that it is that of the action, or that a thread that
configures has the button still to do, or that its last request failed.

*Battery.* `WillBePublished` and `WillBeWithdrawn` say who will publish or withdraw
what is missing; the generation makes sure that a withdrawal that
is found valid is that of a device that sleeps (`WokeAfter`,
`AsleepWhenWithdrawn`), and its delay that nobody reads meanwhile (`WithdrawsAlone`). The proof
showed two exceptions of the properties to be needless, and they are gone:
`SleeperIsWithdrawn` had excepted a lost link, `UsedWhileThere` an overtaking. `WillBeTold`
says which input will still tell the kernel: one in the inbox, one to be sent
again, or one that is being written.

*Event handlers.* The invariant says which nodes a thread may be at: who erases holds `mutex`
exclusively (`HandlersLocked`), so that the iterator's node and those ahead of it are not erased
while handlers run (`HandlersAhead`). `EveryHandlerCalled` is a property of the step
that ends a run.

*Raw devices.* An object has its descriptor from `open()` to `close()` (`HasDescriptor`),
and the kernel's table has no other (`RawOwned`); the monitor knows the objects that are ready, and of
the others only those about to be unregistered (`RawRegistered`), so that a stale entry of a
batch meets the object which now owns the descriptor.

*Probing.* `AnswersAreOwn` needs a count. Every try leaves at most one request
unanswered (`FewAreLeft`), answers come in order, and each step of a try takes one. While
an answer to an earlier try is still to come, this try has got nothing but such
answers (`EarlierFirst`); after five pings there can be none left, so what follows the last
ping is this try's own (`LastAreOwn`).

*Battery reading.* The loop's invariant: the selected answer is better than all others that
tell a capacity (`BestIsSelected`), and what is left to read comes after in priority
(`ReadersFall`), so that no tie is decided by the order.

*Pairing.* The receiver does what the state says, or the report is on its way that will
change the state, or a call or a queued task is about to ask it (`ReceiverFollows`, `CallHasState`).
Names: the blocks of a name come in order behind the report that announces it
(`BlocksInOrder`), the one at the head is the one the name lacks (`NextBlockFits`), and a
name that is passed on is whole (`NameIsWhole`). The search has handed on every device below the
slot it is at (`SearchedBelow`); that it may stop at the count is a matter of cardinality.

*Virtual keyboard.* The job of a thread is a sequence of calls, so the invariant is about
what is still in it: it returns at its end and starts with the keys it lets go of
(`JobsAreOrdered`), and is about the action whose mutex the thread holds, which no other
thread does (`JobsAreOwned`). A code that may be sent is declared, or its declaration is the
next call of the thread that will use it (`CodesAreDeclared`). A key that an action pressed
is still to be released by some job, or is one of the keys of an action that is pressed and
no job is about to clear them (`TypedIsKnown`): `KernelAgrees` is what is left of that when
there are no jobs.

*Virtual touchpad.* The kernel has, in the first slots, the last ids that were given out, as
many as the gesture has fingers (`KernelHasGesture`); the ids that a motion writes again are those
it has. `TouchpadAgrees` follows by counting.

*Gestures.* `HorizontalFollowsMotion` is inductive: what a report moves to the right and to
the left (`PlusX`, `MinusX`) is what the distances from the origin change by, and this is
arithmetic on the signs of the position before and after (`MinusFollows`, `PlusFollows`).
`MotionIsCounted` needs for the wheel what has been fired in the direction it turns in:
the quotient of the turns of this run by the interval, since the last change of direction
(`WheelTurns`), which one event can raise by one only when it is no longer than an interval; and
for the touchpad that until the finger is put down nothing was sent and what is pending
is the motion, and that afterwards the finger is where the motion is (`PadFollows`).
`OneGestureFires` is a property of the step of a release, from the types.

*Settings.* A feature refers to the profile, or the thread that changes the profile has still
to let it adopt it (`Adopted`); that thread owns the profile lock until the last adoption
is done, since a thread adopts first and configures later (`AdoptsAreOwned`). So
whoever removes a profile, under the same lock, finds no feature that refers to it.
`SettingsApplied` speaks of a device at rest; the invariant, of one at work: a setting is what
the configuration of its feature asks for, or a thread or a queued wakeup will still send
that configuration, or it was spoiled (`SettingsFollow`). A feature that adopts a profile, and
a device that is reset, differ from what is configured; so the jobs of a thread that adopt or
reset have, behind them, the configuration of every feature (`ConfiguresLast`). HiresScroll
writes not its configuration but the mode it made of it, which is that of the profile unless
its adoption is still to come (`ModeIsAdopted`), and writes it over what it has read, which is a
mode because an action's reading is kept apart (`ReadOfMode`). That the DPI that is sent is a
supported one that no other is nearer than (`ClosestIsNearest`) is arithmetic on the
quotient that `getClosestDPI()` rounds to.

*Actions.* A task does what its report asked for, and has not done it (`TaskIs`); the
configuration of the action may change in between, and then the task has what it read or
finds its action replaced (`LateIsDead`). What was done for a report is what it asked for
(`DoneIs`); for ChangeHost the host meant is the remainder that the code computes in
unsigned bytes (`RemainderIs`).

*Host switching.* `RemoteIsPersisted` needs the steps between the save and the clear, which
begin and end with the state file as it has to be (`Persisted`). For the rest the
invariant says, for each of the two set-ups and modes, who will still bring the monitor
where the keyboard is: the last hook of the queue (`HooksFollow`), a signal that was not
sent, a job behind which no early job comes, or a job that runs (`LossFollows`,
`SwitchFollows`).

*Hotplug.* `ManagerAgrees` is about a moment at which nothing is left to do; the
invariant counts. The devices that are gone but mapped, or about to be, are no more than
the removals that are still to come (`StaleAreRemoved`): the removals that wait in udev's
queue are half of its events, since events alternate (`Alternate`). The device that is
there is mapped, or an add, a retry or a worker has it (`PluggedIsAwaited`). That the
nickname a new object gets is free is a lemma about the least number that a finite set
leaves out.

### What is only model-checked

- Liveness (`Progress`, `NobodyBlocked`, `EveryJobTaken`, `EveryCallReturns`, `ReturnsHome`,
  `PluggedIsAdded`) under fairness, and `ENABLED`, are out of the prover's reach.
- `SavedIsRead` and `ReadBack`, and of `EndsAsAsked` the reading of the options, are about
  what `SelectSeq` and folds compute for every input, which needs induction over data.

No module declares a `RECURSIVE` operator. `TypeOK` of `HostSwitch` and `HotplugTypeOK`
are checked as part of a property of their runs.

## 7. Not modelled

- IPC: the library (ipcgull) is a submodule that is not in the tree; the setters
  that reach features are actions of the modules of those features, the getters are left out.
- Logging and the exception handler, which have no state; the two test tools,
  `tools/uhid-battery-prototype.cpp` and `tools/host-switch/probe-bolt.py`.
- Of the receiver's protocol: a Bolt device's name in several chunks
  (`backend/hidpp10/Receiver.cpp:236-265`) and the request to disconnect a device.
- Of the features: several sensors, and the choice from a list of DPIs
  (`features/DPI.cpp:45-52`); of the gestures, the scaling of an axis by its multiplier
  (`actions/gesture/AxisGesture.cpp`), whose floating point TLA+ has no numbers for.
- Of the configuration: libconfig's parser and printer, and the fields whose shape another
  one already has.
- Of the reprogrammable controls: what older versions of the feature leave out.
- Of the host switching script: its search for the device on the bus and its command line.
- Undefined behaviour whose outcomes cannot be listed: a corrupted list of handlers, what
  `""` written to a profile that has no name changes, and libevdev used after it was freed.

The invariants of the runs are proved but for those named above. What would come next
is to prove about more of the code than the runs look at:

1. the refinement of an abstract device by `DeviceLink`, as `CommandQueue` has one;
2. the features that section 7 names as left out.
