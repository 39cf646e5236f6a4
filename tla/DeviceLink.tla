----------------------------- MODULE DeviceLink -----------------------------
(***************************************************************************)
(* How the devices of a receiver come and go: the handlers that turn its   *)
(* notifications into tasks (hidpp10/ReceiverMonitor.cpp), the tasks that  *)
(* add, remove, wake up and put to sleep its devices (logid/Receiver.cpp,  *)
(* logid/Device.cpp), and the connection hooks they queue.                 *)
(*                                                                         *)
(* Notifications reach the I/O thread in order and become tasks of the     *)
(* pool of TaskQueue, whose workers take them in order and then compete    *)
(* for the receiver's _devices_change.  DeviceStatus's tasks (features/    *)
(* DeviceStatus.cpp) do not, nor does the removal of the receiver          *)
(* (DeviceManager.cpp): they meet the others in the middle.                *)
(*                                                                         *)
(* A hook counts as run when it is queued: CommandQueue shows that each    *)
(* Device runs its hooks in that order.  What the features do on a wakeup  *)
(* is left out but for the timeouts it may throw.                          *)
(***************************************************************************)
EXTENDS Integers, Sequences, Bags, BagsExt

CONSTANTS
    Indices,        \* device indices in use on the receiver
    Workers,
    Nobody,         \* the owner of a free mutex
    MaxTries,       \* max_tries
    MaxEvents,      \* bound of the model on notifications and input
    MaxBroadcasts   \* bound of the model on wireless status broadcasts

ASSUME DeviceLinkAssumption ==
    /\ Nobody \notin Workers
    /\ MaxTries \in Nat
    /\ MaxEvents \in Nat
    /\ MaxBroadcasts \in Nat

VARIABLES
    link,       \* the links as the receiver sees them
    unlisted,   \* indices _enumeratePairedDevices() has not come to
    events,     \* notifications and input so far
    broadcasts, \* status broadcasts so far
    queue,      \* tasks given to run_task(), in order
    delayed,    \* the bag of tasks given to run_task_after()
    alive,      \* the device manager holds the Receiver
    unplugged,  \* DeviceManager::removeDevice() has begun
    unslept,    \* indices it has yet to put to sleep
    pc,         \* where each worker is
    task,       \* the task it has
    change,     \* owner of _devices_change
    waiters,    \* _waiters: indices whose input is listened for
    pending,    \* _pending_adds
    present,    \* _devices: indices with a Device
    made,       \* Devices made so far of an index: the identity of the last
    awake,      \* Device::_awake of the last one
    hooks,      \* the connection hooks queued by it (history)
    raced       \* indices whose last Device was woken, or put into _devices,
                \* when no sleep() was to come any more (history)

envVars == <<link, unlisted, events, broadcasts>>
poolVars == <<queue, delayed, pc, task>>
waitVars == <<waiters, pending>>
hookVars == <<awake, hooks, raced>>
deviceVars == <<present, made, hookVars>>
receiverVars == <<alive, unplugged, unslept>>
vars == <<envVars, poolVars, receiverVars, change, waitVars, deviceVars>>

\* The Device is that of a "wake" task's weak pointer.
Task == [kind : {"add", "remove", "wake"}, index : Indices, up : BOOLEAN,
         check : BOOLEAN, tries : 0..MaxTries, device : Nat]

AddTask(i, up, check, tries) ==
    [kind |-> "add", index |-> i, up |-> up, check |-> check, tries |-> tries,
     device |-> 0]
RemoveTask(i) == [AddTask(i, FALSE, FALSE, 0) EXCEPT !.kind = "remove"]
WakeTask(i) == [AddTask(i, TRUE, FALSE, 0) EXCEPT !.kind = "wake", !.device = made[i]]

Places == {"idle", "wake", "begin", "lock", "locked", "erase", "emplace",
           "added", "notready", "giveup", "failed"}

TypeOK ==
    /\ link \in [Indices -> BOOLEAN]
    /\ unlisted \subseteq Indices
    /\ events \in 0..MaxEvents
    /\ broadcasts \in 0..MaxBroadcasts
    /\ queue \in Seq(Task)
    /\ IsABag(delayed) /\ BagToSet(delayed) \subseteq Task
    /\ alive \in BOOLEAN /\ unplugged \in BOOLEAN /\ unslept \subseteq Indices
    /\ pc \in [Workers -> Places]
    /\ \A w \in Workers : pc[w] # "idle" => task[w] \in Task
    /\ change \in Workers \cup {Nobody}
    /\ waiters \subseteq Indices
    /\ pending \subseteq Indices
    /\ present \subseteq Indices
    /\ made \in [Indices -> Nat]
    /\ awake \in [Indices -> BOOLEAN]
    /\ hooks \in [Indices -> Seq({"connect", "disconnect"})]
    /\ raced \subseteq Indices

Init ==
    /\ link \in [Indices -> BOOLEAN]
    /\ unlisted = Indices
    /\ events = 0
    /\ broadcasts = 0
    /\ queue = <<>>
    /\ delayed = EmptyBag
    /\ alive = TRUE /\ unplugged = FALSE /\ unslept = {}
    /\ pc = [w \in Workers |-> "idle"]
    /\ task = [w \in Workers |-> Nobody]
    /\ change = Nobody
    /\ waiters = {}
    /\ pending = {}
    /\ present = {}
    /\ made = [i \in Indices |-> 0]
    /\ awake = [i \in Indices |-> FALSE]
    /\ hooks = [i \in Indices |-> <<>>]
    /\ raced = {}

RunTask(t) == queue' = Append(queue, t)
RunTaskAfter(t) == delayed' = BagAdd(delayed, t)

\* self_weak.lock() finds the Receiver while somebody holds it.  A task of
\* DeviceStatus holds that feature alone, not its Device.
Holds(w) == pc[w] \notin {"idle", "wake"}
SelfLocks == alive \/ \E w \in Workers : Holds(w)

Index(w) == task[w].index

\* A Device lives until it is erased from _devices, or the Receiver goes.
Lives(i) ==
    /\ SelfLocks
    /\ i \in present \/ \E w \in Workers : pc[w] = "emplace" /\ Index(w) = i

\* The manager's _map_lock, in removeDevice() of the receiver and of the manager.
MapLocked == (unplugged /\ alive) \/ \E w \in Workers : pc[w] = "erase"

(***************************************************************************)
(* The I/O thread's handlers and the initial enumeration.                  *)
(***************************************************************************)

Event == events < MaxEvents /\ events' = events + 1     \* bound of the model

\* A DeviceConnection notification with the link's state.
ConnectNotification(i, up) ==
    /\ Event
    /\ SelfLocks
    /\ link' = [link EXCEPT ![i] = up]
    /\ RunTask(AddTask(i, up, FALSE, 0))
    /\ UNCHANGED <<unlisted, broadcasts, delayed, pc, task, receiverVars, change,
                   waitVars, deviceVars>>

\* A DeviceDisconnection notification: the device was unpaired.
DisconnectNotification(i) ==
    /\ Event
    /\ SelfLocks
    /\ link' = [link EXCEPT ![i] = FALSE]
    /\ RunTask(RemoveTask(i))
    /\ UNCHANGED <<unlisted, broadcasts, delayed, pc, task, receiverVars, change,
                   waitVars, deviceVars>>

\* Any report with the index of a device that is waited for.
Input(i) ==
    /\ Event
    /\ SelfLocks
    /\ i \in waiters
    /\ RunTask(AddTask(i, TRUE, TRUE, 0))
    /\ UNCHANGED <<link, unlisted, broadcasts, delayed, pc, task, receiverVars,
                   change, waitVars, deviceVars>>

\* The delayed enumeration finds index i paired.  (It runs as one task; each
\* of its calls of _addHandler() is a task here.)
Enumerate(i) ==
    /\ i \in unlisted
    /\ SelfLocks
    /\ unlisted' = unlisted \ {i}
    /\ RunTask(AddTask(i, TRUE, TRUE, 0))
    /\ UNCHANGED <<link, events, broadcasts, delayed, pc, task, receiverVars, change,
                   waitVars, deviceVars>>

\* DeviceStatus: the device says that it has reconnected.
StatusBroadcast(i) ==
    /\ broadcasts < MaxBroadcasts           \* bound of the model
    /\ broadcasts' = broadcasts + 1
    /\ SelfLocks
    /\ link[i]
    /\ Lives(i)
    /\ RunTaskAfter(WakeTask(i))
    /\ UNCHANGED <<link, unlisted, events, queue, pc, task, receiverVars, change,
                   waitVars, deviceVars>>

Expire(t) ==
    /\ BagIn(t, delayed)
    /\ delayed' = BagRemove(delayed, t)
    /\ RunTask(t)
    /\ UNCHANGED <<envVars, pc, task, receiverVars, change, waitVars, deviceVars>>

(***************************************************************************)
(* Device::sleep() and Device::wakeup(): the part under _state_lock.       *)
(***************************************************************************)

QueueHook(i, h) == hooks' = [hooks EXCEPT ![i] = Append(@, h)]

\* No sleep() of the Device is to come before it goes.
TooLate(i) ==
    \/ \E w \in Workers : pc[w] = "erase" /\ Index(w) = i
    \/ unplugged /\ i \notin unslept
    \/ ~Lives(i)

Note(i) == raced' = IF TooLate(i) THEN raced \cup {i} ELSE raced

Sleep(i) ==
    /\ IF awake[i]
       THEN awake' = [awake EXCEPT ![i] = FALSE] /\ QueueHook(i, "disconnect")
       ELSE UNCHANGED <<awake, hooks>>
    /\ UNCHANGED raced

Wakeup(i) ==
    IF awake[i]
    THEN UNCHANGED hookVars
    ELSE awake' = [awake EXCEPT ![i] = TRUE] /\ QueueHook(i, "connect") /\ Note(i)

(***************************************************************************)
(* The workers.                                                            *)
(***************************************************************************)

Go(w, s) == pc' = [pc EXCEPT ![w] = s]
TakeTask(w) ==
    /\ pc[w] = "idle"
    /\ queue # <<>>
    /\ Head(queue).kind # "wake"
    /\ queue' = Tail(queue)
    /\ IF SelfLocks
       THEN Go(w, "begin") /\ task' = [task EXCEPT ![w] = Head(queue)]
       ELSE UNCHANGED <<pc, task>>
    /\ UNCHANGED <<envVars, delayed, receiverVars, change, waitVars, deviceVars>>

\* DeviceStatus's task, if its weak pointer still locks.
TakeWakeTask(w) ==
    /\ pc[w] = "idle"
    /\ queue # <<>>
    /\ Head(queue).kind = "wake"
    /\ queue' = Tail(queue)
    /\ IF Lives(Head(queue).index) /\ Head(queue).device = made[Head(queue).index]
       THEN Go(w, "wake") /\ task' = [task EXCEPT ![w] = Head(queue)]
       ELSE UNCHANGED <<pc, task>>
    /\ UNCHANGED <<envVars, delayed, receiverVars, change, waitVars, deviceVars>>

\* wakeup() without _devices_change or _map_lock.  What it throws is logged.  If
\* the Device has gone by now it is a use of freed memory: of the outcomes those
\* are shown that find it as it was left, or do nothing.
WakeTaskRuns(w) ==
    /\ pc[w] = "wake"
    /\ \/ task[w].device = made[Index(w)] /\ Wakeup(Index(w))
       \/ ~(Lives(Index(w)) /\ task[w].device = made[Index(w)]) /\ UNCHANGED hookVars
    /\ Go(w, "idle")
    /\ UNCHANGED <<envVars, queue, delayed, task, receiverVars, change, waitVars,
                   present, made>>

\* _addHandler(): one chain of tries per index that is being checked.
Begin(w) ==
    /\ pc[w] = "begin"
    /\ IF task[w].check /\ task[w].tries = 0
       THEN IF Index(w) \in pending
            THEN Go(w, "idle") /\ UNCHANGED pending
            ELSE Go(w, "lock") /\ pending' = pending \cup {Index(w)}
       ELSE Go(w, "lock") /\ UNCHANGED pending
    /\ UNCHANGED <<envVars, queue, delayed, task, receiverVars, change, waiters,
                   deviceVars>>

Lock(w) ==
    /\ pc[w] = "lock"
    /\ change = Nobody
    /\ change' = w
    /\ Go(w, "locked")
    /\ UNCHANGED <<envVars, queue, delayed, task, receiverVars, waitVars, deviceVars>>

\* Leaving addDevice() or removeDevice(), by return or by exception.
Leave(w, s) == change' = Nobody /\ Go(w, s)

Removes(w) == pc[w] = "locked" /\ task[w].kind = "remove"

\* Mutant of RemoveSleeps: the Device is dropped without sleep().
RemoveDrops(w) ==
    /\ Removes(w) /\ ~MapLocked
    /\ IF Index(w) \in present THEN Go(w, "erase") /\ UNCHANGED change ELSE Leave(w, "idle")
    /\ UNCHANGED <<envVars, queue, delayed, task, receiverVars, waitVars, deviceVars>>

\* Receiver::removeDevice(), with _map_lock: the Device sleeps.
RemoveSleeps(w) ==
    /\ Removes(w) /\ ~MapLocked
    /\ IF Index(w) \in present
       THEN Sleep(Index(w)) /\ Go(w, "erase") /\ UNCHANGED change
       ELSE Leave(w, "idle") /\ UNCHANGED hookVars
    /\ UNCHANGED <<envVars, queue, delayed, task, receiverVars, waitVars, present,
                   made>>

\* Then it goes, with what sleep() has given up meanwhile: _state_lock.
RemoveErases(w) ==
    /\ pc[w] = "erase"
    /\ present' = present \ {Index(w)}
    /\ Leave(w, "idle")
    /\ UNCHANGED <<envVars, queue, delayed, task, receiverVars, waitVars, made,
                   hookVars>>

\* Receiver::addDevice() of a device it has, or whose link is down.
AddNothing(w) ==
    /\ task[w].check \/ ~task[w].up
    /\ Index(w) \in present \/ ~task[w].up
    /\ IF Index(w) \in present /\ ~task[w].check
       THEN Sleep(Index(w))
       ELSE UNCHANGED hookVars
    /\ Leave(w, "added")
    /\ UNCHANGED <<waiters, present, made>>

\* The reconfiguration of a woken device may time out: addDevice() then waits
\* for its input, like for that of a new one.  It may also fail otherwise.
AddWakeup(w) ==
    /\ task[w].up
    /\ ~task[w].check
    /\ Index(w) \in present
    /\ Wakeup(Index(w))
    /\ \/ Leave(w, "added") /\ UNCHANGED waiters
       \/ Leave(w, "added") /\ waiters' = waiters \cup {Index(w)}
       \/ Leave(w, "failed") /\ UNCHANGED waiters
    /\ UNCHANGED <<present, made>>

New(w) == task[w].up /\ Index(w) \notin present

\* Device::make() succeeds, if the link is up, and queues the first hook of a
\* new Device.  Its last answer may have come before the receiver was unplugged.
AddMakes(w) ==
    /\ New(w)
    /\ link[Index(w)]
    /\ made' = [made EXCEPT ![Index(w)] = @ + 1]
    /\ awake' = [awake EXCEPT ![Index(w)] = TRUE]
    /\ hooks' = [hooks EXCEPT ![Index(w)] = <<"connect">>]
    /\ raced' = raced \ {Index(w)}
    /\ Go(w, "emplace")
    /\ UNCHANGED <<change, waiters, present>>

\* TimeoutError, or UnknownDevice of a device that is being checked.
AddTimesOut(w) ==
    /\ New(w)
    /\ IF task[w].check
       THEN Leave(w, "notready") /\ UNCHANGED waiters
       ELSE /\ Leave(w, "added")
            /\ waiters' = waiters \cup {Index(w)}
    /\ UNCHANGED deviceVars

\* Errors that are logged, HID++ 1.0 devices and ignored ones return; other
\* exceptions get to _addHandler().
AddFails(w) ==
    /\ New(w)
    /\ Leave(w, "added") \/ Leave(w, "failed")
    /\ UNCHANGED <<waiters, deviceVars>>

Add(w) ==
    /\ pc[w] = "locked"
    /\ task[w].kind = "add"
    /\ AddNothing(w) \/ AddWakeup(w) \/ AddMakes(w) \/ AddTimesOut(w) \/ AddFails(w)
    /\ UNCHANGED <<envVars, queue, delayed, task, receiverVars, pending>>

\* _devices gets it, with _map_lock; DeviceManager::removeDevice() may have ended.
Emplace(w) ==
    /\ pc[w] = "emplace" /\ ~MapLocked
    /\ present' = present \cup {Index(w)}
    /\ Note(Index(w))
    /\ Leave(w, "added")
    /\ UNCHANGED <<envVars, queue, delayed, task, receiverVars, waitVars, made,
                   awake, hooks>>

ClearPending(w) == pending' = pending \ {Index(w)}

\* addDevice() has returned, whatever it did: nobody listens for input.
Added(w) ==
    /\ pc[w] = "added"
    /\ waiters' = waiters \ {Index(w)}
    /\ ClearPending(w)
    /\ Go(w, "idle")
    /\ UNCHANGED <<envVars, queue, delayed, task, receiverVars, change, deviceVars>>

IsLastTry(n) == n = MaxTries

NextTry(n) == n + 1

\* DeviceNotReady: only thrown for a device that is being checked.
NotReady(w) ==
    /\ pc[w] = "notready"
    /\ IF IsLastTry(task[w].tries)
       THEN ClearPending(w) /\ Go(w, "giveup") /\ UNCHANGED delayed
       ELSE /\ RunTaskAfter([task[w] EXCEPT !.tries = NextTry(@)])
            /\ Go(w, "idle")
            /\ UNCHANGED pending
    /\ UNCHANGED <<envVars, queue, task, receiverVars, change, waiters, deviceVars>>

GiveUp(w) ==
    /\ pc[w] = "giveup"
    /\ waiters' = waiters \cup {Index(w)}
    /\ Go(w, "idle")
    /\ UNCHANGED <<envVars, queue, delayed, task, receiverVars, change, pending,
                   deviceVars>>

Failed(w) ==
    /\ pc[w] = "failed"
    /\ ClearPending(w)
    /\ Go(w, "idle")
    /\ UNCHANGED <<envVars, queue, delayed, task, receiverVars, change, waiters,
                   deviceVars>>

(***************************************************************************)
(* DeviceManager::removeDevice(), with _map_lock: every Device of the      *)
(* receiver sleeps, but the tasks under way still hold the Receiver.       *)
(***************************************************************************)

Unplug ==
    /\ ~unplugged /\ ~MapLocked
    /\ unplugged' = TRUE /\ unslept' = present
    /\ UNCHANGED <<envVars, poolVars, alive, change, waitVars, deviceVars>>

UnpluggedSleeps(i) ==
    /\ i \in unslept /\ unslept' = unslept \ {i}
    /\ Sleep(i)
    /\ UNCHANGED <<envVars, poolVars, alive, unplugged, change, waitVars, present,
                   made>>

RemoveReceiver ==
    /\ alive /\ unplugged /\ unslept = {}
    /\ alive' = FALSE
    /\ UNCHANGED <<envVars, poolVars, unplugged, unslept, change, waitVars,
                   deviceVars>>

WorkerStep(w) ==
    \/ TakeTask(w) \/ TakeWakeTask(w) \/ WakeTaskRuns(w) \/ Begin(w) \/ Lock(w)
    \/ RemoveSleeps(w) \/ RemoveErases(w)
    \/ Add(w) \/ Emplace(w) \/ Added(w) \/ NotReady(w) \/ GiveUp(w) \/ Failed(w)

Next ==
    \/ \E i \in Indices :
          \/ \E up \in BOOLEAN : ConnectNotification(i, up)
          \/ DisconnectNotification(i)
          \/ Input(i)
          \/ Enumerate(i)
          \/ StatusBroadcast(i)
    \/ \E t \in BagToSet(delayed) : Expire(t)
    \/ \E w \in Workers : WorkerStep(w)
    \/ Unplug \/ (\E i \in unslept : UnpluggedSleeps(i)) \/ RemoveReceiver

Spec == Init /\ [][Next]_vars

(***************************************************************************)
(* Properties.                                                             *)
(***************************************************************************)

Busy(w, i) == Holds(w) /\ Index(w) = i
Check(t, i) == t.kind = "add" /\ t.check /\ t.index = i
Connected(i) == Len(hooks[i]) % 2 = 1

\* The hooks of a Device alternate, from on_connect, across wakeups that repeat
\* or race with sleep(), removal and rediscovery, and the last one tells whether
\* it is awake (Device.cpp 97, 189-219, README 52-56).
HooksAlternate ==
    \A i \in Indices :
        /\ \A n \in DOMAIN hooks[i] :
               hooks[i][n] = IF n % 2 = 1 THEN "connect" ELSE "disconnect"
        /\ Connected(i) <=> awake[i]

\* A Device that is gone has had its on_disconnect, unless it was woken up
\* between the sleep() that its removal called and its end, or was made while
\* its receiver was removed (Receiver.cpp 120-122, 155-158, DeviceManager.cpp
\* 175-179).
GoneAreTold == \A i \in Indices : Connected(i) => Lives(i) \/ i \in raced

\* _pending_adds makes input of an index be ignored only while some task will
\* still try to add it: no path out of _addHandler() leaves the index pending
\* (ReceiverMonitor.cpp 226-274).
PendingIsWorkedOn ==
    \A i \in pending : SelfLocks =>
        \/ \E w \in Workers : Busy(w, i)
        \/ \E t \in BagToSet(delayed) : Check(t, i)
        \/ \E n \in DOMAIN queue : Check(queue[n], i)

\* What a device is told and what is told of it follows its link, however its
\* link events, enumeration and removal race.
LinkIsFollowed == TypeOK /\ HooksAlternate /\ GoneAreTold /\ PendingIsWorkedOn

\* "on_disconnect runs when the link goes inactive or a connected device or its
\* receiver is removed" (README 55-56).
RemovalIsTold == \A i \in Indices : Connected(i) => Lives(i)

Quiet ==
    /\ queue = <<>>
    /\ delayed = EmptyBag
    /\ \A w \in Workers : pc[w] = "idle"

\* "Hooks for each device run in event order" (README 59): when every event
\* has been handled, the last hook is that of the last event.
HooksInEventOrder ==
    Quiet /\ ~unplugged => \A i \in present : awake[i] = link[i]
=============================================================================
