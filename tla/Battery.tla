------------------------------- MODULE Battery -------------------------------
(***************************************************************************)
(* The battery of one device, published through a virtual UHID device:     *)
(* features/BatteryStatus.cpp and UhidBatteryDevice.cpp.                   *)
(*                                                                         *)
(* Workers put the device to sleep and wake it up, read its battery, and   *)
(* create, update and withdraw the UHID device, with no lock on            *)
(* _uhid_battery; the UHID device has a thread that answers the kernel.    *)
(* What a reading is made of is the subject of BatteryReading: here it is  *)
(* the number of the charge it saw.  The link may have come back, or be    *)
(* lost again, before its notification is handled (see DeviceLink).        *)
(***************************************************************************)
EXTENDS Integers, FiniteSets, Bags, BagsExt, TLC

CONSTANTS
    Workers,
    Uhid,           \* the thread of the UHID device
    None,
    Refreshes,      \* delayed readings after configure() (3 in the code)
    Resends,        \* startup_resends (12 in the code)
    MaxLinks,       \* bound of the model on changes of the link
    MaxBroadcasts,  \* bound of the model on status broadcasts
    MaxEvents       \* bound of the model on charges, battery events and opens

ASSUME BatteryAssumption ==
    /\ Uhid \notin Workers /\ None \notin Workers \cup Nat
    /\ {Refreshes, Resends, MaxLinks, MaxBroadcasts, MaxEvents} \subseteq Nat
    /\ Resends > 0

VARIABLES
    link, links, broadcasts, charge, events,    \* the device and its user
    due,        \* tasks for sleep() and wakeup(), a bag
    change,     \* the worker that has the receiver's _devices_change
    awake,      \* Device::_awake
    gen,        \* _sleep_generation
    delayed,    \* delayed tasks: <<"refresh" or "withdraw", generation, number>>
    io,         \* the I/O thread: "idle", or "reading" in the event handler
    pc, val,    \* where each thread is; the charge it has read or copied
    since,      \* the generation when its task began
    wakes,      \* the worker will schedule refreshes when it has published
    uhid,       \* *_uhid_battery: the charge it keeps, or None
    kernel,     \* the charge the kernel shows, or None
    ready,      \* a driver is bound to the kernel's device
    inbox,      \* START and OPEN events the UHID device's thread has not read
    resends,    \* startup_resends
    overtaken,  \* onSleep() and onWakeup() of two tasks were swapped (history)
    late,       \* a wakeup began before a withdrawal, and onWakeup() after
                \* the check of the generation (history)
    stale,      \* a write was overtaken by that of a newer state (history)
    twice,      \* two threads created the UHID device (history)
    failed,     \* the last attempt to publish failed (history)
    crashed     \* a UHID device was used that was withdrawn or replaced

env == <<link, links, broadcasts, charge, events>>
device == <<due, change, awake, gen, delayed>>
threads == <<pc, val, since, wakes>>
uhidVars == <<uhid, kernel, ready, inbox, resends>>
history == <<overtaken, late, stale, twice, failed>>
vars == <<env, device, io, threads, uhidVars, history, crashed>>

Threads == Workers \cup {Uhid}

Init ==
    /\ link = TRUE /\ links = 0 /\ broadcasts = 0 /\ charge = 0 /\ events = 0
    /\ due = EmptyBag /\ change = None /\ awake = TRUE /\ gen = 0
    /\ delayed = {}
    /\ io = "idle"
    /\ \E w \in Workers :               \* Device::_init() calls configure()
          /\ pc = [t \in Threads |-> IF t = w THEN "read" ELSE "idle"]
          /\ wakes = [t \in Threads |-> t = w]
    /\ val = [t \in Threads |-> None]
    /\ since = [t \in Threads |-> 0]
    /\ uhid = None /\ kernel = None /\ ready = FALSE /\ inbox = 0 /\ resends = 0
    /\ overtaken = FALSE /\ late = FALSE /\ stale = FALSE /\ twice = FALSE
    /\ failed = FALSE /\ crashed = FALSE

Go(t, s) == pc' = [pc EXCEPT ![t] = s]

(***************************************************************************)
(* The device, its user and the I/O thread.                                *)
(***************************************************************************)

LinkChanges ==
    /\ links < MaxLinks                         \* bound of the model
    /\ links' = links + 1
    /\ link' = ~link
    /\ due' = BagAdd(due, IF link THEN "sleep" ELSE "wakeup")
    /\ UNCHANGED <<broadcasts, charge, events, change, awake, gen, delayed, io,
                   threads, uhidVars, history, crashed>>

StatusBroadcast ==
    /\ broadcasts < MaxBroadcasts               \* bound of the model
    /\ link
    /\ broadcasts' = broadcasts + 1
    /\ due' = BagAdd(due, "broadcast")
    /\ UNCHANGED <<link, links, charge, events, change, awake, gen, delayed, io,
                   threads, uhidVars, history, crashed>>

ChargeChanges ==
    /\ events < MaxEvents                       \* bound of the model
    /\ events' = events + 1
    /\ charge' = charge + 1
    /\ UNCHANGED <<link, links, broadcasts, device, io, threads, uhidVars,
                   history, crashed>>

\* The handler reads the battery on the I/O thread, which cannot receive the
\* replies meanwhile: its own requests time out, and the workers'.
BatteryEvent ==
    /\ io = "idle"
    /\ link /\ events < MaxEvents               \* bound of the model
    /\ events' = events + 1
    /\ io' = "reading"
    /\ UNCHANGED <<link, links, broadcasts, charge, device, threads, uhidVars,
                   history, crashed>>

BatteryEventEnds ==
    /\ io = "reading"
    /\ io' = "idle"
    /\ UNCHANGED <<env, device, threads, uhidVars, history, crashed>>

(***************************************************************************)
(* Device::sleep() and wakeup(); the receiver calls them one at a time,    *)
(* the task of a status broadcast as it comes.                             *)
(***************************************************************************)

Begin(w) ==
    /\ pc[w] = "idle"
    /\ \E kind \in BagToSet(due) :
          /\ due' = BagRemove(due, kind)
          /\ kind # "broadcast" => change = None
          /\ awake' = (kind # "sleep")
          /\ IF kind = "sleep" /\ ~awake
             THEN UNCHANGED <<change, pc>>
             ELSE /\ change' = IF kind = "broadcast" THEN change ELSE w
                  /\ Go(w, IF kind = "sleep" THEN "onSleep" ELSE "onWakeup")
    /\ late' = (late \/ (awake' /\ \E v \in Workers : pc[v] = "withdraw"))
    /\ UNCHANGED <<env, gen, delayed, io, val, since, wakes, uhidVars, overtaken,
                   stale, twice, failed, crashed>>

SleepGeneration == gen + 1

OnSleep(w) ==
    /\ pc[w] = "onSleep"
    /\ gen' = gen + 1
    /\ delayed' = delayed \cup {<<"withdraw", SleepGeneration, 1>>}
    /\ overtaken' = (overtaken \/ awake)
    /\ change' = None
    /\ Go(w, "idle")
    /\ UNCHANGED <<env, due, awake, io, val, since, wakes, uhidVars, late, stale,
                   twice, failed, crashed>>

\* Mutant of WakeGeneration: a wakeup does not count.
SameGeneration == gen
WakeGeneration == gen + 1

\* onWakeup(), and then configure() of the feature.
OnWakeup(w) ==
    /\ pc[w] = "onWakeup"
    /\ gen' = WakeGeneration
    /\ overtaken' = (overtaken \/ ~awake)
    /\ wakes' = [wakes EXCEPT ![w] = TRUE]
    /\ since' = [since EXCEPT ![w] = gen']
    /\ Go(w, "read")
    /\ UNCHANGED <<env, due, change, awake, delayed, io, val, uhidVars, late,
                   stale, twice, failed, crashed>>

(***************************************************************************)
(* Reading and publishing: _readAndPublish() and _publish().               *)
(***************************************************************************)

\* The end of _readAndPublish(): configure() schedules refreshes after it.
Finish(w) ==
    /\ wakes' = [wakes EXCEPT ![w] = FALSE]
    /\ val' = [val EXCEPT ![w] = None]
    /\ since' = [since EXCEPT ![w] = 0]
    /\ change' = IF change = w THEN None ELSE change
    /\ delayed' = IF wakes[w]
                  THEN delayed \cup {<<"refresh", gen, n>> : n \in 1..Refreshes}
                  ELSE delayed

Published(w) == Finish(w) /\ Go(w, "idle")

\* No reader has a capacity: the requests timed out, or no reply has one.
ReadFails(w) ==
    /\ pc[w] = "read"
    /\ Published(w)
    /\ failed' = TRUE
    /\ UNCHANGED <<env, due, awake, gen, io, uhidVars, overtaken, late, stale, twice,
                   crashed>>

\* Mutant of Publication: the UHID device is taken for granted.
PublicationUnchecked == "update"
Publication == IF uhid = None THEN "create" ELSE "update"

Read(w) ==
    /\ pc[w] = "read"
    /\ link /\ io = "idle"
    /\ val' = [val EXCEPT ![w] = charge]
    /\ Go(w, Publication)
    /\ UNCHANGED <<env, device, io, since, wakes, uhidVars, history, crashed>>

\* open("/dev/uhid") or UHID_CREATE2 fails: it is logged once.
CreateFails(w) ==
    /\ pc[w] = "create"
    /\ Published(w)
    /\ failed' = TRUE
    /\ UNCHANGED <<env, due, awake, gen, io, uhidVars, overtaken, late, stale, twice,
                   crashed>>

\* The constructor, and the assignment to _uhid_battery: that of another
\* thread goes, though a worker may be inside its update().  The constructor's
\* input comes before the kernel is ready.
Create(w) ==
    /\ pc[w] = "create"
    /\ twice' = (twice \/ uhid # None)
    /\ crashed' = (uhid # None /\ \E v \in Workers : pc[v] \in {"copy", "write"})
    /\ uhid' = val[w]
    /\ kernel' = None /\ ready' = FALSE /\ inbox' = 1 /\ resends' = 0
    /\ pc' = [pc EXCEPT ![w] = "idle", ![Uhid] = "poll"]
    /\ Finish(w)
    /\ failed' = FALSE
    /\ UNCHANGED <<env, due, awake, gen, io, overtaken, late, stale>>

\* UhidBatteryDevice::update(): the state under _state_mutex; the input that
\* is then sent has the state read anew.
Update(w) ==
    /\ pc[w] = "update"
    /\ IF uhid = None
       THEN crashed' = TRUE /\ UNCHANGED <<pc, uhid>>
       ELSE uhid' = val[w] /\ Go(w, "copy") /\ UNCHANGED crashed
    /\ UNCHANGED <<env, device, io, val, since, wakes, kernel, ready, inbox,
                   resends, history>>

\* _sendBatteryInput(), of a worker or of the UHID device's thread.
Copy(t) ==
    /\ pc[t] = "copy"
    /\ IF uhid = None
       THEN crashed' = TRUE /\ UNCHANGED <<pc, val>>
       ELSE val' = [val EXCEPT ![t] = uhid] /\ Go(t, "write") /\ UNCHANGED crashed
    /\ UNCHANGED <<env, device, io, since, wakes, uhidVars, history>>

Shown(t) == kernel' = IF ready THEN val[t] ELSE kernel

Write(w) ==
    /\ pc[w] = "write"
    /\ IF uhid = None
       THEN crashed' = TRUE /\ UNCHANGED <<threads, change, delayed, kernel, stale>>
       ELSE Published(w) /\ Shown(w) /\ stale' = (val[w] # uhid) /\ UNCHANGED crashed
    /\ failed' = FALSE
    /\ UNCHANGED <<env, due, awake, gen, io, uhid, ready, inbox, resends, overtaken,
                   late, twice>>

(***************************************************************************)
(* Delayed tasks.  A reading begun before a sleep ends, and the refreshes  *)
(* it schedules, of 1 s to 5 s, are over before the withdrawal after 15 s. *)
(***************************************************************************)

Refresh(w) ==
    /\ pc[w] = "idle"
    /\ \E d \in delayed :
          /\ d[1] = "refresh"
          /\ delayed' = delayed \ {d}
          /\ since' = [since EXCEPT ![w] = d[2]]
    /\ Go(w, "read")
    /\ UNCHANGED <<env, due, change, awake, gen, io, val, wakes, uhidVars, history,
                   crashed>>

LongAgo(n) ==
    /\ \A d \in delayed : d[1] = "refresh" => d[2] > n
    /\ \A w \in Workers : pc[w] \notin {"idle", "onSleep", "onWakeup", "withdraw"}
                              => since[w] > n

CheckWithdrawal(w) ==
    /\ pc[w] = "idle"
    /\ \E d \in delayed :
          /\ d[1] = "withdraw"
          /\ LongAgo(d[2])
          /\ delayed' = delayed \ {d}
          /\ IF gen = d[2] THEN Go(w, "withdraw") ELSE UNCHANGED pc
    /\ late' = (late \/ \E v \in Workers : pc[v] = "onWakeup")
    /\ UNCHANGED <<env, due, change, awake, gen, io, val, since, wakes, uhidVars,
                   overtaken, stale, twice, failed, crashed>>

\* _withdrawUhidBattery(): the destructor waits for the thread.
Withdraw(w) ==
    /\ pc[w] = "withdraw"
    /\ pc[Uhid] \in {"idle", "poll"}
    /\ uhid' = None /\ kernel' = None /\ ready' = FALSE /\ inbox' = 0 /\ resends' = 0
    /\ pc' = [pc EXCEPT ![w] = "idle", ![Uhid] = "idle"]
    /\ UNCHANGED <<env, device, io, val, since, wakes, history, crashed>>

(***************************************************************************)
(* The kernel, and the thread of the UHID device: _eventLoop().            *)
(***************************************************************************)

\* Input that comes before a driver is bound is dropped.
KernelIsReady ==
    /\ uhid # None /\ ~ready
    /\ ready' = TRUE
    /\ UNCHANGED <<env, device, io, threads, uhid, kernel, inbox, resends, history,
                   crashed>>

KernelOpens ==
    /\ uhid # None /\ ready
    /\ events < MaxEvents                       \* bound of the model
    /\ events' = events + 1
    /\ inbox' = inbox + 1
    /\ UNCHANGED <<link, links, broadcasts, charge, device, io, threads, uhid,
                   kernel, ready, resends, history, crashed>>

\* Mutant of StartupResends: none.
NoResends == 0
StartupResends == Resends

ReadKernelEvent ==
    /\ pc[Uhid] = "poll"
    /\ inbox > 0
    /\ inbox' = inbox - 1
    /\ resends' = StartupResends
    /\ Go(Uhid, "copy")
    /\ UNCHANGED <<env, device, io, val, since, wakes, uhid, kernel, ready, history,
                   crashed>>

\* A driver is bound before the last resend, 3 s after UHID_START.
Resend ==
    /\ pc[Uhid] = "poll"
    /\ resends > 0
    /\ resends = 1 => ready
    /\ resends' = resends - 1
    /\ Go(Uhid, "copy")
    /\ UNCHANGED <<env, device, io, val, since, wakes, uhid, kernel, ready, inbox,
                   history, crashed>>

UhidWrite ==
    /\ pc[Uhid] = "write"
    /\ Shown(Uhid)
    /\ stale' = (val[Uhid] # uhid)
    /\ val' = [val EXCEPT ![Uhid] = None]
    /\ Go(Uhid, "poll")
    /\ UNCHANGED <<env, device, io, since, wakes, uhid, ready, inbox, resends,
                   overtaken, late, twice, failed, crashed>>

WorkerStep(w) ==
    \/ Begin(w) \/ OnSleep(w) \/ OnWakeup(w) \/ ReadFails(w) \/ Read(w)
    \/ CreateFails(w) \/ Create(w) \/ Update(w) \/ Copy(w) \/ Write(w)
    \/ Refresh(w) \/ CheckWithdrawal(w) \/ Withdraw(w)

Next ==
    /\ ~crashed
    /\ \/ LinkChanges \/ StatusBroadcast \/ ChargeChanges
       \/ BatteryEvent \/ BatteryEventEnds
       \/ \E w \in Workers : WorkerStep(w)
       \/ KernelIsReady \/ KernelOpens
       \/ ReadKernelEvent \/ Resend \/ Copy(Uhid) \/ UhidWrite

Sym == Permutations(Workers)

Spec == Init /\ [][Next]_vars

(***************************************************************************)
(* Properties.                                                             *)
(***************************************************************************)

Quiet ==
    /\ due = EmptyBag /\ delayed = {}
    /\ \A w \in Workers : pc[w] = "idle"
    /\ io = "idle" /\ inbox = 0 /\ resends = 0
    /\ pc[Uhid] \in {"idle", "poll"} /\ (uhid # None => ready)
    /\ ~crashed

\* The battery of a device that is awake stays published: a sleep that ended
\* within 15 s withdraws nothing (BatteryStatus.cpp:199, 212), unless the
\* features were told of the two in the other order, or the wakeup came
\* between the check and the withdrawal.
AwakeKeepsBattery ==
    Quiet /\ awake /\ uhid = None => failed \/ overtaken \/ late

\* A device that stays asleep loses its battery, whatever readings were under
\* way, unless the features were told of the sleep before an older wakeup.
SleeperIsWithdrawn ==
    Quiet /\ ~awake => uhid = None \/ overtaken

\* The battery is there for a device that is awake and only for one.
BatteryFollowsSleep == AwakeKeepsBattery /\ SleeperIsWithdrawn

\* What the kernel shows in the end is what the UHID device keeps, however
\* late the driver is bound (UhidBatteryDevice.cpp:319-331), unless the last
\* write was that of an older state.
KernelIsTold == Quiet => kernel = uhid \/ stale

\* A UHID device that is gone is used only after two threads created one, or
\* a wakeup came between the check and the withdrawal.
UsedWhileThere == crashed => twice \/ late
=============================================================================
