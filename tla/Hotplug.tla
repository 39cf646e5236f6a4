------------------------------- MODULE Hotplug -------------------------------
(***************************************************************************)
(* One device node that comes and goes: backend/raw/DeviceMonitor.cpp,     *)
(* DeviceManager.cpp and the probing of backend/hidpp/Device.cpp.          *)
(*                                                                         *)
(* udev's events become tasks, run in the order of the events but by more  *)
(* than one worker; main() enumerates at the same time.  The node's name   *)
(* is reused: what is plugged in next may be another device.  A device is  *)
(* known by the number of times something was plugged in.                  *)
(***************************************************************************)
EXTENDS Naturals, Sequences, FiniteSets, FiniteSetsExt

CONSTANTS
    Workers,    \* the workers of the pool, and main(), which enumerates
    Main,
    None,
    MaxTries,   \* max_tries (5 in the code)
    MaxPlugs,   \* bound of the model on how often something is plugged in
    MaxNaps     \* bound of the model on answers of a device that is not ready

ASSUME HotplugAssumption ==
    /\ IsFiniteSet(Workers) /\ Main \in Workers
    /\ {MaxTries, MaxNaps} \subseteq Nat /\ MaxPlugs \in Nat \ {0}
    /\ None \notin Nat /\ None \notin {"receivers", "devices"} \X Nat \X Nat

VARIABLES
    plugged,    \* the device that is plugged in, or None
    kind,       \* what each device is
    plugs, naps,
    tasks,      \* udev's events and the tasks they become, in order
    retries,    \* delayed tasks: the number of the try, a set
    stage, try,    \* where each worker is, and the try it is on
    dev, role,  \* the device it has opened, and what the first probe said
    nick,       \* the nickname of the object it is making, or None
    manager,    \* _receivers and _devices: the object of the node, or None
    announced,  \* objects announced by ...Added and not yet by ...Removed
    crossed,    \* an add and a removal, or two adds, overtook one another,
                \* or the device was replaced while it was probed (history)
    gaveUp      \* devices that were given up: MaxTries, or a lost answer (history)

hotplugVars == <<plugged, kind, plugs, naps, tasks, retries, stage, try, dev, role,
                 nick, manager, announced, crossed, gaveUp>>

\* A HID++ 2.0 device, one that answers at the corded index only, a receiver,
\* and what is not for logid: a virtual node, another vendor, an ignored id.
Kinds == {"device", "corded", "receiver", "ignored"}
Shelf(k) == IF k = "receiver" THEN "receivers" ELSE "devices"

HotplugInit ==
    /\ kind \in [1..MaxPlugs -> Kinds]
    /\ plugs \in {0, 1} /\ plugged = IF plugs = 1 THEN 1 ELSE None
    /\ naps = 0 /\ retries = {} /\ crossed = FALSE /\ gaveUp = {}
    /\ \E event \in BOOLEAN :       \* the monitor is ready before enumerate()
          tasks = IF plugs = 1 /\ event THEN <<"add">> ELSE <<>>
    /\ stage = [w \in Workers |-> IF w = Main /\ plugs = 1 THEN "open" ELSE "idle"]
    /\ try = [w \in Workers |-> 0] /\ dev = [w \in Workers |-> None]
    /\ role = [w \in Workers |-> "ignored"] /\ nick = [w \in Workers |-> None]
    /\ manager = [s \in {"receivers", "devices"} |-> None] /\ announced = {}

(***************************************************************************)
(* Nicknames.                                                              *)
(***************************************************************************)

\* An object is <<shelf, device, nickname>>.  One that finds its place taken is
\* destroyed at once.
ObjectOf(w) == <<Shelf(role[w]), dev[w], nick[w]>>

Nicknames(shelf) ==
    {o[3] : o \in {manager[shelf]} \ {None}}
        \cup {nick[w] : w \in {x \in Workers : nick[x] # None /\ Shelf(role[x]) = shelf}}

\* newDeviceNickname(): 0, or what follows the first before a gap or the last of
\* the ordered set.
NewNickname(s) == IF 0 \notin s THEN 0 ELSE Min({i \in s : i + 1 \notin s}) + 1

(***************************************************************************)
(* The user, udev and the tasks.                                           *)
(***************************************************************************)

Plug ==
    /\ plugged = None /\ plugs < MaxPlugs
    /\ plugs' = plugs + 1 /\ plugged' = plugs'
    /\ tasks' = Append(tasks, "add")
    /\ UNCHANGED <<kind, naps, retries, stage, try, dev, role, nick, manager, announced,
                   crossed, gaveUp>>

Unplug ==
    /\ plugged # None /\ plugged' = None
    /\ tasks' = Append(tasks, "remove")
    /\ UNCHANGED <<kind, plugs, naps, retries, stage, try, dev, role, nick, manager,
                   announced, crossed, gaveUp>>

BeginTask(w) ==
    /\ stage[w] = "idle" /\ w # Main
    /\ \/ /\ tasks # <<>> /\ tasks' = Tail(tasks)
          /\ stage' = [stage EXCEPT ![w] = IF Head(tasks) = "add" THEN "open" ELSE "remove"]
          /\ try' = [try EXCEPT ![w] = 0]
          /\ UNCHANGED retries
       \/ \E n \in retries :
             /\ retries' = retries \ {n} /\ try' = [try EXCEPT ![w] = n]
             /\ stage' = [stage EXCEPT ![w] = "open"]
             /\ UNCHANGED tasks
    /\ UNCHANGED <<plugged, kind, plugs, naps, dev, role, nick, manager, announced,
                   crossed, gaveUp>>

(***************************************************************************)
(* _addHandler() and addDevice().                                          *)
(***************************************************************************)

Enter(w, step) == stage' = [stage EXCEPT ![w] = step]
Finish(w) ==
    /\ Enter(w, "idle") /\ try' = [try EXCEPT ![w] = 0]
    /\ dev' = [dev EXCEPT ![w] = None] /\ nick' = [nick EXCEPT ![w] = None]
    /\ role' = [role EXCEPT ![w] = "ignored"]

\* Every other error is logged, and the device is not tried again.
Fail(w) == Finish(w) /\ UNCHANGED retries
GiveUp(w) == Fail(w) /\ gaveUp' = gaveUp \cup {plugged}

\* DeviceNotReady: exponential backoff, max_tries times.
NeverBackOff(w) == Fail(w) /\ UNCHANGED gaveUp               \* a mutant
BackOff(w) ==
    IF try[w] = MaxTries THEN GiveUp(w)
    ELSE /\ retries' = retries \cup {try[w] + 1}
         /\ Finish(w) /\ UNCHANGED gaveUp

\* The descriptor is read by the name of the node.
Open(w) ==
    /\ stage[w] = "open"
    /\ IF plugged = None THEN Finish(w)
       ELSE Enter(w, "probe") /\ UNCHANGED <<try, dev, role, nick>>
    /\ UNCHANGED <<plugged, kind, plugs, naps, tasks, retries, manager, announced,
                   crossed, gaveUp>>

\* What hidpp::Device::make() makes of a device: the version, which a receiver
\* refuses as HID++ 1.0 does, then five pings; an error of another kind, a
\* timeout or a failed ping means that it is not ready.
NotReady == naps < MaxNaps /\ naps' = naps + 1

Probe(w) ==
    /\ stage[w] = "probe"
    /\ IF plugged = None \/ kind[plugged] = "ignored"
       THEN Fail(w) /\ UNCHANGED <<naps, gaveUp>>
       ELSE \/ /\ Enter(w, "make") /\ dev' = [dev EXCEPT ![w] = plugged]
               /\ role' = [role EXCEPT ![w] = kind[plugged]]
               /\ UNCHANGED <<naps, retries, try, nick, gaveUp>>
            \/ NotReady /\ BackOff(w)
    /\ UNCHANGED <<plugged, kind, plugs, tasks, manager, announced, crossed>>

\* A request times out or is refused, after the first probe: addDevice() makes
\* DeviceNotReady of it for a corded device only.
AnswerLost(w) == NotReady /\ IF role[w] = "corded" THEN BackOff(w) ELSE GiveUp(w)

\* Device::make() or Receiver::make() opens the node once more, probes again,
\* and takes a nickname.  A failed ping or a HID++ 2.0 error is DeviceNotReady of
\* any device; other errors of this probing are lost answers.
Make(w) ==
    /\ stage[w] = "make"
    /\ IF plugged = None
       THEN Fail(w) /\ UNCHANGED <<naps, gaveUp, crossed>>
       ELSE /\ crossed' = (crossed \/ dev[w] # plugged)
            /\ \/ NotReady /\ BackOff(w)
               \/ AnswerLost(w)
               \/ /\ dev' = [dev EXCEPT ![w] = plugged]
                  /\ nick' = [nick EXCEPT ![w] = NewNickname(Nicknames(Shelf(role[w])))]
                  /\ Enter(w, "init") /\ UNCHANGED <<naps, retries, try, role, gaveUp>>
    /\ UNCHANGED <<plugged, kind, plugs, tasks, manager, announced>>

\* The requests that configure its features.
InitDevice(w) ==
    /\ stage[w] = "init"
    /\ \/ dev[w] # plugged /\ Fail(w) /\ UNCHANGED <<naps, gaveUp>>
       \/ /\ dev[w] = plugged /\ Enter(w, "insert")
          /\ UNCHANGED <<naps, retries, try, dev, role, nick, gaveUp>>
       \/ dev[w] = plugged /\ AnswerLost(w)
    /\ UNCHANGED <<plugged, kind, plugs, tasks, manager, announced, crossed>>

\* Under _map_lock.  emplace() keeps what is there; the signal is sent anyway.
Insert(w) ==
    /\ stage[w] = "insert"
    /\ LET s == ObjectOf(w)[1] IN
       /\ manager' = [manager EXCEPT ![s] = IF @ = None THEN ObjectOf(w) ELSE @]
       /\ crossed' = (crossed \/ manager[s] # None)
    /\ announced' = announced \cup {ObjectOf(w)}
    /\ Finish(w)
    /\ UNCHANGED <<plugged, kind, plugs, naps, tasks, retries, gaveUp>>

\* removeDevice(), under _map_lock: a receiver, or else a device.
RemoveDeviceOnly == "devices"                                \* a mutant
Removed == IF manager["receivers"] # None THEN "receivers" ELSE "devices"

Remove(w) ==
    /\ stage[w] = "remove"
    /\ manager' = [manager EXCEPT ![Removed] = None]
    /\ announced' = announced \ {manager[Removed]}
    /\ crossed' = \/ crossed
                  \/ \E x \in Workers : stage[x] = "insert" /\ dev[x] # plugged
                  \/ manager[Removed] # None /\ manager[Removed][2] = plugged
    /\ Enter(w, "idle")
    /\ UNCHANGED <<plugged, kind, plugs, naps, tasks, retries, try, dev, role, nick, gaveUp>>

Step(w) ==
    BeginTask(w) \/ Open(w) \/ Probe(w) \/ Make(w) \/ InitDevice(w) \/ Insert(w) \/ Remove(w)

HotplugNext == Plug \/ Unplug \/ \E w \in Workers : Step(w)

HotplugSpec ==
    /\ HotplugInit /\ [][HotplugNext]_hotplugVars
    /\ \A w \in Workers : WF_hotplugVars(Step(w))

-----------------------------------------------------------------------------
HotplugTypeOK ==
    /\ plugged \in 1..MaxPlugs \cup {None} /\ plugs \in 0..MaxPlugs
    /\ stage \in [Workers -> {"idle", "open", "probe", "make", "init", "insert", "remove"}]
    /\ try \in [Workers -> 0..MaxTries] /\ retries \subseteq 1..MaxTries

Quiet == tasks = <<>> /\ retries = {} /\ \A w \in Workers : stage[w] = "idle"

\* When everything queued was handled, the manager has the device that is
\* plugged in, and nothing else, and has announced just that, unless steps of
\* an add and a removal or of two adds overtook one another.
ManagerIsExact ==
    (Quiet /\ ~crossed) =>
        LET mapped == {o \in {manager["receivers"], manager["devices"]} : o # None}
            here == {o[2] : o \in mapped}
        IN  /\ announced = mapped
            /\ \/ here = {d \in {plugged} \ {None} : kind[d] # "ignored"}
               \/ here = {} /\ plugged \in gaveUp

\* A device that stays is added in the end, however often it is not ready in
\* either probing: it is tried again, until it was tried max_tries + 1 times.
\* Only an answer that is lost after the first probe gives a device up at once,
\* unless it is a corded one (DeviceManager.cpp 120-155, DeviceMonitor.cpp 249-269).
PluggedIsAdded ==
    \A d \in 1..MaxPlugs :
        (plugged = d /\ kind[d] # "ignored") ~>
            (\/ plugged # d \/ crossed \/ d \in gaveUp
             \/ \E s \in DOMAIN manager : manager[s] # None /\ manager[s][2] = d)

\* Two live objects of a kind never share a nickname, which names their D-Bus
\* nodes.
NicknamesAreOwn ==
    \A s \in DOMAIN manager :
        LET making == {w \in Workers : nick[w] # None /\ Shelf(role[w]) = s}
        IN  /\ \A v, w \in making : nick[v] = nick[w] => v = w
            /\ \A w \in making : manager[s] # None => manager[s][3] # nick[w]

\* The manager and the names on the bus agree with what is plugged in.
ManagerAgrees == HotplugTypeOK /\ ManagerIsExact /\ NicknamesAreOwn
=============================================================================
