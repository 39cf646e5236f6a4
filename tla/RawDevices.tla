----------------------------- MODULE RawDevices -----------------------------
(***************************************************************************)
(* The life of RawDevice objects (backend/raw/RawDevice.cpp): descriptors  *)
(* that are opened, asked about, registered with the I/O monitor, read by  *)
(* its thread, unregistered and closed, while nodes are unplugged and the  *)
(* kernel gives the numbers of closed descriptors to the next open().      *)
(*                                                                         *)
(* IOMonitor.tla shows that add() and remove() exclude each other and the  *)
(* look-up of a handler: each is one step here.                            *)
(***************************************************************************)
EXTENDS Integers, FiniteSets

CONSTANTS
    Objects,        \* RawDevice objects, each made once
    Nodes,          \* hidraw nodes
    None,
    MaxUnplugs      \* bound of the model

RawDevicesAssumption == IsFiniteSet(Objects) /\ None \notin Objects \cup Nodes

VARIABLES
    plugged,        \* nodes that are there
    table,          \* descriptor -> node, or None if it is closed
    monitor,        \* IOMonitor::_fds: descriptor -> object, or None
    stage,          \* where each object is in its life
    node, fd,       \* _path and _fd of each object
    batch,          \* events epoll_wait() gave the I/O thread
    reading,        \* the object whose handler the I/O thread runs
    dying,          \* the object whose destructor the I/O thread runs
    got,            \* whose report each object's handlers were given (history)
    unplugs

vars == <<plugged, table, monitor, stage, node, fd, batch, reading, dying, got, unplugs>>

Fds == 1 .. Cardinality(Objects)

Init ==
    /\ plugged = Nodes
    /\ table = [f \in Fds |-> None] /\ monitor = [f \in Fds |-> None]
    /\ stage = [o \in Objects |-> "none"]
    /\ node = [o \in Objects |-> None] /\ fd = [o \in Objects |-> None]
    /\ batch = {} /\ reading = None /\ dying = None /\ got = {} /\ unplugs = 0

Goes(o, s) == stage' = [stage EXCEPT ![o] = s]

\* get_fd: open() takes the lowest free number, or fails.
Open(o, n) ==
    /\ stage[o] = "none"
    /\ node' = [node EXCEPT ![o] = n]
    /\ IF n \notin plugged THEN Goes(o, "failed") /\ UNCHANGED <<table, fd>>
       ELSE LET f == CHOOSE f \in Fds : table[f] = None /\ \A g \in 1 .. f-1 : table[g] # None
            IN  /\ table' = [table EXCEPT ![f] = n]
                /\ fd' = [fd EXCEPT ![o] = f] /\ Goes(o, "open")
    /\ UNCHANGED <<plugged, monitor, batch, reading, dying, got, unplugs>>

Abandoned(o) == [table EXCEPT ![fd[o]] = None]

\* The ioctls of the constructor (device, name, report descriptor, and of a USB
\* device the physical path): one that fails closes the descriptor and throws.
Query(o) ==
    /\ stage[o] = "open"
    /\ IF node[o] \in plugged THEN Goes(o, "made") /\ UNCHANGED table
       ELSE Goes(o, "failed") /\ table' = Abandoned(o)
    /\ UNCHANGED <<plugged, monitor, node, fd, batch, reading, dying, got, unplugs>>

\* _ready: IOMonitor::add() throws for a descriptor it knows, and the object goes.
Ready(o) ==
    /\ stage[o] = "made"
    /\ IF monitor[fd[o]] # None THEN Goes(o, "destroyed") /\ UNCHANGED monitor
       ELSE monitor' = [monitor EXCEPT ![fd[o]] = o] /\ Goes(o, "ready")
    /\ UNCHANGED <<plugged, table, node, fd, batch, reading, dying, got, unplugs>>

\* The last reference but that of the I/O thread goes.
Drop(o) ==
    /\ stage[o] = "ready"
    /\ Goes(o, IF reading = o THEN "held" ELSE "destroyed")
    /\ UNCHANGED <<plugged, table, monitor, node, fd, batch, reading, dying, got, unplugs>>

\* A mutant of Destructor: the descriptor is closed before it is unregistered.
CloseFirst == <<"close", "remove">>
\* ~RawDevice
Destructor == <<"remove", "close">>
Does(o, what) ==
    \/ /\ stage[o] = "destroyed" /\ what = Destructor[1] /\ Goes(o, "between")
       /\ UNCHANGED dying
    \/ /\ stage[o] = "between" /\ what = Destructor[2] /\ Goes(o, "gone")
       /\ dying' = IF dying = o THEN None ELSE dying

Remove(o) ==
    /\ Does(o, "remove")
    /\ monitor' = [monitor EXCEPT ![fd[o]] = None]
    /\ UNCHANGED <<plugged, table, node, fd, batch, reading, got, unplugs>>

Close(o) ==
    /\ Does(o, "close")
    /\ table' = [table EXCEPT ![fd[o]] = None]
    /\ UNCHANGED <<plugged, monitor, node, fd, batch, reading, got, unplugs>>

-----------------------------------------------------------------------------
\* The I/O thread.  While it runs a destructor it does nothing else.
Idle == reading = None /\ dying = None

\* epoll_wait(): descriptors that are open and registered, all at once.
EpollWait ==
    /\ Idle /\ batch = {}
    /\ batch' \in SUBSET {f \in Fds : monitor[f] # None /\ table[f] # None} \ {{}}
    /\ UNCHANGED <<plugged, table, monitor, stage, node, fd, reading, dying, got, unplugs>>

\* self_weak.lock(): an object without references is not read.
Locked(o) == stage[o] \in {"ready", "held"}

\* The handler that is registered now, maybe another one than when the event came.
Handle(f) ==
    /\ Idle /\ f \in batch /\ batch' = batch \ {f}
    /\ reading' = IF monitor[f] # None /\ Locked(monitor[f]) THEN monitor[f] ELSE None
    /\ UNCHANGED <<plugged, table, monitor, stage, node, fd, dying, got, unplugs>>

\* _readReports: of a closed or an unplugged descriptor nothing is read.
ReadReport ==
    /\ reading # None
    /\ table[fd[reading]] \in plugged
    /\ got' = got \cup {<<reading, table[fd[reading]]>>}
    /\ UNCHANGED <<plugged, table, monitor, stage, node, fd, batch, reading, dying, unplugs>>

\* EAGAIN or EIO ends the reading.  The I/O thread may have the last reference.
ReadingEnds ==
    /\ reading # None /\ reading' = None
    /\ IF stage[reading] = "held" THEN Goes(reading, "destroyed") /\ dying' = reading
       ELSE UNCHANGED <<stage, dying>>
    /\ UNCHANGED <<plugged, table, monitor, node, fd, batch, got, unplugs>>

Unplug(n) ==
    /\ unplugs < MaxUnplugs /\ unplugs' = unplugs + 1
    /\ plugged' = plugged \ {n} /\ n \in plugged
    /\ UNCHANGED <<table, monitor, stage, node, fd, batch, reading, dying, got>>

Next ==
    \/ \E o \in Objects :
          \/ \E n \in Nodes : Open(o, n)
          \/ Query(o) \/ Ready(o) \/ Drop(o) \/ Remove(o) \/ Close(o)
    \/ EpollWait \/ ReadReport \/ ReadingEnds
    \/ \E f \in Fds : Handle(f)
    \/ \E n \in Nodes : Unplug(n)

Spec == Init /\ [][Next]_vars

-----------------------------------------------------------------------------
\* However the kernel reuses the numbers of descriptors: each object has its own
\* open one until it goes, on its own node, none is left open, a device that is
\* ready is registered, and a handler is given its own device's reports only.
DescriptorsAreOwn ==
    LET open == {o \in Objects : stage[o] \notin {"none", "failed", "gone"}}
    IN  /\ \A o \in open : table[fd[o]] = node[o]
        /\ \A o, p \in open : fd[o] = fd[p] => o = p
        /\ \A f \in Fds : table[f] # None => \E o \in open : fd[o] = f
        /\ \A o \in open : stage[o] \in {"ready", "held"} => monitor[fd[o]] = o
        /\ \A pair \in got : node[pair[1]] = pair[2]
=============================================================================
