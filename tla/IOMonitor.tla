------------------------------ MODULE IOMonitor ------------------------------
(***************************************************************************)
(* The I/O thread and how other threads interrupt it to change the set of  *)
(* file descriptors it polls (src/src/logid/backend/raw/IOMonitor.cpp).    *)
(*                                                                         *)
(* The thread holds _run_mutex while it polls and gives it up to run a     *)
(* handler.  add() and remove() take it with _yield(): under _yield_mutex  *)
(* they try it and, when it is held, write to an eventfd that the thread   *)
(* also polls and lock it.  Seeing the eventfd, the thread gives up        *)
(* _run_mutex, takes _yield_mutex, drains the eventfd and takes            *)
(* _run_mutex back.  Handlers run on the I/O thread and may call add() and *)
(* remove() themselves.                                                    *)
(***************************************************************************)
EXTENDS Integers

CONSTANTS
    Clients,    \* threads that call add() and remove()
    IO,         \* the I/O thread
    Stopper,    \* the thread that destroys the monitor
    Fds,        \* file descriptors of devices
    EventFd,    \* _event_fd
    Nobody,     \* the owner of a free mutex
    MaxOps      \* bound of the model on the calls of add() and remove()

MonitorThreads == Clients \cup {IO, Stopper}

ASSUME IOMonitorAssumption ==
    /\ IO \notin Clients
    /\ Stopper \notin Clients \cup {IO}
    /\ EventFd \notin Fds
    /\ Nobody \notin MonitorThreads
    /\ MaxOps \in Nat

VARIABLES
    listener,       \* where the I/O thread is in _listen()
    batch,          \* events epoll_wait() returned and not yet looked at
    handling,       \* the descriptor whose handler runs
    run,            \* owner of _run_mutex
    yield,          \* owner of _yield_mutex
    is_running,     \* _is_running
    eventfd,        \* the eventfd is readable
    fds,            \* _fds
    readable,       \* descriptors with data to read
    ystate,         \* where each thread is in _yield()
    op,             \* what each thread does once it has yielded
    ops,            \* calls of add() and remove() so far
    lateStart       \* the thread first ran after _stop() began (history)

monitorVars == <<listener, batch, handling, run, yield, is_running, eventfd, fds,
          readable, ystate, op, ops, lateStart>>

listenerVars == <<listener, batch, handling>>
clientVars == <<ystate, op, ops>>

Ops == [kind : {"add", "remove"}, fd : Fds]
NoOp == [kind |-> "none", fd |-> EventFd]

MonitorTypeOK ==
    /\ listener \in {"new", "check", "poll", "next", "drain", "redrained",
                     "handler", "relock", "ended"}
    /\ batch \subseteq Fds \cup {EventFd}
    /\ handling \in Fds \cup {EventFd}
    /\ run \in MonitorThreads \cup {Nobody}
    /\ yield \in MonitorThreads \cup {Nobody}
    /\ is_running \in BOOLEAN
    /\ eventfd \in BOOLEAN
    /\ fds \subseteq Fds
    /\ readable \subseteq Fds
    /\ ystate \in [MonitorThreads -> {"idle", "yield", "try", "write", "block", "own", "join"}]
    /\ op \in [MonitorThreads -> Ops \cup {NoOp}]
    /\ ops \in 0..MaxOps
    /\ lateStart \in BOOLEAN

MonitorInit ==
    /\ listener = "new"
    /\ batch = {}
    /\ handling = EventFd
    /\ run = Nobody
    /\ yield = Nobody
    /\ is_running = FALSE
    /\ eventfd = FALSE
    /\ fds = {}
    /\ readable = {}
    /\ ystate = [k \in MonitorThreads |-> "idle"]
    /\ op = [k \in MonitorThreads |-> NoOp]
    /\ ops = 0
    /\ lateStart = FALSE

Stopping == ystate[Stopper] # "idle"

(***************************************************************************)
(* _listen(), on the I/O thread.                                           *)
(***************************************************************************)

Start ==
    /\ listener = "new"
    /\ run = Nobody
    /\ run' = IO
    /\ is_running' = TRUE
    /\ listener' = "check"
    /\ lateStart' = Stopping
    /\ UNCHANGED <<batch, handling, yield, eventfd, fds, readable, clientVars>>

\* The condition of the outer loop.
Check ==
    /\ listener = "check"
    /\ IF is_running
       THEN listener' = "poll" /\ UNCHANGED run
       ELSE listener' = "ended" /\ run' = Nobody
    /\ UNCHANGED <<batch, handling, yield, is_running, eventfd, fds, readable,
                   clientVars, lateStart>>

\* Mutant of Ready: the eventfd was never added to the epoll set.
ReadyFds == fds \cap readable

Ready == (fds \cap readable) \cup (IF eventfd THEN {EventFd} ELSE {})

\* epoll_wait() sleeps until something is ready and returns all that is.
EpollWait ==
    /\ listener = "poll"
    /\ Ready # {}
    /\ batch' = Ready
    /\ listener' = "next"
    /\ UNCHANGED <<handling, run, yield, is_running, eventfd, fds, readable,
                   clientVars, lateStart>>

EndBatch ==
    /\ listener = "next"
    /\ batch = {}
    /\ listener' = "check"
    /\ UNCHANGED <<batch, handling, run, yield, is_running, eventfd, fds,
                   readable, clientVars, lateStart>>

\* The eventfd: give up _run_mutex and go for _yield_mutex.
SeeEventFd ==
    /\ listener = "next"
    /\ EventFd \in batch
    /\ batch' = batch \ {EventFd}
    /\ run' = Nobody
    /\ listener' = "drain"
    /\ UNCHANGED <<handling, yield, is_running, eventfd, fds, readable,
                   clientVars, lateStart>>

\* Mutant of DrainGuard: the eventfd is drained without _yield_mutex.
DrainAnyTime == UNCHANGED yield

\* "Wait until done yielding".
DrainGuard == yield = Nobody /\ yield' = IO

Drain ==
    /\ listener = "drain"
    /\ DrainGuard
    /\ eventfd' = FALSE
    /\ listener' = "redrained"
    /\ UNCHANGED <<batch, handling, run, is_running, fds, readable, clientVars,
                   lateStart>>

Redrained ==
    /\ listener = "redrained"
    /\ run = Nobody
    /\ run' = IO
    /\ yield' = Nobody
    /\ listener' = "next"
    /\ UNCHANGED <<batch, handling, is_running, eventfd, fds, readable,
                   clientVars, lateStart>>

\* A descriptor removed since epoll_wait() is skipped (out_of_range); else
\* its handler is copied and run without _run_mutex.
SeeFd(fd) ==
    /\ listener = "next"
    /\ fd \in batch
    /\ batch' = batch \ {fd}
    /\ IF fd \in fds
       THEN run' = Nobody /\ listener' = "handler" /\ handling' = fd
       ELSE UNCHANGED <<run, listener, handling>>
    /\ UNCHANGED <<yield, is_running, eventfd, fds, readable, clientVars,
                   lateStart>>

\* The handler has read what there was, and returns or throws.  It may have
\* called add() or remove() before that: see Call.
HandlerReturns ==
    /\ listener = "handler"
    /\ ystate[IO] = "idle"
    /\ readable' = readable \ {handling}
    /\ listener' = "relock"
    /\ UNCHANGED <<batch, handling, run, yield, is_running, eventfd, fds,
                   clientVars, lateStart>>

Relock ==
    /\ listener = "relock"
    /\ run = Nobody
    /\ run' = IO
    /\ listener' = "next"
    /\ UNCHANGED <<batch, handling, yield, is_running, eventfd, fds, readable,
                   clientVars, lateStart>>

DataArrives(fd) ==
    /\ fd \notin readable
    /\ readable' = readable \cup {fd}
    /\ UNCHANGED <<listenerVars, run, yield, is_running, eventfd, fds,
                   clientVars, lateStart>>

(***************************************************************************)
(* _yield(), add(), remove() and _stop().                                  *)
(***************************************************************************)

MoveTo(k, s) == ystate' = [ystate EXCEPT ![k] = s]

Call(k, o) ==
    /\ ystate[k] = "idle"
    /\ (k \in Clients /\ ~Stopping) \/ (k = IO /\ listener = "handler")
    /\ ops < MaxOps                     \* bound of the model
    /\ ops' = ops + 1
    /\ op' = [op EXCEPT ![k] = o]
    /\ MoveTo(k, "yield")
    /\ UNCHANGED <<listenerVars, run, yield, is_running, eventfd, fds,
                   readable, lateStart>>

\* ~IOMonitor() runs when no other thread uses the monitor, but for handlers.
Stop ==
    /\ \A k \in Clients \cup {Stopper} : ystate[k] = "idle"
    /\ is_running' = FALSE
    /\ MoveTo(Stopper, "yield")
    /\ UNCHANGED <<listenerVars, run, yield, eventfd, fds, readable, op, ops,
                   lateStart>>

TakeYield(k) ==
    /\ ystate[k] = "yield"
    /\ yield = Nobody
    /\ yield' = k
    /\ MoveTo(k, "try")
    /\ UNCHANGED <<listenerVars, run, is_running, eventfd, fds, readable, op,
                   ops, lateStart>>

\* Mutant of Acquire: the failed try_lock is not noticed.
AcquireAnyway(k) == run' = k /\ yield' = Nobody /\ MoveTo(k, "own")

\* Returning from _yield(): _run_mutex is held, _yield_mutex released.
Acquire(k) == run = Nobody /\ run' = k /\ yield' = Nobody /\ MoveTo(k, "own")

TryRun(k) ==
    /\ ystate[k] = "try"
    /\ \/ Acquire(k)
       \/ run # Nobody /\ MoveTo(k, "write") /\ UNCHANGED <<run, yield>>
    /\ UNCHANGED <<listenerVars, is_running, eventfd, fds, readable, op, ops,
                   lateStart>>

WriteEventFd(k) ==
    /\ ystate[k] = "write"
    /\ eventfd' = TRUE
    /\ MoveTo(k, "block")
    /\ UNCHANGED <<listenerVars, run, yield, is_running, fds, readable, op,
                   ops, lateStart>>

BlockOnRun(k) ==
    /\ ystate[k] = "block"
    /\ Acquire(k)
    /\ UNCHANGED <<listenerVars, is_running, eventfd, fds, readable, op, ops,
                   lateStart>>

\* The body of add() or remove(); _stop() has none.  add() throws for a
\* descriptor that is there already and when epoll_ctl() fails.
Update(o) ==
    \/ o.kind = "add" /\ fds' = fds \cup {o.fd}
    \/ o.kind = "remove" /\ fds' = fds \ {o.fd}
    \/ o.kind # "remove" /\ UNCHANGED fds

\* ... to the release of _run_mutex.
FinishCall(k) ==
    /\ ystate[k] = "own"
    /\ Update(op[k])
    /\ run' = Nobody
    /\ op' = [op EXCEPT ![k] = NoOp]
    /\ MoveTo(k, IF k = Stopper THEN "join" ELSE "idle")
    /\ UNCHANGED <<listenerVars, yield, is_running, eventfd, readable, ops,
                   lateStart>>

\* join() has returned, or never will: the thread polls with nobody left to
\* wake it, having started after _stop() (see StopEnds).
Joined ==
    /\ ystate[Stopper] = "join"
    /\ listener = "ended" \/ (lateStart /\ listener = "poll" /\ Ready = {})
    /\ UNCHANGED monitorVars

ListenerStep ==
    \/ Start \/ Check \/ EpollWait \/ EndBatch \/ SeeEventFd \/ Drain
    \/ Redrained \/ Relock \/ HandlerReturns
    \/ \E fd \in Fds : SeeFd(fd)

YieldStep(k) ==
    TakeYield(k) \/ TryRun(k) \/ WriteEventFd(k) \/ BlockOnRun(k) \/ FinishCall(k)

MonitorNext ==
    \/ ListenerStep
    \/ \E fd \in Fds : DataArrives(fd)
    \/ \E k \in MonitorThreads : YieldStep(k)
    \/ \E k \in MonitorThreads, o \in Ops : Call(k, o)
    \/ Stop
    \/ Joined

MonitorSpec == MonitorInit /\ [][MonitorNext]_monitorVars

\* Every thread is scheduled and handlers return.  No fairness is asked of
\* the mutexes: a thread that waits for one that stays free gets it.
MonitorFairSpec ==
    /\ MonitorSpec
    /\ WF_monitorVars(ListenerStep)
    /\ \A k \in MonitorThreads : WF_monitorVars(YieldStep(k))

(***************************************************************************)
(* Properties.                                                             *)
(***************************************************************************)

\* The I/O thread is at a point where it reads _fds or sleeps in epoll_wait().
Polling == listener \in {"check", "poll", "next"}

\* _fds is never changed while the I/O thread polls it, nor by two threads
\* at once, handlers that call add() and remove() included (IOMonitor.cpp
\* 86-105, 138-144).
FdsExclusive ==
    \A k \in MonitorThreads : ystate[k] = "own" =>
        /\ ~Polling
        /\ \A m \in MonitorThreads : ystate[m] = "own" => m = k

\* The I/O thread is never asleep in epoll_wait() with a thread waiting for
\* it and the wakeup already drained: every wait for _run_mutex is covered by
\* an eventfd that is readable or an event still to be looked at
\* (IOMonitor.cpp 94-101, 134-142).
NoMissedYield ==
    (\E k \in MonitorThreads : ystate[k] = "block") /\ listener = "poll" => eventfd

\* add(), remove() and _stop() get through, while data keeps arriving.
EveryYieldServed ==
    \A k \in MonitorThreads : ystate[k] = "yield" ~> ystate[k] = "own"

\* A descriptor with data has its data read, unless it or the monitor goes.
EveryEventHandled ==
    \A fd \in Fds :
        fd \in fds \cap readable ~> fd \notin fds \cap readable \/ Stopping

\* The destructor gets the I/O thread to end, unless the thread had not yet
\* run: then it sets _is_running after _stop() cleared it (IOMonitor.cpp 84,
\* 129), and polls for ever.
StopEnds == Stopping ~> listener = "ended" \/ lateStart

\* Nobody waits for ever: neither who changes the descriptors, nor an event,
\* nor the destructor (IOMonitor.cpp 84-145).
NobodyBlocked == EveryYieldServed /\ EveryEventHandled /\ StopEnds
=============================================================================
