------------------------------ MODULE TaskQueue ------------------------------
(***************************************************************************)
(* The worker pool of logid (src/src/logid/util/task.cpp): one priority    *)
(* queue of timed tasks, one mutex, one condition variable, a few detached *)
(* worker threads, and stop_workers() registered with atexit.              *)
(*                                                                         *)
(* Everything a thread does between taking task_mutex and releasing it (or *)
(* waiting on task_cv) is one step.  A task is its name and its due time;  *)
(* what its function does is the user's (DeviceLink models one user).      *)
(***************************************************************************)
EXTENDS Integers, FiniteSets

CONSTANTS
    Workers,    \* the threads init_workers() creates
    Tasks,      \* names for the task objects; each is queued at most once
    Delays,     \* the delays run_task_after() is called with; 0 is run_task()
    MaxTime,    \* bound of the model on the clock
    NoTask      \* "no task"

ASSUME TaskQueueAssumption ==
    /\ Workers # {}
    /\ MaxTime \in Nat
    /\ Delays \subseteq Nat
    /\ NoTask \notin Tasks

VARIABLES
    workers_init,
    workers_run,
    now,        \* system_clock, in units of the shortest delay
    tasks,      \* the tasks in the priority queue
    time,       \* task::time, Unset until the task is queued
    wstate,     \* where each worker is
    woken,      \* the waiting workers that task_cv has signalled
    deadline,   \* until when a worker in wait_for() waits
    current,    \* the task whose function a worker is running
    stopper     \* where the exiting thread is in stop_workers()

vars == <<workers_init, workers_run, now, tasks, time, wstate, woken,
          deadline, current, stopper>>

Unset == -1

WorkerState == {"unborn", "lock", "wait", "timed", "run", "done"}
StopperState == {"running", "unlocked", "notified", "returned"}

TypeOK ==
    /\ workers_init \in BOOLEAN
    /\ workers_run \in BOOLEAN
    /\ now \in 0..MaxTime
    /\ tasks \subseteq Tasks
    /\ time \in [Tasks -> 0..MaxTime \cup {Unset}]
    /\ wstate \in [Workers -> WorkerState]
    /\ woken \subseteq Workers
    /\ deadline \in [Workers -> 0..MaxTime]
    /\ current \in [Workers -> Tasks \cup {NoTask}]
    /\ stopper \in StopperState

Init ==
    /\ workers_init = FALSE
    /\ workers_run = FALSE
    /\ now = 0
    /\ tasks = {}
    /\ time = [t \in Tasks |-> Unset]
    /\ wstate = [w \in Workers |-> "unborn"]
    /\ woken = {}
    /\ deadline = [w \in Workers |-> 0]
    /\ current = [w \in Workers |-> NoTask]
    /\ stopper = "running"

(***************************************************************************)
(* The priority queue and the condition variable.                          *)
(***************************************************************************)

\* The tasks task_less puts on top: any of those due first.
Tops == {t \in tasks : \A u \in tasks : time[t] <= time[u]}

Waiters == {w \in Workers : wstate[w] \in {"wait", "timed"}}

\* notify_one() wakes one of the threads that wait, in wait() or wait_for().
NotifyOne ==
    IF Waiters \subseteq woken
    THEN UNCHANGED woken
    ELSE \E w \in Waiters \ woken : woken' = woken \cup {w}

NotifyAll == woken' = woken \cup Waiters

(***************************************************************************)
(* worker().                                                               *)
(***************************************************************************)

\* The worker moves to state s, its wait (if it was in one) being over.
Go(w, s) ==
    /\ wstate' = [wstate EXCEPT ![w] = s]
    /\ woken' = woken \ {w}

Exit(w) ==
    /\ Go(w, "done")
    /\ UNCHANGED <<tasks, deadline, current>>

Wait(w) ==
    /\ Go(w, "wait")
    /\ UNCHANGED <<tasks, deadline, current>>

WaitUntil(w, t) ==
    /\ Go(w, "timed")
    /\ deadline' = [deadline EXCEPT ![w] = time[t]]
    /\ UNCHANGED <<tasks, current>>

\* Copy the top task's function, pop it and call it without the mutex.
StartTop(w) ==
    \E t \in Tops :
        /\ tasks' = tasks \ {t}
        /\ current' = [current EXCEPT ![w] = t]
        /\ Go(w, "run")
        /\ UNCHANGED deadline

\* The loop's head, through wait() and its predicate, to the next place
\* where the worker gives up the mutex.
LoopHead(w) ==
    \/ /\ ~workers_run
       /\ Exit(w)
    \/ /\ workers_run
       /\ tasks = {}
       /\ Wait(w)
    \/ /\ workers_run
       /\ \E t \in Tops : time[t] >= now /\ WaitUntil(w, t)
    \/ /\ workers_run
       /\ \E t \in Tops : time[t] < now
       /\ StartTop(w)

Enter(w) ==
    /\ wstate[w] = "lock"
    /\ LoopHead(w)
    /\ UNCHANGED <<workers_init, workers_run, now, time, stopper>>

\* wait() returns when its predicate holds, and else waits again.
WaitReturns(w) ==
    /\ wstate[w] = "wait"
    /\ w \in woken
    /\ LoopHead(w)
    /\ UNCHANGED <<workers_init, workers_run, now, time, stopper>>

\* The predicate of wait_for(): the top task is in the past.
TopIsDue == \E t \in Tops : time[t] < now

\* Mutant of TimedWaitOver: wait_for() without its predicate.
TimedWaitOverOnAnyWakeup(w) == TRUE

\* wait_for() returns when its predicate holds or at the deadline.
TimedWaitOver(w) == now >= deadline[w] \/ TopIsDue \/ ~workers_run

\* Whatever is on top is started: its time is not looked at again.
AfterTimedWait(w) ==
    \/ ~workers_run /\ Exit(w)
    \/ workers_run /\ tasks = {} /\ Wait(w)
    \/ workers_run /\ tasks # {} /\ StartTop(w)

WaitForReturns(w) ==
    /\ wstate[w] = "timed"
    /\ w \in woken \/ now >= deadline[w]
    /\ IF TimedWaitOver(w)
       THEN AfterTimedWait(w)
       ELSE /\ Go(w, "timed")
            /\ UNCHANGED <<tasks, deadline, current>>
    /\ UNCHANGED <<workers_init, workers_run, now, time, stopper>>

\* f() returns or throws; the exception is logged by ExceptionHandler.
Finish(w) ==
    /\ wstate[w] = "run"
    /\ wstate' = [wstate EXCEPT ![w] = "lock"]
    /\ current' = [current EXCEPT ![w] = NoTask]
    /\ UNCHANGED <<workers_init, workers_run, now, tasks, time, woken,
                   deadline, stopper>>

\* A condition variable may wake a thread that nobody signalled.
SpuriousWakeup(w) ==
    /\ w \in Waiters \ woken
    /\ woken' = woken \cup {w}
    /\ UNCHANGED <<workers_init, workers_run, now, tasks, time, wstate,
                   deadline, current, stopper>>

(***************************************************************************)
(* The callers: init_workers(), run_task() and run_task_after(), and       *)
(* stop_workers() at exit.                                                 *)
(***************************************************************************)

InitWorkers ==
    /\ ~workers_init
    /\ workers_init' = TRUE
    /\ workers_run' = TRUE
    /\ wstate' = [w \in Workers |-> "lock"]
    /\ UNCHANGED <<now, tasks, time, woken, deadline, current, stopper>>

DueTime(delay) == now + delay

\* Before init_workers() the call throws and queues nothing.
RunTask(t, delay) ==
    /\ workers_init
    /\ time[t] = Unset
    /\ DueTime(delay) <= MaxTime           \* bound of the model
    /\ time' = [time EXCEPT ![t] = DueTime(delay)]
    /\ tasks' = tasks \cup {t}
    /\ NotifyOne
    /\ UNCHANGED <<workers_init, workers_run, now, wstate, deadline, current,
                   stopper>>

StopWorkers ==
    /\ stopper = "running"
    /\ workers_init
    /\ workers_run' = FALSE
    /\ stopper' = "unlocked"
    /\ UNCHANGED <<workers_init, now, tasks, time, wstate, woken, deadline,
                   current>>

StopNotifies ==
    /\ stopper = "unlocked"
    /\ NotifyAll
    /\ stopper' = "notified"
    /\ UNCHANGED <<workers_init, workers_run, now, tasks, time, wstate,
                   deadline, current>>

\* "Wait for all workers to end": task_mutex is taken, and released on return.
StopReturns ==
    /\ stopper = "notified"
    /\ stopper' = "returned"
    /\ UNCHANGED <<workers_init, workers_run, now, tasks, time, wstate, woken,
                   deadline, current>>

Tick ==
    /\ now < MaxTime                    \* bound of the model
    /\ now' = now + 1
    /\ UNCHANGED <<workers_init, workers_run, tasks, time, wstate, woken,
                   deadline, current, stopper>>

\* The process has nothing left to do.
Exited ==
    /\ stopper = "returned"
    /\ \A w \in Workers : wstate[w] = "done"
    /\ UNCHANGED vars

WorkerStep(w) == Enter(w) \/ WaitReturns(w) \/ WaitForReturns(w) \/ Finish(w)

Next ==
    \/ \E w \in Workers : WorkerStep(w) \/ SpuriousWakeup(w)
    \/ InitWorkers
    \/ \E t \in Tasks, delay \in Delays : RunTask(t, delay)
    \/ StopWorkers
    \/ StopNotifies
    \/ StopReturns
    \/ Tick
    \/ Exited

Spec == Init /\ [][Next]_vars

\* Threads are scheduled, task functions return (HID++ requests time out),
\* and the clock advances.  Nobody has to call anything.
Fairness ==
    /\ \A w \in Workers : WF_vars(WorkerStep(w))
    /\ WF_vars(StopNotifies)
    /\ WF_vars(StopReturns)
    /\ WF_vars(Tick)

FairSpec == Spec /\ Fairness

(***************************************************************************)
(* Properties.                                                             *)
(***************************************************************************)

\* A queued task is never left with every worker asleep on an unsignalled
\* wait(): notify_one() on each push is enough although it may wake a worker
\* that goes back to wait_for() (task.cpp 56-67, 129).
NoStrandedTask ==
    workers_run /\ tasks # {} =>
        \E w \in Workers : wstate[w] # "wait" \/ w \in woken

\* No task is started once stop_workers() has cleared workers_run, wherever the
\* worker was waiting; and one that is started before its time ("top task is in
\* the future, wait", task.cpp 61) is started by a worker that was robbed of the
\* task it waited for: its deadline has passed, so no task overtakes one that is
\* already due (task.cpp 55-76).
StartsInTurn ==
    [][\A w \in Workers :
          current'[w] \notin {NoTask, current[w]} =>
              /\ workers_run
              /\ time[current'[w]] > now => wstate[w] = "timed" /\ deadline[w] <= now]_vars

\* Every queued task is started, unless the program exits first.
EveryTaskStarts ==
    \A t \in Tasks : t \in tasks ~> t \notin tasks \/ ~workers_run

\* stop_workers() gets every worker out of its loop: the notification that
\* follows the unlocked gap reaches the workers in both waits.
WorkersEnd ==
    stopper = "unlocked" ~> \A w \in Workers : wstate[w] = "done"

\* Nothing is forgotten in the queue and nobody in a wait (task.cpp 55-76,
\* 84-95, 129), whatever the interleaving of pushes, wakeups and the stop.
Progress == EveryTaskStarts /\ WorkersEnd
=============================================================================
