-------------------------- MODULE ThreadingProofs --------------------------
(***************************************************************************)
(* The program's threads and how they hand work to each other: the worker  *)
(* pool, the hook queue and the I/O monitor, each on its own, for any      *)
(* number of workers, tasks, delays, commands, clients and descriptors.    *)
(***************************************************************************)
EXTENDS TaskQueue, CommandQueue, IOMonitor, SequenceTheorems, TLAPS

(***************************************************************************)
(* The worker pool, for any number of workers, of tasks and of delays:     *)
(* tasks start in turn and once, none is stranded by the notifications,    *)
(* and stop_workers() reaches every worker that sleeps.                    *)
(***************************************************************************)

\* A task has its time from the moment it is queued.
QueuedHaveTimes == \A t \in tasks : time[t] # Unset

\* There are no workers before init_workers().
NoneBeforeInit == ~workers_init => \A w \in Workers : wstate[w] = "unborn"

\* A task that runs has left the queue, and one worker runs it.
RunsOnce ==
    \A w \in Workers :
        current[w] # NoTask =>
            /\ wstate[w] = "run"
            /\ current[w] \notin tasks
            /\ time[current[w]] # Unset
            /\ \A v \in Workers : current[v] = current[w] => v = w

\* Once stop_workers() has notified, no worker sleeps unsignalled: it has
\* cleared workers_run before, so no worker goes to sleep any more.
StopReachesAll ==
    /\ stopper # "running" => workers_init /\ ~workers_run
    /\ stopper \in {"notified", "returned"} => Waiters \subseteq woken

\* What is inductive.
PoolInv ==
    /\ TypeOK
    /\ NoneBeforeInit
    /\ QueuedHaveTimes
    /\ RunsOnce
    /\ NoStrandedTask
    /\ StopReachesAll

-----------------------------------------------------------------------------
\* What a worker does between two waits, wherever it comes from: it ends, it
\* sleeps because the queue is empty, it sleeps until a deadline, or it starts
\* one of the top tasks.  It only ends when workers_run is cleared.
Moves(w) ==
    /\ wstate[w] \in {"lock", "wait", "timed"}
    /\ \/ ~workers_run /\ Exit(w)
       \/ workers_run /\ tasks = {} /\ Wait(w)
       \/ /\ workers_run
          /\ Go(w, "timed")
          /\ deadline' \in [Workers -> 0..MaxTime]
          /\ UNCHANGED <<tasks, current>>
       \/ workers_run /\ StartTop(w)
    /\ UNCHANGED <<workers_init, workers_run, now, time, stopper>>

\* Wherever a worker comes back to its loop, it goes on in one of four ways.
LEMMA WorkersMove ==
    ASSUME PoolInv, NEW w \in Workers, Enter(w) \/ WaitReturns(w) \/ WaitForReturns(w)
    PROVE  Moves(w)
<1>1. ASSUME LoopHead(w)
      PROVE  \/ ~workers_run /\ Exit(w)
             \/ workers_run /\ tasks = {} /\ Wait(w)
             \/ /\ workers_run
                /\ Go(w, "timed")
                /\ deadline' \in [Workers -> 0..MaxTime]
                /\ UNCHANGED <<tasks, current>>
             \/ workers_run /\ StartTop(w)
  <2>1. \A t \in Tops : time[t] \in 0..MaxTime
    BY DEF Tops, PoolInv, TypeOK, QueuedHaveTimes
  <2>2. ASSUME NEW t \in Tops, WaitUntil(w, t)
        PROVE  /\ Go(w, "timed")
               /\ deadline' \in [Workers -> 0..MaxTime]
               /\ UNCHANGED <<tasks, current>>
    BY <2>1, <2>2 DEF WaitUntil, PoolInv, TypeOK
  <2> QED
    BY <1>1, <2>2 DEF LoopHead
<1>2. CASE Enter(w)
  BY <1>1, <1>2 DEF Enter, Moves
<1>3. CASE WaitReturns(w)
  BY <1>1, <1>3 DEF WaitReturns, Moves
<1>4. CASE WaitForReturns(w)
  <2>1. CASE TimedWaitOver(w) /\ AfterTimedWait(w)
    BY <1>4, <2>1 DEF WaitForReturns, AfterTimedWait, Moves
  <2>2. CASE ~TimedWaitOver(w)
    BY <1>4, <2>2 DEF WaitForReturns, TimedWaitOver, Moves, PoolInv, TypeOK
  <2> QED
    BY <1>4, <2>1, <2>2 DEF WaitForReturns
<1> QED
  BY <1>2, <1>3, <1>4

\* Each of these ways keeps the invariant.
LEMMA MovesIInv ==
    ASSUME PoolInv, NEW w \in Workers, Moves(w)
    PROVE  PoolInv'
<1>t. TypeOK
  BY DEF PoolInv
<1>u. UNCHANGED <<workers_init, workers_run, now, time, stopper>>
  BY DEF Moves
<1>c. current[w] = NoTask
  BY DEF Moves, PoolInv, RunsOnce
\* A worker that starts no task: only its state and its deadline change.
<1>1. ASSUME NEW s \in {"wait", "timed", "done"}, Go(w, s),
             deadline' \in [Workers -> 0..MaxTime],
             UNCHANGED <<tasks, current>>,
             s = "wait" => workers_run /\ tasks = {},
             s = "timed" => workers_run
      PROVE  PoolInv'
  <2>1. wstate' = [wstate EXCEPT ![w] = s] /\ woken' = woken \ {w}
    BY <1>1 DEF Go
  <2>2. TypeOK'
    BY <1>1, <2>1, <1>t, <1>u DEF TypeOK, WorkerState
  <2>3. RunsOnce'
    BY <1>1, <2>1, <1>t, <1>u, <1>c DEF PoolInv, RunsOnce, TypeOK
  <2>4. NoStrandedTask'
    BY <1>1, <2>1, <1>t, <1>u DEF NoStrandedTask, TypeOK
  <2>5. StopReachesAll'
    BY <1>1, <2>1, <1>t, <1>u DEF PoolInv, StopReachesAll, Waiters, TypeOK, StopperState
  <2>6. NoneBeforeInit'
    BY <2>1, <1>u DEF PoolInv, NoneBeforeInit, Moves
  <2> QED
    BY <1>1, <2>2, <2>3, <2>4, <2>5, <2>6, <1>u DEF PoolInv, QueuedHaveTimes
<1>2. ASSUME workers_run, StartTop(w)
      PROVE  PoolInv'
  <2>1. PICK t \in Tops : /\ tasks' = tasks \ {t}
                          /\ current' = [current EXCEPT ![w] = t]
                          /\ Go(w, "run")
                          /\ UNCHANGED deadline
    BY <1>2 DEF StartTop
  <2>2. wstate' = [wstate EXCEPT ![w] = "run"] /\ woken' = woken \ {w}
    BY <2>1 DEF Go
  <2>3. t \in tasks /\ t \in Tasks /\ t # NoTask
    BY <1>t, TaskQueueAssumption DEF Tops, TypeOK, TaskQueueAssumption
  <2>4. TypeOK'
    BY <2>1, <2>2, <2>3, <1>t, <1>u DEF TypeOK, WorkerState
  <2>5. RunsOnce'
    BY <2>1, <2>2, <2>3, <1>t, <1>u DEF PoolInv, RunsOnce, QueuedHaveTimes, TypeOK
  <2>6. NoStrandedTask'
    BY <2>2, <1>t DEF NoStrandedTask, TypeOK
  <2>7. StopReachesAll'
    BY <1>2, <2>2, <1>t, <1>u DEF PoolInv, StopReachesAll, Waiters, TypeOK, StopperState
  <2>8. NoneBeforeInit'
    BY <2>2, <1>u DEF PoolInv, NoneBeforeInit, Moves
  <2> QED
    BY <2>1, <2>4, <2>5, <2>6, <2>7, <2>8, <1>u DEF PoolInv, QueuedHaveTimes
<1>3. CASE Exit(w)
  BY <1>1, <1>3, <1>t DEF Exit, TypeOK
<1>4. CASE workers_run /\ tasks = {} /\ Wait(w)
  BY <1>1, <1>4, <1>t DEF Wait, TypeOK
<1> QED
  BY <1>1, <1>2, <1>3, <1>4 DEF Moves

\* Initially nothing is queued and nobody runs.
LEMMA InitPoolInv == Init => PoolInv
<1> SUFFICES ASSUME Init
             PROVE  PoolInv
  OBVIOUS
<1>1. 0 \in 0..MaxTime
  BY TaskQueueAssumption DEF TaskQueueAssumption
<1>2. TypeOK
  BY <1>1 DEF Init, TypeOK, WorkerState, StopperState
<1> QED
  BY <1>2 DEF Init, PoolInv, NoneBeforeInit, QueuedHaveTimes, RunsOnce, NoStrandedTask, StopReachesAll

\* run_task_after(): somebody is awake, or is signalled.
LEMMA RunTaskIInv ==
    ASSUME PoolInv, NEW t \in Tasks, NEW delay \in Delays, RunTask(t, delay)
    PROVE  PoolInv'
<1>t. TypeOK
  BY DEF PoolInv
<1>1. /\ time' = [time EXCEPT ![t] = DueTime(delay)]
      /\ time[t] = Unset
      /\ tasks' = tasks \cup {t}
      /\ NotifyOne
      /\ UNCHANGED <<workers_init, workers_run, now, wstate, deadline, current, stopper>>
  BY DEF RunTask
<1>2. DueTime(delay) \in 0..MaxTime
  <2>1. delay \in Nat
    BY TaskQueueAssumption, Zenon DEF TaskQueueAssumption
  <2> QED
    BY <2>1, <1>t, TaskQueueAssumption DEF RunTask, DueTime, TypeOK, TaskQueueAssumption
<1>3. /\ woken \subseteq woken' /\ woken' \subseteq Workers
      /\ Waiters = {} \/ Waiters \cap woken' # {}
  BY <1>1, <1>t DEF NotifyOne, TypeOK, Waiters
<1>4. TypeOK'
  BY <1>1, <1>2, <1>3, <1>t DEF TypeOK
<1>5. QueuedHaveTimes'
  BY <1>1, <1>2, <1>t DEF PoolInv, QueuedHaveTimes, TypeOK, Unset
<1>6. RunsOnce'
  <2>1. \A w \in Workers : current[w] # NoTask => current[w] # t /\ current[w] \in Tasks
    BY <1>1, <1>t DEF PoolInv, RunsOnce, TypeOK
  <2> QED
    BY <1>1, <2>1, <1>t DEF PoolInv, RunsOnce, TypeOK
<1>7. NoStrandedTask'
  BY <1>1, <1>3, TaskQueueAssumption DEF NoStrandedTask, Waiters, TaskQueueAssumption
<1>8. StopReachesAll'
  BY <1>1, <1>3 DEF PoolInv, StopReachesAll, Waiters
<1>9. NoneBeforeInit'
  BY <1>1 DEF PoolInv, NoneBeforeInit
<1> QED
  BY <1>4, <1>5, <1>6, <1>7, <1>8, <1>9 DEF PoolInv

\* Every step preserves the invariant.
LEMMA NextPoolInv == PoolInv /\ [Next]_vars => PoolInv'
<1> SUFFICES ASSUME PoolInv, [Next]_vars
             PROVE  PoolInv'
  OBVIOUS
<1> USE DEF PoolInv, NoneBeforeInit, QueuedHaveTimes, RunsOnce, NoStrandedTask, StopReachesAll, Waiters
<1>t. TypeOK
  OBVIOUS
<1>1. ASSUME NEW w \in Workers, WorkerStep(w)
      PROVE  PoolInv'
  <2>1. CASE Finish(w)
    <3>1. TypeOK'
      BY <2>1 DEF Finish, TypeOK, WorkerState
    <3> QED
      BY <2>1, <3>1, TaskQueueAssumption DEF Finish, TypeOK, TaskQueueAssumption
  <2>2. CASE ~Finish(w)
    BY <1>1, <2>2, WorkersMove, MovesIInv DEF WorkerStep
  <2> QED
    BY <2>1, <2>2
<1>2. ASSUME NEW w \in Workers, SpuriousWakeup(w)
      PROVE  PoolInv'
  BY <1>2 DEF SpuriousWakeup, TypeOK
<1>3. CASE InitWorkers
  BY <1>3, TaskQueueAssumption DEF InitWorkers, TypeOK, WorkerState, TaskQueueAssumption
<1>4. CASE StopWorkers
  BY <1>4 DEF StopWorkers, TypeOK, StopperState
<1>5. CASE StopNotifies
  BY <1>5 DEF StopNotifies, NotifyAll, TypeOK, StopperState
<1>6. CASE StopReturns
  BY <1>6 DEF StopReturns, TypeOK, StopperState
<1>7. CASE Tick
  BY <1>7, TaskQueueAssumption DEF Tick, TypeOK, TaskQueueAssumption
<1>8. CASE UNCHANGED vars
  BY <1>8 DEF vars, TypeOK
<1> QED
  BY <1>1, <1>2, <1>3, <1>4, <1>5, <1>6, <1>7, <1>8, RunTaskIInv DEF Next, Exited

\* The invariant holds in every behaviour.
THEOREM PoolInvariance == Spec => []PoolInv
  BY InitPoolInv, NextPoolInv, PTL DEF Spec

\* The globals of task.cpp and each worker keep their types.
THEOREM PoolTypeCorrect == Spec => []TypeOK
<1>1. PoolInv => TypeOK
  BY DEF PoolInv
<1> QED
  BY <1>1, PoolInvariance, PTL

\* A task is popped by one worker only, and is not in the queue while its
\* function runs without the mutex (task.cpp 69-76).
THEOREM RunByOne == Spec => []RunsOnce
<1>1. PoolInv => RunsOnce
  BY DEF PoolInv
<1> QED
  BY <1>1, PoolInvariance, PTL

\* notify_one() on each push is enough: a queued task is never left with
\* every worker in an unsignalled wait() (task.cpp 56-67, 129).
THEOREM NoneStranded == Spec => []NoStrandedTask
<1>1. PoolInv => NoStrandedTask
  BY DEF PoolInv
<1> QED
  BY <1>1, PoolInvariance, PTL

\* The unlocked gap in stop_workers() leaves no worker asleep in either wait
\* (task.cpp 84-95): what remains for them to end is to be scheduled.
THEOREM StopWakesAll == Spec => []StopReachesAll
<1>1. PoolInv => StopReachesAll
  BY DEF PoolInv
<1> QED
  BY <1>1, PoolInvariance, PTL

\* No task starts once workers_run is cleared, and one that starts before its
\* time is started by a worker whose own deadline has passed (task.cpp 55-76).
THEOREM InTurn == Spec => StartsInTurn
<1> DEFINE Started(w) == current'[w] \notin {NoTask, current[w]}
           Turn(w) ==
               /\ workers_run
               /\ time[current'[w]] > now => wstate[w] = "timed" /\ deadline[w] <= now
<1>1. PoolInv /\ [Next]_vars => [\A w \in Workers : Started(w) => Turn(w)]_vars
  <2> SUFFICES ASSUME PoolInv, Next, NEW w \in Workers, Started(w)
               PROVE  Turn(w)
    OBVIOUS
  <2>t. TypeOK
    BY DEF PoolInv
  <2>1. WorkerStep(w) /\ ~Finish(w)
    <3>1. ASSUME NEW v \in Workers, WorkerStep(v)
          PROVE  v = w /\ ~Finish(v)
      <4>1. CASE Finish(v)
        BY <4>1, <2>t DEF Finish, TypeOK
      <4>2. CASE ~Finish(v)
        <5>1. Moves(v)
          BY <3>1, <4>2, WorkersMove DEF WorkerStep
        <5> QED
          BY <5>1, <4>2, <2>t DEF Moves, Exit, Wait, StartTop, TypeOK
      <4> QED
        BY <4>1, <4>2
    <3>2. UNCHANGED current => FALSE
      OBVIOUS
    <3> QED
      BY <3>1, <3>2 DEF Next, SpuriousWakeup, InitWorkers, RunTask, StopWorkers,
                        StopNotifies, StopReturns, Tick, Exited, vars
  <2>2. \A t \in Tops : time[t] \in Int
    BY <2>t DEF Tops, TypeOK, Unset
  <2>3. \A t, u \in Tops : time[t] = time[u]
    BY <2>2 DEF Tops
  <2>4. now \in Int /\ deadline[w] \in Int
    BY <2>t DEF TypeOK
  <2>5. ~(Exit(w) \/ Wait(w) \/ \E t \in Tops : WaitUntil(w, t))
    BY DEF Exit, Wait, WaitUntil
  <2>6. StartTop(w) => current'[w] \in Tops
    BY <2>t DEF StartTop, TypeOK
  <2>7. LoopHead(w) => workers_run /\ time[current'[w]] < now
    BY <2>2, <2>3, <2>4, <2>5, <2>6 DEF LoopHead
  <2>8. CASE Enter(w) \/ WaitReturns(w)
    <3>1. LoopHead(w)
      BY <2>8 DEF Enter, WaitReturns
    <3>2. StartTop(w)
      BY <3>1, <2>5 DEF LoopHead
    <3>3. time[current'[w]] \in Int
      BY <3>2, <2>2, <2>6
    <3> QED
      BY <3>1, <3>3, <2>4, <2>7
  <2>9. CASE WaitForReturns(w)
    <3>1. TimedWaitOver(w) /\ AfterTimedWait(w) /\ wstate[w] = "timed"
      BY <2>9 DEF WaitForReturns
    <3>2. workers_run /\ StartTop(w)
      BY <3>1, <2>5 DEF AfterTimedWait
    <3>3. now >= deadline[w] \/ time[current'[w]] < now
      BY <3>1, <3>2, <2>3, <2>6 DEF TimedWaitOver, TopIsDue
    <3>4. time[current'[w]] \in Int
      BY <3>2, <2>2, <2>6
    <3> QED
      BY <3>1, <3>2, <3>3, <3>4, <2>4
  <2> QED
    BY <2>1, <2>8, <2>9 DEF WorkerStep
<1> QED
  BY <1>1, PoolInvariance, PTL DEF Spec, StartsInTurn

(***************************************************************************)
(* The command queue, for any commands and any supply of threads: at most  *)
(* one child at a time, nothing lost or overtaken, and the queue is an     *)
(* in-order runner.                                                        *)
(***************************************************************************)

\* Any two live threads are one.
OneThread ==
    \A r, s \in Threads : thread[r] # "none" /\ thread[s] # "none" => r = s

\* A thread holds a job exactly between taking it and being done with it.
HoldsWhenBusy ==
    \A r \in Threads : job[r] # NoJob <=> thread[r] \in {"spawn", "wait"}

\* Every child is waited for.
ChildIsAwaited ==
    \A j \in children : \E r \in Threads : thread[r] = "wait" /\ job[r] = j

\* What is inductive.  OneChild alone is not: it needs that the only thread
\* waits for every child, and that running tells run() of that thread.
QueueInv ==
    /\ QueueTypeOK
    /\ OneThread
    /\ RunningIsTrue
    /\ HoldsWhenBusy
    /\ ChildIsAwaited
    /\ NothingLost

-----------------------------------------------------------------------------

\* Moving the head of t to the end of s does not change their concatenation.
LEMMA MoveHead ==
    ASSUME NEW S, NEW s \in Seq(S), NEW t \in Seq(S), t # <<>>
    PROVE  Append(s, Head(t)) \o Tail(t) = s \o t
<1>1. /\ Head(t) \in S
      /\ Tail(t) \in Seq(S)
      /\ Len(Tail(t)) = Len(t) - 1
      /\ \A i \in 1 .. Len(Tail(t)) : Tail(t)[i] = t[i + 1]
  BY HeadTailProperties
<1>2. /\ Append(s, Head(t)) \in Seq(S)
      /\ Len(Append(s, Head(t))) = Len(s) + 1
      /\ \A i \in 1 .. Len(s) : Append(s, Head(t))[i] = s[i]
      /\ Append(s, Head(t))[Len(s) + 1] = t[1]
  BY <1>1
<1>3. Len(s) \in Nat /\ Len(t) \in Nat
  BY LenProperties
<1>4. /\ Append(s, Head(t)) \o Tail(t) \in Seq(S)
      /\ Len(Append(s, Head(t)) \o Tail(t)) = Len(s) + Len(t)
      /\ \A i \in 1 .. Len(s) + Len(t) : (Append(s, Head(t)) \o Tail(t))[i] =
            IF i <= Len(s) + 1 THEN Append(s, Head(t))[i] ELSE Tail(t)[i - (Len(s) + 1)]
  BY <1>1, <1>2, <1>3, ConcatProperties
<1>5. /\ s \o t \in Seq(S)
      /\ Len(s \o t) = Len(s) + Len(t)
      /\ \A i \in 1 .. Len(s) + Len(t) : (s \o t)[i] =
            IF i <= Len(s) THEN s[i] ELSE t[i - Len(s)]
  BY ConcatProperties
<1>6. \A i \in 1 .. Len(s) + Len(t) :
          (Append(s, Head(t)) \o Tail(t))[i] = (s \o t)[i]
  <2> SUFFICES ASSUME NEW i \in 1 .. Len(s) + Len(t)
               PROVE  (Append(s, Head(t)) \o Tail(t))[i] = (s \o t)[i]
    OBVIOUS
  <2>1. CASE i <= Len(s)
    BY <2>1, <1>2, <1>3, <1>4, <1>5
  <2>2. CASE i = Len(s) + 1
    BY <2>2, <1>2, <1>3, <1>4, <1>5
  <2>3. CASE i > Len(s) + 1
    <3>1. i - (Len(s) + 1) \in 1 .. Len(Tail(t))
      BY <2>3, <1>1, <1>3
    <3>2. Tail(t)[i - (Len(s) + 1)] = t[i - Len(s)]
      BY <3>1, <1>1, <1>3
    <3> QED
      BY <3>2, <2>3, <1>3, <1>4, <1>5
  <2> QED
    BY <2>1, <2>2, <2>3, <1>3
<1> QED
  BY <1>4, <1>5, <1>6, SeqEqual

\* Appending to the second of two sequences appends to their concatenation.
LEMMA AppendRight ==
    ASSUME NEW S, NEW s \in Seq(S), NEW t \in Seq(S), NEW e \in S
    PROVE  s \o Append(t, e) = Append(s \o t, e)
  OBVIOUS

-----------------------------------------------------------------------------
\* The initial state satisfies the invariant.
LEMMA InitQueueInv == QueueInit => QueueInv
<1> SUFFICES ASSUME QueueInit
             PROVE  QueueInv
  OBVIOUS
<1>1. QueueTypeOK
  <2>1. <<>> \in Seq(Jobs)
    BY EmptySeq
  <2>2. /\ [r \in Threads |-> "none"] \in [Threads -> ThreadState]
        /\ [r \in Threads |-> NoJob] \in [Threads -> Jobs \cup {NoJob}]
    BY DEF ThreadState
  <2> QED
    BY <2>1, <2>2, Zenon DEF QueueInit, QueueTypeOK
<1>2. <<>> \o <<>> = <<>>
  BY ConcatEmptySeq, <<>> \in Seq(Jobs)
<1>3. NothingLost
  BY <1>2 DEF QueueInit, NothingLost
<1>4. OneThread /\ RunningIsTrue /\ HoldsWhenBusy /\ ChildIsAwaited
  BY DEF QueueInit, OneThread, RunningIsTrue, HoldsWhenBusy, ChildIsAwaited
<1> QED
  BY <1>1, <1>3, <1>4 DEF QueueInv

\* run() preserves it.
LEMMA RunIInv ==
    ASSUME QueueInv, NEW j \in Jobs, Run(j)
    PROVE  QueueInv'
<1> USE CommandQueueAssumption
<1>1. CASE j \in Empty
  BY <1>1 DEF QueueInv, QueueTypeOK, OneThread, RunningIsTrue, HoldsWhenBusy,
              ChildIsAwaited, NothingLost, Run
<1>2. CASE j \notin Empty
  <2>1. /\ jobs' = Append(jobs, j)
        /\ accepted' = Append(accepted, j)
        /\ given' = given \cup {j}
        /\ UNCHANGED <<job, children, device, taken>>
        /\ Ensure
    BY <1>2 DEF Run, Accept
  <2>2. NothingLost'
    <3>1. taken \o Append(jobs, j) = Append(taken \o jobs, j)
      BY AppendRight DEF QueueInv, QueueTypeOK
    <3> QED
      BY <2>1, <3>1 DEF QueueInv, NothingLost
  <2>3. CASE UNCHANGED <<running, thread>>
    BY <2>1, <2>2, <2>3 DEF QueueInv, QueueTypeOK, OneThread, RunningIsTrue,
                            HoldsWhenBusy, ChildIsAwaited
  <2>4. CASE ~running /\ CreateThread
    <3>1. PICK r \in Threads : /\ thread[r] = "none"
                               /\ thread' = [thread EXCEPT ![r] = "pop"]
                               /\ running' = TRUE
      BY <2>4 DEF CreateThread
    <3>2. \A s \in Threads : thread[s] = "none"
      BY <2>4 DEF QueueInv, RunningIsTrue
    <3>3. QueueTypeOK'
      BY <2>1, <3>1 DEF QueueInv, QueueTypeOK, ThreadState
    <3>4. OneThread' /\ RunningIsTrue'
      BY <3>1, <3>2 DEF QueueInv, QueueTypeOK, OneThread, RunningIsTrue
    <3>5. HoldsWhenBusy' /\ ChildIsAwaited'
      BY <2>1, <3>1 DEF QueueInv, QueueTypeOK, HoldsWhenBusy, ChildIsAwaited
    <3> QED
      BY <2>2, <3>3, <3>4, <3>5 DEF QueueInv
  <2> QED
    BY <2>1, <2>3, <2>4 DEF Ensure
<1> QED
  BY <1>1, <1>2

\* Every step of a thread preserves it.
LEMMA ThreadIInv ==
    ASSUME QueueInv, NEW r \in Threads, ThreadStep(r)
    PROVE  QueueInv'
<1> USE CommandQueueAssumption
<1>1. CASE Pop(r)
  <2>1. /\ Head(jobs) \in Jobs
        /\ Tail(jobs) \in Seq(Jobs)
    BY <1>1, HeadTailProperties DEF QueueInv, QueueTypeOK, Pop
  <2>2. QueueTypeOK'
    BY <1>1, <2>1 DEF QueueInv, QueueTypeOK, ThreadState, Pop, PopFront
  <2>3. NothingLost'
    BY <1>1, MoveHead DEF QueueInv, QueueTypeOK, NothingLost, Pop, PopFront
  <2>4. OneThread' /\ RunningIsTrue'
    BY <1>1 DEF QueueInv, QueueTypeOK, OneThread, RunningIsTrue, Pop
  <2>5. HoldsWhenBusy'
    BY <1>1, <2>1 DEF QueueInv, QueueTypeOK, HoldsWhenBusy, Pop, PopFront
  <2>6. ChildIsAwaited'
    BY <1>1 DEF QueueInv, QueueTypeOK, ChildIsAwaited, Pop, PopFront
  <2> QED
    BY <2>2, <2>3, <2>4, <2>5, <2>6 DEF QueueInv
<1>2. CASE Return(r)
  <2>1. QueueTypeOK' /\ NothingLost'
    BY <1>2 DEF QueueInv, QueueTypeOK, ThreadState, NothingLost, Return, Retire
  <2>2. OneThread' /\ RunningIsTrue'
    BY <1>2 DEF QueueInv, QueueTypeOK, OneThread, RunningIsTrue, Return, Retire
  <2>3. HoldsWhenBusy' /\ ChildIsAwaited'
    BY <1>2 DEF QueueInv, QueueTypeOK, HoldsWhenBusy, ChildIsAwaited, Return, Retire
  <2> QED
    BY <2>1, <2>2, <2>3 DEF QueueInv
<1>3. CASE Spawn(r)
  <2>1. job[r] \in Jobs
    BY <1>3 DEF QueueInv, QueueTypeOK, HoldsWhenBusy, Spawn
  <2>2. QueueTypeOK' /\ NothingLost'
    BY <1>3, <2>1 DEF QueueInv, QueueTypeOK, ThreadState, NothingLost, Spawn
  <2>3. OneThread' /\ RunningIsTrue' /\ HoldsWhenBusy'
    BY <1>3 DEF QueueInv, QueueTypeOK, OneThread, RunningIsTrue, HoldsWhenBusy, Spawn
  <2>4. ChildIsAwaited'
    BY <1>3 DEF QueueInv, QueueTypeOK, ChildIsAwaited, Spawn
  <2> QED
    BY <2>2, <2>3, <2>4 DEF QueueInv
<1>4. CASE SpawnFails(r)
  <2>1. QueueTypeOK' /\ NothingLost'
    BY <1>4 DEF QueueInv, QueueTypeOK, ThreadState, NothingLost, SpawnFails
  <2>2. OneThread' /\ RunningIsTrue' /\ HoldsWhenBusy' /\ ChildIsAwaited'
    BY <1>4 DEF QueueInv, QueueTypeOK, OneThread, RunningIsTrue, HoldsWhenBusy,
                ChildIsAwaited, SpawnFails
  <2> QED
    BY <2>1, <2>2 DEF QueueInv
<1>5. CASE WaitPid(r)
  <2>1. QueueTypeOK' /\ NothingLost'
    BY <1>5 DEF QueueInv, QueueTypeOK, ThreadState, NothingLost, WaitPid
  <2>2. OneThread' /\ RunningIsTrue' /\ HoldsWhenBusy'
    BY <1>5 DEF QueueInv, QueueTypeOK, OneThread, RunningIsTrue, HoldsWhenBusy, WaitPid
  <2>3. ChildIsAwaited'
    BY <1>5 DEF QueueInv, QueueTypeOK, ChildIsAwaited, WaitPid, Reaped
  <2> QED
    BY <2>1, <2>2, <2>3 DEF QueueInv
<1> QED
  BY <1>1, <1>2, <1>3, <1>4, <1>5 DEF ThreadStep

\* So does every step.
LEMMA NextQueueInv == QueueInv /\ [QueueNext]_queueVars => QueueInv'
<1> SUFFICES ASSUME QueueInv, [QueueNext]_queueVars
             PROVE  QueueInv'
  OBVIOUS
<1>1. ASSUME NEW j \in Jobs, ChildEnds(j)
      PROVE  QueueInv'
  BY <1>1 DEF QueueInv, QueueTypeOK, OneThread, RunningIsTrue, HoldsWhenBusy,
              ChildIsAwaited, NothingLost, ChildEnds
<1>2. CASE DestroyDevice
  BY <1>2 DEF QueueInv, QueueTypeOK, OneThread, RunningIsTrue, HoldsWhenBusy,
              ChildIsAwaited, NothingLost, DestroyDevice
<1>3. CASE UNCHANGED queueVars
  BY <1>3 DEF QueueInv, QueueTypeOK, OneThread, RunningIsTrue, HoldsWhenBusy,
              ChildIsAwaited, NothingLost, queueVars
<1> QED
  BY <1>1, <1>2, <1>3, RunIInv, ThreadIInv DEF QueueNext

\* The invariant holds of every reachable state.
THEOREM QueueInvariance == QueueSpec => []QueueInv
  BY InitQueueInv, NextQueueInv, PTL DEF QueueSpec

\* All variables keep their types, for any sets of commands and threads
\* (the State of CommandQueue.cpp 14-22).
THEOREM QueueTypeCorrect == QueueSpec => []QueueTypeOK
<1>1. QueueInv => QueueTypeOK
  BY DEF QueueInv
<1> QED
  BY <1>1, QueueInvariance, PTL

\* At most one child process of the queue is alive, for any number of
\* commands and threads (CommandQueue.cpp 30-33, 39-58).
THEOREM AtMostOneChild == QueueSpec => []OneChild
<1>1. QueueInv => OneChild
  BY DEF QueueInv, OneThread, ChildIsAwaited, OneChild
<1> QED
  BY <1>1, QueueInvariance, PTL

\* No accepted command is lost, repeated or overtaken (CommandQueue.cpp
\* 29, 44-45).
THEOREM FirstInFirstOut == QueueSpec => []NothingLost
<1>1. QueueInv => NothingLost
  BY DEF QueueInv
<1> QED
  BY <1>1, QueueInvariance, PTL

-----------------------------------------------------------------------------

\* While some thread holds a job, that job is the abstract active command.
LEMMA HeldOfBusy ==
    ASSUME QueueInv, NEW r \in Threads, job[r] # NoJob
    PROVE  Held = {job[r]}
  BY DEF QueueInv, OneThread, HoldsWhenBusy, Held

\* When a live thread holds none, there is no active command.
LEMMA HeldOfFree ==
    ASSUME QueueInv, NEW r \in Threads, thread[r] # "none", job[r] = NoJob
    PROVE  Held = {}
  BY DEF QueueInv, OneThread, HoldsWhenBusy, Held

\* Every step of the queue is a step of the ordered runner, or none.
LEMMA StepRefines ==
    ASSUME QueueInv, QueueInv', [QueueNext]_queueVars
    PROVE  [Abstract!Next]_<<jobs, Held>>
<1> USE CommandQueueAssumption
<1>1. ASSUME NEW j \in Jobs, Run(j)
      PROVE  [Abstract!Next]_<<jobs, Held>>
  <2>1. Held' = Held
    BY <1>1 DEF Run, Held
  <2>2. CASE j \in Empty
    BY <1>1, <2>1, <2>2 DEF Run
  <2>3. CASE j \notin Empty
    <3>1. Abstract!Submit(j)
      BY <1>1, <2>1, <2>3 DEF Run, Accept, Abstract!Submit
    <3> QED
      BY <3>1 DEF Abstract!Next
  <2> QED
    BY <2>2, <2>3
<1>2. ASSUME NEW r \in Threads, Pop(r)
      PROVE  [Abstract!Next]_<<jobs, Held>>
  <2>1. Head(jobs) \in Jobs
    BY <1>2, HeadTailProperties DEF QueueInv, QueueTypeOK, Pop
  <2>2. job[r] = NoJob /\ job'[r] = Head(jobs) /\ job'[r] # NoJob
    BY <1>2, <2>1 DEF QueueInv, QueueTypeOK, HoldsWhenBusy, Pop, PopFront
  <2>3. Held = {}
    BY <1>2, <2>2, HeldOfFree DEF Pop
  <2>4. Held' = {Head(jobs)}
    BY <2>2 DEF QueueInv, OneThread, HoldsWhenBusy, Held
  <2>5. Abstract!Begin
    BY <1>2, <2>3, <2>4 DEF Pop, PopFront, Abstract!Begin
  <2> QED
    BY <2>5 DEF Abstract!Next
<1>3. ASSUME NEW r \in Threads, SpawnFails(r) \/ WaitPid(r)
      PROVE  [Abstract!Next]_<<jobs, Held>>
  <2>1. job[r] # NoJob
    BY <1>3 DEF QueueInv, HoldsWhenBusy, SpawnFails, WaitPid
  <2>2. Held = {job[r]}
    BY <2>1, HeldOfBusy
  <2>3. thread'[r] = "pop" /\ UNCHANGED jobs
    BY <1>3 DEF QueueInv, QueueTypeOK, SpawnFails, WaitPid
  <2>4. Held' = {}
    BY <2>3 DEF QueueInv, OneThread, HoldsWhenBusy, Held
  <2>5. Abstract!End
    BY <2>2, <2>3, <2>4 DEF Abstract!End
  <2> QED
    BY <2>5 DEF Abstract!Next
<1>4. ASSUME UNCHANGED <<jobs, job>>
      PROVE  [Abstract!Next]_<<jobs, Held>>
  BY <1>4 DEF Held
<1>5. ASSUME NEW r \in Threads, Return(r) \/ Spawn(r)
      PROVE  UNCHANGED <<jobs, job>>
  BY <1>5 DEF Return, Spawn
<1>6. ASSUME (\E j \in Jobs : ChildEnds(j)) \/ DestroyDevice \/ UNCHANGED queueVars
      PROVE  UNCHANGED <<jobs, job>>
  BY <1>6 DEF ChildEnds, DestroyDevice, queueVars
<1> QED
  BY <1>1, <1>2, <1>3, <1>4, <1>5, <1>6 DEF QueueNext, ThreadStep

\* The queue runs its commands in order and one at a time, whatever commands
\* it is given and however its threads are scheduled.
THEOREM Implements == QueueSpec => Ordered
<1>1. QueueInit => Abstract!Init
  BY DEF QueueInit, Abstract!Init, Held
<1>2. QueueInv /\ QueueInv' /\ [QueueNext]_queueVars => [Abstract!Next]_<<jobs, Held>>
  BY StepRefines
<1> QED
  BY <1>1, <1>2, QueueInvariance, PTL DEF QueueSpec, Ordered, Abstract!Spec

(***************************************************************************)
(* The I/O monitor, for any clients and descriptors and any number of      *)
(* calls: the descriptors are never changed while the I/O thread looks at  *)
(* them, and it never sleeps on a thread that waits for it.                *)
(***************************************************************************)

\* Who holds _run_mutex.  Only a handler calls _yield() on the I/O thread.
RunOwned ==
    /\ Polling => run = IO
    /\ \A k \in MonitorThreads : ystate[k] = "own" => run = k
    /\ ystate[IO] # "idle" => listener = "handler"

\* Who holds _yield_mutex.
YieldOwned ==
    /\ \A k \in MonitorThreads : ystate[k] \in {"try", "write", "block"} => yield = k
    /\ listener = "redrained" => yield = IO

\* The eventfd stays readable while somebody waits: who drains it holds
\* _yield_mutex, and so does who waits.
WaitIsCovered == \A k \in MonitorThreads : ystate[k] = "block" => eventfd

\* What is inductive: exclusion of _fds needs to know who holds _run_mutex,
\* the wakeup needs to know who holds _yield_mutex.
MonitorInv == MonitorTypeOK /\ RunOwned /\ YieldOwned /\ WaitIsCovered

-----------------------------------------------------------------------------

\* The I/O thread and the one that stops it are two.
LEMMA ThreadsDiffer ==
    /\ IO \in MonitorThreads
    /\ Stopper \in MonitorThreads
    /\ IO # Stopper
    /\ Nobody \notin MonitorThreads
  BY IOMonitorAssumption DEF MonitorThreads

\* The invariant holds at the start.
LEMMA InitMonitorInv == MonitorInit => MonitorInv
<1> SUFFICES ASSUME MonitorInit PROVE MonitorInv
  OBVIOUS
<1>1. MonitorTypeOK
  <2>1. ystate \in [MonitorThreads -> {"idle", "yield", "try", "write", "block", "own",
                                "join"}]
    BY DEF MonitorInit
  <2>2. op \in [MonitorThreads -> Ops \cup {NoOp}]
    BY DEF MonitorInit
  <2>3. ops \in 0..MaxOps
    BY IOMonitorAssumption DEF MonitorInit
  <2> QED
    BY <2>1, <2>2, <2>3 DEF MonitorInit, MonitorTypeOK
<1>2. RunOwned /\ YieldOwned /\ WaitIsCovered
  BY ThreadsDiffer DEF MonitorInit, RunOwned, YieldOwned, WaitIsCovered, Polling
<1> QED
  BY <1>1, <1>2 DEF MonitorInv

\* Every step keeps the types.
LEMMA TypeStep ==
    ASSUME MonitorTypeOK, [MonitorNext]_monitorVars
    PROVE  MonitorTypeOK'
<1> USE IOMonitorAssumption DEF MonitorTypeOK, MonitorThreads
<1>1. CASE Start
  <2>1. lateStart' \in BOOLEAN
    BY <1>1 DEF Start, Stopping
  <2> QED
    BY <1>1, <2>1 DEF Start, clientVars
<1>2. CASE Check
  BY <1>2 DEF Check, clientVars
<1>3. CASE EpollWait
  BY <1>3 DEF EpollWait, Ready, clientVars
<1>4. CASE EndBatch
  BY <1>4 DEF EndBatch, clientVars
<1>5. CASE SeeEventFd
  BY <1>5 DEF SeeEventFd, clientVars
<1>6. CASE Drain
  BY <1>6 DEF Drain, DrainGuard, clientVars
<1>7. CASE Redrained
  BY <1>7 DEF Redrained, clientVars
<1>8. CASE Relock
  BY <1>8 DEF Relock, clientVars
<1>9. CASE HandlerReturns
  BY <1>9 DEF HandlerReturns, clientVars
<1>10. ASSUME NEW fd \in Fds, SeeFd(fd) PROVE MonitorTypeOK'
  BY <1>10 DEF SeeFd, clientVars
<1>11. ASSUME NEW fd \in Fds, DataArrives(fd) PROVE MonitorTypeOK'
  BY <1>11 DEF DataArrives, clientVars, listenerVars
<1>12. ASSUME NEW k \in MonitorThreads, NEW o \in Ops, Call(k, o) PROVE MonitorTypeOK'
  BY <1>12 DEF Call, MoveTo, listenerVars
<1>13. CASE Stop
  BY <1>13 DEF Stop, MoveTo, listenerVars
<1>14. ASSUME NEW k \in MonitorThreads, TakeYield(k) PROVE MonitorTypeOK'
  BY <1>14 DEF TakeYield, MoveTo, listenerVars
<1>15. ASSUME NEW k \in MonitorThreads, TryRun(k) PROVE MonitorTypeOK'
  BY <1>15 DEF TryRun, Acquire, MoveTo, listenerVars
<1>16. ASSUME NEW k \in MonitorThreads, WriteEventFd(k) PROVE MonitorTypeOK'
  BY <1>16 DEF WriteEventFd, MoveTo, listenerVars
<1>17. ASSUME NEW k \in MonitorThreads, BlockOnRun(k) PROVE MonitorTypeOK'
  BY <1>17 DEF BlockOnRun, Acquire, MoveTo, listenerVars
<1>18. ASSUME NEW k \in MonitorThreads, FinishCall(k) PROVE MonitorTypeOK'
  <2>1. fds' \subseteq Fds
    BY <1>18 DEF FinishCall, Update, Ops, NoOp
  <2>2. NoOp \in Ops \cup {NoOp}
    OBVIOUS
  <2> QED
    BY <1>18, <2>1, <2>2 DEF FinishCall, MoveTo, listenerVars
<1>19. CASE UNCHANGED monitorVars
  BY <1>19 DEF monitorVars
<1> QED
  BY <1>1, <1>2, <1>3, <1>4, <1>5, <1>6, <1>7, <1>8, <1>9, <1>10, <1>11,
     <1>12, <1>13, <1>14, <1>15, <1>16, <1>17, <1>18, <1>19
     DEF MonitorNext, ListenerStep, YieldStep, Joined

\* The owner of _run_mutex is who the state of the threads says.
LEMMA RunStep ==
    ASSUME MonitorTypeOK, RunOwned, [MonitorNext]_monitorVars
    PROVE  RunOwned'
<1> USE ThreadsDiffer DEF MonitorTypeOK, RunOwned, Polling
<1>1. CASE Start
  BY <1>1 DEF Start, clientVars
<1>2. CASE Check
  BY <1>2 DEF Check, clientVars
<1>3. CASE EpollWait
  BY <1>3 DEF EpollWait, clientVars
<1>4. CASE EndBatch
  BY <1>4 DEF EndBatch, clientVars
<1>5. CASE SeeEventFd
  BY <1>5 DEF SeeEventFd, clientVars
<1>6. CASE Drain
  BY <1>6 DEF Drain, DrainGuard, clientVars
<1>7. CASE Redrained
  BY <1>7 DEF Redrained, clientVars
<1>8. CASE Relock
  BY <1>8 DEF Relock, clientVars
<1>9. CASE HandlerReturns
  BY <1>9 DEF HandlerReturns, clientVars
<1>10. ASSUME NEW fd \in Fds, SeeFd(fd)
      PROVE  RunOwned'
  BY <1>10 DEF SeeFd, clientVars
<1>11. ASSUME NEW fd \in Fds, DataArrives(fd)
      PROVE  RunOwned'
  BY <1>11 DEF DataArrives, clientVars, listenerVars
<1>12. ASSUME NEW k \in MonitorThreads, NEW o \in Ops, Call(k, o)
      PROVE  RunOwned'
  BY <1>12, IOMonitorAssumption DEF Call, MoveTo, listenerVars
<1>13. CASE Stop
  BY <1>13 DEF Stop, MoveTo, listenerVars
<1>14. ASSUME NEW k \in MonitorThreads, TakeYield(k)
      PROVE  RunOwned'
  BY <1>14 DEF TakeYield, MoveTo, listenerVars
<1>15. ASSUME NEW k \in MonitorThreads, TryRun(k)
      PROVE  RunOwned'
  BY <1>15 DEF TryRun, Acquire, MoveTo, listenerVars
<1>16. ASSUME NEW k \in MonitorThreads, WriteEventFd(k)
      PROVE  RunOwned'
  BY <1>16 DEF WriteEventFd, MoveTo, listenerVars
<1>17. ASSUME NEW k \in MonitorThreads, BlockOnRun(k)
      PROVE  RunOwned'
  BY <1>17 DEF BlockOnRun, Acquire, MoveTo, listenerVars
<1>18. ASSUME NEW k \in MonitorThreads, FinishCall(k)
      PROVE  RunOwned'
  BY <1>18 DEF FinishCall, MoveTo, listenerVars
<1>19. CASE UNCHANGED monitorVars
  BY <1>19 DEF monitorVars
<1> QED
  BY <1>1, <1>2, <1>3, <1>4, <1>5, <1>6, <1>7, <1>8, <1>9, <1>10, <1>11,
     <1>12, <1>13, <1>14, <1>15, <1>16, <1>17, <1>18, <1>19
     DEF MonitorNext, ListenerStep, YieldStep, Joined

\* ... and so is the owner of _yield_mutex.
LEMMA YieldOwnerStep ==
    ASSUME MonitorTypeOK, RunOwned, YieldOwned, [MonitorNext]_monitorVars
    PROVE  YieldOwned'
<1> USE ThreadsDiffer DEF MonitorTypeOK, RunOwned, YieldOwned
<1>1. CASE Start
  BY <1>1 DEF Start, clientVars
<1>2. CASE Check
  BY <1>2 DEF Check, clientVars
<1>3. CASE EpollWait
  BY <1>3 DEF EpollWait, clientVars
<1>4. CASE EndBatch
  BY <1>4 DEF EndBatch, clientVars
<1>5. CASE SeeEventFd
  BY <1>5 DEF SeeEventFd, clientVars
<1>6. CASE Drain
  BY <1>6 DEF Drain, DrainGuard, clientVars
<1>7. CASE Redrained
  BY <1>7 DEF Redrained, clientVars
<1>8. CASE Relock
  BY <1>8 DEF Relock, clientVars
<1>9. CASE HandlerReturns
  BY <1>9 DEF HandlerReturns, clientVars
<1>10. ASSUME NEW fd \in Fds, SeeFd(fd)
      PROVE  YieldOwned'
  BY <1>10 DEF SeeFd, clientVars
<1>11. ASSUME NEW fd \in Fds, DataArrives(fd)
      PROVE  YieldOwned'
  BY <1>11 DEF DataArrives, clientVars, listenerVars
<1>12. ASSUME NEW k \in MonitorThreads, NEW o \in Ops, Call(k, o)
      PROVE  YieldOwned'
  BY <1>12 DEF Call, MoveTo, listenerVars
<1>13. CASE Stop
  BY <1>13 DEF Stop, MoveTo, listenerVars
<1>14. ASSUME NEW k \in MonitorThreads, TakeYield(k)
      PROVE  YieldOwned'
  BY <1>14 DEF TakeYield, MoveTo, listenerVars
<1>15. ASSUME NEW k \in MonitorThreads, TryRun(k)
      PROVE  YieldOwned'
  BY <1>15 DEF TryRun, Acquire, MoveTo, listenerVars
<1>16. ASSUME NEW k \in MonitorThreads, WriteEventFd(k)
      PROVE  YieldOwned'
  BY <1>16 DEF WriteEventFd, MoveTo, listenerVars
<1>17. ASSUME NEW k \in MonitorThreads, BlockOnRun(k)
      PROVE  YieldOwned'
  BY <1>17 DEF BlockOnRun, Acquire, MoveTo, listenerVars
<1>18. ASSUME NEW k \in MonitorThreads, FinishCall(k)
      PROVE  YieldOwned'
  BY <1>18 DEF FinishCall, MoveTo, listenerVars
<1>19. CASE UNCHANGED monitorVars
  BY <1>19 DEF monitorVars
<1> QED
  BY <1>1, <1>2, <1>3, <1>4, <1>5, <1>6, <1>7, <1>8, <1>9, <1>10, <1>11,
     <1>12, <1>13, <1>14, <1>15, <1>16, <1>17, <1>18, <1>19
     DEF MonitorNext, ListenerStep, YieldStep, Joined

\* Only Drain clears the eventfd, and then nobody waits.
LEMMA CoverStep ==
    ASSUME MonitorTypeOK, YieldOwned, WaitIsCovered, [MonitorNext]_monitorVars
    PROVE  WaitIsCovered'
<1> USE ThreadsDiffer DEF MonitorTypeOK, YieldOwned, WaitIsCovered
<1>1. CASE Start
  BY <1>1 DEF Start, clientVars
<1>2. CASE Check
  BY <1>2 DEF Check, clientVars
<1>3. CASE EpollWait
  BY <1>3 DEF EpollWait, clientVars
<1>4. CASE EndBatch
  BY <1>4 DEF EndBatch, clientVars
<1>5. CASE SeeEventFd
  BY <1>5 DEF SeeEventFd, clientVars
<1>6. CASE Drain
  BY <1>6 DEF Drain, DrainGuard, clientVars
<1>7. CASE Redrained
  BY <1>7 DEF Redrained, clientVars
<1>8. CASE Relock
  BY <1>8 DEF Relock, clientVars
<1>9. CASE HandlerReturns
  BY <1>9 DEF HandlerReturns, clientVars
<1>10. ASSUME NEW fd \in Fds, SeeFd(fd)
      PROVE  WaitIsCovered'
  BY <1>10 DEF SeeFd, clientVars
<1>11. ASSUME NEW fd \in Fds, DataArrives(fd)
      PROVE  WaitIsCovered'
  BY <1>11 DEF DataArrives, clientVars, listenerVars
<1>12. ASSUME NEW k \in MonitorThreads, NEW o \in Ops, Call(k, o)
      PROVE  WaitIsCovered'
  BY <1>12 DEF Call, MoveTo, listenerVars
<1>13. CASE Stop
  BY <1>13 DEF Stop, MoveTo, listenerVars
<1>14. ASSUME NEW k \in MonitorThreads, TakeYield(k)
      PROVE  WaitIsCovered'
  BY <1>14 DEF TakeYield, MoveTo, listenerVars
<1>15. ASSUME NEW k \in MonitorThreads, TryRun(k)
      PROVE  WaitIsCovered'
  BY <1>15 DEF TryRun, Acquire, MoveTo, listenerVars
<1>16. ASSUME NEW k \in MonitorThreads, WriteEventFd(k)
      PROVE  WaitIsCovered'
  BY <1>16 DEF WriteEventFd, MoveTo, listenerVars
<1>17. ASSUME NEW k \in MonitorThreads, BlockOnRun(k)
      PROVE  WaitIsCovered'
  BY <1>17 DEF BlockOnRun, Acquire, MoveTo, listenerVars
<1>18. ASSUME NEW k \in MonitorThreads, FinishCall(k)
      PROVE  WaitIsCovered'
  BY <1>18 DEF FinishCall, MoveTo, listenerVars
<1>19. CASE UNCHANGED monitorVars
  BY <1>19 DEF monitorVars
<1> QED
  BY <1>1, <1>2, <1>3, <1>4, <1>5, <1>6, <1>7, <1>8, <1>9, <1>10, <1>11,
     <1>12, <1>13, <1>14, <1>15, <1>16, <1>17, <1>18, <1>19
     DEF MonitorNext, ListenerStep, YieldStep, Joined

\* Every step keeps the invariant.
LEMMA NextMonitorInv == MonitorInv /\ [MonitorNext]_monitorVars => MonitorInv'
  BY TypeStep, RunStep, YieldOwnerStep, CoverStep DEF MonitorInv

\* The strengthened invariant holds in every state.
THEOREM MonitorInvariance == MonitorSpec => []MonitorInv
  BY InitMonitorInv, NextMonitorInv, PTL DEF MonitorSpec

\* All variables keep their types, for any clients, descriptors and calls.
THEOREM MonitorTypeCorrect == MonitorSpec => []MonitorTypeOK
<1>1. MonitorInv => MonitorTypeOK
  BY DEF MonitorInv
<1> QED
  BY <1>1, MonitorInvariance, PTL

\* add() and remove() change _fds only while the I/O thread is away from it
\* and nobody else changes it, whatever handlers do (IOMonitor.cpp 86-105,
\* 134-167).
THEOREM DescriptorsAreExclusive == MonitorSpec => []FdsExclusive
<1>1. MonitorInv => FdsExclusive
  BY ThreadsDiffer DEF MonitorInv, MonitorTypeOK, RunOwned, Polling, FdsExclusive
<1> QED
  BY <1>1, MonitorInvariance, PTL

\* The I/O thread never sleeps in epoll_wait() on a thread that waits for it
\* with the wakeup already consumed (IOMonitor.cpp 94-101, 134-142).
THEOREM WakeupsAreKept == MonitorSpec => []NoMissedYield
<1>1. MonitorInv => NoMissedYield
  BY DEF MonitorInv, WaitIsCovered, NoMissedYield
<1> QED
  BY <1>1, MonitorInvariance, PTL
=============================================================================
