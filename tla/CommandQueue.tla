---------------------------- MODULE CommandQueue ----------------------------
(***************************************************************************)
(* The per-device command queue (src/src/logid/util/CommandQueue.cpp) that *)
(* runs connection hooks.  run() may be called by any thread; a detached   *)
(* thread per burst of commands pops them under the mutex, spawns each and *)
(* waits for it.  The state is shared by the Device and the thread, so     *)
(* dropping the Device does not disturb what was queued.                   *)
(***************************************************************************)
EXTENDS Naturals, Sequences, SequencesExt, FiniteSets

CONSTANTS
    Jobs,       \* commands given to run(), each once
    Empty,      \* those whose command is empty
    Threads,    \* identities for the detached threads
    NoJob

ASSUME CommandQueueAssumption ==
    /\ Empty \subseteq Jobs
    /\ NoJob \notin Jobs

VARIABLES
    jobs,       \* State::jobs
    running,    \* State::running
    thread,     \* where each detached thread is; "none" before and after
    job,        \* the job each thread holds
    children,   \* jobs whose child process is alive
    device,     \* the Device still exists and can call run()
    given,      \* the jobs run() has been called with
    accepted,   \* the jobs run() has queued, in order (history)
    taken       \* the jobs threads have popped, in order (history)

queueVars == <<jobs, running, thread, job, children, device, given, accepted, taken>>

ThreadState == {"none", "pop", "spawn", "wait"}

QueueTypeOK ==
    /\ jobs \in Seq(Jobs)
    /\ running \in BOOLEAN
    /\ thread \in [Threads -> ThreadState]
    /\ job \in [Threads -> Jobs \cup {NoJob}]
    /\ children \subseteq Jobs
    /\ device \in BOOLEAN
    /\ given \subseteq Jobs
    /\ accepted \in Seq(Jobs)
    /\ taken \in Seq(Jobs)

QueueInit ==
    /\ jobs = <<>>
    /\ running = FALSE
    /\ thread = [r \in Threads |-> "none"]
    /\ job = [r \in Threads |-> NoJob]
    /\ children = {}
    /\ device = TRUE
    /\ given = {}
    /\ accepted = <<>>
    /\ taken = <<>>

(***************************************************************************)
(* run().  The mutex is held to the end, thread creation included.         *)
(***************************************************************************)

Accept(j) ==
    /\ jobs' = Append(jobs, j)
    /\ accepted' = Append(accepted, j)

\* std::thread's constructor succeeds.
CreateThread ==
    \E r \in Threads :
        /\ thread[r] = "none"
        /\ thread' = [thread EXCEPT ![r] = "pop"]
        /\ running' = TRUE

\* Mutant of Ensure: run() always starts a thread.
EnsureAnother == CreateThread

\* A thread exists already, or one is created, or its creation throws: then
\* running is reset and the job stays queued for the next call.
Ensure ==
    \/ running /\ UNCHANGED <<running, thread>>
    \/ ~running /\ CreateThread
    \/ ~running /\ UNCHANGED <<running, thread>>

Run(j) ==
    /\ device
    /\ j \notin given
    /\ given' = given \cup {j}
    /\ IF j \in Empty
       THEN UNCHANGED <<jobs, accepted, running, thread>>
       ELSE Accept(j) /\ Ensure
    /\ UNCHANGED <<job, children, device, taken>>

DestroyDevice ==
    /\ device
    /\ device' = FALSE
    /\ UNCHANGED <<jobs, running, thread, job, children, given, accepted, taken>>

(***************************************************************************)
(* The detached thread.                                                    *)
(***************************************************************************)

\* Mutant of PopFront: the newest command is taken first.
NewestFirst(r) ==
    /\ jobs' = Front(jobs)
    /\ taken' = Append(taken, Last(jobs))
    /\ job' = [job EXCEPT ![r] = Last(jobs)]

PopFront(r) ==
    /\ jobs' = Tail(jobs)
    /\ taken' = Append(taken, Head(jobs))
    /\ job' = [job EXCEPT ![r] = Head(jobs)]

Pop(r) ==
    /\ thread[r] = "pop"
    /\ jobs # <<>>
    /\ PopFront(r)
    /\ thread' = [thread EXCEPT ![r] = "spawn"]
    /\ UNCHANGED <<running, children, device, given, accepted>>

\* Mutant of Retire: the thread ends without clearing running.
RetireSilently(r) ==
    /\ thread' = [thread EXCEPT ![r] = "none"]
    /\ UNCHANGED running

Retire(r) ==
    /\ running' = FALSE
    /\ thread' = [thread EXCEPT ![r] = "none"]

Return(r) ==
    /\ thread[r] = "pop"
    /\ jobs = <<>>
    /\ Retire(r)
    /\ UNCHANGED <<jobs, job, children, device, given, accepted, taken>>

Spawn(r) ==
    /\ thread[r] = "spawn"
    /\ children' = children \cup {job[r]}
    /\ thread' = [thread EXCEPT ![r] = "wait"]
    /\ UNCHANGED <<jobs, running, job, device, given, accepted, taken>>

\* posix_spawnp() fails: the command is given up with a warning.
SpawnFails(r) ==
    /\ thread[r] = "spawn"
    /\ thread' = [thread EXCEPT ![r] = "pop"]
    /\ job' = [job EXCEPT ![r] = NoJob]
    /\ UNCHANGED <<jobs, running, children, device, given, accepted, taken>>

\* Mutant of Reaped: waitpid() with WNOHANG, or none at all.
ReapedAtOnce(r) == TRUE

\* waitpid() returns, past EINTR, once the child has ended.
Reaped(r) == job[r] \notin children

WaitPid(r) ==
    /\ thread[r] = "wait"
    /\ Reaped(r)
    /\ thread' = [thread EXCEPT ![r] = "pop"]
    /\ job' = [job EXCEPT ![r] = NoJob]
    /\ UNCHANGED <<jobs, running, children, device, given, accepted, taken>>

\* The child process exits or is killed.
ChildEnds(j) ==
    /\ j \in children
    /\ children' = children \ {j}
    /\ UNCHANGED <<jobs, running, thread, job, device, given, accepted, taken>>

ThreadStep(r) == Pop(r) \/ Return(r) \/ Spawn(r) \/ SpawnFails(r) \/ WaitPid(r)

QueueNext ==
    \/ \E j \in Jobs : Run(j) \/ ChildEnds(j)
    \/ \E r \in Threads : ThreadStep(r)
    \/ DestroyDevice

QueueSpec == QueueInit /\ [][QueueNext]_queueVars

\* The thread is scheduled, and commands end: nothing bounds a hook that
\* hangs, and the property below says what the queue adds to that.
QueueFairSpec ==
    /\ QueueSpec
    /\ \A r \in Threads : WF_queueVars(ThreadStep(r))
    /\ \A j \in Jobs : WF_queueVars(ChildEnds(j))

(***************************************************************************)
(* Properties.                                                             *)
(***************************************************************************)

\* Two hooks of a device never run at the same time, however calls of run()
\* meet a thread that is about to return (CommandQueue.cpp 30-33, 39-42).
OneChild == \A j, k \in children : j = k

\* No accepted command is lost or overtaken, whichever thread takes it:
\* what threads took, in order, followed by what is queued, is what run()
\* accepted, in order.
NothingLost == accepted = taken \o jobs

\* running says whether a thread is there to see the queue: a queued command
\* without one can only be left by a failed thread creation, so a thread
\* that returns leaves nothing behind it (CommandQueue.cpp 31, 40-42).
RunningIsTrue == running <=> \E r \in Threads : thread[r] # "none"

\* A command queued while a thread runs is taken, with the Device alive or not.
EveryJobTaken ==
    \A j \in Jobs :
        running /\ j \in ToSet(jobs) ~> j \in ToSet(taken)

\* The queue implements the in-order, one-at-a-time runner.
Held == {job[r] : r \in Threads} \ {NoJob}
Abstract == INSTANCE OrderedCommands WITH queue <- jobs, active <- Held
Ordered == Abstract!Spec
=============================================================================
