------------------------------- MODULE MCTasks -------------------------------
(***************************************************************************)
(* Instances of the two queues whose work is done in threads of their own: *)
(* the worker pool and the queue of connection hooks.  They share no       *)
(* variable.  A behaviour is one of a single component, its part; the      *)
(* other stays as it started.                                              *)
(***************************************************************************)
EXTENDS TaskQueue, CommandQueue

VARIABLE part

MCInit == Init /\ QueueInit /\ part \in {"tasks", "hooks"}

\* A step of one part leaves the other as it is.
InPool(step) == part = "tasks" /\ step /\ UNCHANGED <<part, queueVars>>
InQueue(step) == part = "hooks" /\ step /\ UNCHANGED <<part, vars>>

\* The hooks may rest; the pool ends in a stutter of its own, and its deadlocks
\* are looked for.
MCNext == InPool(Next) \/ InQueue(QueueNext) \/ InQueue(UNCHANGED queueVars)

allVars == <<part, vars, queueVars>>

\* The fairness of TaskQueue's FairSpec and CommandQueue's QueueFairSpec.
MCSpec ==
    /\ MCInit /\ [][MCNext]_allVars
    /\ \A w \in Workers : WF_allVars(InPool(WorkerStep(w)))
    /\ WF_allVars(InPool(StopNotifies)) /\ WF_allVars(InPool(StopReturns))
    /\ WF_allVars(InPool(Tick))
    /\ \A r \in Threads : WF_allVars(InQueue(ThreadStep(r)))
    /\ \A j \in Jobs : WF_allVars(InQueue(ChildEnds(j)))
=============================================================================
