-------------------------------- MODULE MCIO --------------------------------
(***************************************************************************)
(* Instances of the two components a request to a device goes through:     *)
(* Transactions, with two features that share a slot, one that does not,   *)
(* and one function besides its unacknowledged form; and the I/O thread.   *)
(* They share no variable.  A behaviour is one of a single component, its  *)
(* part; the other stays as it started.                                    *)
(***************************************************************************)
EXTENDS Transactions, IOMonitor

MCFeatures == {1, 2, 17}
MCAddresses == {1}
MCNoAckAddress20 == [a \in {1} |-> a + 1]

VARIABLE part

MCInit == Init /\ MonitorInit /\ part \in {"requests", "monitor"}

\* A step of one part leaves the other as it is.
InRequests(step) == part = "requests" /\ step /\ UNCHANGED <<part, monitorVars>>
InMonitor(step) == part = "monitor" /\ step /\ UNCHANGED <<part, vars>>

MCNext == InRequests(Next) \/ InMonitor(MonitorNext)

allVars == <<part, vars, monitorVars>>

\* The fairness of Transactions' FairSpec and IOMonitor's MonitorFairSpec.
MCSpec ==
    /\ MCInit /\ [][MCNext]_allVars
    /\ \A c \in Callers : WF_allVars(InRequests(CallerStep(c)))
    /\ WF_allVars(InMonitor(ListenerStep))
    /\ \A k \in MonitorThreads : WF_allVars(InMonitor(YieldStep(k)))
=============================================================================
