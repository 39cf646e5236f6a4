---------------------------- MODULE EventHandlers ----------------------------
(***************************************************************************)
(* The list of event handlers that every raw and HID++ device has          *)
(* (src/src/logid/backend/EventHandlerList.h).  The I/O thread runs all    *)
(* handlers on a report, holding mutex shared, and lets go of add_mutex    *)
(* while one runs.  Any thread, and a handler itself, may add a handler,   *)
(* under add_mutex, or remove one: if mutex can be had at once the node is *)
(* erased, else it is flagged and the next run_all() erases it first.      *)
(*                                                                         *)
(* That cleanup holds mutex but not add_mutex, so it races with add(): an  *)
(* add() that meets a cleanup with something to erase may lose its node.   *)
(* (What the list does with a lost node later is not modelled.)            *)
(***************************************************************************)
EXTENDS Naturals, Sequences, FiniteSets, Functions

CONSTANTS
    Threads,    \* threads other than the I/O thread
    IO,         \* the I/O thread
    Handlers,   \* nodes; each is added at most once
    None,       \* no thread, no node
    MaxReports  \* bound of the model on the reports that arrive

EventHandlersAssumption ==
    /\ IO \notin Threads
    /\ None \notin Threads \cup {IO} \cup Handlers
    /\ MaxReports \in Nat

VARIABLES
    list,       \* the nodes in list, front first
    flagged,    \* nodes whose bool is false
    excl,       \* who holds mutex exclusively
    io,         \* where the I/O thread is in run_all()
    pos,        \* its iterator; None is list.end()
    erasing,    \* the node each thread in remove() is about to erase
    reports,    \* reports so far
    added,      \* nodes that add() has returned (history)
    removed,    \* nodes that remove() has been called for (history)
    raced,      \* nodes lost to the race with cleanup() (history)
    due,        \* nodes that were in the list when the run began (history)
    called      \* nodes whose handler this run has called (history)

listVars == <<list, flagged>>
historyVars == <<added, removed, raced, due, called>>
vars == <<listVars, excl, io, pos, erasing, reports, historyVars>>

TypeOK ==
    /\ list \in Seq(Handlers)
    /\ flagged \subseteq Handlers
    /\ excl \in Threads \cup {IO, None}
    /\ io \in {"idle", "cleanup", "lock", "look", "callback", "advance"}
    /\ pos \in Handlers \cup {None}
    /\ erasing \in [Threads -> Handlers \cup {None}]
    /\ reports \in 0..MaxReports
    /\ raced \subseteq added
    /\ added \subseteq Handlers
    /\ removed \subseteq added
    /\ due \subseteq added
    /\ called \subseteq added

Init ==
    /\ list = <<>>
    /\ flagged = {}
    /\ excl = None
    /\ io = "idle"
    /\ pos = None
    /\ erasing = [t \in Threads |-> None]
    /\ reports = 0
    /\ added = {}
    /\ removed = {}
    /\ raced = {}
    /\ due = {}
    /\ called = {}

\* The I/O thread holds mutex shared.
Running == io \in {"look", "callback", "advance"}

\* Who may call add() and remove(): a handler that runs, any other thread.
Calls(t) == IF t = IO THEN io = "callback" ELSE erasing[t] = None

(***************************************************************************)
(* add() and remove().                                                     *)
(***************************************************************************)

EmplaceFront(h) == list' = <<h>> \o list

\* list.erase() of some nodes: the others keep their order.
Without(s, gone) ==
    LET kept == {i \in DOMAIN s : s[i] \notin gone}
        Rank(i) == Cardinality({j \in kept : j <= i})
    IN  [n \in 1 .. Cardinality(kept) |-> s[CHOOSE i \in kept : Rank(i) = n]]

\* The I/O thread is erasing flagged nodes without add_mutex.
Erases == io = "cleanup" /\ Range(list) \cap flagged # {}

AddHandler(t, h) ==
    /\ Calls(t)
    /\ h \notin added
    /\ added' = added \cup {h}
    /\ \/ EmplaceFront(h) /\ UNCHANGED raced
       \/ Erases /\ raced' = raced \cup {h} /\ UNCHANGED list
    /\ UNCHANGED <<flagged, excl, io, pos, erasing, reports, removed, due,
                   called>>

\* Mutant of TryLock: mutex is shared with the run.
TryLockShared == excl = None
TryLock == excl = None /\ ~Running

\* remove(), to the point where it waits for add_mutex or returns.
RemoveHandler(t, h) ==
    /\ Calls(t)
    /\ h \in added \ (removed \cup raced)
    /\ removed' = removed \cup {h}
    /\ IF t # IO /\ TryLock
       THEN /\ excl' = t
            /\ erasing' = [erasing EXCEPT ![t] = h]
            /\ UNCHANGED flagged
       ELSE /\ flagged' = flagged \cup {h}
            /\ UNCHANGED <<excl, erasing>>
    /\ UNCHANGED <<list, io, pos, reports, added, raced, due, called>>

\* Mutant of EraseNode: the lock is taken, and nothing is erased.
EraseNothing(h) == UNCHANGED list

EraseNode(h) == list' = Without(list, {h})

EraseHandler(t) ==
    /\ erasing[t] # None
    /\ EraseNode(erasing[t])
    /\ excl' = None
    /\ erasing' = [erasing EXCEPT ![t] = None]
    /\ UNCHANGED <<flagged, io, pos, reports, historyVars>>

(***************************************************************************)
(* run_all(), on the I/O thread.                                           *)
(***************************************************************************)

RunAll ==
    /\ io = "idle"
    /\ reports < MaxReports                 \* bound of the model
    /\ reports' = reports + 1
    /\ IF excl = None
       THEN excl' = IO /\ io' = "cleanup"
       ELSE UNCHANGED excl /\ io' = "lock"
    /\ UNCHANGED <<listVars, pos, erasing, historyVars>>

ReleaseMutex == excl' = None

Cleanup ==
    /\ io = "cleanup"
    /\ list' = Without(list, flagged)
    /\ ReleaseMutex
    /\ io' = "lock"
    /\ UNCHANGED <<flagged, pos, erasing, reports, historyVars>>

At(n) == IF n \in DOMAIN list THEN list[n] ELSE None

\* mutex and add_mutex are taken shared, and the iteration begins.
LockShared ==
    /\ io = "lock"
    /\ excl = None
    /\ io' = "look"
    /\ pos' = At(1)
    /\ due' = Range(list) \ flagged
    /\ called' = {}
    /\ UNCHANGED <<listVars, excl, erasing, reports, added, removed, raced>>

\* The flag is read, and the condition and the callback run, or not.
Call(h) ==
    IF h \in flagged
    THEN io' = "advance" /\ UNCHANGED called
    ELSE io' = "callback" /\ called' = called \cup {h}

Look ==
    /\ io = "look"
    /\ pos # None
    /\ Call(pos)
    /\ UNCHANGED <<listVars, excl, pos, erasing, reports, added, removed,
                   raced, due>>

CallbackReturns ==
    /\ io = "callback"
    /\ io' = "advance"
    /\ UNCHANGED <<listVars, excl, pos, erasing, reports, historyVars>>

\* The next node, read under add_mutex; meaningless for an erased node.
Successor(h) ==
    IF h \in Range(list) THEN At(1 + CHOOSE n \in DOMAIN list : list[n] = h) ELSE None

Advance ==
    /\ io = "advance"
    /\ pos' = Successor(pos)
    /\ io' = "look"
    /\ UNCHANGED <<listVars, excl, erasing, reports, historyVars>>

RunEnds ==
    /\ io = "look"
    /\ pos = None
    /\ io' = "idle"
    /\ UNCHANGED <<listVars, excl, pos, erasing, reports, historyVars>>

IOStep == Cleanup \/ LockShared \/ Look \/ CallbackReturns \/ Advance \/ RunEnds

Next ==
    \/ \E t \in Threads \cup {IO}, h \in Handlers :
          AddHandler(t, h) \/ RemoveHandler(t, h)
    \/ \E t \in Threads : EraseHandler(t)
    \/ RunAll
    \/ IOStep

Spec == Init /\ [][Next]_vars

(***************************************************************************)
(* Properties.                                                             *)
(***************************************************************************)

IteratorIsValid == Running /\ pos # None => pos \in Range(list)

\* No node is erased from under the iteration, whoever removes handlers while
\* a callback runs; a handler that is added stays until it is removed, once,
\* unless add() met an erasing cleanup; and one whose removal is over is out of
\* the list or flagged for the next cleanup (EventHandlerList.h 42-84).
ListIsExact ==
    /\ TypeOK /\ IteratorIsValid
    /\ \A m, n \in DOMAIN list : list[m] = list[n] => m = n
    /\ added \ (removed \cup raced) \subseteq Range(list) \ flagged
    /\ \A h \in removed \cap Range(list) :
          h \in flagged \/ \E t \in Threads : erasing[t] = h

\* A report reaches every handler that was there when its run began and has
\* not been removed meanwhile, whatever was added or removed on the way.
EveryHandlerCalled ==
    [][io = "look" /\ io' = "idle" => due \ removed \subseteq called]_vars
=============================================================================
