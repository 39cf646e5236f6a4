---------------------------- MODULE ComponentsProofs ----------------------------
(***************************************************************************)
(* Proofs about components of MCComponents.  A behaviour is one of a       *)
(* single component, so every step is a step of that component.            *)
(***************************************************************************)
EXTENDS MCComponents, FunctionTheorems, FiniteSetTheorems, SequenceTheorems,
        WellFoundedInduction, TLAPS

\* A behaviour stays in its part.
LEMMA PartStays == ASSUME MCNext PROVE part' = part
BY DEF MCNext, Rest

\* What is left of a queue when its first element is taken.
LEMMA TailFacts ==
    ASSUME NEW S, NEW s \in Seq(S), s # <<>>
    PROVE  /\ Len(s) \in Nat \ {0} /\ Head(s) = s[1] /\ s[1] \in S /\ 1 \in DOMAIN s
           /\ Tail(s) \in Seq(S) /\ Len(Tail(s)) = Len(s) - 1
           /\ \A i \in DOMAIN Tail(s) :
                 i \in Nat /\ i + 1 \in DOMAIN s /\ Tail(s)[i] = s[i + 1]
OBVIOUS

(***************************************************************************)
(* EventHandlers: the list of handlers and the run that walks through it.  *)
(***************************************************************************)

\* While the part is explored, its steps are those of EventHandlers.
LEMMA HandlersMove ==
    ASSUME MCNext, part = "handlers"
    PROVE  part' = part /\ (Handler!Next \/ UNCHANGED Handler!vars)
BY DEF MCNext, Rest, Handler!vars, Handler!listVars, Handler!historyVars, handlerVars

\* The part starts as EventHandlers does.
LEMMA HandlersInit ==
    ASSUME MCInit, part = "handlers"
    PROVE  Handler!Init
BY DEF MCInit

\* The rank of a position in a set of positions: the set is numbered by it.
LEMMA RanksAreOnto ==
    ASSUME NEW N \in Nat, NEW kept \in SUBSET (1 .. N)
    PROVE  LET Rank(i) == Cardinality({j \in kept : j <= i})
           IN  /\ Cardinality(kept) \in Nat
               /\ \A i \in kept : Rank(i) \in 1 .. Cardinality(kept)
               /\ \A i, j \in kept : Rank(i) = Rank(j) => i = j
               /\ \A n \in 1 .. Cardinality(kept) : \E i \in kept : Rank(i) = n
<1> DEFINE Upto(i) == {j \in kept : j <= i}
           Rank(i) == Cardinality(Upto(i))
           C == Cardinality(kept)
           f == [i \in kept |-> Rank(i)]
<1>1. IsFiniteSet(kept) /\ C \in Nat
    <2>1. IsFiniteSet(1 .. N)
        BY FS_Interval
    <2>2. IsFiniteSet(kept)
        BY <2>1, FS_Subset, Zenon
    <2> QED BY <2>2, FS_CardinalityType
<1>2. \A i \in kept : IsFiniteSet(Upto(i)) /\ Rank(i) \in Nat /\ Rank(i) <= C
    BY <1>1, FS_Subset, FS_CardinalityType
<1>3. \A i \in kept : Rank(i) \in 1 .. C
    <2> TAKE i \in kept
    <2>1. Upto(i) # {}
        BY i \in Upto(i)
    <2>2. Rank(i) # 0
        BY <2>1, <1>2, FS_EmptySet
    <2> QED BY <2>2, <1>1, <1>2
<1>4. \A i, j \in kept : i < j => Rank(i) < Rank(j)
    <2> SUFFICES ASSUME NEW i \in kept, NEW j \in kept, i < j PROVE Rank(i) < Rank(j)
        OBVIOUS
    <2>0. i \in Int /\ j \in Int /\ kept \subseteq Int
        OBVIOUS
    <2>1. /\ \A k \in Upto(i) : k \in Upto(j)
          /\ j \in Upto(j) /\ j \notin Upto(i)
        BY <2>0
    <2>2. Rank(i) <= Rank(j) /\ Rank(i) # Rank(j)
        BY <2>1, <1>2, FS_Subset
    <2> QED BY <2>2, <1>2
<1>5. \A i, j \in kept : Rank(i) = Rank(j) => i = j
    <2> SUFFICES ASSUME NEW i \in kept, NEW j \in kept, i # j PROVE Rank(i) # Rank(j)
        OBVIOUS
    <2> i < j \/ j < i
        OBVIOUS
    <2> QED BY <1>4, <1>2
<1>6. f \in Injection(kept, 1 .. C)
    BY <1>3, <1>5, Zenon DEF Injection, IsInjective
<1>7. IsFiniteSet(1 .. C) /\ Cardinality(1 .. C) = C
    BY <1>1, FS_Interval
<1>8. f \in Surjection(kept, 1 .. C)
    BY <1>6, <1>7, FS_Injection
<1>9. \A n \in 1 .. C : \E i \in kept : Rank(i) = n
    BY <1>8, Zenon DEF Surjection
<1> QED BY <1>1, <1>3, <1>5, <1>9

\* The operators of the library are the same in every module.
LEMMA HandlerLibrary ==
    ASSUME NEW S
    PROVE  Handler!Cardinality(S) = Cardinality(S) /\ Handler!Range(S) = Range(S)
BY Zenon DEF Handler!Cardinality, Cardinality, Handler!Range, Range

\* Erasing leaves the others, each once.
LEMMA WithoutFacts ==
    ASSUME NEW H, NEW s \in Seq(H), NEW gone, NEW rest, rest = Handler!Without(s, gone)
    PROVE  /\ rest \in Seq(H)
           /\ Handler!Range(rest) = Handler!Range(s) \ gone
           /\ (\A m, n \in DOMAIN s : s[m] = s[n] => m = n)
                 => \A m, n \in DOMAIN rest : rest[m] = rest[n] => m = n
<1> DEFINE kept == {i \in DOMAIN s : s[i] \notin gone}
           Rank(i) == Cardinality({j \in kept : j <= i})
           C == Cardinality(kept)
           Place(n) == CHOOSE i \in kept : Rank(i) = n
           r == [n \in 1 .. C |-> s[Place(n)]]
<1>1. Handler!Without(s, gone) = r
    BY Zenon DEF Handler!Without, Handler!Cardinality, Cardinality
<1>2. /\ C \in Nat
      /\ \A i \in kept : Rank(i) \in 1 .. C
      /\ \A i, j \in kept : Rank(i) = Rank(j) => i = j
      /\ \A n \in 1 .. C : \E i \in kept : Rank(i) = n
    <2> kept \in SUBSET (1 .. Len(s)) /\ Len(s) \in Nat
        OBVIOUS
    <2> HIDE DEF kept
    <2> QED BY RanksAreOnto
<1> HIDE DEF Rank
<1>3. \A n \in 1 .. C : Place(n) \in kept /\ Rank(Place(n)) = n
    BY <1>2
<1>4. \A i \in kept : Place(Rank(i)) = i
    BY <1>2, <1>3
<1> HIDE DEF Place, C
<1>5. r \in Seq(H) /\ DOMAIN r = 1 .. C
    BY <1>2, <1>3
<1>6. Range(r) = {s[i] : i \in kept}
    <2>1. Range(r) = {r[n] : n \in 1 .. C}
        BY <1>5, Zenon DEF Range
    <2>2. \A n \in 1 .. C : r[n] = s[Place(n)] /\ Place(n) \in kept
        BY <1>3
    <2>3. \A i \in kept : Rank(i) \in 1 .. C /\ s[i] = r[Rank(i)]
        BY <1>2, <1>4
    <2> HIDE DEF r, kept
    <2> QED BY <2>1, <2>2, <2>3
<1>7. Range(r) = Range(s) \ gone
    BY <1>6 DEF Range
<1>8. ASSUME \A m, n \in DOMAIN s : s[m] = s[n] => m = n,
             NEW m \in DOMAIN r, NEW n \in DOMAIN r, r[m] = r[n]
      PROVE  m = n
    <2>1. Place(m) = Place(n)
        BY <1>3, <1>5, <1>8
    <2> QED BY <2>1, <1>3, <1>5
<1>9. Handler!Range(r) = Handler!Range(s) \ gone
    BY <1>7, HandlerLibrary, Zenon
<1> QED BY <1>1, <1>5, <1>8, <1>9


\* Every node in the list was added, and every flag was set by a removal.
HandlersInList == Handler!Range(list) \subseteq added /\ flagged \subseteq removed

\* mutex: the cleanup and a thread that erases exclude one another, and the run.
HandlersLocked ==
    /\ io = "cleanup" <=> excl = IO
    /\ Handler!Running => excl = None
    /\ \A t \in Removers : erasing[t] # None => excl = t /\ erasing[t] \in removed

\* The run has called each handler that was listed and not removed, or the
\* handler is still ahead of the iterator.
HandlersAhead ==
    Handler!Running =>
        \A h \in listed \ removed :
            \/ h \in called
            \/ \E i, j \in DOMAIN list :
                  /\ list[i] = pos /\ list[j] = h /\ i <= j
                  /\ io # "look" => i # j

HandlersInv ==
    Handler!ListIsExact /\ HandlersInList /\ HandlersLocked /\ HandlersAhead

\* The invariant holds at the start.
LEMMA HandlersInitInv == ASSUME Handler!Init PROVE HandlersInv
BY ComponentsAssumption
   DEF Handler!Init, HandlersInv, Handler!ListIsExact, Handler!TypeOK,
       Handler!IteratorIsValid, Handler!Running, Handler!Range, HandlersInList,
       HandlersLocked, HandlersAhead, Handler!EventHandlersAssumption

\* A handler that is added stands before the iterator.
LEMMA AddHandlerInv ==
    ASSUME HandlersInv, NEW t \in Removers \cup {IO}, NEW h \in Handlers,
           Handler!AddHandler(t, h)
    PROVE  HandlersInv'
<1> USE DEF HandlersInv, Handler!ListIsExact, Handler!TypeOK
<1>1. CASE Handler!EmplaceFront(h) /\ UNCHANGED lost
    <2>1. /\ list' \in Seq(Handlers) /\ Len(list') = Len(list) + 1
          /\ list'[1] = h
          /\ \A i \in DOMAIN list : i + 1 \in DOMAIN list' /\ list'[i + 1] = list[i]
          /\ \A i \in DOMAIN list' : i = 1 \/ (i - 1 \in DOMAIN list /\ list'[i] = list[i - 1])
        BY <1>1 DEF Handler!EmplaceFront
    <2>2. Handler!Range(list') = Handler!Range(list) \cup {h}
        <3>1. \A k \in Handler!Range(list') : k \in Handler!Range(list) \cup {h}
            BY <2>1 DEF Handler!Range
        <3>2. 1 \in DOMAIN list' /\ h \in Handler!Range(list')
            BY <2>1 DEF Handler!Range
        <3>3. \A k \in Handler!Range(list) : k \in Handler!Range(list')
            BY <2>1 DEF Handler!Range
        <3> QED BY <3>1, <3>2, <3>3
    <2>3. HandlersAhead'
        <3> SUFFICES ASSUME Handler!Running', NEW k \in listed \ removed, k \notin called
                     PROVE  \E i, j \in DOMAIN list' :
                              /\ list'[i] = pos /\ list'[j] = k /\ i <= j
                              /\ io # "look" => i # j
            BY <1>1 DEF Handler!AddHandler, HandlersAhead
        <3>1. PICK i, j \in DOMAIN list :
                 list[i] = pos /\ list[j] = k /\ i <= j /\ (io # "look" => i # j)
            BY DEF Handler!AddHandler, HandlersAhead, Handler!Running
        <3>2. i \in Nat /\ j \in Nat
            OBVIOUS
        <3> QED BY <3>1, <3>2, <2>1
    <2>4. \A m, n \in DOMAIN list' : list'[m] = list'[n] => m = n
        <3>1. \A i \in DOMAIN list : list[i] # h
            BY DEF Handler!AddHandler, HandlersInList, Handler!Range
        <3>2. \A i, j \in DOMAIN list : list[i] = list[j] => i = j
            OBVIOUS
        <3>3. \A i \in DOMAIN list' : i \in Int
            BY <2>1
        <3> HIDE DEF HandlersInv
        <3> QED BY <2>1, <3>1, <3>2, <3>3
    <2> QED BY <2>1, <2>2, <2>3, <2>4, <1>1 DEF Handler!AddHandler, Handler!IteratorIsValid,
            Handler!Running, HandlersInList, HandlersLocked
<1>2. CASE UNCHANGED list /\ lost' = lost \cup {h}
    BY <1>2 DEF Handler!AddHandler, Handler!IteratorIsValid,
            Handler!Running, Handler!Range, HandlersInList, HandlersLocked, HandlersAhead
<1> QED BY <1>1, <1>2 DEF Handler!AddHandler

\* A removal marks the node, or starts to erase it.
LEMMA RemoveHandlerInv ==
    ASSUME HandlersInv, NEW t \in Removers \cup {IO}, NEW h \in Handlers,
           Handler!RemoveHandler(t, h)
    PROVE  HandlersInv'
BY ComponentsAssumption
   DEF HandlersInv, Handler!ListIsExact, Handler!TypeOK, Handler!RemoveHandler,
       Handler!IteratorIsValid, Handler!Calls, Handler!TryLock, Handler!Running,
       Handler!Range, HandlersInList, HandlersLocked, HandlersAhead,
       Handler!EventHandlersAssumption

\* A thread erases its node while no run walks.
LEMMA EraseHandlerInv ==
    ASSUME HandlersInv, NEW t \in Removers, Handler!EraseHandler(t)
    PROVE  HandlersInv'
<1> DEFINE gone == {erasing[t]}
<1>1. /\ list' \in Seq(Handlers)
      /\ Handler!Range(list') = Handler!Range(list) \ gone
      /\ (\A m, n \in DOMAIN list : list[m] = list[n] => m = n)
            => \A m, n \in DOMAIN list' : list'[m] = list'[n] => m = n
    <2>1. list' = Handler!Without(list, gone)
        BY DEF Handler!EraseHandler, Handler!EraseNode
    <2>2. list \in Seq(Handlers)
        BY DEF HandlersInv, Handler!ListIsExact, Handler!TypeOK
    <2> HIDE DEF gone
    <2> QED BY <2>1, <2>2, WithoutFacts
<1>2. ~Handler!Running /\ excl = t /\ erasing[t] \in removed
    BY ComponentsAssumption DEF HandlersInv, HandlersLocked, Handler!EraseHandler,
        Handler!EventHandlersAssumption
<1>3. Handler!ListIsExact'
    BY <1>1, <1>2 DEF HandlersInv, Handler!ListIsExact, Handler!TypeOK, Handler!EraseHandler,
       Handler!IteratorIsValid, Handler!Running, Handler!historyVars
<1> QED BY <1>1, <1>2, <1>3, ComponentsAssumption
   DEF HandlersInv, Handler!EraseHandler, Handler!ListIsExact, Handler!TypeOK,
       Handler!Running, Handler!historyVars, HandlersInList, HandlersLocked, HandlersAhead,
       Handler!EventHandlersAssumption

\* The cleanup erases what was marked while no run walks.
LEMMA CleanupInv == ASSUME HandlersInv, Handler!Cleanup PROVE HandlersInv'
<1>1. /\ list' \in Seq(Handlers)
      /\ Handler!Range(list') = Handler!Range(list) \ flagged
      /\ (\A m, n \in DOMAIN list : list[m] = list[n] => m = n)
            => \A m, n \in DOMAIN list' : list'[m] = list'[n] => m = n
    <2>1. list' = Handler!Without(list, flagged)
        BY DEF Handler!Cleanup
    <2> HIDE DEF HandlersInv
    <2>2. list \in Seq(Handlers)
        BY DEF HandlersInv, Handler!ListIsExact, Handler!TypeOK
    <2> QED BY <2>1, <2>2, WithoutFacts
<1> QED BY <1>1, ComponentsAssumption
   DEF HandlersInv, Handler!ListIsExact, Handler!TypeOK, Handler!Cleanup,
       Handler!ReleaseMutex, Handler!IteratorIsValid, Handler!Running,
       Handler!historyVars, Handler!Range, HandlersInList, HandlersLocked, HandlersAhead,
       Handler!EventHandlersAssumption

\* A run asks for the lock.
LEMMA RunAllInv == ASSUME HandlersInv, Handler!RunAll PROVE HandlersInv'
BY ComponentsAssumption
   DEF HandlersInv, Handler!ListIsExact, Handler!TypeOK, Handler!RunAll, Handler!listVars,
       Handler!IteratorIsValid, Handler!Running, Handler!historyVars,
       Handler!Range, HandlersInList, HandlersLocked, HandlersAhead,
       Handler!EventHandlersAssumption

\* A run begins at the head of the list.
LEMMA LockSharedInv == ASSUME HandlersInv, Handler!LockShared PROVE HandlersInv'
BY ComponentsAssumption
   DEF HandlersInv, Handler!ListIsExact, Handler!TypeOK, Handler!LockShared,
       Handler!listVars, Handler!At, Handler!IteratorIsValid, Handler!Running,
       Handler!Range, HandlersInList, HandlersLocked, HandlersAhead,
       Handler!EventHandlersAssumption

\* A run calls the node it is at, or passes it.
LEMMA LookInv == ASSUME HandlersInv, Handler!Look PROVE HandlersInv'
BY ComponentsAssumption
   DEF HandlersInv, Handler!ListIsExact, Handler!TypeOK, Handler!Look,
       Handler!listVars, Handler!Call, Handler!IteratorIsValid, Handler!Running,
       Handler!Range, HandlersInList, HandlersLocked, HandlersAhead,
       Handler!EventHandlersAssumption

\* A callback has returned.
LEMMA CallbackReturnsInv == ASSUME HandlersInv, Handler!CallbackReturns PROVE HandlersInv'
BY ComponentsAssumption
   DEF HandlersInv, Handler!ListIsExact, Handler!TypeOK, Handler!CallbackReturns,
       Handler!listVars, Handler!historyVars, Handler!IteratorIsValid, Handler!Running,
       Handler!Range, HandlersInList, HandlersLocked, HandlersAhead,
       Handler!EventHandlersAssumption

\* The run goes on to the next node.
LEMMA AdvanceInv == ASSUME HandlersInv, Handler!Advance PROVE HandlersInv'
<1> USE DEF HandlersInv, Handler!ListIsExact, Handler!TypeOK
<1>1. pos' \in Handlers \cup {None} /\ (pos' # None => pos' \in Handler!Range(list))
    BY ComponentsAssumption DEF Handler!Advance, Handler!Successor, Handler!At, Handler!Range,
        Handler!EventHandlersAssumption
<1>2. ASSUME NEW i \in DOMAIN list, list[i] = pos, i + 1 \in DOMAIN list
      PROVE  pos' = list[i + 1]
    BY <1>2 DEF Handler!Advance, Handler!Successor, Handler!At, Handler!Range
<1>3. HandlersAhead'
    <2> SUFFICES ASSUME NEW h \in listed \ removed, h \notin called
                 PROVE  \E i, j \in DOMAIN list : list[i] = pos' /\ list[j] = h /\ i <= j
        BY DEF HandlersAhead, Handler!Advance, Handler!Running, Handler!listVars,
               Handler!historyVars
    <2>1. PICK i, j \in DOMAIN list : list[i] = pos /\ list[j] = h /\ i <= j /\ i # j
        BY DEF HandlersAhead, Handler!Advance, Handler!Running
    <2>2. i + 1 \in DOMAIN list /\ i + 1 <= j
        BY <2>1
    <2> QED BY <2>1, <2>2, <1>2
<1> QED BY <1>1, <1>3
   DEF Handler!Advance, Handler!listVars, Handler!historyVars, Handler!IteratorIsValid,
       Handler!Running, HandlersInList, HandlersLocked

\* The run ends behind the last node.
LEMMA RunEndsInv == ASSUME HandlersInv, Handler!RunEnds PROVE HandlersInv'
BY ComponentsAssumption
   DEF HandlersInv, Handler!ListIsExact, Handler!TypeOK, Handler!RunEnds,
       Handler!listVars, Handler!historyVars, Handler!IteratorIsValid, Handler!Running,
       Handler!Range, HandlersInList, HandlersLocked, HandlersAhead,
       Handler!EventHandlersAssumption

\* Every step of the part keeps the invariant.
LEMMA HandlersNextInv ==
    ASSUME HandlersInv, Handler!Next \/ UNCHANGED Handler!vars
    PROVE  HandlersInv'
<1>1. CASE UNCHANGED Handler!vars
    BY <1>1 DEF Handler!vars, Handler!listVars, Handler!historyVars, HandlersInv,
       Handler!ListIsExact, Handler!TypeOK, Handler!IteratorIsValid, Handler!Running,
       Handler!Range, HandlersInList, HandlersLocked, HandlersAhead
<1>2. CASE Handler!Next
    BY <1>2, AddHandlerInv, RemoveHandlerInv, EraseHandlerInv, CleanupInv, RunAllInv,
       LockSharedInv, LookInv, CallbackReturnsInv, AdvanceInv, RunEndsInv
       DEF Handler!Next, Handler!IOStep
<1> QED BY <1>1, <1>2

HandlersOk == part = "handlers" => HandlersInv

\* The invariant holds of every behaviour of the components.
THEOREM HandlersInvariance == MCSpec => []HandlersOk
<1>1. MCInit => HandlersOk
    BY HandlersInit, HandlersInitInv DEF HandlersOk
<1>2. HandlersOk /\ [MCNext]_allVars => HandlersOk'
    <2>1. CASE MCNext
        BY <2>1, PartStays, HandlersMove, HandlersNextInv DEF HandlersOk
    <2>2. CASE UNCHANGED allVars
        BY <2>2, HandlersNextInv
           DEF HandlersOk, allVars, handlerVars, Handler!vars, Handler!listVars,
               Handler!historyVars
    <2> QED BY <2>1, <2>2
<1> QED BY <1>1, <1>2, PTL DEF MCSpec

\* No node is erased from under the run, none is lost but to the race with the
\* cleanup, and none stays that was removed and not flagged
\* (EventHandlerList.h 42-84).
THEOREM ListExact == MCSpec => []ListIsExact
<1>1. HandlersOk => ListIsExact
    BY DEF HandlersOk, HandlersInv, ListIsExact
<1> QED BY <1>1, HandlersInvariance, PTL

\* A report reaches every handler that was there when its run began and was not
\* removed meanwhile (EventHandlerList.h 72-83).
THEOREM ReportReachesAll == MCSpec => EveryHandlerCalled
<1>1. ASSUME HandlersInv, Handler!Next, io = "look", io' = "idle"
      PROVE  listed \ removed \subseteq called
    <2>1. Handler!RunEnds
        BY <1>1 DEF Handler!Next, Handler!IOStep, Handler!AddHandler, Handler!RemoveHandler,
            Handler!EraseHandler, Handler!RunAll, Handler!Cleanup, Handler!LockShared,
            Handler!Look, Handler!Call, Handler!CallbackReturns, Handler!Advance
    <2>2. pos = None /\ list \in Seq(Handlers)
        BY <1>1, <2>1 DEF Handler!RunEnds, HandlersInv, Handler!ListIsExact, Handler!TypeOK
    <2> QED BY <1>1, <2>2, ComponentsAssumption
        DEF HandlersInv, HandlersAhead, Handler!Running, Handler!EventHandlersAssumption
<1>2. ASSUME HandlersOk, [MCNext]_allVars
      PROVE  [io = "look" /\ io' = "idle" => listed \ removed \subseteq called]_(Handler!vars)
    <2>1. CASE MCNext /\ part = "handlers"
        BY <1>1, <1>2, <2>1, HandlersMove DEF HandlersOk
    <2>2. CASE MCNext /\ part # "handlers"
        BY <2>2 DEF MCNext, Rest, handlerVars, Handler!vars, Handler!listVars,
            Handler!historyVars
    <2>3. CASE UNCHANGED allVars
        BY <2>3 DEF allVars, handlerVars, Handler!vars, Handler!listVars,
            Handler!historyVars
    <2> QED BY <1>2, <2>1, <2>2, <2>3
<1> QED BY <1>2, HandlersInvariance, PTL DEF MCSpec, EveryHandlerCalled, Handler!EveryHandlerCalled

(***************************************************************************)
(* RawDevices: descriptors and the objects they belong to.                 *)
(***************************************************************************)

\* While the part is explored, its steps are those of RawDevices.
LEMMA RawMove ==
    ASSUME MCNext, part = "raw devices"
    PROVE  Raw!Next \/ UNCHANGED Raw!vars
BY DEF MCNext, Rest, Raw!vars, rawVars

\* The part starts as RawDevices does.
LEMMA RawInit == ASSUME MCInit, part = "raw devices" PROVE Raw!Init
BY DEF MCInit

\* The kernel's table and the objects' fields have their types.
RawTypes ==
    /\ plugged \subseteq RawNodes
    /\ table \in [Raw!Fds -> RawNodes \cup {None}]
    /\ monitor \in [Raw!Fds -> RawObjects \cup {None}]
    /\ stage \in [RawObjects -> {"none", "failed", "open", "made", "ready", "held",
                                 "destroyed", "between", "gone"}]
    /\ node \in [RawObjects -> RawNodes \cup {None}]
    /\ fd \in [RawObjects -> Raw!Fds \cup {None}]
    /\ batch \subseteq Raw!Fds
    /\ reading \in RawObjects \cup {None}
    /\ given \subseteq RawObjects \X RawNodes

HasDescriptor(o) == stage[o] \notin {"none", "failed", "gone"}

\* An object that has a descriptor has an open one, on its node and of its own;
\* every open descriptor has its object.
RawOwned ==
    /\ \A o \in RawObjects : HasDescriptor(o) =>
          fd[o] \in Raw!Fds /\ node[o] \in RawNodes /\ table[fd[o]] = node[o]
    /\ \A o, p \in RawObjects :
          HasDescriptor(o) /\ HasDescriptor(p) /\ fd[o] = fd[p] => o = p
    /\ \A f \in Raw!Fds : table[f] # None =>
          \E o \in RawObjects : HasDescriptor(o) /\ fd[o] = f

\* The monitor knows the objects that are ready, by their descriptors, and of the
\* others only those that are about to be unregistered.
RawRegistered ==
    /\ \A o \in RawObjects : stage[o] \in {"ready", "held"} => monitor[fd[o]] = o
    /\ \A f \in Raw!Fds : monitor[f] # None =>
          fd[monitor[f]] = f /\ stage[monitor[f]] \in {"ready", "held", "destroyed"}

\* Reports are read from objects that are registered, and were from objects
\* whose node has not changed.
RawRead ==
    /\ reading # None => stage[reading] \in {"ready", "held"}
    /\ \A pair \in given : stage[pair[1]] # "none" /\ node[pair[1]] = pair[2]

RawInv == RawTypes /\ RawOwned /\ RawRegistered /\ RawRead

\* The invariant holds at the start.
LEMMA RawInitInv == ASSUME Raw!Init PROVE RawInv
BY ComponentsAssumption
   DEF Raw!Init, RawInv, RawTypes, RawOwned, HasDescriptor, RawRegistered, RawRead

\* Every nonempty set of numbers has a least one.
LEMMA LeastOf ==
    ASSUME NEW S \in SUBSET Nat, S # {}
    PROVE  \E n \in S : \A m \in S : n <= m
<1>1. PICK n \in S : \A m \in S : <<m, n>> \notin OpToRel(<, Nat)
    BY NatLessThanWellFounded, WFMin
<1>2. \A m \in S : ~(m < n)
    BY <1>1 DEF OpToRel
<1> QED BY <1>2

\* An object that has no descriptor leaves one free.
LEMMA OneIsFree ==
    ASSUME RawInv, NEW o \in RawObjects, ~HasDescriptor(o)
    PROVE  \E f \in Raw!Fds : table[f] = None /\ \A g \in 1 .. f - 1 : table[g] # None
<1> DEFINE Free == {f \in Raw!Fds : table[f] = None}
           n == Cardinality(RawObjects)
           others == RawObjects \ {o}
           Of(f) == CHOOSE p \in RawObjects : HasDescriptor(p) /\ fd[p] = f
           h == [f \in 1 .. n |-> Of(f)]
<1>1. IsFiniteSet(RawObjects) /\ n \in Nat /\ Raw!Fds = 1 .. n
    <2>1. IsFiniteSet(RawObjects)
        BY ComponentsAssumption DEF Raw!RawDevicesAssumption, Raw!IsFiniteSet, IsFiniteSet
    <2>2. Raw!Cardinality(RawObjects) = n
        BY Zenon DEF Raw!Cardinality, Cardinality
    <2> QED BY <2>1, <2>2, FS_CardinalityType DEF Raw!Fds
<1>2. IsFiniteSet(others) /\ Cardinality(others) = n - 1
    BY <1>1, FS_RemoveElement
<1>3. Free # {}
    <2> SUFFICES ASSUME \A f \in 1 .. n : table[f] # None PROVE FALSE
        BY <1>1
    <2>1. \A f \in 1 .. n : Of(f) \in others /\ fd[Of(f)] = f
        <3> TAKE f \in 1 .. n
        <3>1. \E p \in RawObjects : HasDescriptor(p) /\ fd[p] = f
            BY <1>1 DEF RawInv, RawOwned
        <3> QED BY <3>1
    <2>2. h \in Injection(1 .. n, others)
        <3> HIDE DEF Of, others
        <3>1. h \in [1 .. n -> others]
            BY <2>1
        <3>2. \A f, g \in 1 .. n : h[f] = h[g] => f = g
            BY <2>1
        <3> HIDE DEF h
        <3> QED BY <3>1, <3>2, Zenon DEF Injection, IsInjective
    <2>3. Cardinality(1 .. n) = n
        BY <1>1, FS_Interval
    <2> HIDE DEF n, others, h
    <2>4. Cardinality(1 .. n) <= Cardinality(others)
        BY <2>2, <1>2, FS_Injection
    <2> QED BY <2>3, <2>4, <1>1, <1>2
<1>4. PICK f \in Free : \A g \in Free : f <= g
    <2>1. Free \in SUBSET Nat
        BY <1>1
    <2> HIDE DEF Free
    <2> QED BY <2>1, <1>3, LeastOf
<1>5. \A g \in 1 .. f - 1 : g \in Raw!Fds /\ ~(f <= g)
    BY <1>1, <1>4
<1> QED BY <1>4, <1>5

\* open() gives the lowest descriptor that is free.
LEMMA OpenInv ==
    ASSUME RawInv, NEW o \in RawObjects, NEW n \in RawNodes, Raw!Open(o, n)
    PROVE  RawInv'
<1> USE DEF RawInv
<1>1. CASE n \notin plugged
    BY <1>1, ComponentsAssumption
       DEF Raw!Open, Raw!Goes, RawTypes, RawOwned, HasDescriptor, RawRegistered, RawRead,
           Raw!RawDevicesAssumption
<1>2. CASE n \in plugged
    <2> DEFINE f == CHOOSE f \in Raw!Fds : table[f] = None /\ \A g \in 1 .. f - 1 : table[g] # None
    <2>1. f \in Raw!Fds /\ table[f] = None
        BY OneIsFree DEF Raw!Open, HasDescriptor
    <2>2. /\ table' = [table EXCEPT ![f] = n] /\ fd' = [fd EXCEPT ![o] = f]
          /\ stage[o] = "none" /\ stage' = [stage EXCEPT ![o] = "open"]
          /\ node' = [node EXCEPT ![o] = n]
          /\ UNCHANGED <<plugged, monitor, batch, reading, dying, given, unplugs>>
        BY <1>2 DEF Raw!Open, Raw!Goes
    <2> HIDE DEF f
    <2>3. n # None
        BY ComponentsAssumption DEF Raw!RawDevicesAssumption
    <2>4. RawTypes'
        BY <2>1, <2>2 DEF RawTypes
    <2>5. \A p \in RawObjects : p # o =>
             /\ HasDescriptor(p)' = HasDescriptor(p)
             /\ fd'[p] = fd[p] /\ node'[p] = node[p] /\ stage'[p] = stage[p]
        BY <2>2 DEF HasDescriptor, RawTypes
    <2>6. \A p \in RawObjects : p # o /\ HasDescriptor(p) => fd[p] # f
        BY <2>1, ComponentsAssumption DEF RawOwned, Raw!RawDevicesAssumption
    <2>7. HasDescriptor(o)' /\ fd'[o] = f /\ node'[o] = n /\ table'[f] = n
        BY <2>1, <2>2 DEF HasDescriptor, RawTypes
    <2>8. RawOwned'
        <3>1. \A g \in Raw!Fds : g # f => table'[g] = table[g]
            BY <2>2 DEF RawTypes
        <3>2. \A p \in RawObjects : HasDescriptor(p)' =>
                 fd'[p] \in Raw!Fds /\ node'[p] \in RawNodes /\ table'[fd'[p]] = node'[p]
            BY <2>1, <2>5, <2>6, <2>7, <3>1 DEF RawOwned
        <3>3. \A p, q \in RawObjects :
                 HasDescriptor(p)' /\ HasDescriptor(q)' /\ fd'[p] = fd'[q] => p = q
            BY <2>5, <2>6, <2>7 DEF RawOwned
        <3>4. \A g \in Raw!Fds : table'[g] # None =>
                 \E p \in RawObjects : HasDescriptor(p)' /\ fd'[p] = g
            <4> SUFFICES ASSUME NEW g \in Raw!Fds, g # f, table'[g] # None
                         PROVE  \E p \in RawObjects : HasDescriptor(p)' /\ fd'[p] = g
                BY <2>7
            <4>1. PICK p \in RawObjects : HasDescriptor(p) /\ fd[p] = g
                BY <3>1 DEF RawOwned
            <4>2. p # o
                BY <4>1, <2>2 DEF HasDescriptor
            <4> QED BY <4>1, <4>2, <2>5
        <3> QED BY <3>2, <3>3, <3>4 DEF RawOwned
    <2>9. RawRegistered' /\ RawRead'
        BY <2>1, <2>2, <2>5 DEF RawRegistered, RawRead, RawTypes
    <2> QED BY <2>4, <2>8, <2>9
<1> QED BY <1>1, <1>2

\* The object asks for its descriptor's name, or is abandoned.
LEMMA QueryInv ==
    ASSUME RawInv, NEW o \in RawObjects, Raw!Query(o) PROVE RawInv'
BY ComponentsAssumption
   DEF RawInv, Raw!Query, Raw!Goes, Raw!Abandoned, RawTypes, RawOwned, HasDescriptor,
       RawRegistered, RawRead, Raw!RawDevicesAssumption

\* The object is registered with the monitor.
LEMMA ReadyInv ==
    ASSUME RawInv, NEW o \in RawObjects, Raw!Ready(o) PROVE RawInv'
BY ComponentsAssumption
   DEF RawInv, Raw!Ready, Raw!Goes, RawTypes, RawOwned, HasDescriptor,
       RawRegistered, RawRead, Raw!RawDevicesAssumption

\* The last reference to an object goes.
LEMMA RawDropInv ==
    ASSUME RawInv, NEW o \in RawObjects, Raw!Drop(o) PROVE RawInv'
BY ComponentsAssumption
   DEF RawInv, Raw!Drop, Raw!Goes, RawTypes, RawOwned, HasDescriptor,
       RawRegistered, RawRead, Raw!RawDevicesAssumption

\* The object is unregistered before its descriptor is closed.
LEMMA RemoveInv ==
    ASSUME RawInv, NEW o \in RawObjects, Raw!Remove(o) PROVE RawInv'
BY ComponentsAssumption
   DEF RawInv, Raw!Remove, Raw!Does, Raw!Destructor, Raw!Goes, RawTypes, RawOwned,
       HasDescriptor, RawRegistered, RawRead, Raw!RawDevicesAssumption

\* The descriptor is closed, and its number is free.
LEMMA CloseInv ==
    ASSUME RawInv, NEW o \in RawObjects, Raw!Close(o) PROVE RawInv'
BY ComponentsAssumption
   DEF RawInv, Raw!Close, Raw!Does, Raw!Destructor, Raw!Goes, RawTypes, RawOwned,
       HasDescriptor, RawRegistered, RawRead, Raw!RawDevicesAssumption

\* The I/O thread reads for the object that is registered.
LEMMA RawReadInv ==
    ASSUME RawInv,
           \/ Raw!EpollWait \/ Raw!ReadReport \/ Raw!ReadingEnds
           \/ \E f \in Raw!Fds : Raw!Handle(f)
           \/ \E n \in RawNodes : Raw!Unplug(n)
    PROVE  RawInv'
<1> USE ComponentsAssumption DEF RawInv, RawTypes, RawOwned, HasDescriptor, RawRegistered, RawRead,
        Raw!RawDevicesAssumption
<1>1. CASE Raw!EpollWait
    BY <1>1 DEF Raw!EpollWait
<1>2. CASE Raw!ReadReport
    BY <1>2 DEF Raw!ReadReport
<1>3. CASE Raw!ReadingEnds
    BY <1>3 DEF Raw!ReadingEnds, Raw!Goes
<1>4. CASE \E f \in Raw!Fds : Raw!Handle(f)
    BY <1>4 DEF Raw!Handle, Raw!Locked
<1>5. CASE \E n \in RawNodes : Raw!Unplug(n)
    BY <1>5 DEF Raw!Unplug
<1> QED BY <1>1, <1>2, <1>3, <1>4, <1>5

\* Every step of the part keeps the invariant.
LEMMA RawNextInv ==
    ASSUME RawInv, Raw!Next \/ UNCHANGED Raw!vars PROVE RawInv'
<1>1. CASE Raw!Next
    BY <1>1, OpenInv, QueryInv, ReadyInv, RawDropInv, RemoveInv, CloseInv, RawReadInv DEF Raw!Next
<1>2. CASE UNCHANGED Raw!vars
    BY <1>2 DEF Raw!vars, RawInv, RawTypes, RawOwned, HasDescriptor, RawRegistered, RawRead
<1> QED BY <1>1, <1>2

RawOk == part = "raw devices" => RawInv

\* The invariant of the descriptors holds of every behaviour.
THEOREM RawInvariance == MCSpec => []RawOk
<1>1. MCInit => RawOk
    BY RawInit, RawInitInv DEF RawOk
<1>2. RawOk /\ [MCNext]_allVars => RawOk'
    <2>1. CASE MCNext
        BY <2>1, PartStays, RawMove, RawNextInv DEF RawOk
    <2>2. CASE UNCHANGED allVars
        BY <2>2, RawNextInv DEF RawOk, allVars, rawVars, Raw!vars
    <2> QED BY <2>1, <2>2
<1> QED BY <1>1, <1>2, PTL DEF MCSpec

\* Each object has its own open descriptor until it goes, on its own node, none
\* is left open, and a handler is given the reports of its own device
\* (RawDevice.cpp).
THEOREM DescriptorsOwned == MCSpec => []DescriptorsAreOwn
<1>1. RawInv => Raw!DescriptorsAreOwn
    BY DEF RawInv, RawTypes, RawOwned, HasDescriptor, RawRegistered, RawRead,
           Raw!DescriptorsAreOwn
<1>2. RawOk => DescriptorsAreOwn
    BY <1>1 DEF RawOk, DescriptorsAreOwn
<1> QED BY <1>2, RawInvariance, PTL

(***************************************************************************)
(* Probing: late replies to earlier tries.                                 *)
(***************************************************************************)

\* While the part is explored, its steps are those of Probing.
LEMMA ProbeMove ==
    ASSUME MCNext, part = "probing"
    PROVE  Probe!Next \/ UNCHANGED Probe!vars
BY DEF MCNext, Rest, Probe!vars, probeVars

\* The part starts as Probing does.
LEMMA ProbeInit == ASSUME MCInit, part = "probing" PROVE Probe!Init
BY DEF MCInit

Request == (1 .. MaxTries) \X (1 .. 9)

ProbeTypes ==
    /\ try \in 1 .. MaxTries /\ step \in 1 .. 9
    /\ phase \in {"free", "announced", "waiting", "not ready", "ready", "absent", "hidpp10"}
    /\ asked \in Seq(Request)
    /\ response = None \/ (response.to \in Request /\ DOMAIN response = {"to", "what"})
    /\ got \in Seq(Request)

\* A response is one to a request with the key that is waited for.
ResponseFits ==
    /\ phase \in {"announced", "waiting"} => awaited = Probe!Key(step)
    /\ phase \notin {"announced", "waiting"} => awaited = None /\ response = None
    /\ response # None => Probe!Key(response.to[2]) = Probe!Key(step)

Taken == IF response = None THEN 0 ELSE 1

\* Of every try at most one request is left when the next one begins, and every
\* step takes an answer.
FewAreLeft ==
    /\ Len(asked) + Taken <= try
    /\ phase \in {"free", "announced"} => Len(asked) + Taken <= try - 1

\* The device answers in order: while an answer to an earlier try is to come, all
\* that this try got was answers to earlier ones.
EarlierFirst ==
    phase \in {"free", "announced", "waiting"} =>
        /\ \A i \in DOMAIN asked : asked[i][1] # try => i + (step - 1) + Taken <= try - 1
        /\ response # None /\ response.to[1] # try => step <= try - 1

\* From the last ping on, the replies are those of this try.
LastAreOwn ==
    /\ phase \in {"free", "announced", "waiting"} => Len(got) = step - 1
    /\ phase = "ready" => Len(got) = 9
    /\ phase \in {"free", "announced", "waiting", "ready"} =>
          \A s \in 6 .. Len(got) : got[s] = <<try, s>>

ProbeInv == ProbeTypes /\ ResponseFits /\ FewAreLeft /\ EarlierFirst /\ LastAreOwn

\* The numbers the invariant counts with.
LEMMA TriesAndSteps ==
    ASSUME MaxTries \in 1 .. 6, ProbeInv
    PROVE  /\ try \in Int /\ step \in Int /\ step \in 1 .. 9 /\ try <= 6
           /\ Len(asked) \in Int /\ Taken \in 0 .. 1
           /\ FewAreLeft /\ EarlierFirst /\ ResponseFits /\ LastAreOwn
           /\ MaxTries \in Int /\ 1 <= try /\ try <= MaxTries
           /\ \A i \in DOMAIN asked : i \in Int /\ i <= Len(asked)
<1>1. /\ try \in 1 .. MaxTries /\ step \in 1 .. 9 /\ asked \in Seq(Request)
      /\ FewAreLeft /\ EarlierFirst /\ ResponseFits /\ LastAreOwn
    BY Zenon DEF ProbeInv, ProbeTypes
<1>2. Taken \in 0 .. 1
    BY DEF Taken
<1> QED BY <1>1, <1>2

\* The invariant holds at the start.
LEMMA ProbeInitInv == ASSUME MaxTries \in 1 .. 6, Probe!Init PROVE ProbeInv
BY DEF Probe!Init, Probe!Version, ProbeInv, ProbeTypes, ResponseFits, FewAreLeft, Taken,
       EarlierFirst, LastAreOwn

\* A request is announced before it is written.
LEMMA AnnounceInv == ASSUME MaxTries \in 1 .. 6, ProbeInv, Probe!Announce PROVE ProbeInv'
BY DEF Probe!Announce, ProbeInv, ProbeTypes, ResponseFits, FewAreLeft, Taken,
       EarlierFirst, LastAreOwn

\* A request is written, and waits for its reply.
LEMMA WriteInv == ASSUME MaxTries \in 1 .. 6, ProbeInv, Probe!Write PROVE ProbeInv'
<1> <<try, step>> \in Request
    BY DEF ProbeInv, ProbeTypes, Request
<1> QED BY DEF Probe!Write, ProbeInv, ProbeTypes, ResponseFits, FewAreLeft, Taken,
       EarlierFirst, LastAreOwn

\* An answer leaves one request less, and one answer more.
LEMMA AnswerInv ==
    ASSUME MaxTries \in 1 .. 6, ProbeInv, NEW what, Probe!Answer(what)
    PROVE  ProbeInv'
<1> DEFINE reply == [to |-> Head(asked), what |-> what]
<1>1. /\ asked # <<>> /\ asked' = Tail(asked)
      /\ response' = IF Probe!ByKey(reply) /\ phase \in {"announced", "waiting"}
                     THEN reply ELSE response
      /\ UNCHANGED <<try, step, phase, awaited, got>>
    BY DEF Probe!Answer
<1>2. /\ asked \in Seq(Request) /\ Len(asked) \in Nat \ {0} /\ Head(asked) = asked[1]
      /\ asked[1] \in Request /\ 1 \in DOMAIN asked
      /\ asked' \in Seq(Request) /\ Len(asked') = Len(asked) - 1
      /\ \A i \in DOMAIN asked' :
            i \in Nat /\ i + 1 \in DOMAIN asked /\ asked'[i] = asked[i + 1]
    <2>1. asked \in Seq(Request)
        BY DEF ProbeInv, ProbeTypes
    <2> QED BY <1>1, <2>1, TailFacts
<1>3. reply.to = asked[1] /\ asked[1] \in Request /\ 1 \in DOMAIN asked
    BY <1>2
<1>4. ProbeTypes' /\ ResponseFits'
    BY <1>1, <1>2, <1>3 DEF ProbeInv, ProbeTypes, ResponseFits, Probe!ByKey
<1>5. Taken \in 0 .. 1 /\ Taken' \in 0 .. 1 /\ Taken' <= Taken + 1
    BY DEF Taken
<1>6. try \in Int /\ step \in Int /\ FewAreLeft /\ EarlierFirst
    BY TriesAndSteps
<1>7. FewAreLeft'
    BY <1>1, <1>2, <1>5, <1>6 DEF FewAreLeft
<1>8. EarlierFirst'
    <2> SUFFICES ASSUME phase \in {"free", "announced", "waiting"}
                 PROVE  EarlierFirst'
        BY <1>1 DEF EarlierFirst
    <2>1. \A i \in DOMAIN asked' : asked'[i][1] # try => i + (step - 1) + Taken' <= try - 1
        <3> TAKE i \in DOMAIN asked'
        <3>1. i + 1 \in DOMAIN asked /\ asked'[i] = asked[i + 1] /\ i \in Int
            BY <1>2
        <3>2. asked[i + 1][1] # try => (i + 1) + (step - 1) + Taken <= try - 1
            BY <3>1, <1>6 DEF EarlierFirst
        <3> HIDE DEF Taken
        <3> QED BY <3>1, <3>2, <1>5, <1>6
    <2>2. response' # None /\ response'.to[1] # try => step <= try - 1
        BY <1>1, <1>3, <1>5, <1>6 DEF EarlierFirst
    <2> QED BY <1>1, <2>1, <2>2 DEF EarlierFirst
<1> QED BY <1>1, <1>4, <1>7, <1>8 DEF ProbeInv, LastAreOwn

\* A request or its reply is lost.
LEMMA ProbeDropInv == ASSUME MaxTries \in 1 .. 6, ProbeInv, Probe!Drop PROVE ProbeInv'
<1>1. /\ asked # <<>> /\ asked' = Tail(asked)
      /\ UNCHANGED <<try, step, phase, awaited, response, got>>
    BY DEF Probe!Drop
<1>2. /\ Len(asked) \in Nat /\ asked' \in Seq(Request) /\ Len(asked') = Len(asked) - 1
      /\ \A i \in DOMAIN asked' :
            i \in Nat /\ i + 1 \in DOMAIN asked /\ asked'[i] = asked[i + 1]
    <2>1. asked \in Seq(Request)
        BY DEF ProbeInv, ProbeTypes
    <2> QED BY <1>1, <2>1, TailFacts
<1>3. ProbeTypes' /\ ResponseFits' /\ LastAreOwn'
    BY <1>1, <1>2 DEF ProbeInv, ProbeTypes, ResponseFits, LastAreOwn
<1>4. Taken \in 0 .. 1 /\ Taken' = Taken
    BY <1>1 DEF Taken
<1>5. try \in Int /\ step \in Int /\ FewAreLeft /\ EarlierFirst
    BY TriesAndSteps
<1>6. FewAreLeft'
    BY <1>1, <1>2, <1>4, <1>5 DEF FewAreLeft
<1>7. EarlierFirst'
    <2>1. ASSUME phase \in {"free", "announced", "waiting"}, NEW i \in DOMAIN asked',
                 asked'[i][1] # try
          PROVE  i + (step - 1) + Taken <= try - 1
        <3>1. i \in Int /\ (i + 1) + (step - 1) + Taken <= try - 1
            BY <1>2, <1>5, <2>1 DEF EarlierFirst
        <3> QED BY <3>1, <1>4, <1>5
    <2> QED BY <1>1, <1>4, <1>5, <2>1 DEF EarlierFirst
<1> QED BY <1>3, <1>6, <1>7 DEF ProbeInv

\* What is accepted from the last ping on is the answer to that very request: five
\* answers of an earlier try can not come before it.
LEMMA ReceiveInv == ASSUME MaxTries \in 1 .. 6, ProbeInv, Probe!Receive PROVE ProbeInv'
<1>1. /\ phase = "waiting" /\ response # None /\ response.to \in Request
      /\ got' = Append(got, response.to) /\ Len(got) = step - 1
      /\ UNCHANGED <<try, asked, faults>>
      /\ awaited' = None /\ response' = None
    BY DEF Probe!Receive, Probe!End, ProbeInv, ProbeTypes, LastAreOwn
<1>2. /\ got' \in Seq(Request) /\ Len(got') = step
      /\ \A s \in 1 .. step - 1 : got'[s] = got[s]
      /\ got'[step] = response.to
    BY <1>1 DEF ProbeInv, ProbeTypes
<1>3. /\ try \in Int /\ step \in 1 .. 9 /\ try <= 6 /\ Len(asked) \in Int
      /\ \A i \in DOMAIN asked : i \in Int
      /\ Taken = 1 /\ Taken' = 0 /\ FewAreLeft /\ EarlierFirst /\ ResponseFits /\ LastAreOwn
    BY <1>1, TriesAndSteps DEF Taken
<1>4. CASE phase' \in {"absent", "hidpp10", "not ready"} /\ UNCHANGED step
    <2>1. ProbeTypes'
        BY <1>1, <1>2, <1>4 DEF ProbeInv, ProbeTypes
    <2>2. ResponseFits' /\ EarlierFirst' /\ LastAreOwn'
        BY <1>1, <1>4 DEF ResponseFits, EarlierFirst, LastAreOwn
    <2>3. FewAreLeft'
        <3>1. asked' = asked /\ try' = try /\ phase' \notin {"free", "announced"}
            BY <1>1, <1>4
        <3>2. Len(asked) + 1 <= try /\ Taken' = 0
            BY <1>3 DEF FewAreLeft
        <3>3. Len(asked') + Taken' <= try'
            BY <1>3, <3>1, <3>2
        <3> QED BY <3>1, <3>3 DEF FewAreLeft
    <2> QED BY <2>1, <2>2, <2>3 DEF ProbeInv
<1>5. CASE /\ Probe!Accepts(step, response)
           /\ \/ step = 9 /\ phase' = "ready" /\ UNCHANGED step
              \/ step # 9 /\ phase' = "free" /\ step' = step + 1
    <2>1. step >= 6 => response.to = <<try, step>>
        <3> SUFFICES ASSUME step >= 6 PROVE response.to = <<try, step>>
            OBVIOUS
        <3>1. response.to[1] = try
            BY <1>1, <1>3 DEF EarlierFirst
        <3>2. response.to[2] \in 1 .. 9 /\ Probe!Key(response.to[2]) = Probe!Key(step)
            BY <1>1, <1>3 DEF ResponseFits, Request
        <3>3. step = 6 => Probe!Byte(response.to[2]) = "o"
            BY <1>5 DEF Probe!Accepts, Probe!Pings, Probe!Echo, Probe!Byte
        <3>4. response.to[2] = step
            BY <1>3, <3>2, <3>3 DEF Probe!Key, Probe!Byte
        <3> QED BY <1>1, <3>1, <3>4 DEF Request
    <2>2. LastAreOwn'
        BY <1>1, <1>2, <1>3, <1>5, <2>1 DEF LastAreOwn
    <2>3. ProbeTypes'
        <3>1. step' \in 1 .. 9
            BY <1>3, <1>5
        <3> QED BY <1>1, <1>2, <1>5, <3>1, Zenon DEF ProbeInv, ProbeTypes
    <2>4. ResponseFits'
        BY <1>1, <1>5 DEF ResponseFits
    <2>5. FewAreLeft'
        BY <1>1, <1>3, <1>5 DEF FewAreLeft
    <2>6. EarlierFirst'
        <3> SUFFICES ASSUME phase' = "free", NEW i \in DOMAIN asked, asked[i][1] # try
                     PROVE  i + (step' - 1) + Taken' <= try - 1
            BY <1>1, <1>5 DEF EarlierFirst
        <3>1. i \in Int /\ i + (step - 1) + Taken <= try - 1 /\ step' = step + 1
            BY <1>1, <1>3, <1>5 DEF EarlierFirst
        <3> QED BY <1>3, <3>1
    <2> QED BY <2>2, <2>3, <2>4, <2>5, <2>6 DEF ProbeInv
<1> QED BY <1>4, <1>5 DEF Probe!Receive, Probe!End

\* A try ends, and the next begins.
LEMMA TryAgainInv ==
    ASSUME MaxTries \in 1 .. 6, ProbeInv, Probe!Timeout \/ Probe!TryAgain PROVE ProbeInv'
<1>1. CASE Probe!Timeout
    BY <1>1 DEF Probe!Timeout, Probe!End, ProbeInv, ProbeTypes, ResponseFits, FewAreLeft, Taken,
       EarlierFirst, LastAreOwn
<1>2. CASE Probe!TryAgain
    <2>1. /\ phase = "not ready" /\ phase' = "free" /\ try < MaxTries /\ try' = try + 1
          /\ step' = 1 /\ awaited' = None /\ response' = None /\ asked' = asked
        BY <1>2, Zenon DEF Probe!TryAgain, Probe!End, Probe!Version
    <2>0. got' \in Seq(Request) /\ Len(got') = 0
        <3>1. got' = <<>>
            BY <1>2, Zenon DEF Probe!TryAgain
        <3> QED BY <3>1, EmptySeq
    <2>2. /\ try \in Int /\ Len(asked) \in Int /\ MaxTries \in Int /\ 1 <= try
          /\ FewAreLeft /\ ResponseFits
          /\ \A i \in DOMAIN asked : i \in Int /\ i <= Len(asked)
        BY TriesAndSteps
    <2>3. response = None /\ Taken = 0 /\ Taken' = 0
        BY <2>1, <2>2 DEF ResponseFits, Taken
    <2>4. Len(asked) <= try
        <3>1. Len(asked) + Taken <= try
            BY <2>2 DEF FewAreLeft
        <3> QED BY <2>2, <2>3, <3>1
    <2>5. ProbeTypes'
        <3>1. try' \in 1 .. MaxTries
            <4>1. try' = try + 1 /\ try < MaxTries
                BY <2>1
            <4>2. try \in Int /\ MaxTries \in Int /\ 1 <= try
                BY <2>2
            <4>3. try + 1 <= MaxTries /\ 1 <= try + 1 /\ try + 1 \in Int
                BY <4>1, <4>2
            <4>4. try + 1 \in 1 .. MaxTries
                BY <4>2, <4>3
            <4> QED BY <4>1, <4>4
        <3>2. asked' \in Seq(Request) /\ got' \in Seq(Request)
            BY <2>0, <2>1 DEF ProbeInv, ProbeTypes
        <3>3. step' = 1 /\ response' = None /\ phase' = "free"
            BY <2>1, Zenon
        <3>4. 1 \in 1 .. 9
            OBVIOUS
        <3> QED BY <3>1, <3>2, <3>3, <3>4, Zenon DEF ProbeTypes
    <2>6. EarlierFirst'
        <3>1. \A i \in DOMAIN asked : i + (1 - 1) + 0 <= (try + 1) - 1
            BY <2>2, <2>4
        <3>2. asked' = asked /\ step' = 1 /\ Taken' = 0 /\ try' = try + 1 /\ response' = None
            BY <2>1, <2>3
        <3> HIDE DEF Taken
        <3> QED BY <3>1, <3>2, Zenon DEF EarlierFirst
    <2>7. FewAreLeft'
        <3>1. Len(asked) + 0 <= try + 1 /\ Len(asked) + 0 <= (try + 1) - 1
            BY <2>2, <2>4
        <3>2. asked' = asked /\ Taken' = 0 /\ try' = try + 1
            BY <2>1, <2>3
        <3> QED BY <3>1, <3>2, Zenon DEF FewAreLeft
    <2>8. ResponseFits'
        BY <2>1 DEF ResponseFits
    <2>9. LastAreOwn'
        <3>1. Len(got') = 0 /\ step' = 1 /\ phase' = "free"
            BY <2>0, <2>1, Zenon
        <3>2. 0 = 1 - 1 /\ 6 .. 0 = {}
            OBVIOUS
        <3> QED BY <3>1, <3>2, Zenon DEF LastAreOwn
    <2> QED BY <2>5, <2>6, <2>7, <2>8, <2>9 DEF ProbeInv
<1> QED BY <1>1, <1>2

\* Every step of the part keeps the invariant.
LEMMA ProbeNextInv ==
    ASSUME MaxTries \in 1 .. 6, ProbeInv, Probe!Next \/ UNCHANGED Probe!vars
    PROVE  ProbeInv'
<1>1. CASE Probe!Next
    BY <1>1, AnnounceInv, WriteInv, AnswerInv, ProbeDropInv, ReceiveInv, TryAgainInv DEF Probe!Next
<1>2. CASE UNCHANGED Probe!vars
    BY <1>2 DEF Probe!vars, ProbeInv, ProbeTypes, ResponseFits, FewAreLeft, Taken,
       EarlierFirst, LastAreOwn
<1> QED BY <1>1, <1>2

ProbeOk == part = "probing" => ProbeInv

\* The invariant of probing holds of every behaviour.
LEMMA ProbeInvariance == ASSUME MaxTries \in 1 .. 6 PROVE MCSpec => []ProbeOk
<1>1. MCInit => ProbeOk
    BY ProbeInit, ProbeInitInv DEF ProbeOk
<1>2. ProbeOk /\ [MCNext]_allVars => ProbeOk'
    <2>1. CASE MCNext
        BY <2>1, PartStays, ProbeMove, ProbeNextInv DEF ProbeOk
    <2>2. CASE UNCHANGED allVars
        BY <2>2, ProbeNextInv DEF ProbeOk, allVars, probeVars, Probe!vars
    <2> QED BY <2>1, <2>2
<1> QED BY <1>1, <1>2, PTL DEF MCSpec

\* A device that passes the stability test was not named by late replies, as long
\* as it is tried no more than six times (Device.cpp 118-214, DeviceMonitor.h:36).
THEOREM DeviceIsNamed == ASSUME MaxTries \in 1 .. 6 PROVE MCSpec => []AnswersAreOwn
<1>1. ProbeInv => Probe!AnswersAreOwn
    BY DEF ProbeInv, LastAreOwn, Probe!AnswersAreOwn, Probe!Name
<1>2. ProbeOk => AnswersAreOwn
    BY <1>1 DEF ProbeOk, AnswersAreOwn
<1> QED BY <1>2, ProbeInvariance, PTL

(***************************************************************************)
(* BatteryReading: the best of the answers.                                *)
(***************************************************************************)

\* While the part is explored, its steps are those of BatteryReading.
LEMMA ReadingMove ==
    ASSUME MCNext, part = "reading"
    PROVE  Reading!Next \/ UNCHANGED Reading!vars
BY DEF MCNext, Rest, Reading!vars, readingVars

\* The part starts as BatteryReading does.
LEMMA ReadingInit == ASSUME MCInit, part = "reading" PROVE Reading!Init
BY DEF MCInit

BatteryFeatures == {"UNIFIED_BATTERY", "BATTERY_STATUS", "BATTERY_VOLTAGE"}

\* No two features have the same priority.
LEMMA Priorities ==
    /\ Reading!Range(Reading!Sources) = BatteryFeatures
    /\ \A s \in BatteryFeatures : Reading!Priority[s] \in Int
    /\ \A s, t \in BatteryFeatures : Reading!Priority[s] = Reading!Priority[t] => s = t
BY DEF Reading!Range, Reading!Sources, BatteryFeatures, Reading!Priority

\* The readers that are left are those of poorer features than those that answered.
ReadersFall ==
    /\ readers \in Seq(BatteryFeatures)
    /\ \A i, j \in DOMAIN readers : i < j => Reading!Priority[readers[i]] > Reading!Priority[readers[j]]
    /\ \A a \in answers :
          /\ a.source \in BatteryFeatures
          /\ \A i \in DOMAIN readers : Reading!Priority[a.source] > Reading!Priority[readers[i]]
    /\ \A a, b \in answers : a.source = b.source => a = b

KnownAnswers == {a \in answers : Reading!Capacity(a.status) # None}

\* The answer that is selected is better than all that tell a capacity.
BestIsSelected ==
    /\ selected = None => KnownAnswers = {}
    /\ selected # None =>
          /\ selected \in KnownAnswers
          /\ \A a \in KnownAnswers :
                /\ a.status.level # None => selected.status.level # None
                /\ (a.status.level = None) = (selected.status.level = None) =>
                      Reading!Priority[selected.source] >= Reading!Priority[a.source]
    /\ any_charging = \E a \in KnownAnswers : Reading!Charging(a.status)

PublishedIsSelected ==
    published # None =>
        /\ readers = <<>> /\ selected # None
        /\ published = [capacity |-> Reading!Capacity(selected.status),
                        charging |-> \/ Reading!Charging(selected.status)
                                     \/ any_charging /\ selected.status.state # "Full"]

ReadingInv == ReadersFall /\ BestIsSelected /\ PublishedIsSelected

\* The invariant holds at the start.
LEMMA ReadingInitInv == ASSUME Reading!Init PROVE ReadingInv
<1>1. readers \in Seq(BatteryFeatures)
    <2>1. readers \in UNION {[1 .. n -> BatteryFeatures] : n \in 1 .. 3}
        BY Priorities DEF Reading!Init, Reading!Readers
    <2>2. PICK n \in 1 .. 3 : readers \in [1 .. n -> BatteryFeatures]
        BY <2>1
    <2>3. n \in Nat
        OBVIOUS
    <2> QED BY <2>2, <2>3
<1> QED BY <1>1 DEF Reading!Init, Reading!Readers, ReadingInv, ReadersFall, BestIsSelected, KnownAnswers,
        PublishedIsSelected

\* A feature's answer replaces the selected one if it is better.
LEMMA ReadAnswerInv ==
    ASSUME ReadingInv, readers # <<>>, NEW answer \in Reading!Answers(Head(readers)), Reading!Read(answer)
    PROVE  ReadingInv'
<1> DEFINE new == [source |-> Head(readers), status |-> answer]
<1>1. /\ Head(readers) = readers[1] /\ readers[1] \in BatteryFeatures /\ 1 \in DOMAIN readers
      /\ readers' = Tail(readers) /\ Tail(readers) \in Seq(BatteryFeatures)
      /\ \A i \in DOMAIN readers' :
            i \in Nat /\ i + 1 \in DOMAIN readers /\ readers'[i] = readers[i + 1]
    <2>1. readers \in Seq(BatteryFeatures)
        BY DEF ReadingInv, ReadersFall
    <2> QED BY <2>1, TailFacts DEF Reading!Read
<1>2. /\ new # None /\ new.source = readers[1] /\ new.status = answer
      /\ answers' = answers \cup {new}
    <2>1. new.source = readers[1] /\ new.status = answer
        BY <1>1
    <2>2. answers' = answers \cup {new}
        BY DEF Reading!Read
    <2>3. readers[1] \in Reading!Range(Reading!Sources)
        BY <1>1, Priorities
    <2>4. new \in [source : Reading!Range(Reading!Sources),
                   status : UNION {Reading!Answers(s) : s \in Reading!Range(Reading!Sources)}]
        BY <1>1, <2>3
    <2>5. new # None
        BY <2>4, ComponentsAssumption, Zenon DEF Reading!BatteryReadingAssumption
    <2> QED BY <2>1, <2>2, <2>5
<1>3. published = None /\ published' = None
    BY DEF ReadingInv, PublishedIsSelected, Reading!Read
<1>4. /\ Reading!Capacity(answer) = None => UNCHANGED <<selected, any_charging>>
      /\ Reading!Capacity(answer) # None =>
            /\ any_charging' = (any_charging \/ Reading!Charging(answer))
            /\ selected' = IF Reading!Better(new, selected) THEN new ELSE selected
    BY DEF Reading!Read
<1> HIDE DEF new
<1>5. \A a \in answers : Reading!Priority[a.source] > Reading!Priority[new.source]
    BY <1>1, <1>2 DEF ReadingInv, ReadersFall
<1>6. ReadersFall'
    BY <1>1, <1>2, <1>5, Priorities DEF ReadingInv, ReadersFall
<1>7. KnownAnswers' = IF Reading!Capacity(answer) = None THEN KnownAnswers ELSE KnownAnswers \cup {new}
    BY <1>2 DEF KnownAnswers
<1>8. BestIsSelected'
    <2>1. CASE Reading!Capacity(answer) = None
        BY <2>1, <1>4, <1>7 DEF ReadingInv, BestIsSelected
    <2>2. CASE Reading!Capacity(answer) # None
        <3>1. KnownAnswers' = KnownAnswers \cup {new} /\ new \in KnownAnswers'
            BY <2>2, <1>7
        <3>2. /\ \A a \in KnownAnswers : Reading!Priority[a.source] > Reading!Priority[new.source]
              /\ \A a \in KnownAnswers : Reading!Priority[a.source] \in Int
              /\ Reading!Priority[new.source] \in Int
            BY <1>1, <1>2, <1>5, Priorities DEF KnownAnswers, ReadingInv, ReadersFall
        <3>3. any_charging' = \E a \in KnownAnswers' : Reading!Charging(a.status)
            BY <2>2, <1>2, <1>4, <3>1 DEF ReadingInv, BestIsSelected
        <3>4. BestIsSelected
            BY DEF ReadingInv
        <3>5. CASE Reading!Better(new, selected)
            <4>1. selected' = new
                BY <2>2, <1>4, <3>5
            <4>2. ASSUME NEW a \in KnownAnswers'
                  PROVE  /\ a.status.level # None => new.status.level # None
                         /\ (a.status.level = None) = (new.status.level = None) =>
                               Reading!Priority[new.source] >= Reading!Priority[a.source]
                BY <3>1, <3>2, <3>4, <3>5 DEF BestIsSelected, Reading!Better
            <4> QED BY <1>2, <3>1, <3>3, <4>1, <4>2 DEF BestIsSelected
        <3>6. CASE ~Reading!Better(new, selected)
            <4>1. selected' = selected /\ selected # None /\ selected \in KnownAnswers
                BY <2>2, <1>4, <3>4, <3>6 DEF BestIsSelected, Reading!Better
            <4>2. ASSUME NEW a \in KnownAnswers'
                  PROVE  /\ a.status.level # None => selected.status.level # None
                         /\ (a.status.level = None) = (selected.status.level = None) =>
                               Reading!Priority[selected.source] >= Reading!Priority[a.source]
                BY <3>1, <3>2, <3>4, <3>6, <4>1 DEF BestIsSelected, Reading!Better
            <4> QED BY <3>1, <3>3, <4>1, <4>2 DEF BestIsSelected
        <3> QED BY <3>5, <3>6
    <2> QED BY <2>1, <2>2
<1> QED BY <1>3, <1>6, <1>8 DEF ReadingInv, PublishedIsSelected

\* Every step of the part keeps the invariant.
LEMMA ReadingNextInv ==
    ASSUME ReadingInv, Reading!Next \/ UNCHANGED Reading!vars PROVE ReadingInv'
<1>1. CASE Reading!ReadFails
    <2>1. readers \in Seq(BatteryFeatures) /\ readers # <<>> /\ readers' = Tail(readers)
        BY <1>1 DEF Reading!ReadFails, ReadingInv, ReadersFall
    <2>2. /\ Tail(readers) \in Seq(BatteryFeatures)
          /\ \A i \in DOMAIN readers' :
                i \in Nat /\ i + 1 \in DOMAIN readers /\ readers'[i] = readers[i + 1]
        BY <2>1, TailFacts
    <2> QED BY <1>1, <2>1, <2>2
        DEF Reading!ReadFails, ReadingInv, ReadersFall, BestIsSelected, KnownAnswers, PublishedIsSelected
<1>2. CASE Reading!Publish
    BY <1>2 DEF Reading!Publish, ReadingInv, ReadersFall, BestIsSelected, KnownAnswers,
        PublishedIsSelected
<1>3. CASE UNCHANGED Reading!vars
    BY <1>3 DEF Reading!vars, ReadingInv, ReadersFall, BestIsSelected, KnownAnswers, PublishedIsSelected
<1> QED BY <1>1, <1>2, <1>3, ReadAnswerInv DEF Reading!Next

\* The answer that is published is the best of all.
LEMMA BestIsPublished == ASSUME ReadingInv PROVE Reading!PublishesBest
<1> SUFFICES ASSUME published # None PROVE Reading!PublishesBest
    BY DEF Reading!PublishesBest
<1> DEFINE reported == {a \in KnownAnswers : a.status.level # None}
           pool == IF reported # {} THEN reported ELSE KnownAnswers
           best == CHOOSE a \in pool :
                      \A b \in pool : Reading!Priority[a.source] >= Reading!Priority[b.source]
<1>1. /\ selected # None /\ selected \in KnownAnswers
      /\ published = [capacity |-> Reading!Capacity(selected.status),
                      charging |-> \/ Reading!Charging(selected.status)
                                   \/ any_charging /\ selected.status.state # "Full"]
    BY DEF ReadingInv, PublishedIsSelected, BestIsSelected
<1>2. pool \subseteq KnownAnswers /\ KnownAnswers \subseteq answers
    BY DEF KnownAnswers
<1>3. selected \in pool
    BY <1>1 DEF ReadingInv, BestIsSelected
<1>4. \A b \in pool : Reading!Priority[selected.source] >= Reading!Priority[b.source]
    BY <1>1 DEF ReadingInv, BestIsSelected
<1>5. \A c \in pool :
         (\A b \in pool : Reading!Priority[c.source] >= Reading!Priority[b.source]) => c = selected
    <2> HIDE DEF pool
    <2> TAKE c \in pool
    <2> HAVE \A b \in pool : Reading!Priority[c.source] >= Reading!Priority[b.source]
    <2>1. /\ c \in answers /\ selected \in answers
          /\ c.source \in BatteryFeatures /\ selected.source \in BatteryFeatures
        BY <1>2, <1>3 DEF ReadingInv, ReadersFall
    <2>2. Reading!Priority[c.source] = Reading!Priority[selected.source]
        BY <1>3, <1>4, <2>1, Priorities
    <2> QED BY <2>1, <2>2, Priorities DEF ReadingInv, ReadersFall
<1>6. best = selected
    <2> HIDE DEF pool
    <2> QED BY <1>3, <1>4, <1>5
<1>7. /\ published.capacity = Reading!Capacity(best.status)
      /\ published.charging = (best.status.state # "Full"
                               /\ \E a \in KnownAnswers : Reading!Charging(a.status))
    BY <1>1, <1>6 DEF ReadingInv, BestIsSelected, Reading!Charging
<1> QED BY <1>7, Zenon DEF Reading!PublishesBest, KnownAnswers

ReadingOk == part = "reading" => ReadingInv

\* The invariant holds of every behaviour of the components.
THEOREM ReadingInvariance == MCSpec => []ReadingOk
<1>1. MCInit => ReadingOk
    BY ReadingInit, ReadingInitInv DEF ReadingOk
<1>2. ReadingOk /\ [MCNext]_allVars => ReadingOk'
    <2>1. CASE MCNext
        BY <2>1, PartStays, ReadingMove, ReadingNextInv DEF ReadingOk
    <2>2. CASE UNCHANGED allVars
        BY <2>2, ReadingNextInv DEF ReadingOk, allVars, readingVars, Reading!vars
    <2> QED BY <2>1, <2>2
<1> QED BY <1>1, <1>2, PTL DEF MCSpec

\* The best answer of the battery features is published (BatteryStatus.cpp 257-284).
THEOREM BestAnswer == MCSpec => []PublishesBest
<1>1. ReadingOk => PublishesBest
    BY BestIsPublished DEF ReadingOk, PublishesBest
<1> QED BY <1>1, ReadingInvariance, PTL

(***************************************************************************)
(* Pairing: the state of the pairing and what the receiver does.           *)
(***************************************************************************)

\* While the part is explored, its steps are those of Pairing.
LEMMA PairMove ==
    ASSUME MCNext, part = "pairing"
    PROVE  Pair!Next \/ UNCHANGED Pair!vars
BY DEF MCNext, Rest, pairVars, Pair!vars, Pair!fixed, Pair!pairing, Pair!hardware,
       Pair!history, Pair!slots

\* The part starts as Pairing does.
LEMMA PairInit == ASSUME MCInit, part = "pairing" PROVE Pair!Init
BY DEF MCInit

PairStates == {"NotPairing", "Discovering", "FindingPasskey", "Pairing"}
PairReports ==
    [type : {"passkey", "discoverEnded", "pairEnded"}]
        \cup [type : {"discovered"}, device : Candidates, seq : Nat \ {0}, part : Nat,
              length : Nat]

PairTypes ==
    /\ bolt \in BOOLEAN /\ names \in [Candidates -> Nat]
    /\ state \in PairStates /\ last_state \in PairStates
    /\ event \in [device : Candidates \cup {NoDevice}, seq : Nat, length : Nat,
                  parts : SUBSET Nat]
    /\ call \in {"none", "start", "stop"}
    /\ receiver \in {"idle", "discovering", "pairing", "passkey"}
    /\ reports \in Seq(PairReports) /\ sent \in Nat /\ timeouts \in Nat
    /\ raced \in BOOLEAN /\ failed \in BOOLEAN

IsBlock(r) == r.type = "discovered" /\ r.part > 0

\* The blocks of a name come one after the other, after the report that begins it.
BlocksInOrder ==
    \A i \in DOMAIN reports :
        i > 1 /\ IsBlock(reports[i]) =>
            /\ reports[i - 1].type = "discovered"
            /\ reports[i - 1].part = reports[i].part - 1
            /\ reports[i - 1].seq = reports[i].seq
            /\ reports[i - 1].length = reports[i].length

\* The block at the head is the one the name that is put together lacks.
NextBlockFits ==
    state = "Discovering" /\ reports # <<>> =>
        LET r == Head(reports) IN
        IsBlock(r) /\ event.seq = r.seq =>
            /\ event.parts = 1 .. r.part - 1
            /\ r.part > 1 => event.length = r.length

Whole(e) ==
    \A i \in 1 .. e.length :
        \E p \in e.parts : i \in (p - 1) * BlockSize + 1 .. p * BlockSize

\* The name of the device that is paired is whole, and is the one announced.
NameIsWhole ==
    /\ bolt /\ state \in {"FindingPasskey", "Pairing"} => Whole(event)
    /\ bolt /\ state = "Pairing" => ready = event

PairOrderly == ~raced /\ ~failed

\* A call that is not yet sent has set the state, and nobody has since.
CallHasState ==
    PairOrderly =>
        /\ call = "start" => state = IF bolt THEN "Discovering" ELSE "Pairing"
        /\ call = "stop" => state = "NotPairing"

IsReported(kind) == \E i \in DOMAIN reports : reports[i].type = kind

\* The receiver does what the state says, or has reported that it ended, or is
\* about to be asked.
ReceiverFollows ==
    PairOrderly =>
        /\ state = "NotPairing"
           /\ (call = "none" \/ (call = "stop" /\ last_state = "NotPairing")) =>
              receiver = "idle"
        /\ state = "Discovering" /\ call = "none" =>
              receiver = "discovering" \/ (receiver = "idle" /\ IsReported("discoverEnded"))
        /\ state \in {"FindingPasskey", "Pairing"} /\ call = "none" =>
              \/ event \in tasks
              \/ receiver \in {"pairing", "passkey"}
              \/ receiver = "idle" /\ IsReported("pairEnded")

\* What the receiver pairs with is the device whose name was found.
TargetIsEvents ==
    PairOrderly /\ bolt /\ state \in {"FindingPasskey", "Pairing"}
        /\ receiver \in {"pairing", "passkey"} => target = event.device

\* The search has handed on every device below the slot it is at.
SearchedBelow ==
    /\ paired \subseteq PairSlots /\ slot \in Nat
    /\ timeouts = 0 =>
          /\ handed = {s \in paired : s < slot} /\ found = Cardinality(handed)
          /\ count = IF slot = 0 THEN 0 ELSE Cardinality(paired)

PairInv ==
    /\ PairTypes /\ BlocksInOrder /\ NextBlockFits /\ NameIsWhole /\ CallHasState
    /\ ReceiverFollows /\ TargetIsEvents /\ SearchedBelow

PairOk == part = "pairing" => PairInv


\* The operators of the library are the same; the slots are numbered.
LEMMA PairLibrary ==
    /\ \A S : Pair!Cardinality(S) = Cardinality(S) /\ (Pair!IsFiniteSet(S) <=> IsFiniteSet(S))
    /\ IsFiniteSet(PairSlots) /\ PairSlots = 1 .. Cardinality(PairSlots)
<1>1. \A S : Pair!Cardinality(S) = Cardinality(S)
    BY Zenon DEF Pair!Cardinality, Cardinality
<1>2. \A S : Pair!IsFiniteSet(S) <=> IsFiniteSet(S)
    BY Zenon DEF Pair!IsFiniteSet, IsFiniteSet
<1> QED BY <1>1, <1>2, ComponentsAssumption DEF Pair!PairingAssumption

\* The invariant holds at the start.
LEMMA PairInitInv == ASSUME Pair!Init PROVE PairInv
<1> USE ComponentsAssumption DEF Pair!PairingAssumption, Pair!Init
<1>1. PairTypes
    <2>1. bolt \in BOOLEAN /\ names \in [Candidates -> Nat]
        BY DEF Pair!Init
    <2>2. /\ event = Pair!NoEvent /\ state = "NotPairing" /\ last_state = "NotPairing"
          /\ call = "none" /\ receiver = "idle" /\ reports = <<>> /\ sent = 0 /\ timeouts = 0
          /\ raced = FALSE /\ failed = FALSE
        BY DEF Pair!Init
    <2>3. event \in [device : Candidates \cup {NoDevice}, seq : Nat, length : Nat,
                    parts : SUBSET Nat]
        BY <2>2 DEF Pair!NoEvent
    <2>4. reports \in Seq(PairReports)
        BY <2>2
    <2>5. state \in PairStates /\ last_state \in PairStates
        BY <2>2 DEF PairStates
    <2> HIDE DEF Pair!Init
    <2> QED BY <2>1, <2>2, <2>3, <2>4, <2>5 DEF PairTypes
<1>2. BlocksInOrder /\ NextBlockFits /\ NameIsWhole /\ CallHasState /\ ReceiverFollows
          /\ TargetIsEvents
    BY DEF BlocksInOrder, NextBlockFits, NameIsWhole, CallHasState, ReceiverFollows,
        TargetIsEvents
<1>3. SearchedBelow
    <2>1. /\ paired \subseteq PairSlots /\ handed = {} /\ found = 0 /\ count = 0
          /\ slot = 0 \/ (paired = {} /\ slot = Pair!Cardinality(PairSlots) + 1)
        OBVIOUS
    <2>2. Pair!Cardinality(PairSlots) = Cardinality(PairSlots) /\ Pair!IsFiniteSet(PairSlots)
        BY PairLibrary
    <2>3. IsFiniteSet(PairSlots) /\ Cardinality(PairSlots) \in Nat
        BY PairLibrary, FS_CardinalityType
    <2>4. slot \in Nat /\ {s \in paired : s < slot} = {}
        <3>1. \A s \in PairSlots : s \in Nat /\ s > 0
            BY <2>2, <2>3
        <3> QED BY <2>1, <2>2, <2>3, <3>1
    <2>5. Cardinality({}) = 0
        BY FS_EmptySet
    <2> QED BY <2>1, <2>4, <2>5 DEF SearchedBelow
<1> QED BY <1>1, <1>2, <1>3 DEF PairInv

\* Reports are told and wait behind those that are there.
PairGrows ==
    /\ reports' \in Seq(PairReports) /\ BlocksInOrder'
    /\ \A i \in DOMAIN reports : i \in DOMAIN reports' /\ reports'[i] = reports[i]
    /\ reports' # <<>> => Head(reports') = reports'[1] /\ 1 \in DOMAIN reports'
    /\ reports' # <<>> /\ reports = <<>> => ~IsBlock(reports'[1])
    /\ reports # <<>> => Head(reports) = reports[1] /\ 1 \in DOMAIN reports

\* A queue that stays the same.
LEMMA SameReports ==
    ASSUME PairTypes, BlocksInOrder, UNCHANGED reports PROVE PairGrows
BY DEF PairTypes, PairGrows, BlocksInOrder

\* A report that is no block is added.
LEMMA OneMoreReport ==
    ASSUME PairTypes, BlocksInOrder,
           NEW r \in [type : {"passkey", "discoverEnded", "pairEnded"}],
           reports' = Append(reports, r)
    PROVE  PairGrows
<1>1. r \in PairReports /\ ~IsBlock(r)
    BY DEF PairReports, IsBlock
<1>2. /\ reports' \in Seq(PairReports) /\ Len(reports) \in Nat
      /\ Len(reports') = Len(reports) + 1 /\ reports'[Len(reports) + 1] = r
      /\ \A i \in DOMAIN reports : i \in DOMAIN reports' /\ reports'[i] = reports[i]
    BY <1>1 DEF PairTypes
<1>3. BlocksInOrder'
    <2> SUFFICES ASSUME NEW i \in DOMAIN reports', i > 1, IsBlock(reports'[i])
                 PROVE  /\ i - 1 \in DOMAIN reports /\ i \in DOMAIN reports
        BY <1>2 DEF BlocksInOrder
    <2> QED BY <1>1, <1>2 DEF PairTypes
<1> QED BY <1>1, <1>2, <1>3 DEF PairGrows, PairTypes

\* A natural number divided by a positive one.
LEMMA QuotientIsNatural ==
    ASSUME NEW a \in Nat, NEW b \in Nat \ {0} PROVE a \div b \in Nat
<1>1. a \div b \in Int
    OBVIOUS
<1>2. a \div b >= 0
    OBVIOUS
<1> QED BY <1>1, <1>2

\* A name is added block after block.
LEMMA DiscoveredQueue ==
    ASSUME PairTypes, BlocksInOrder, Pair!Discovered PROVE PairGrows
<1> USE ComponentsAssumption DEF Pair!PairingAssumption
<1>1. PICK d \in Candidates : reports' = reports \o
              [p \in 1..(1 + (names[d] + BlockSize - 1) \div BlockSize) |->
                  [type |-> "discovered", device |-> d, seq |-> sent + 1,
                   part |-> p - 1, length |-> names[d]]]
    BY DEF Pair!Discovered
<1> DEFINE n == 1 + (names[d] + BlockSize - 1) \div BlockSize
           block(p) == [type |-> "discovered", device |-> d, seq |-> sent + 1,
                        part |-> p - 1, length |-> names[d]]
           new == [p \in 1 .. n |-> block(p)]
<1>2. n \in Nat /\ n > 0
    <2>1. names[d] + BlockSize - 1 \in Nat /\ BlockSize \in Nat \ {0}
        BY DEF PairTypes
    <2>2. (names[d] + BlockSize - 1) \div BlockSize \in Nat
        BY <2>1, QuotientIsNatural
    <2> QED BY <2>2
<1> HIDE DEF n
<1>3. \A p \in 1 .. n : block(p) \in PairReports
    BY DEF PairTypes, PairReports
<1>4. new \in Seq(PairReports) /\ Len(new) = n
    BY <1>2, <1>3
<1>5. reports' = reports \o new
    BY <1>1 DEF n
<1> HIDE DEF new
<1>6. /\ reports' \in Seq(PairReports) /\ Len(reports) \in Nat
      /\ Len(reports') = Len(reports) + n
      /\ \A i \in DOMAIN reports : i \in DOMAIN reports' /\ reports'[i] = reports[i]
      /\ \A p \in 1 .. n : reports'[Len(reports) + p] = new[p]
    <2>1. reports \in Seq(PairReports) /\ Len(reports) \in Nat /\ DOMAIN reports = 1 .. Len(reports)
        BY DEF PairTypes
    <2>2. /\ reports' \in Seq(PairReports) /\ Len(reports') = Len(reports) + n
          /\ \A i \in 1 .. Len(reports) + n :
                reports'[i] = IF i <= Len(reports) THEN reports[i] ELSE new[i - Len(reports)]
        BY <2>1, <1>4, <1>5, ConcatProperties
    <2>3. \A p \in 1 .. n :
             /\ Len(reports) + p \in 1 .. Len(reports) + n /\ ~(Len(reports) + p <= Len(reports))
             /\ (Len(reports) + p) - Len(reports) = p
        BY <2>1, <1>2
    <2>4. DOMAIN reports' = 1 .. Len(reports) + n
        BY <2>2
    <2> QED BY <2>1, <2>2, <2>3, <2>4, <1>2
<1>7. \A p \in 1 .. n : /\ reports'[Len(reports) + p].type = "discovered"
                        /\ reports'[Len(reports) + p].part = p - 1
                        /\ reports'[Len(reports) + p].seq = sent + 1
                        /\ reports'[Len(reports) + p].length = names[d]
    <2> TAKE p \in 1 .. n
    <2>1. new[p] = block(p)
        BY DEF new
    <2> QED BY <2>1, <1>6
<1>8. BlocksInOrder'
    <2> SUFFICES ASSUME NEW i \in DOMAIN reports', i > 1, IsBlock(reports'[i])
                 PROVE  /\ reports'[i - 1].type = "discovered"
                        /\ reports'[i - 1].part = reports'[i].part - 1
                        /\ reports'[i - 1].seq = reports'[i].seq
                        /\ reports'[i - 1].length = reports'[i].length
        BY DEF BlocksInOrder
    <2>1. CASE i \in DOMAIN reports
        <3>1. i - 1 \in DOMAIN reports
            BY <2>1 DEF PairTypes
        <3> QED BY <2>1, <3>1, <1>6 DEF BlocksInOrder
    <2>2. CASE i \notin DOMAIN reports
        <3> DEFINE p == i - Len(reports)
        <3>1. p \in 1 .. n /\ i = Len(reports) + p
            BY <2>2, <1>2, <1>6 DEF PairTypes
        <3>2. p # 1
            BY <3>1, <1>7 DEF IsBlock
        <3>3. p - 1 \in 1 .. n /\ i - 1 = Len(reports) + (p - 1)
            BY <3>1, <3>2, <1>2, <1>6
        <3> HIDE DEF p
        <3> QED BY <3>1, <3>3, <1>7
    <2> QED BY <2>1, <2>2
<1>9. reports = <<>> => 1 \in 1 .. n /\ ~IsBlock(reports'[1])
    BY <1>2, <1>6, <1>7 DEF IsBlock
<1> QED BY <1>6, <1>8, <1>9 DEF PairGrows, PairTypes

\* Every step but that of a handler lets the queue grow, or leaves it.
PairOthers ==
    \/ Pair!Discovered \/ Pair!AsksPasskey \/ Pair!Ends \/ Pair!StartPair \/ Pair!StopPair
    \/ Pair!SendCall \/ Pair!StartBoltPairing \/ Pair!GetDeviceCount \/ Pair!ReadSlot

\* No such step takes a report away.
LEMMA OthersQueue ==
    ASSUME PairTypes, BlocksInOrder, PairOthers PROVE PairGrows
<1>1. ASSUME NEW does \in {"idle", "discovering", "pairing"}, NEW who, Pair!Request(does, who)
      PROVE  PairGrows
    <2>1. Pair!Ended \in [type : {"passkey", "discoverEnded", "pairEnded"}]
        BY DEF Pair!Ended
    <2>2. UNCHANGED reports \/ reports' = Append(reports, Pair!Ended)
        BY <1>1 DEF Pair!Request, Pair!Tell
    <2> QED BY <2>1, <2>2, SameReports, OneMoreReport
<1>2. CASE Pair!Discovered
    BY <1>2, DiscoveredQueue
<1>3. CASE Pair!AsksPasskey
    BY <1>3, OneMoreReport DEF Pair!AsksPasskey, Pair!Tell
<1>4. CASE Pair!Ends
    <2>1. Pair!Ended \in [type : {"passkey", "discoverEnded", "pairEnded"}]
        BY DEF Pair!Ended
    <2> QED BY <1>4, <2>1, OneMoreReport DEF Pair!Ends, Pair!Tell
<1>5. CASE Pair!SendCall
    BY <1>1, <1>5, SameReports DEF Pair!SendCall
<1>6. CASE Pair!StartBoltPairing
    BY <1>1, <1>6 DEF Pair!StartBoltPairing
<1>7. CASE Pair!StartPair \/ Pair!StopPair \/ Pair!GetDeviceCount \/ Pair!ReadSlot
    BY <1>7, SameReports DEF Pair!StartPair, Pair!StopPair, Pair!GetDeviceCount,
        Pair!ReadSlot, Pair!hardware
<1> QED BY <1>2, <1>3, <1>4, <1>5, <1>6, <1>7 DEF PairOthers

\* The first report is taken, and what follows it fits.
LEMMA HandleQueue ==
    ASSUME PairTypes, BlocksInOrder, Pair!Handle
    PROVE  /\ reports' \in Seq(PairReports) /\ BlocksInOrder'
           /\ Head(reports) = reports[1] /\ reports[1] \in PairReports
           /\ \A kind : IsReported(kind) /\ reports[1].type # kind => IsReported(kind)'
           /\ reports' # <<>> /\ IsBlock(Head(reports')) =>
                 /\ reports[1].type = "discovered"
                 /\ reports[1].part = Head(reports').part - 1
                 /\ reports[1].seq = Head(reports').seq
                 /\ reports[1].length = Head(reports').length
<1>1. reports # <<>> /\ reports' = Tail(reports) /\ reports \in Seq(PairReports)
    BY DEF Pair!Handle, PairTypes
<1>2. /\ Len(reports) \in Nat \ {0} /\ Head(reports) = reports[1] /\ reports[1] \in PairReports
      /\ reports' \in Seq(PairReports) /\ Len(reports') = Len(reports) - 1
      /\ \A i \in DOMAIN reports' :
            i \in Nat /\ i + 1 \in DOMAIN reports /\ reports'[i] = reports[i + 1]
    BY <1>1, TailFacts
<1>3. BlocksInOrder'
    <2> SUFFICES ASSUME NEW i \in DOMAIN reports', i > 1, IsBlock(reports'[i])
                 PROVE  /\ reports'[i - 1].type = "discovered"
                        /\ reports'[i - 1].part = reports'[i].part - 1
                        /\ reports'[i - 1].seq = reports'[i].seq
                        /\ reports'[i - 1].length = reports'[i].length
        BY DEF BlocksInOrder
    <2>1. i - 1 \in DOMAIN reports' /\ (i - 1) + 1 = i /\ i + 1 > 1 /\ (i + 1) - 1 = i
        BY <1>2
    <2>2. reports'[i] = reports[i + 1] /\ reports'[i - 1] = reports[i] /\ i + 1 \in DOMAIN reports
        BY <2>1, <1>2
    <2> HIDE <1>2
    <2> QED BY <2>1, <2>2 DEF BlocksInOrder
<1>4. ASSUME NEW kind, IsReported(kind), reports[1].type # kind PROVE IsReported(kind)'
    <2>1. PICK i \in DOMAIN reports : reports[i].type = kind
        BY <1>4 DEF IsReported
    <2>2. i # 1 /\ i - 1 \in DOMAIN reports' /\ (i - 1) + 1 = i
        BY <1>2, <1>4, <2>1 DEF PairTypes
    <2>3. reports'[i - 1] = reports[i]
        BY <1>2, <2>2
    <2> QED BY <2>1, <2>2, <2>3 DEF IsReported
<1>5. ASSUME reports' # <<>>, IsBlock(Head(reports'))
      PROVE  /\ reports[1].type = "discovered"
             /\ reports[1].part = Head(reports').part - 1
             /\ reports[1].seq = Head(reports').seq
             /\ reports[1].length = Head(reports').length
    <2>1. 1 \in DOMAIN reports' /\ Head(reports') = reports'[1]
        BY <1>2, <1>5, TailFacts
    <2>2. Head(reports') = reports[2] /\ 2 \in DOMAIN reports /\ 2 > 1 /\ 2 - 1 = 1
        BY <1>2, <2>1
    <2> QED BY <1>5, <2>2 DEF BlocksInOrder
<1> QED BY <1>2, <1>3, <1>4, <1>5

\* A request that is obeyed, and one that is lost.
LEMMA RequestFacts ==
    ASSUME PairTypes, NEW does \in {"idle", "discovering", "pairing"}, NEW who,
           Pair!Request(does, who)
    PROVE  /\ receiver' \in {"idle", "discovering", "pairing", "passkey"}
           /\ timeouts' \in Nat /\ (timeouts' = 0 => timeouts = 0) /\ failed' \in BOOLEAN
           /\ failed' \/ (receiver' = does /\ target' = who /\ UNCHANGED failed)
<1>1. /\ receiver' \in {"idle", "discovering", "pairing", "passkey"}
      /\ timeouts' \in Nat /\ (timeouts' = 0 => timeouts = 0)
    BY ComponentsAssumption DEF PairTypes, Pair!Request
<1>2. failed' \in BOOLEAN
    BY DEF PairTypes, Pair!Request
<1>3. failed' \/ (receiver' = does /\ target' = who /\ UNCHANGED failed)
    BY DEF Pair!Request
<1> QED BY <1>1, <1>2, <1>3

\* An event that is filled is one.
LEMMA EventStays ==
    ASSUME PairTypes, Pair!Handle, Pair!Fills(reports[1]), Head(reports) = reports[1],
           reports[1] \in PairReports
    PROVE  /\ event' = Pair!Fill(event, reports[1])
           /\ event' \in [device : Candidates \cup {NoDevice}, seq : Nat, length : Nat,
                          parts : SUBSET Nat]
<1> DEFINE r == reports[1]
<1>1. r.type = "discovered" /\ event' = Pair!Fill(event, r)
    BY DEF Pair!Handle, Pair!Fills, Pair!EndsPairing
<1>2. r \in [type : {"discovered"}, device : Candidates, seq : Nat \ {0}, part : Nat,
             length : Nat]
    BY <1>1 DEF PairReports
<1> HIDE DEF r
<1>3. Pair!Fill(event, r) \in [device : Candidates \cup {NoDevice}, seq : Nat, length : Nat,
                              parts : SUBSET Nat]
    BY <1>2 DEF Pair!Fill, PairTypes
<1> QED BY <1>1, <1>3 DEF r

\* What handling a report does.
LEMMA HandleCases ==
    ASSUME PairTypes, BlocksInOrder, Pair!Handle
    PROVE  /\ UNCHANGED <<bolt, names, call, last_state, receiver, target, sent, failed, timeouts,
                         paired, slot, found, count, handed>>
           /\ reports # <<>>
           /\ \/ /\ Pair!Fills(reports[1]) /\ state = "Discovering"
                 /\ event' = Pair!Fill(event, reports[1]) /\ ready' = ready
                 /\ \/ /\ Pair!Filled(event, reports[1]) /\ state' = "FindingPasskey"
                       /\ tasks' = tasks \cup {event'} /\ raced' = (raced \/ call # "none")
                    \/ UNCHANGED <<state, tasks, raced>>
              \/ /\ reports[1].type = "passkey" /\ state = "FindingPasskey" /\ state' = "Pairing"
                 /\ ready' = event /\ UNCHANGED <<event, tasks, raced>>
              \/ /\ Pair!EndsPairing(reports[1]) /\ state' = "NotPairing"
                 /\ raced' = (raced \/ receiver # "idle" \/ call # "none")
                 /\ UNCHANGED <<event, tasks, ready>>
              \/ /\ ~Pair!Fills(reports[1]) /\ ~Pair!EndsPairing(reports[1])
                 /\ UNCHANGED <<state, event, tasks, ready, raced>>
<1>1. reports[1] = Head(reports)
    BY HandleQueue
<1>2. /\ UNCHANGED <<bolt, names, call, last_state, receiver, target, sent, failed, timeouts,
                     paired, slot, found, count, handed>>
      /\ reports # <<>>
    BY DEF Pair!Handle, Pair!fixed, Pair!slots
<1> QED BY <1>1, <1>2 DEF Pair!Handle, Pair!Fills

\* Every step keeps the types.
LEMMA PairTypesKept == ASSUME PairTypes, BlocksInOrder, Pair!Next PROVE PairTypes'
<1> USE DEF PairTypes
<1>1. CASE Pair!Handle
    <2>1. state' \in PairStates
        BY <1>1, HandleCases DEF PairStates
    <2>2. event' \in [device : Candidates \cup {NoDevice}, seq : Nat, length : Nat,
                      parts : SUBSET Nat]
        <3>1. CASE Pair!Fills(reports[1])
            BY <1>1, <3>1, HandleQueue, EventStays
        <3>2. CASE ~Pair!Fills(reports[1])
            BY <1>1, <3>2, HandleCases
        <3> QED BY <3>1, <3>2
    <2>3. raced' \in BOOLEAN
        BY <1>1, HandleCases
    <2> QED BY <1>1, <2>1, <2>2, <2>3, HandleQueue, HandleCases
<1>2. CASE PairOthers
    <2>0. reports' \in Seq(PairReports)
        BY <1>2, OthersQueue DEF PairGrows
    <2>1. CASE Pair!Discovered \/ Pair!AsksPasskey \/ Pair!Ends
        BY <2>0, <2>1 DEF Pair!Discovered, Pair!AsksPasskey, Pair!Ends, Pair!fixed,
            Pair!pairing, Pair!history
    <2>2. CASE Pair!StartPair \/ Pair!StopPair
        BY <2>0, <2>2 DEF Pair!StartPair, Pair!StopPair, Pair!fixed, Pair!hardware,
            Pair!history, PairStates, Pair!NoEvent
    <2>3. CASE Pair!SendCall
        BY <2>0, <2>3, RequestFacts DEF Pair!SendCall, Pair!fixed
    <2>4. CASE Pair!StartBoltPairing
        BY <2>0, <2>4, RequestFacts DEF Pair!StartBoltPairing, Pair!fixed
    <2>5. CASE Pair!GetDeviceCount \/ Pair!ReadSlot
        BY <2>0, <2>5 DEF Pair!GetDeviceCount, Pair!ReadSlot, Pair!fixed, Pair!pairing,
            Pair!hardware, Pair!history
    <2> QED BY <1>2, <2>1, <2>2, <2>3, <2>4, <2>5 DEF PairOthers
<1> QED BY <1>1, <1>2 DEF Pair!Next, PairOthers

\* Every block is filled in after the one before it.
LEMMA NextBlockKept ==
    ASSUME PairTypes, BlocksInOrder, NextBlockFits, Pair!Next PROVE NextBlockFits'
<1>1. CASE Pair!Handle
    <2> SUFFICES ASSUME state' = "Discovering", reports' # <<>>, IsBlock(Head(reports')),
                        event'.seq = Head(reports').seq
                 PROVE  /\ event'.parts = 1 .. Head(reports').part - 1
                        /\ Head(reports').part > 1 => event'.length = Head(reports').length
        BY DEF NextBlockFits
    <2> DEFINE r == reports[1]
               s == Head(reports')
    <2>1. /\ r.type = "discovered" /\ r.part = s.part - 1 /\ r.seq = s.seq
          /\ r.length = s.length /\ r \in PairReports /\ Head(reports) = r
        BY <1>1, HandleQueue
    <2>2. /\ state = "Discovering" /\ event' = Pair!Fill(event, r) /\ reports # <<>>
        BY <1>1, <2>1, HandleCases DEF Pair!Fills, Pair!EndsPairing
    <2>3. r.part \in Nat /\ r.seq \in Nat /\ s.part > 0 /\ s.part = r.part + 1
        <3>1. s \in PairReports
            BY <1>1, HandleQueue, TailFacts
        <3> QED BY <2>1, <3>1 DEF PairReports, IsBlock
    <2> HIDE DEF r, s
    <2>4. CASE r.part = 0
        BY <2>2, <2>3, <2>4 DEF Pair!Fill, s
    <2>5. CASE r.part # 0
        <3>1. event.seq = r.seq
            BY <2>1, <2>2, <2>3, <2>5 DEF Pair!Fill, s
        <3>2. event.parts = 1 .. r.part - 1 /\ (r.part > 1 => event.length = r.length)
            BY <2>1, <2>2, <2>3, <2>5, <3>1 DEF NextBlockFits, IsBlock
        <3>3. event'.parts = event.parts \cup {r.part}
            BY <2>2, <2>5, <3>1 DEF Pair!Fill, PairTypes
        <3>4. event'.length = r.length
            BY <2>2, <2>3, <2>5, <3>1, <3>2 DEF Pair!Fill, PairTypes
        <3> QED BY <2>1, <2>3, <2>5, <3>2, <3>3, <3>4 DEF s
    <2> QED BY <2>4, <2>5
<1>2. CASE PairOthers
    <2>1. PairGrows
        BY <1>2, OthersQueue
    <2>2. UNCHANGED <<state, event>> \/ Pair!StartPair \/ Pair!StopPair
        BY <1>2 DEF PairOthers, Pair!Discovered, Pair!AsksPasskey, Pair!Ends, Pair!SendCall,
            Pair!StartBoltPairing, Pair!GetDeviceCount, Pair!ReadSlot, Pair!pairing
    <2>3. CASE UNCHANGED <<state, event>>
        BY <2>1, <2>3 DEF NextBlockFits, PairGrows
    <2>4. CASE Pair!StartPair
        <3>1. event'.seq = 0
            BY <2>4 DEF Pair!StartPair, Pair!NoEvent
        <3>2. reports' # <<>> => Head(reports') \in PairReports
            BY <2>1 DEF PairGrows
        <3> QED BY <3>1, <3>2 DEF NextBlockFits, PairReports, IsBlock
    <2>5. CASE Pair!StopPair
        BY <2>5 DEF Pair!StopPair, NextBlockFits
    <2> QED BY <2>2, <2>3, <2>4, <2>5
<1> QED BY <1>1, <1>2 DEF Pair!Next, PairOthers

\* A block that reaches beyond the end of the name completes it.
LEMMA FilledIsWhole ==
    ASSUME PairTypes, NextBlockFits, state = "Discovering", reports # <<>>,
           Pair!Filled(event, Head(reports)), Head(reports) \in PairReports,
           Head(reports).type = "discovered"
    PROVE  Whole(Pair!Fill(event, Head(reports)))
<1> USE ComponentsAssumption DEF Pair!PairingAssumption
<1> DEFINE r == Head(reports)
           e == Pair!Fill(event, r)
<1>1. r.part \in Nat /\ r.part > 0 /\ event.seq = r.seq /\ r.part * BlockSize > e.length
      /\ r.length \in Nat
    BY DEF Pair!Filled, PairReports
<1>2. event.parts = 1 .. r.part - 1 /\ (r.part > 1 => event.length = r.length)
    BY <1>1 DEF NextBlockFits, IsBlock
<1>3. e.parts = event.parts \cup {r.part} /\ e.length = r.length
    BY <1>1, <1>2 DEF Pair!Fill, PairTypes
<1> HIDE DEF e, r
<1>4. e.parts = 1 .. r.part
    <2>1. e.parts = (1 .. r.part - 1) \cup {r.part}
        BY <1>2, <1>3
    <2>2. (1 .. r.part - 1) \cup {r.part} = 1 .. r.part
        BY <1>1
    <2> QED BY <2>1, <2>2
<1>5. ASSUME NEW i \in 1 .. e.length
      PROVE  \E p \in e.parts : i \in (p - 1) * BlockSize + 1 .. p * BlockSize
    <2> DEFINE S == {p \in 1 .. r.part : i <= p * BlockSize}
    <2>0. i \in Nat /\ i > 0 /\ r.part \in 1 .. r.part /\ r.part * BlockSize \in Nat
        BY <1>1, <1>3
    <2>1. r.part \in S /\ S \subseteq Nat
        BY <1>1, <1>3, <2>0
    <2>2. PICK p \in S : \A m \in S : p <= m
        <3> HIDE DEF S
        <3> QED BY <2>1, LeastOf
    <2>3. p \in 1 .. r.part /\ i <= p * BlockSize
        BY <2>2
    <2>4. (p - 1) * BlockSize \in Nat /\ p * BlockSize \in Nat
        BY <2>3, <1>1
    <2>5. (p - 1) * BlockSize < i
        <3>1. CASE p = 1
            <4>1. (p - 1) * BlockSize = 0
                BY <3>1
            <4> QED BY <4>1, <2>0
        <3>2. CASE p # 1
            <4>3. p - 1 \in 1 .. r.part /\ ~(p <= p - 1)
                BY <2>3, <3>2, <1>1
            <4>1. p - 1 \in 1 .. r.part /\ p - 1 \notin S
                <5> HIDE DEF S
                <5> QED BY <2>2, <4>3, Zenon
            <4>2. ~(i <= (p - 1) * BlockSize)
                BY <4>1
            <4> QED BY <4>2, <2>0, <2>4
        <3> QED BY <3>1, <3>2
    <2> QED BY <2>3, <2>4, <2>5, <2>0, <1>4
<1> QED BY <1>5 DEF Whole, e, r

\* A device is paired when its name is whole.
LEMMA NameKept ==
    ASSUME PairTypes, BlocksInOrder, NextBlockFits, NameIsWhole, Pair!Next PROVE NameIsWhole'
<1> USE DEF NameIsWhole
<1>1. CASE Pair!Handle
    <2>0. Head(reports) = reports[1] /\ reports[1] \in PairReports /\ bolt' = bolt /\ reports # <<>>
        BY <1>1, HandleQueue, HandleCases
    <2>1. CASE /\ Pair!Fills(reports[1]) /\ state = "Discovering"
               /\ Pair!Filled(event, reports[1]) /\ state' = "FindingPasskey"
               /\ event' = Pair!Fill(event, reports[1])
        <3>1. Whole(event')
            BY <2>0, <2>1, FilledIsWhole DEF Pair!Fills
        <3> QED BY <2>1, <3>1 DEF Whole
    <2>2. CASE Pair!Fills(reports[1]) /\ state = "Discovering" /\ UNCHANGED state
        BY <2>2
    <2>3. CASE state = "FindingPasskey" /\ state' = "Pairing" /\ ready' = event /\ UNCHANGED event
        BY <2>0, <2>3 DEF Whole
    <2>4. CASE state' = "NotPairing"
        BY <2>4
    <2>5. CASE UNCHANGED <<state, event, ready>>
        BY <2>0, <2>5 DEF Whole
    <2> QED BY <1>1, <2>1, <2>2, <2>3, <2>4, <2>5, HandleCases
<1>2. CASE PairOthers
    <2>1. UNCHANGED <<bolt, state, event, ready>> \/ Pair!StartPair \/ Pair!StopPair
        BY <1>2 DEF PairOthers, Pair!Discovered, Pair!AsksPasskey, Pair!Ends, Pair!SendCall,
            Pair!StartBoltPairing, Pair!GetDeviceCount, Pair!ReadSlot, Pair!pairing, Pair!fixed
    <2>2. CASE Pair!StartPair \/ Pair!StopPair
        BY <2>2 DEF Pair!StartPair, Pair!StopPair, Pair!fixed
    <2>3. CASE UNCHANGED <<bolt, state, event, ready>>
        BY <2>3 DEF Whole
    <2> QED BY <2>1, <2>2, <2>3
<1> QED BY <1>1, <1>2 DEF Pair!Next, PairOthers

\* Whoever changes the state of a call under way has raced it.
LEMMA CallKept ==
    ASSUME PairTypes, BlocksInOrder, CallHasState, Pair!Next PROVE CallHasState'
<1> USE DEF CallHasState, PairOrderly
<1>1. CASE Pair!Handle
    <2>1. UNCHANGED <<bolt, call, failed>> /\ (~raced' => ~raced)
        BY <1>1, HandleCases DEF PairTypes
    <2>2. UNCHANGED state \/ (PairOrderly' => call = "none" \/ state = "FindingPasskey")
        BY <1>1, HandleCases
    <2>3. state = "FindingPasskey" /\ PairOrderly => call = "none"
        BY DEF PairTypes
    <2> QED BY <2>1, <2>2, <2>3 DEF PairTypes
<1>2. CASE Pair!StartPair \/ Pair!StopPair
    BY <1>2 DEF Pair!StartPair, Pair!StopPair, Pair!fixed, Pair!history
<1>3. CASE Pair!SendCall
    BY <1>3 DEF Pair!SendCall
<1>4. CASE Pair!StartBoltPairing
    <2>1. UNCHANGED <<bolt, call, state>> /\ (~raced' => ~raced)
        BY <1>4 DEF Pair!StartBoltPairing, Pair!fixed
    <2>2. ~failed' => ~failed
        BY <1>4, RequestFacts DEF Pair!StartBoltPairing
    <2> QED BY <2>1, <2>2
<1>5. CASE Pair!Discovered \/ Pair!AsksPasskey \/ Pair!Ends \/ Pair!GetDeviceCount \/ Pair!ReadSlot
    <2>1. UNCHANGED <<bolt, call, state, raced, failed>>
        BY <1>5 DEF Pair!Discovered, Pair!AsksPasskey, Pair!Ends, Pair!GetDeviceCount,
            Pair!ReadSlot, Pair!fixed, Pair!pairing, Pair!history
    <2> QED BY <2>1
<1> QED BY <1>1, <1>2, <1>3, <1>4, <1>5 DEF Pair!Next

\* Reports that are waiting wait on.
LEMMA StillReported ==
    ASSUME PairGrows, NEW kind, IsReported(kind) PROVE IsReported(kind)'
BY DEF PairGrows, IsReported

\* The receiver follows the state.
LEMMA ReceiverKept ==
    ASSUME PairTypes, BlocksInOrder, CallHasState, ReceiverFollows, Pair!Next
    PROVE  ReceiverFollows'
<1> USE DEF ReceiverFollows, PairOrderly
<1>1. CASE Pair!Handle
    <2>0. /\ UNCHANGED <<bolt, call, last_state, receiver, failed>> /\ (~raced' => ~raced)
          /\ \A kind : IsReported(kind) /\ reports[1].type # kind => IsReported(kind)'
        BY <1>1, HandleQueue, HandleCases DEF PairTypes
    <2>1. CASE Pair!Fills(reports[1]) /\ state = "Discovering" /\ UNCHANGED <<state, tasks, raced>>
        <3>1. reports[1].type = "discovered"
            BY <2>1 DEF Pair!Fills
        <3> QED BY <2>0, <2>1, <3>1
    <2>2. CASE state = "Discovering" /\ state' = "FindingPasskey" /\ tasks' = tasks \cup {event'}
        BY <2>2
    <2>3. CASE /\ reports[1].type = "passkey" /\ state = "FindingPasskey" /\ state' = "Pairing"
               /\ UNCHANGED <<event, tasks, raced>>
        BY <2>0, <2>3
    <2>4. CASE state' = "NotPairing" /\ raced' = (raced \/ receiver # "idle" \/ call # "none")
        BY <2>0, <2>4
    <2>5. CASE ~Pair!EndsPairing(reports[1]) /\ UNCHANGED <<state, event, tasks, ready, raced>>
        <3>1. /\ state = "Discovering" => reports[1].type # "discoverEnded"
              /\ state \in {"FindingPasskey", "Pairing"} => reports[1].type # "pairEnded"
            BY <2>5 DEF Pair!EndsPairing
        <3> QED BY <2>0, <2>5, <3>1
    <2> QED BY <1>1, <2>1, <2>2, <2>3, <2>4, <2>5, HandleCases
<1>2. CASE Pair!StartPair \/ Pair!StopPair
    <2>1. UNCHANGED <<receiver, reports, tasks, raced, failed>>
        BY <1>2 DEF Pair!StartPair, Pair!StopPair, Pair!hardware, Pair!history
    <2>2. CASE Pair!StartPair
        BY <2>2 DEF Pair!StartPair
    <2>3. CASE Pair!StopPair
        <3>1. call = "none" /\ call' = "stop" /\ last_state' = state /\ state' = "NotPairing"
            BY <2>3 DEF Pair!StopPair
        <3> QED BY <2>1, <3>1
    <2> QED BY <1>2, <2>2, <2>3
<1>3. CASE Pair!SendCall
    <2>1. call' = "none" /\ UNCHANGED <<bolt, state, event, tasks, raced>>
        BY <1>3 DEF Pair!SendCall, Pair!fixed
    <2>2. CASE call = "start"
        <3>1. failed' \/ (receiver' = (IF bolt THEN "discovering" ELSE "pairing") /\ UNCHANGED failed)
            BY <1>3, <2>2, RequestFacts DEF Pair!SendCall
        <3> QED BY <2>1, <2>2, <3>1 DEF CallHasState, PairTypes
    <2>3. CASE call = "stop" /\ last_state = "NotPairing"
        BY <1>3, <2>1, <2>3 DEF Pair!SendCall, CallHasState
    <2>4. CASE call = "stop" /\ last_state # "NotPairing"
        <3>1. failed' \/ (receiver' = "idle" /\ UNCHANGED failed)
            BY <1>3, <2>4, RequestFacts DEF Pair!SendCall
        <3> QED BY <2>1, <2>4, <3>1 DEF CallHasState
    <2> QED BY <1>3, <2>2, <2>3, <2>4 DEF Pair!SendCall, PairTypes
<1>4. CASE Pair!StartBoltPairing
    <2>1. PICK e \in tasks : /\ Pair!Request("pairing", e.device)
                             /\ raced' = (raced \/ state # "FindingPasskey" \/ event # e \/ call # "none")
                             /\ UNCHANGED <<state, call>>
        BY <1>4 DEF Pair!StartBoltPairing
    <2>2. failed' \/ (receiver' = "pairing" /\ UNCHANGED failed)
        BY <2>1, RequestFacts
    <2> QED BY <2>1, <2>2
<1>5. CASE Pair!Discovered \/ Pair!AsksPasskey \/ Pair!GetDeviceCount \/ Pair!ReadSlot
    <2>1. PairGrows
        BY <1>5, OthersQueue DEF PairOthers
    <2>2. UNCHANGED <<call, last_state, state, event, tasks, raced, failed>>
        BY <1>5 DEF Pair!Discovered, Pair!AsksPasskey, Pair!GetDeviceCount,
            Pair!ReadSlot, Pair!pairing, Pair!history
    <2>3. receiver' = receiver \/ (receiver = "pairing" /\ receiver' = "passkey")
        BY <1>5 DEF Pair!Discovered, Pair!AsksPasskey, Pair!GetDeviceCount,
            Pair!ReadSlot, Pair!hardware
    <2> QED BY <2>1, <2>2, <2>3, StillReported
<1>6. CASE Pair!Ends
    <2>1. UNCHANGED <<call, last_state, state, event, tasks, raced, failed>> /\ receiver' = "idle"
          /\ receiver # "idle" /\ reports' = Append(reports, Pair!Ended)
        BY <1>6 DEF Pair!Ends, Pair!Tell, Pair!pairing, Pair!history
    <2>2. Pair!Ended \in PairReports
        BY DEF Pair!Ended, PairReports
    <2>3. Len(reports) + 1 \in DOMAIN reports' /\ reports'[Len(reports) + 1] = Pair!Ended
        BY <2>1, <2>2 DEF PairTypes
    <2>4. \E i \in DOMAIN reports' : reports'[i].type = Pair!Ended.type
        BY <2>3
    <2>5. CASE receiver = "discovering"
        <3>1. IsReported("discoverEnded")'
            BY <2>4, <2>5 DEF Pair!Ended, IsReported
        <3> QED BY <2>1, <2>5, <3>1
    <2>6. CASE receiver # "discovering"
        <3>1. IsReported("pairEnded")'
            BY <2>4, <2>6 DEF Pair!Ended, IsReported
        <3> QED BY <2>1, <2>6, <3>1
    <2> QED BY <2>5, <2>6
<1> QED BY <1>1, <1>2, <1>3, <1>4, <1>5, <1>6 DEF Pair!Next

\* The receiver is asked to pair with the device that was found.
LEMMA TargetKept ==
    ASSUME PairTypes, BlocksInOrder, CallHasState, ReceiverFollows, TargetIsEvents, Pair!Next
    PROVE  TargetIsEvents'
<1> USE DEF TargetIsEvents, PairOrderly
<1>1. CASE Pair!Handle
    <2>0. UNCHANGED <<bolt, call, receiver, target, failed>> /\ (~raced' => ~raced)
        BY <1>1, HandleCases DEF PairTypes
    <2>1. CASE state = "Discovering" /\ UNCHANGED state
        BY <2>1
    <2>2. CASE state = "Discovering" /\ raced' = (raced \/ call # "none")
        <3>1. PairOrderly' => receiver \in {"discovering", "idle"}
            BY <2>0, <2>2 DEF ReceiverFollows
        <3> QED BY <2>0, <3>1
    <2>3. CASE state = "FindingPasskey" /\ UNCHANGED <<event, raced>>
        BY <2>0, <2>3
    <2>4. CASE state' = "NotPairing"
        BY <2>4
    <2>5. CASE UNCHANGED <<state, event, raced>>
        BY <2>0, <2>5
    <2> QED BY <1>1, <2>1, <2>2, <2>3, <2>4, <2>5, HandleCases
<1>2. CASE Pair!StartPair \/ Pair!StopPair
    BY <1>2 DEF Pair!StartPair, Pair!StopPair, Pair!fixed
<1>3. CASE Pair!SendCall
    <2>1. UNCHANGED <<bolt, state, event, raced>> /\ call # "none"
        BY <1>3 DEF Pair!SendCall, Pair!fixed
    <2>2. failed' \/ UNCHANGED failed
        BY <1>3, RequestFacts DEF Pair!SendCall
    <2> QED BY <2>1, <2>2 DEF CallHasState, PairTypes
<1>4. CASE Pair!StartBoltPairing
    <2>1. PICK e \in tasks : /\ Pair!Request("pairing", e.device)
                             /\ raced' = (raced \/ state # "FindingPasskey" \/ event # e \/ call # "none")
                             /\ UNCHANGED event
        BY <1>4 DEF Pair!StartBoltPairing
    <2>2. failed' \/ target' = e.device
        BY <2>1, RequestFacts
    <2> QED BY <2>1, <2>2
<1>5. CASE Pair!Discovered \/ Pair!AsksPasskey \/ Pair!Ends \/ Pair!GetDeviceCount \/ Pair!ReadSlot
    <2>1. UNCHANGED <<bolt, state, event, raced, failed>>
        BY <1>5 DEF Pair!Discovered, Pair!AsksPasskey, Pair!Ends, Pair!GetDeviceCount,
            Pair!ReadSlot, Pair!fixed, Pair!pairing, Pair!history
    <2>2. \/ UNCHANGED <<receiver, target>>
          \/ receiver = "pairing" /\ UNCHANGED target
          \/ receiver' = "idle"
        BY <1>5 DEF Pair!Discovered, Pair!AsksPasskey, Pair!Ends, Pair!GetDeviceCount,
            Pair!ReadSlot, Pair!hardware
    <2> QED BY <2>1, <2>2
<1> QED BY <1>1, <1>2, <1>3, <1>4, <1>5 DEF Pair!Next

\* The search passes no device that answers.
LEMMA SearchKept == ASSUME PairTypes, BlocksInOrder, SearchedBelow, Pair!Next PROVE SearchedBelow'
<1> USE DEF SearchedBelow
<1>0. /\ IsFiniteSet(paired) /\ Cardinality(paired) \in Nat
      /\ \A s \in paired : s \in Nat /\ s > 0
    <2>1. Cardinality(PairSlots) \in Nat
        BY PairLibrary, FS_CardinalityType
    <2> QED BY <2>1, PairLibrary, FS_Subset, FS_CardinalityType
<1>1. CASE Pair!GetDeviceCount
    <2>1. /\ slot = 0 /\ slot' = 1 /\ UNCHANGED <<paired, found, handed>>
          /\ \/ count' = Pair!Cardinality(paired) /\ UNCHANGED timeouts
             \/ timeouts' = timeouts + 1
        BY <1>1 DEF Pair!GetDeviceCount
    <2>2. {s \in paired : s < 1} = {s \in paired : s < 0}
        BY <1>0
    <2>3. Pair!Cardinality(paired) = Cardinality(paired)
        BY PairLibrary
    <2>4. CASE UNCHANGED timeouts
        <3>1. timeouts = 0 => count' = Cardinality(paired)
            BY <2>1, <2>3, <2>4 DEF PairTypes
        <3> QED BY <2>1, <2>2, <2>4, <3>1
    <2>5. CASE timeouts' = timeouts + 1
        BY <2>1, <2>5 DEF PairTypes
    <2> QED BY <2>1, <2>4, <2>5
<1>2. CASE Pair!ReadSlot
    <2>1. slot \in PairSlots /\ slot' = slot + 1 /\ UNCHANGED <<paired, count>> /\ slot \in Nat \ {0}
        <3>1. Cardinality(PairSlots) \in Nat
            BY PairLibrary, FS_CardinalityType
        <3>2. slot \in PairSlots /\ slot' = slot + 1 /\ UNCHANGED <<paired, count>>
            BY <1>2 DEF Pair!ReadSlot
        <3> QED BY <3>1, <3>2, PairLibrary
    <2>2. CASE timeouts' = timeouts + 1
        BY <2>1, <2>2 DEF PairTypes
    <2>3. CASE slot \notin paired /\ UNCHANGED <<handed, found, timeouts>>
        <3>1. {s \in paired : s < slot + 1} = {s \in paired : s < slot}
            <4>1. \A s \in paired : s < slot + 1 <=> s < slot
                BY <1>0, <2>1, <2>3
            <4> QED BY <4>1
        <3> QED BY <2>1, <2>3, <3>1
    <2>4. CASE slot \in paired /\ handed' = handed \cup {slot} /\ found' = found + 1 /\ UNCHANGED timeouts
        <3> SUFFICES ASSUME timeouts = 0
                     PROVE  /\ handed' = {s \in paired : s < slot + 1}
                            /\ found' = Cardinality(handed')
            BY <2>1, <2>4
        <3>1. {s \in paired : s < slot + 1} = {s \in paired : s < slot} \cup {slot}
            <4>1. \A s \in paired : s < slot + 1 <=> s < slot \/ s = slot
                BY <1>0, <2>1
            <4> QED BY <4>1, <2>4
        <3>2. handed = {s \in paired : s < slot} /\ found = Cardinality(handed)
            OBVIOUS
        <3>3. handed \in SUBSET paired /\ slot \notin handed
            BY <2>1, <3>2
        <3>4. Cardinality(handed \cup {slot}) = Cardinality(handed) + 1
            BY <3>3, <1>0, FS_Subset, FS_AddElement
        <3> QED BY <2>4, <3>1, <3>2, <3>4
    <2> QED BY <1>2, <2>2, <2>3, <2>4 DEF Pair!ReadSlot
<1>3. CASE Pair!Handle \/ Pair!Discovered \/ Pair!AsksPasskey \/ Pair!Ends \/ Pair!StartPair
           \/ Pair!StopPair \/ Pair!SendCall \/ Pair!StartBoltPairing
    <2>1. UNCHANGED <<paired, slot, found, count, handed>>
        BY <1>3 DEF Pair!Handle, Pair!Discovered, Pair!AsksPasskey, Pair!Ends, Pair!StartPair,
            Pair!StopPair, Pair!SendCall, Pair!StartBoltPairing, Pair!slots
    <2>2. timeouts' = 0 => timeouts = 0
        <3>1. CASE Pair!SendCall \/ Pair!StartBoltPairing
            BY <3>1, RequestFacts DEF Pair!SendCall, Pair!StartBoltPairing
        <3>2. CASE Pair!Handle \/ Pair!Discovered \/ Pair!AsksPasskey \/ Pair!Ends
                   \/ Pair!StartPair \/ Pair!StopPair
            BY <3>2 DEF Pair!Handle, Pair!Discovered, Pair!AsksPasskey, Pair!Ends,
                Pair!StartPair, Pair!StopPair
        <3> QED BY <1>3, <3>1, <3>2
    <2> QED BY <2>1, <2>2
<1> QED BY <1>1, <1>2, <1>3 DEF Pair!Next

\* Every step of the part keeps the invariant.
LEMMA PairNextInv == ASSUME PairInv, Pair!Next \/ UNCHANGED Pair!vars PROVE PairInv'
<1>1. CASE Pair!Next
    <2>1. BlocksInOrder'
        <3>1. CASE Pair!Handle
            BY <3>1, HandleQueue DEF PairInv
        <3>2. CASE PairOthers
            BY <3>2, OthersQueue DEF PairInv, PairGrows
        <3> QED BY <1>1, <3>1, <3>2 DEF Pair!Next, PairOthers
    <2> QED BY <1>1, <2>1, PairTypesKept, NextBlockKept, NameKept, CallKept, ReceiverKept,
            TargetKept, SearchKept DEF PairInv
<1>2. CASE UNCHANGED Pair!vars
    <2> USE <1>2 DEF PairInv, Pair!vars, Pair!fixed, Pair!pairing, Pair!hardware, Pair!history,
            Pair!slots
    <2>1. PairTypes' /\ BlocksInOrder' /\ NextBlockFits' /\ NameIsWhole'
        BY DEF PairTypes, BlocksInOrder, NextBlockFits, NameIsWhole, Whole
    <2>2. CallHasState' /\ ReceiverFollows' /\ TargetIsEvents' /\ SearchedBelow'
        BY DEF CallHasState, ReceiverFollows, TargetIsEvents, SearchedBelow, PairOrderly,
            IsReported
    <2> QED BY <2>1, <2>2
<1> QED BY <1>1, <1>2

\* The receiver does what the state says, or has reported that it ended, or a
\* task is queued that asks it, unless a call, a queued start and an event met.
THEOREM PairingInvariance == MCSpec => []PairOk
<1>1. MCInit => PairOk
    BY PairInit, PairInitInv DEF PairOk
<1>2. PairOk /\ [MCNext]_allVars => PairOk'
    <2>1. CASE MCNext
        BY <2>1, PartStays, PairMove, PairNextInv DEF PairOk
    <2>2. CASE UNCHANGED allVars
        <3>1. UNCHANGED part /\ UNCHANGED Pair!vars
            BY <2>2 DEF allVars, pairVars, Pair!vars, Pair!fixed, Pair!pairing,
                Pair!hardware, Pair!history, Pair!slots
        <3> QED BY <3>1, PairNextInv DEF PairOk
    <2> QED BY <2>1, <2>2
<1> QED BY <1>1, <1>2, PTL DEF MCSpec

\* Once every report was handled and no start is queued, the pairing state is
\* what the receiver does, unless a queued start or an event overtook a call
\* or a request was lost (ReceiverMonitor.cpp, _startPair to the handlers).
THEOREM StateStaysTheReceivers == MCSpec => []StateIsTheReceivers
<1>1. ASSUME PairInv PROVE Pair!StateIsTheReceivers
    <2>1. reports = <<>> => \A kind : ~IsReported(kind)
        BY DEF IsReported
    <2> QED BY <1>1, <2>1 DEF PairInv, PairTypes, PairStates, ReceiverFollows, PairOrderly,
            Pair!StateIsTheReceivers
<1>2. PairOk => StateIsTheReceivers
    BY <1>1 DEF PairOk, StateIsTheReceivers
<1> QED BY <1>2, PairingInvariance, PTL

\* PairReady names the device the receiver pairs with, by its whole name,
\* whatever is discovered meanwhile and in however many blocks a name comes
\* (fillDeviceDiscoveryEvent() and the passkey handler).
THEOREM TargetIsNamed == MCSpec => []NamesTheTarget
<1>1. ASSUME PairInv PROVE Pair!NamesTheTarget
    BY <1>1 DEF PairInv, NameIsWhole, Whole, TargetIsEvents, PairOrderly, Pair!NamesTheTarget
<1>2. PairOk => NamesTheTarget
    BY <1>1 DEF PairOk, NamesTheTarget
<1> QED BY <1>2, PairingInvariance, PTL

\* The search hands on every device that is paired though it stops when it has
\* found as many as the receiver counts (_enumeratePairedDevices()).
THEOREM EverySlotFound == MCSpec => []EveryPairedSlot
<1>1. ASSUME PairInv PROVE Pair!EveryPairedSlot
    <2> SUFFICES ASSUME slot > 0, Pair!FoundAll \/ slot \notin PairSlots, timeouts = 0
                 PROVE  handed = paired
        BY DEF Pair!EveryPairedSlot
    <2>1. /\ paired \subseteq PairSlots /\ slot \in Nat
          /\ handed = {s \in paired : s < slot} /\ found = Cardinality(handed)
          /\ count = Cardinality(paired)
        BY <1>1 DEF PairInv, SearchedBelow
    <2>2. IsFiniteSet(paired) /\ Cardinality(PairSlots) \in Nat
        BY <2>1, PairLibrary, FS_Subset, FS_CardinalityType
    <2>3. handed \in SUBSET paired
        BY <2>1
    <2>4. CASE Pair!FoundAll
        <3>1. /\ Cardinality(handed) \in Nat /\ Cardinality(paired) \in Nat
              /\ Cardinality(handed) <= Cardinality(paired)
              /\ Cardinality(handed) = Cardinality(paired) => handed = paired
            BY <2>2, <2>3, FS_Subset, FS_CardinalityType
        <3>2. found >= count
            BY <2>4 DEF Pair!FoundAll
        <3> QED BY <2>1, <3>1, <3>2
    <2>5. CASE slot \notin PairSlots
        <3>1. \A s \in PairSlots : s < slot
            BY <2>1, <2>2, <2>5, PairLibrary
        <3> QED BY <2>1, <3>1
    <2> QED BY <2>4, <2>5
<1>2. PairOk => EveryPairedSlot
    BY <1>1 DEF PairOk, EveryPairedSlot
<1> QED BY <1>2, PairingInvariance, PTL

(***************************************************************************)
(* VirtualKeyboard: no event is lost and no key stays down.                *)
(***************************************************************************)

\* While the part is explored, its steps are those of VirtualKeyboard.
LEMMA KeyboardMove ==
    ASSUME MCNext, part = "keyboard"
    PROVE  part' = part /\ (Keyboard!Next \/ UNCHANGED Keyboard!vars)
BY DEF MCNext, Rest, Keyboard!vars, keyboardVars

\* The part starts as VirtualKeyboard does.
LEMMA KeyboardInit == ASSUME MCInit, part = "keyboard" PROVE Keyboard!Init
BY DEF MCInit

Writers == {"io", "ipc", "worker"}
KeyActs == {"keypress", "new keypress", "axis"}
KeyCodes == {"KEY_A", "KEY_B", "KEY_MACRO1", "REL_MISC", "KEY_NONE"}
CodeCalls == {"press", "release", "move", "register", "enable", "note", "use"}
CallReturn == [call |-> "return"]
KeyCalls ==
    [call : CodeCalls, act : KeyActs, code : KeyCodes]
        \cup [call : {"clear"}, act : KeyActs] \cup {CallReturn}

Members(s) == {s[i] : i \in DOMAIN s}

\* The calls a thread has to make, and the codes of an action.
Pends(t) == Members(job[t])
KeysOf(a) == Members(keys[a])

\* The fields of the keyboard, its actions and their threads have their types.
KeyTypes ==
    /\ job \in [Writers -> Seq(KeyCalls)] /\ busy \in [Writers -> KeyActs \cup {"free"}]
    /\ keys \in [KeyActs -> Seq(KeyCodes)] /\ typed \in [KeyActs -> SUBSET KeyCodes]
    /\ keying \subseteq KeyActs \ {"axis"}

\* A job returns at its end, and starts with the keys it lets go of.
JobIsOrdered(s) ==
    /\ \A i \in DOMAIN s : s[i].call = "return" => i = Len(s)
    /\ \A i, j \in DOMAIN s : i < j /\ s[j].call = "release" => s[i].call = "release"
JobsAreOrdered == \A t \in Writers : JobIsOrdered(job[t])

\* A job is about the action whose mutex its thread has, and which calls it makes
\* depends on the thread.
JobsAreOwned ==
    /\ \A t \in Writers : \A c \in Pends(t) : c.call # "return" => c.act = busy[t]
    /\ \A t, u \in Writers : busy[t] = busy[u] => t = u \/ busy[t] = "free"
    /\ \A c \in Pends("io") : c.call \in {"press", "release", "move", "return"}
    /\ \A t \in {"ipc", "worker"} : \A c \in Pends(t) : c.call \notin {"press", "move"}

\* What an action may send was declared when the device was made.
CodesAreDeclared ==
    /\ registered \subseteq enabled /\ (kernel = enabled \/ kernel = {}) /\ dropped = {}
    /\ \A a \in KeyActs : KeysOf(a) \subseteq enabled
    /\ \A c \in Pends("io") : c.call \in {"press", "move"} => c.code \in enabled
    /\ \A t \in Writers : \A c \in Pends(t) :
          c.call \in {"note", "use"} =>
              \/ c.code \in enabled
              \/ Head(job[t]).call = "enable" /\ Head(job[t]).code = c.code

\* What is still to be pressed are keys of an action that is pressed.
PressesAreKeys ==
    \A c \in Pends("io") : c.call = "press" => c.act \in keying /\ c.code \in KeysOf(c.act)

\* A key that was pressed for an action will be let go of with it ...
ToRelease(a, k) == \E t \in Writers : [call |-> "release", act |-> a, code |-> k] \in Pends(t)
ToClear(a) == \E t \in Writers : [call |-> "clear", act |-> a] \in Pends(t)
TypedIsKnown ==
    \A a \in KeyActs : \A k \in typed[a] :
        /\ k \in down \cup undone
        /\ ToRelease(a, k) \/ (a \in keying /\ k \in KeysOf(a) /\ ~ToClear(a))

\* ... and no other key is down.
DownIsTyped == \A k \in down : \E a \in KeyActs : k \in typed[a]

KeyInv ==
    /\ KeyTypes /\ JobsAreOrdered /\ JobsAreOwned /\ CodesAreDeclared
    /\ PressesAreKeys /\ TypedIsKnown /\ DownIsTyped

KeyOk == part = "keyboard" => KeyInv
-----------------------------------------------------------------------------
\* What a job becomes when its first call is made ...
LEMMA JobTail ==
    ASSUME NEW s \in Seq(KeyCalls), s # <<>>, JobIsOrdered(s)
    PROVE  /\ Head(s) \in KeyCalls /\ Tail(s) \in Seq(KeyCalls) /\ JobIsOrdered(Tail(s))
           /\ Members(s) = {Head(s)} \cup Members(Tail(s))
           /\ Head(s).call = "return" => Members(Tail(s)) = {}
           /\ Head(s).call # "release" => \A c \in Members(s) : c.call # "release"
<1> DEFINE u == Tail(s)
<1>1. PICK n \in Nat :
          /\ Len(s) = n + 1 /\ Head(s) = s[1] /\ s[1] \in KeyCalls /\ DOMAIN s = 1 .. n + 1
          /\ u \in Seq(KeyCalls) /\ Len(u) = n /\ DOMAIN u = 1 .. n
          /\ \A i \in 1 .. n : u[i] = s[i + 1]
    <2> DEFINE m == Len(s) - 1
    <2>1. m \in Nat /\ Len(s) = m + 1
        BY TailFacts
    <2>2. Head(s) = s[1] /\ s[1] \in KeyCalls /\ u \in Seq(KeyCalls) /\ Len(u) = m
          /\ DOMAIN u = 1 .. m /\ DOMAIN s = 1 .. Len(s)
        BY TailFacts, LenProperties
    <2>3. \A i \in 1 .. m : u[i] = s[i + 1]
        BY TailFacts, <2>2
    <2> HIDE DEF m, u
    <2> QED BY <2>1, <2>2, <2>3
<1> HIDE DEF u
<1>2. JobIsOrdered(u)
    <2>1. \A i \in 1 .. n : i + 1 \in 1 .. n + 1 /\ (i + 1 = n + 1 => i = n)
        BY <1>1
    <2>2. \A i, j \in 1 .. n : i < j => i + 1 < j + 1
        BY <1>1
    <2>3. \A i \in 1 .. n : u[i].call = "return" => i = n
        BY <1>1, <2>1 DEF JobIsOrdered
    <2>4. \A i, j \in 1 .. n : i < j /\ u[j].call = "release" => u[i].call = "release"
        <3>1. ASSUME NEW i \in 1 .. n, NEW j \in 1 .. n, i < j, u[j].call = "release"
              PROVE  u[i].call = "release"
            <4>1. u[i] = s[i + 1] /\ u[j] = s[j + 1] /\ i + 1 \in DOMAIN s /\ j + 1 \in DOMAIN s
                BY <1>1, <2>1
            <4>2. i + 1 < j + 1
                BY <2>2, <3>1
            <4> QED BY <3>1, <4>1, <4>2 DEF JobIsOrdered
        <3> QED BY <3>1
    <2> QED BY <1>1, <2>3, <2>4 DEF JobIsOrdered
<1>3. Members(s) = {Head(s)} \cup Members(u)
    <2>1. \A i \in 1 .. n + 1 : i = 1 \/ (i - 1 \in 1 .. n /\ (i - 1) + 1 = i)
        BY <1>1
    <2>2. \A i \in 1 .. n : i + 1 \in 1 .. n + 1
        BY <1>1
    <2>3. 1 \in 1 .. n + 1
        BY <1>1
    <2>4. \A i \in 1 .. n + 1 : s[i] = Head(s) \/ \E j \in 1 .. n : s[i] = u[j]
        BY <1>1, <2>1
    <2>5. \A i \in 1 .. n : \E j \in 1 .. n + 1 : u[i] = s[j]
        BY <1>1, <2>2
    <2>6. \E j \in 1 .. n + 1 : Head(s) = s[j]
        BY <1>1, <2>3
    <2>7. ASSUME NEW c \in Members(s) PROVE c = Head(s) \/ c \in Members(u)
        <3>1. PICK i \in 1 .. n + 1 : c = s[i]
            BY <1>1, <2>7 DEF Members
        <3> QED BY <1>1, <2>4, <3>1 DEF Members
    <2>8. ASSUME NEW c \in Members(u) PROVE c \in Members(s)
        <3>1. PICK i \in 1 .. n : c = u[i]
            BY <1>1, <2>8 DEF Members
        <3> QED BY <1>1, <2>5, <3>1 DEF Members
    <2>9. Head(s) \in Members(s)
        BY <1>1, <2>6, Zenon DEF Members
    <2> QED BY <2>7, <2>8, <2>9
<1>4. ASSUME Head(s).call = "return" PROVE Members(u) = {}
    <2>1. 1 \in 1 .. n + 1 /\ 1 \in DOMAIN s
        BY <1>1
    <2>2. 1 = n + 1
        BY <1>1, <1>4, <2>1 DEF JobIsOrdered
    <2>3. DOMAIN u = {}
        BY <1>1, <2>2
    <2> QED BY <2>3 DEF Members
<1>5. ASSUME Head(s).call # "release" PROVE \A c \in Members(s) : c.call # "release"
    <2>1. ASSUME NEW i \in 1 .. n + 1, s[i].call = "release" PROVE FALSE
        <3>1. i # 1 /\ 1 < i /\ 1 \in 1 .. n + 1
            BY <1>1, <1>5, <2>1
        <3> QED BY <1>1, <1>5, <2>1, <3>1 DEF JobIsOrdered
    <2> QED BY <1>1, <2>1 DEF Members
<1> QED BY <1>1, <1>2, <1>3, <1>4, <1>5 DEF u

\* ... when calls come before it ...
LEMMA JobConcat ==
    ASSUME NEW p \in Seq(KeyCalls), NEW s \in Seq(KeyCalls)
    PROVE  p \o s \in Seq(KeyCalls) /\ Members(p \o s) = Members(p) \cup Members(s)
<1>1. /\ p \o s \in Seq(KeyCalls) /\ Len(p) \in Nat /\ Len(s) \in Nat
      /\ DOMAIN p = 1 .. Len(p) /\ DOMAIN s = 1 .. Len(s)
      /\ DOMAIN (p \o s) = 1 .. Len(p) + Len(s)
      /\ \A i \in 1 .. Len(p) + Len(s) :
            (p \o s)[i] = IF i <= Len(p) THEN p[i] ELSE s[i - Len(p)]
    BY ConcatProperties, LenProperties
<1>2. \A i \in 1 .. Len(p) + Len(s) : i <= Len(p) \/ i - Len(p) \in 1 .. Len(s)
    BY <1>1
<1>3. \A i \in 1 .. Len(p) : i \in 1 .. Len(p) + Len(s) /\ i <= Len(p)
    BY <1>1
<1>4. \A i \in 1 .. Len(s) : /\ Len(p) + i \in 1 .. Len(p) + Len(s)
                             /\ ~(Len(p) + i <= Len(p)) /\ (Len(p) + i) - Len(p) = i
    BY <1>1
<1>5. \A c : c \in Members(p \o s) => c \in Members(p) \cup Members(s)
    BY <1>1, <1>2 DEF Members
<1>6. \A c \in Members(p) : c \in Members(p \o s)
    BY <1>1, <1>3 DEF Members
<1>7. \A c \in Members(s) : c \in Members(p \o s)
    <2>1. \A i \in 1 .. Len(s) : s[i] = (p \o s)[Len(p) + i]
        BY <1>1, <1>4
    <2> QED BY <1>1, <1>4, <2>1 DEF Members
<1> QED BY <1>1, <1>5, <1>6, <1>7

\* ... and how they are ordered then: all of the first ones release a key, or
\* none of any.
LEMMA ConcatIsOrdered ==
    ASSUME NEW p \in Seq(KeyCalls), NEW s \in Seq(KeyCalls), JobIsOrdered(s),
           \A c \in Members(p) : c.call # "return",
           \/ \A c \in Members(p) : c.call = "release"
           \/ \A c \in Members(p) \cup Members(s) : c.call # "release"
    PROVE  JobIsOrdered(p \o s)
<1>1. /\ Len(p) \in Nat /\ Len(s) \in Nat /\ Len(p \o s) = Len(p) + Len(s)
      /\ DOMAIN p = 1 .. Len(p) /\ DOMAIN s = 1 .. Len(s)
      /\ DOMAIN (p \o s) = 1 .. Len(p) + Len(s)
      /\ \A i \in 1 .. Len(p) + Len(s) :
            (p \o s)[i] = IF i <= Len(p) THEN p[i] ELSE s[i - Len(p)]
    BY ConcatProperties, LenProperties
<1>2. \A i \in 1 .. Len(p) + Len(s) :
          i \in Int /\ (i \in 1 .. Len(p) \/ (~(i <= Len(p)) /\ i - Len(p) \in 1 .. Len(s)))
    BY <1>1
<1>3. \A i \in 1 .. Len(p) : p[i] \in Members(p)
    BY <1>1 DEF Members
<1>4. \A i \in 1 .. Len(s) : s[i] \in Members(s)
    BY <1>1 DEF Members
<1>5. ASSUME NEW i \in 1 .. Len(p) + Len(s), (p \o s)[i].call = "return"
      PROVE  i = Len(p) + Len(s)
    <2>1. ~(i \in 1 .. Len(p))
        BY <1>1, <1>3, <1>5
    <2>2. i - Len(p) \in 1 .. Len(s) /\ s[i - Len(p)].call = "return"
        BY <1>1, <1>2, <1>5, <2>1
    <2>3. i - Len(p) = Len(s)
        BY <1>1, <2>2 DEF JobIsOrdered
    <2> QED BY <1>1, <1>2, <2>3
<1>6. ASSUME NEW i \in 1 .. Len(p) + Len(s), NEW j \in 1 .. Len(p) + Len(s), i < j,
             (p \o s)[j].call = "release"
      PROVE  (p \o s)[i].call = "release"
    <2>1. CASE \A c \in Members(p) : c.call = "release"
        <3>1. CASE i \in 1 .. Len(p)
            BY <1>1, <1>3, <2>1, <3>1
        <3>2. CASE ~(i \in 1 .. Len(p))
            <4>1. /\ i - Len(p) \in 1 .. Len(s) /\ j - Len(p) \in 1 .. Len(s)
                  /\ i - Len(p) < j - Len(p) /\ ~(i <= Len(p)) /\ ~(j <= Len(p))
                BY <1>1, <1>2, <1>6, <3>2
            <4> QED BY <1>1, <1>6, <4>1 DEF JobIsOrdered
        <3> QED BY <3>1, <3>2
    <2>2. CASE \A c \in Members(p) \cup Members(s) : c.call # "release"
        <3>1. (p \o s)[j] \in Members(p) \cup Members(s)
            BY <1>1, <1>2, <1>3, <1>4
        <3> QED BY <1>6, <2>2, <3>1
    <2> QED BY <2>1, <2>2
<1> QED BY <1>1, <1>5, <1>6 DEF JobIsOrdered

\* A job begins with the keys to release, and returns.
LEMMA JobBegins ==
    ASSUME NEW r \in Seq(KeyCalls), NEW q \in Seq(KeyCalls),
           \A c \in Members(r) : c.call = "release",
           \A c \in Members(q) : c.call \notin {"release", "return"}
    PROVE  LET s == (r \o q) \o <<CallReturn>>
           IN  /\ s \in Seq(KeyCalls) /\ JobIsOrdered(s)
               /\ Members(s) = Members(r) \cup Members(q) \cup {CallReturn}
<1> DEFINE e == <<CallReturn>>
<1>1. e \in Seq(KeyCalls) /\ Members(e) = {CallReturn}
    <2>1. CallReturn \in KeyCalls
        BY DEF KeyCalls
    <2>2. e \in Seq(KeyCalls) /\ DOMAIN e = {1} /\ e[1] = CallReturn
        BY <2>1
    <2> QED BY <2>2 DEF Members
<1>2. CallReturn.call = "return"
    BY DEF CallReturn
<1>3. JobIsOrdered(e)
    <2>1. DOMAIN e = {1} /\ Len(e) = 1
        OBVIOUS
    <2> QED BY <2>1 DEF JobIsOrdered
<1> HIDE DEF e
<1>4. q \o e \in Seq(KeyCalls) /\ Members(q \o e) = Members(q) \cup {CallReturn}
    BY <1>1, JobConcat
<1>5. JobIsOrdered(q \o e)
    BY <1>1, <1>2, <1>3, ConcatIsOrdered
<1>6. r \o (q \o e) \in Seq(KeyCalls)
      /\ Members(r \o (q \o e)) = Members(r) \cup Members(q) \cup {CallReturn}
    <2>1. Members(r \o (q \o e)) = Members(r) \cup Members(q \o e)
        BY <1>4, JobConcat
    <2>2. r \o (q \o e) \in Seq(KeyCalls)
        BY <1>4, JobConcat
    <2> QED BY <1>4, <2>1, <2>2
<1>7. JobIsOrdered(r \o (q \o e))
    <2>1. \A c \in Members(r) : c.call # "return"
        OBVIOUS
    <2> QED BY <1>4, <1>5, <2>1, ConcatIsOrdered
<1>8. (r \o q) \o e = r \o (q \o e)
    BY <1>1, ConcatAssociative
<1> QED BY <1>6, <1>7, <1>8 DEF e

\* The calls about the codes of an action.
LEMMA CallsFacts ==
    ASSUME NEW w \in CodeCalls, NEW a \in KeyActs, NEW s \in Seq(KeyCodes)
    PROVE  /\ Keyboard!Calls(w, a, s) \in Seq(KeyCalls)
           /\ Members(Keyboard!Calls(w, a, s)) =
                  {[call |-> w, act |-> a, code |-> k] : k \in Members(s)}
<1>1. Len(s) \in Nat /\ DOMAIN s = 1 .. Len(s) /\ \A i \in 1 .. Len(s) : s[i] \in KeyCodes
    BY LenProperties, ElementOfSeq
<1> DEFINE n == Len(s)
           e == [i \in 1 .. n |-> [call |-> w, act |-> a, code |-> s[i]]]
<1>2. Keyboard!Calls(w, a, s) = e
    BY <1>1 DEF Keyboard!Calls
<1>3. \A i \in 1 .. n : [call |-> w, act |-> a, code |-> s[i]] \in KeyCalls
    BY <1>1 DEF KeyCalls
<1>4. e \in [1 .. n -> KeyCalls]
    BY <1>3
<1>5. e \in Seq(KeyCalls) /\ DOMAIN e = 1 .. n
    <2>1. n \in Nat
        BY <1>1
    <2> HIDE DEF n, e
    <2> QED BY <1>4, <2>1, SeqDef
<1>6. \A i \in 1 .. n : e[i] = [call |-> w, act |-> a, code |-> s[i]]
    OBVIOUS
<1>7. \A c : c \in Members(e) <=> c \in {[call |-> w, act |-> a, code |-> k] : k \in Members(s)}
    <2> HIDE DEF e, n
    <2> QED BY <1>1, <1>5, <1>6 DEF Members, n
<1> HIDE DEF e, n
<1> QED BY <1>2, <1>5, <1>7
-----------------------------------------------------------------------------
\* A thread makes its next call: that one and no other is done.
LEMMA CallMade ==
    ASSUME KeyTypes, JobsAreOrdered, NEW t \in Writers, job[t] # <<>>, Keyboard!Ends(t)
    PROVE  /\ job' \in [Writers -> Seq(KeyCalls)] /\ JobsAreOrdered'
           /\ \A u \in Writers : u # t => job'[u] = job[u] /\ Pends(u)' = Pends(u)
           /\ Pends(t) = {Head(job[t])} \cup Pends(t)' /\ Head(job[t]) \in KeyCalls
           /\ Head(job[t]).call = "return" => Pends(t)' = {}
           /\ Head(job[t]).call # "release" => \A c \in Pends(t) : c.call # "release"
<1>1. job[t] \in Seq(KeyCalls) /\ JobIsOrdered(job[t])
    BY DEF KeyTypes, JobsAreOrdered
<1>2. /\ Head(job[t]) \in KeyCalls /\ Tail(job[t]) \in Seq(KeyCalls) /\ JobIsOrdered(Tail(job[t]))
      /\ Members(job[t]) = {Head(job[t])} \cup Members(Tail(job[t]))
      /\ Head(job[t]).call = "return" => Members(Tail(job[t])) = {}
      /\ Head(job[t]).call # "release" => \A c \in Members(job[t]) : c.call # "release"
    BY <1>1, JobTail
<1>3. <<>> \o Tail(job[t]) = Tail(job[t])
    BY <1>2, ConcatEmptySeq
<1>4. job' = [job EXCEPT ![t] = Tail(job[t])]
    BY <1>3 DEF Keyboard!Ends, Keyboard!Then
<1>5. job' \in [Writers -> Seq(KeyCalls)] /\ job'[t] = Tail(job[t])
      /\ \A u \in Writers : u # t => job'[u] = job[u]
    BY <1>2, <1>4 DEF KeyTypes
<1>6. JobsAreOrdered'
    BY <1>2, <1>5 DEF JobsAreOrdered
<1> QED BY <1>2, <1>5, <1>6 DEF Pends

\* What a thread that made a call has yet to make is its own, and is declared.
PendingDeclared ==
    /\ \A c \in Pends("io") : c.call \in {"press", "move"} => c.code \in enabled
    /\ \A t \in Writers : \A c \in Pends(t) :
          c.call \in {"note", "use"} =>
              \/ c.code \in enabled
              \/ Head(job[t]).call = "enable" /\ Head(job[t]).code = c.code

\* A call that ends keeps the invariant of the keyboard.
LEMMA CallKeeps ==
    ASSUME KeyInv, NEW t \in Writers, job[t] # <<>>, Keyboard!Ends(t), UNCHANGED busy,
           enabled \subseteq enabled',
           Head(job[t]).call = "enable" => Head(job[t]).code \in enabled'
    PROVE  JobsAreOwned' /\ PendingDeclared'
<1>1. /\ \A u \in Writers : u # t => job'[u] = job[u] /\ Pends(u)' = Pends(u)
      /\ Pends(t)' \subseteq Pends(t)
    BY CallMade DEF KeyInv
<1>2. \A u \in Writers : Pends(u)' \subseteq Pends(u)
    BY <1>1
<1>3. "io" \in Writers /\ "ipc" \in Writers /\ "worker" \in Writers
    BY DEF Writers
<1>4. JobsAreOwned'
    BY <1>2, <1>3 DEF KeyInv, JobsAreOwned
<1>5. ASSUME NEW c \in Pends("io")', c.call \in {"press", "move"} PROVE c.code \in enabled'
    BY <1>2, <1>3, <1>5 DEF KeyInv, CodesAreDeclared
<1>6. ASSUME NEW u \in Writers, NEW c \in Pends(u)', c.call \in {"note", "use"}
      PROVE  \/ c.code \in enabled'
             \/ Head(job'[u]).call = "enable" /\ Head(job'[u]).code = c.code
    <2>1. \/ c.code \in enabled
          \/ Head(job[u]).call = "enable" /\ Head(job[u]).code = c.code
        BY <1>2, <1>6 DEF KeyInv, CodesAreDeclared
    <2>2. CASE u = t
        BY <2>1, <2>2
    <2>3. CASE u # t
        BY <1>1, <2>1, <2>3
    <2> QED BY <2>2, <2>3
<1> QED BY <1>4, <1>5, <1>6 DEF PendingDeclared

\* A step that presses no key and takes none from an action leaves what is down
\* known and what is to be pressed keys of a pressed action.
LEMMA KeysKept ==
    ASSUME KeyInv, UNCHANGED <<keying, typed>>, \A a \in KeyActs : KeysOf(a) \subseteq KeysOf(a)',
           down' \subseteq down, down \cup undone \subseteq down' \cup undone',
           \A u \in Writers : \A c \in Pends(u)' : c.call \in {"press", "clear"} => c \in Pends(u),
           \A u \in Writers : \A c \in Pends(u) : c.call = "release" => c \in Pends(u)'
    PROVE  PressesAreKeys' /\ TypedIsKnown' /\ DownIsTyped'
<1>1. PressesAreKeys'
    <2> SUFFICES ASSUME NEW c \in Pends("io")', c.call = "press"
                 PROVE  c.act \in keying' /\ c.code \in Members(keys'[c.act])
        BY DEF PressesAreKeys, KeysOf
    <2>1. c \in Pends("io")
        BY DEF Writers
    <2>2. c.act \in keying /\ c.code \in Members(keys[c.act]) /\ c.act \in KeyActs
        BY <2>1 DEF KeyInv, PressesAreKeys, KeyTypes, KeysOf
    <2> QED BY <2>2 DEF KeysOf
<1>2. ASSUME NEW a \in KeyActs, ToClear(a)' PROVE ToClear(a)
    <2>1. PICK u \in Writers : [call |-> "clear", act |-> a] \in Pends(u)'
        BY <1>2 DEF ToClear
    <2>2. [call |-> "clear", act |-> a].call = "clear"
        OBVIOUS
    <2> QED BY <2>1, <2>2 DEF ToClear
<1>3. ASSUME NEW a \in KeyActs, NEW k \in typed[a], ToRelease(a, k) PROVE ToRelease(a, k)'
    <2>1. PICK u \in Writers : [call |-> "release", act |-> a, code |-> k] \in Pends(u)
        BY <1>3 DEF ToRelease
    <2>2. [call |-> "release", act |-> a, code |-> k].call = "release"
        OBVIOUS
    <2> QED BY <2>1, <2>2 DEF ToRelease
<1>4. TypedIsKnown'
    <2> SUFFICES ASSUME NEW a \in KeyActs, NEW k \in typed'[a]
                 PROVE  /\ k \in down' \cup undone'
                        /\ \/ ToRelease(a, k)'
                           \/ a \in keying' /\ k \in KeysOf(a)' /\ ~ToClear(a)'
        BY DEF TypedIsKnown
    <2>1. k \in typed[a]
        OBVIOUS
    <2>2. /\ k \in down \cup undone
          /\ ToRelease(a, k) \/ (a \in keying /\ k \in KeysOf(a) /\ ~ToClear(a))
        BY <2>1 DEF KeyInv, TypedIsKnown
    <2> QED BY <1>2, <1>3, <2>1, <2>2
<1>5. DownIsTyped'
    BY DEF KeyInv, DownIsTyped
<1> QED BY <1>1, <1>4, <1>5

\* A thread that takes an action's mutex has a job about it, and no other has.
LEMMA JobBegun ==
    ASSUME KeyInv, NEW t \in Writers, NEW a \in KeyActs,
           NEW r \in Seq(KeyCalls), NEW q \in Seq(KeyCalls),
           \A c \in Members(r) : c.call = "release",
           \A c \in Members(r) \cup Members(q) : c.act = a,
           t = "io" => \A c \in Members(q) : c.call \in {"press", "move"} /\ c.code \in enabled,
           t # "io" => \A c \in Members(q) : c.call \in {"clear", "register"},
           Keyboard!Locks(t, a), Keyboard!Begin(t, r \o q), UNCHANGED enabled
    PROVE  /\ job' \in [Writers -> Seq(KeyCalls)] /\ busy' \in [Writers -> KeyActs \cup {"free"}]
           /\ JobsAreOrdered' /\ JobsAreOwned' /\ PendingDeclared'
           /\ Pends(t) = {} /\ Pends(t)' = Members(r) \cup Members(q) \cup {CallReturn}
           /\ \A u \in Writers : u # t => Pends(u)' = Pends(u)
           /\ \A u \in Writers : \A c \in Pends(u) : c.call = "return" \/ c.act # a
<1> DEFINE s == (r \o q) \o <<CallReturn>>
<1>1. \A c \in Members(q) : c.call \notin {"release", "return", "note", "use"}
    OBVIOUS
<1>2. s \in Seq(KeyCalls) /\ JobIsOrdered(s)
      /\ Members(s) = Members(r) \cup Members(q) \cup {CallReturn}
    BY <1>1, JobBegins
<1>3. job' = [job EXCEPT ![t] = s]
    BY DEF Keyboard!Begin, CallReturn
<1> HIDE DEF s
<1>4. /\ job' \in [Writers -> Seq(KeyCalls)] /\ job'[t] = s
      /\ \A u \in Writers : u # t => job'[u] = job[u]
    BY <1>2, <1>3 DEF KeyInv, KeyTypes
<1>5. job[t] = <<>> /\ (\A u \in Writers : busy[u] # a) /\ busy' = [busy EXCEPT ![t] = a]
    BY DEF Keyboard!Locks, Keyboard!Threads, Writers
<1>6. /\ busy' \in [Writers -> KeyActs \cup {"free"}] /\ busy'[t] = a
      /\ \A u \in Writers : u # t => busy'[u] = busy[u]
    BY <1>5 DEF KeyInv, KeyTypes
<1>7. Pends(t) = {} /\ Pends(t)' = Members(r) \cup Members(q) \cup {CallReturn}
      /\ \A u \in Writers : u # t => Pends(u)' = Pends(u)
    <2>1. DOMAIN job[t] = {}
        BY <1>5
    <2>2. Members(job[t]) = {}
        BY <2>1 DEF Members
    <2> QED BY <1>2, <1>4, <2>2 DEF Pends
<1>8. JobsAreOrdered'
    BY <1>2, <1>4 DEF KeyInv, JobsAreOrdered
<1>9. CallReturn.call = "return"
    BY DEF CallReturn
<1>10. JobsAreOwned'
    <2>1. \A u \in Writers : \A c \in Pends(u)' : c.call # "return" => c.act = busy'[u]
        BY <1>6, <1>7, <1>9 DEF KeyInv, JobsAreOwned
    <2>2. \A u, v \in Writers : busy'[u] = busy'[v] => u = v \/ busy'[u] = "free"
        BY <1>5, <1>6 DEF KeyInv, JobsAreOwned
    <2>3. \A c \in Pends("io")' : c.call \in {"press", "release", "move", "return"}
        BY <1>7, <1>9 DEF KeyInv, JobsAreOwned, Writers
    <2>4. \A u \in {"ipc", "worker"} : \A c \in Pends(u)' : c.call \notin {"press", "move"}
        BY <1>7, <1>9 DEF KeyInv, JobsAreOwned, Writers
    <2> QED BY <2>1, <2>2, <2>3, <2>4 DEF JobsAreOwned
<1>11. PendingDeclared'
    <2>1. \A c \in Pends("io")' : c.call \in {"press", "move"} => c.code \in enabled'
        <3>1. CASE t = "io"
            BY <1>7, <1>9, <3>1
        <3>2. CASE t # "io"
            BY <1>7, <3>2 DEF KeyInv, CodesAreDeclared, Writers
        <3> QED BY <3>1, <3>2
    <2>2. \A c \in Pends(t)' : c.call \notin {"note", "use"}
        BY <1>1, <1>7, <1>9
    <2>3. ASSUME NEW u \in Writers, u # t, NEW c \in Pends(u)', c.call \in {"note", "use"}
          PROVE  \/ c.code \in enabled'
                 \/ Head(job'[u]).call = "enable" /\ Head(job'[u]).code = c.code
        BY <1>4, <1>7, <2>3 DEF KeyInv, CodesAreDeclared
    <2> QED BY <2>1, <2>2, <2>3 DEF PendingDeclared
<1>12. \A u \in Writers : \A c \in Pends(u) : c.call = "return" \/ c.act # a
    BY <1>5 DEF KeyInv, JobsAreOwned
<1> QED BY <1>4, <1>6, <1>7, <1>8, <1>10, <1>11, <1>12
\* An action no thread has a job about has pressed no key unless it is pressed.
LEMMA NoneTyped ==
    ASSUME KeyInv, NEW a \in KeyActs,
           \A u \in Writers : \A c \in Pends(u) : c.call = "return" \/ c.act # a
    PROVE  \A k \in typed[a] : a \in keying /\ k \in KeysOf(a)
<1> SUFFICES ASSUME NEW k \in typed[a] PROVE ~ToRelease(a, k)
    BY DEF KeyInv, TypedIsKnown
<1>1. [call |-> "release", act |-> a, code |-> k].call = "release"
      /\ [call |-> "release", act |-> a, code |-> k].act = a
    OBVIOUS
<1> QED BY <1>1 DEF ToRelease

\* What was known of the keys is, when a thread begins a job about one action.
LEMMA BegunKeeps ==
    ASSUME KeyInv, NEW t \in Writers, NEW a \in KeyActs, UNCHANGED <<typed, down, undone>>,
           Pends(t) = {}, \A u \in Writers : u # t => Pends(u)' = Pends(u),
           \A c \in Pends(t)' : c.call = "clear" => c.act = a,
           \A u \in Writers : \A c \in Pends(u) : c.call = "return" \/ c.act # a,
           \A b \in KeyActs : b # a => KeysOf(b)' = KeysOf(b) /\ (b \in keying => b \in keying'),
           \A k \in typed[a] :
              ToRelease(a, k)' \/ (a \in keying' /\ k \in KeysOf(a)' /\ ~ToClear(a)')
    PROVE  TypedIsKnown' /\ DownIsTyped' /\ (t # "io" => PressesAreKeys')
<1>1. DownIsTyped'
    BY DEF KeyInv, DownIsTyped
<1>2. ASSUME NEW b \in KeyActs, b # a, NEW k \in typed[b]
      PROVE  ToRelease(b, k)' \/ (b \in keying' /\ k \in KeysOf(b)' /\ ~ToClear(b)')
    <2>1. ToRelease(b, k) => ToRelease(b, k)'
        BY DEF ToRelease
    <2>2. ToClear(b)' => ToClear(b)
        <3>1. [call |-> "clear", act |-> b].call = "clear" /\ [call |-> "clear", act |-> b].act = b
            OBVIOUS
        <3> QED BY <1>2, <3>1 DEF ToClear
    <2> QED BY <1>2, <2>1, <2>2 DEF KeyInv, TypedIsKnown
<1>3. \A b \in KeyActs : \A k \in typed[b] : k \in down \cup undone
    BY DEF KeyInv, TypedIsKnown
<1>4. TypedIsKnown'
    <2> SUFFICES ASSUME NEW b \in KeyActs, NEW k \in typed'[b]
                 PROVE  /\ k \in down' \cup undone'
                        /\ \/ ToRelease(b, k)'
                           \/ b \in keying' /\ k \in KeysOf(b)' /\ ~ToClear(b)'
        BY DEF TypedIsKnown
    <2>1. k \in typed[b]
        OBVIOUS
    <2> QED BY <1>2, <1>3, <2>1
<1>5. ASSUME t # "io" PROVE PressesAreKeys'
    <2> SUFFICES ASSUME NEW c \in Pends("io")', c.call = "press"
                 PROVE  c.act \in keying' /\ c.code \in Members(keys'[c.act])
        BY DEF PressesAreKeys, KeysOf
    <2>1. c \in Pends("io") /\ c.act # a
        BY <1>5 DEF Writers
    <2>2. c.act \in keying /\ c.code \in Members(keys[c.act]) /\ c.act \in KeyActs
        BY <2>1 DEF KeyInv, PressesAreKeys, KeyTypes, KeysOf
    <2> QED BY <2>1, <2>2 DEF KeysOf
<1> QED BY <1>1, <1>4, <1>5

\* No calls at all.
LEMMA NoCalls == <<>> \in Seq(KeyCalls) /\ Members(<<>>) = {}
BY DEF Members

\* What a job of the I/O thread does: it releases the keys of an action, or
\* presses or moves them.
LEMMA IOBegun ==
    ASSUME KeyInv, NEW a \in KeyActs, NEW q \in Seq(KeyCalls), \A c \in Members(q) : c.act = a,
           \/ \A c \in Members(q) : c.call = "release"
           \/ \A c \in Members(q) : c.call \in {"press", "move"} /\ c.code \in enabled,
           Keyboard!Locks("io", a), Keyboard!Begin("io", q), UNCHANGED enabled
    PROVE  /\ job' \in [Writers -> Seq(KeyCalls)] /\ busy' \in [Writers -> KeyActs \cup {"free"}]
           /\ JobsAreOrdered' /\ JobsAreOwned' /\ PendingDeclared'
           /\ Pends("io") = {} /\ Pends("io")' = Members(q) \cup {CallReturn}
           /\ \A u \in Writers : u # "io" => Pends(u)' = Pends(u)
           /\ \A u \in Writers : \A c \in Pends(u) : c.call = "return" \/ c.act # a
<1> DEFINE e == <<>>
           t == "io"
<1>1. e \in Seq(KeyCalls) /\ Members(e) = {}
    BY NoCalls
<1>2. e \o q = q /\ q \o e = q
    BY <1>1, ConcatEmptySeq
<1>3. t \in Writers
    BY DEF Writers
<1>4. Keyboard!Locks(t, a) /\ Keyboard!Begin(t, e \o q) /\ Keyboard!Begin(t, q \o e)
    BY <1>2
<1>5. t = "io"
    OBVIOUS
<1> HIDE DEF e, t
<1>6. CASE \A c \in Members(q) : c.call = "release"
    <2>1. /\ job' \in [Writers -> Seq(KeyCalls)] /\ busy' \in [Writers -> KeyActs \cup {"free"}]
          /\ JobsAreOrdered' /\ JobsAreOwned' /\ PendingDeclared'
          /\ Pends(t) = {} /\ Pends(t)' = Members(q) \cup Members(e) \cup {CallReturn}
          /\ \A u \in Writers : u # t => Pends(u)' = Pends(u)
          /\ \A u \in Writers : \A c \in Pends(u) : c.call = "return" \/ c.act # a
        BY <1>1, <1>3, <1>4, <1>5, <1>6, JobBegun
    <2> QED BY <1>1, <1>5, <2>1
<1>7. CASE \A c \in Members(q) : c.call \in {"press", "move"} /\ c.code \in enabled
    <2>1. /\ job' \in [Writers -> Seq(KeyCalls)] /\ busy' \in [Writers -> KeyActs \cup {"free"}]
          /\ JobsAreOrdered' /\ JobsAreOwned' /\ PendingDeclared'
          /\ Pends(t) = {} /\ Pends(t)' = Members(e) \cup Members(q) \cup {CallReturn}
          /\ \A u \in Writers : u # t => Pends(u)' = Pends(u)
          /\ \A u \in Writers : \A c \in Pends(u) : c.call = "return" \/ c.act # a
        BY <1>1, <1>3, <1>4, <1>5, <1>7, JobBegun
    <2> QED BY <1>1, <1>5, <2>1
<1> QED BY <1>6, <1>7

\* So does a press.
LEMMA PressInv ==
    ASSUME KeyInv, NEW a \in KeyActs \ {"axis"}, Keyboard!Press(a)
    PROVE  KeyInv'
<1> DEFINE q == Keyboard!Calls("press", a, keys[a])
<1>1. keys[a] \in Seq(KeyCodes)
    BY DEF KeyInv, KeyTypes
<1>2. q \in Seq(KeyCalls)
      /\ Members(q) = {[call |-> "press", act |-> a, code |-> k] : k \in KeysOf(a)}
    BY <1>1, CallsFacts DEF CodeCalls, KeysOf
<1> HIDE DEF q
<1>4. \A c \in Members(q) : c.call = "press" /\ c.act = a /\ c.code \in KeysOf(a)
    BY <1>2
<1>5. \A c \in Members(q) : c.code \in enabled
    BY <1>4 DEF KeyInv, CodesAreDeclared
<1>6. /\ Keyboard!Locks("io", a) /\ Keyboard!Begin("io", q) /\ keying' = keying \cup {a}
      /\ UNCHANGED <<registered, enabled, kernel, down, keys, typed, undone, dropped>>
    BY DEF Keyboard!Press, q
<1>7. "io" \in Writers
    BY DEF Writers
<1>8. /\ job' \in [Writers -> Seq(KeyCalls)] /\ busy' \in [Writers -> KeyActs \cup {"free"}]
      /\ JobsAreOrdered' /\ JobsAreOwned' /\ PendingDeclared'
      /\ Pends("io") = {} /\ Pends("io")' = Members(q) \cup {CallReturn}
      /\ \A u \in Writers : u # "io" => Pends(u)' = Pends(u)
      /\ \A u \in Writers : \A c \in Pends(u) : c.call = "return" \/ c.act # a
    <2>1. \A c \in Members(q) : c.call \in {"press", "move"} /\ c.code \in enabled
        BY <1>4, <1>5
    <2>2. \A c \in Members(q) : c.act = a
        BY <1>4
    <2> QED BY <1>2, <1>6, <2>1, <2>2, IOBegun
<1>9. CallReturn.call = "return"
    BY DEF CallReturn
<1>10. KeyTypes' /\ CodesAreDeclared'
    BY <1>6, <1>8 DEF KeyInv, KeyTypes, CodesAreDeclared, PendingDeclared, KeysOf
<1>11. PressesAreKeys'
    <2> SUFFICES ASSUME NEW c \in Pends("io")', c.call = "press"
                 PROVE  c.act \in keying' /\ c.code \in Members(keys'[c.act])
        BY DEF PressesAreKeys, KeysOf
    <2> QED BY <1>4, <1>6, <1>8, <1>9 DEF KeysOf
<1>12. TypedIsKnown' /\ DownIsTyped'
    <2>1. \A c \in Pends("io")' : c.call = "clear" => c.act = a
        BY <1>4, <1>8, <1>9
    <2>2. \A b \in KeyActs : b # a => KeysOf(b)' = KeysOf(b) /\ (b \in keying => b \in keying')
        BY <1>6 DEF KeysOf
    <2>3. ~ToClear(a)'
        <3> SUFFICES ASSUME NEW u \in Writers, [call |-> "clear", act |-> a] \in Pends(u)'
                     PROVE  FALSE
            BY DEF ToClear
        <3>1. [call |-> "clear", act |-> a].call = "clear" /\ [call |-> "clear", act |-> a].act = a
            OBVIOUS
        <3> QED BY <1>4, <1>8, <1>9, <3>1
    <2>4. \A k \in typed[a] : a \in keying' /\ k \in KeysOf(a)' /\ ~ToClear(a)'
        BY <1>6, <1>8, <2>3, NoneTyped DEF KeysOf
    <2> QED BY <1>6, <1>7, <1>8, <2>1, <2>2, <2>4, BegunKeeps
<1> QED BY <1>8, <1>10, <1>11, <1>12 DEF KeyInv

\* So does a release.
LEMMA ReleaseInv ==
    ASSUME KeyInv, NEW a \in KeyActs \ {"axis"}, Keyboard!Release(a)
    PROVE  KeyInv'
<1> DEFINE r == Keyboard!Calls("release", a, keys[a])
<1>1. keys[a] \in Seq(KeyCodes)
    BY DEF KeyInv, KeyTypes
<1>2. r \in Seq(KeyCalls)
      /\ Members(r) = {[call |-> "release", act |-> a, code |-> k] : k \in KeysOf(a)}
    BY <1>1, CallsFacts DEF CodeCalls, KeysOf
<1> HIDE DEF r
<1>4. \A c \in Members(r) : c.call = "release" /\ c.act = a
    BY <1>2
<1>5. /\ Keyboard!Locks("io", a) /\ Keyboard!Begin("io", r) /\ keying' = keying \ {a}
      /\ UNCHANGED <<registered, enabled, kernel, down, keys, typed, undone, dropped>>
    BY DEF Keyboard!Release, r
<1>6. "io" \in Writers
    BY DEF Writers
<1>7. /\ job' \in [Writers -> Seq(KeyCalls)] /\ busy' \in [Writers -> KeyActs \cup {"free"}]
      /\ JobsAreOrdered' /\ JobsAreOwned' /\ PendingDeclared'
      /\ Pends("io") = {} /\ Pends("io")' = Members(r) \cup {CallReturn}
      /\ \A u \in Writers : u # "io" => Pends(u)' = Pends(u)
      /\ \A u \in Writers : \A c \in Pends(u) : c.call = "return" \/ c.act # a
    BY <1>2, <1>4, <1>5, IOBegun
<1>8. CallReturn.call = "return"
    BY DEF CallReturn
<1>9. KeyTypes' /\ CodesAreDeclared'
    BY <1>5, <1>7 DEF KeyInv, KeyTypes, CodesAreDeclared, PendingDeclared, KeysOf
<1>10. PressesAreKeys'
    BY <1>4, <1>7, <1>8 DEF PressesAreKeys
<1>11. TypedIsKnown' /\ DownIsTyped'
    <2>1. \A c \in Pends("io")' : c.call = "clear" => c.act = a
        BY <1>4, <1>7, <1>8
    <2>2. \A b \in KeyActs : b # a => KeysOf(b)' = KeysOf(b) /\ (b \in keying => b \in keying')
        BY <1>5 DEF KeysOf
    <2>3. \A k \in typed[a] : k \in KeysOf(a)
        BY <1>7, NoneTyped
    <2>4. \A k \in typed[a] : ToRelease(a, k)'
        BY <1>2, <1>6, <1>7, <2>3 DEF ToRelease
    <2> QED BY <1>5, <1>6, <1>7, <2>1, <2>2, <2>4, BegunKeeps
<1> QED BY <1>7, <1>9, <1>10, <1>11 DEF KeyInv

\* So does a movement.
LEMMA MoveInv == ASSUME KeyInv, Keyboard!Move PROVE KeyInv'
<1> DEFINE a == "axis"
           q == Keyboard!Calls("move", a, keys[a])
<1>1. keys[a] \in Seq(KeyCodes) /\ a \in KeyActs
    BY DEF KeyInv, KeyTypes, KeyActs
<1>2. q \in Seq(KeyCalls)
      /\ Members(q) = {[call |-> "move", act |-> a, code |-> k] : k \in KeysOf(a)}
    BY <1>1, CallsFacts DEF CodeCalls, KeysOf
<1> HIDE DEF q
<1>4. \A c \in Members(q) : c.call = "move" /\ c.act = a /\ c.code \in KeysOf(a)
    BY <1>2
<1>5. \A c \in Members(q) : c.code \in enabled
    BY <1>1, <1>4 DEF KeyInv, CodesAreDeclared
<1>6. /\ Keyboard!Locks("io", a) /\ Keyboard!Begin("io", q)
      /\ UNCHANGED <<registered, enabled, kernel, down, keys, keying, typed, undone, dropped>>
    BY DEF Keyboard!Move, q
<1>7. "io" \in Writers
    BY DEF Writers
<1>8. /\ job' \in [Writers -> Seq(KeyCalls)] /\ busy' \in [Writers -> KeyActs \cup {"free"}]
      /\ JobsAreOrdered' /\ JobsAreOwned' /\ PendingDeclared'
      /\ Pends("io") = {} /\ Pends("io")' = Members(q) \cup {CallReturn}
      /\ \A u \in Writers : u # "io" => Pends(u)' = Pends(u)
    <2>1. \A c \in Members(q) : c.call \in {"press", "move"} /\ c.code \in enabled
        BY <1>4, <1>5
    <2>2. \A c \in Members(q) : c.act = a
        BY <1>4
    <2> HIDE DEF a
    <2> QED BY <1>1, <1>2, <1>6, <2>1, <2>2, IOBegun
<1>9. CallReturn.call = "return"
    BY DEF CallReturn
<1>10. KeyTypes' /\ CodesAreDeclared'
    BY <1>6, <1>8 DEF KeyInv, KeyTypes, CodesAreDeclared, PendingDeclared, KeysOf
<1>11. PressesAreKeys' /\ TypedIsKnown' /\ DownIsTyped'
    <2>1. \A u \in Writers : \A c \in Pends(u)' : c.call \in {"press", "clear"} => c \in Pends(u)
        BY <1>4, <1>8, <1>9
    <2>2. \A u \in Writers : \A c \in Pends(u) : c.call = "release" => c \in Pends(u)'
        BY <1>8
    <2>3. \A b \in KeyActs : KeysOf(b) \subseteq KeysOf(b)'
        BY <1>6 DEF KeysOf
    <2> QED BY <1>6, <2>1, <2>2, <2>3, KeysKept
<1> QED BY <1>8, <1>10, <1>11 DEF KeyInv
\* The calls that give an action its names.
LEMMA ConfigureFacts ==
    ASSUME NEW a \in KeyActs, NEW n \in Keyboard!Names
    PROVE  /\ Keyboard!Configure(a, n) \in Seq(KeyCalls)
           /\ \A c \in Members(Keyboard!Configure(a, n)) :
                 c.call \in {"clear", "register"} /\ c.act = a
<1>1. n \in Seq(KeyCodes)
    <2>1. \A k, m \in KeyCodes : <<k>> \in Seq(KeyCodes) /\ <<m, k>> \in Seq(KeyCodes)
        OBVIOUS
    <2> QED BY <2>1 DEF Keyboard!Names, Keyboard!Codes, KeyCodes
<1> DEFINE e == <<[call |-> "clear", act |-> a]>>
           q == Keyboard!Calls("register", a, n)
<1>2. q \in Seq(KeyCalls)
      /\ Members(q) = {[call |-> "register", act |-> a, code |-> k] : k \in Members(n)}
    BY <1>1, CallsFacts DEF CodeCalls
<1>3. e \in Seq(KeyCalls) /\ Members(e) = {[call |-> "clear", act |-> a]}
    <2>1. [call |-> "clear", act |-> a] \in KeyCalls
        BY DEF KeyCalls
    <2>2. DOMAIN e = {1} /\ e[1] = [call |-> "clear", act |-> a]
        OBVIOUS
    <2> QED BY <2>1, <2>2 DEF Members
<1>4. Keyboard!Configure(a, n) = e \o q
    BY DEF Keyboard!Configure
<1> HIDE DEF e, q
<1>5. e \o q \in Seq(KeyCalls) /\ Members(e \o q) = Members(e) \cup Members(q)
    BY <1>2, <1>3, JobConcat
<1>6. \A c \in Members(e) : c.call = "clear" /\ c.act = a
    BY <1>3
<1>7. \A c \in Members(q) : c.call = "register" /\ c.act = a
    BY <1>2
<1> QED BY <1>4, <1>5, <1>6, <1>7

\* So do new keys.
LEMMA SetKeysInv ==
    ASSUME KeyInv, NEW a \in KeyActs \ {"axis"}, NEW n \in Keyboard!Names, Keyboard!SetKeys(a, n)
    PROVE  KeyInv'
<1> DEFINE r == Keyboard!LetGo(a)
           q == Keyboard!Configure(a, n)
           t == "ipc"
<1>1. keys[a] \in Seq(KeyCodes)
    BY DEF KeyInv, KeyTypes
<1>2. /\ r \in Seq(KeyCalls)
      /\ a \in keying => Members(r) = {[call |-> "release", act |-> a, code |-> k] : k \in KeysOf(a)}
      /\ a \notin keying => Members(r) = {}
    <2>1. CASE a \in keying
        BY <1>1, <2>1, CallsFacts DEF CodeCalls, KeysOf, Keyboard!LetGo
    <2>2. CASE a \notin keying
        BY <2>2, NoCalls DEF Keyboard!LetGo
    <2> QED BY <2>1, <2>2
<1>3. q \in Seq(KeyCalls) /\ \A c \in Members(q) : c.call \in {"clear", "register"} /\ c.act = a
    BY ConfigureFacts
<1>4. /\ Keyboard!Locks(t, a) /\ Keyboard!Begin(t, r \o q)
      /\ UNCHANGED <<registered, enabled, kernel, down, keys, keying, typed, undone, dropped>>
    BY DEF Keyboard!SetKeys
<1>5. t \in Writers /\ t # "io"
    BY DEF Writers
<1> HIDE DEF r, q, t
<1>6. \A c \in Members(r) : c.call = "release" /\ c.act = a
    BY <1>2
<1>7. /\ job' \in [Writers -> Seq(KeyCalls)] /\ busy' \in [Writers -> KeyActs \cup {"free"}]
      /\ JobsAreOrdered' /\ JobsAreOwned' /\ PendingDeclared'
      /\ Pends(t) = {} /\ Pends(t)' = Members(r) \cup Members(q) \cup {CallReturn}
      /\ \A u \in Writers : u # t => Pends(u)' = Pends(u)
      /\ \A u \in Writers : \A c \in Pends(u) : c.call = "return" \/ c.act # a
    <2>1. \A c \in Members(r) \cup Members(q) : c.act = a
        BY <1>3, <1>6
    <2> QED BY <1>2, <1>3, <1>4, <1>5, <1>6, <2>1, JobBegun
<1>8. CallReturn.call = "return"
    BY DEF CallReturn
<1>9. KeyTypes' /\ CodesAreDeclared'
    BY <1>4, <1>7 DEF KeyInv, KeyTypes, CodesAreDeclared, PendingDeclared, KeysOf
<1>10. PressesAreKeys' /\ TypedIsKnown' /\ DownIsTyped'
    <2>1. \A c \in Pends(t)' : c.call = "clear" => c.act = a
        BY <1>3, <1>6, <1>7, <1>8
    <2>2. \A b \in KeyActs : b # a => KeysOf(b)' = KeysOf(b) /\ (b \in keying => b \in keying')
        BY <1>4 DEF KeysOf
    <2>3. \A k \in typed[a] : a \in keying /\ k \in KeysOf(a)
        BY <1>7, NoneTyped
    <2>4. \A k \in typed[a] : ToRelease(a, k)'
        BY <1>2, <1>5, <1>7, <2>3 DEF ToRelease
    <2> QED BY <1>4, <1>5, <1>7, <2>1, <2>2, <2>4, BegunKeeps
<1> QED BY <1>7, <1>9, <1>10 DEF KeyInv

\* So does a new axis.
LEMMA SetAxisInv ==
    ASSUME KeyInv, NEW axis \in KeyCodes, Keyboard!SetAxis(axis)
    PROVE  KeyInv'
<1> DEFINE a == "axis"
           r == <<>>
           q == Keyboard!Calls("register", a, <<axis>>)
           t == "ipc"
<1>1. /\ Keyboard!Locks(t, a) /\ Keyboard!Begin(t, q) /\ keys' = [keys EXCEPT ![a] = <<>>]
      /\ UNCHANGED <<registered, enabled, kernel, down, keying, typed, undone, dropped>>
    BY DEF Keyboard!SetAxis
<1>2. t \in Writers /\ t # "io" /\ a \in KeyActs /\ a \notin keying
    BY DEF Writers, KeyActs, KeyInv, KeyTypes
<1>3. <<axis>> \in Seq(KeyCodes)
    OBVIOUS
<1>4. q \in Seq(KeyCalls)
      /\ Members(q) = {[call |-> "register", act |-> a, code |-> k] : k \in Members(<<axis>>)}
    BY <1>2, <1>3, CallsFacts DEF CodeCalls
<1>5. r \in Seq(KeyCalls) /\ Members(r) = {}
    BY NoCalls
<1>6. r \o q = q
    BY <1>4, <1>5, ConcatEmptySeq
<1> HIDE DEF a, r, q, t
<1>7. \A c \in Members(q) : c.call = "register" /\ c.act = a
    BY <1>4
<1>8. /\ job' \in [Writers -> Seq(KeyCalls)] /\ busy' \in [Writers -> KeyActs \cup {"free"}]
      /\ JobsAreOrdered' /\ JobsAreOwned' /\ PendingDeclared'
      /\ Pends(t) = {} /\ Pends(t)' = Members(r) \cup Members(q) \cup {CallReturn}
      /\ \A u \in Writers : u # t => Pends(u)' = Pends(u)
      /\ \A u \in Writers : \A c \in Pends(u) : c.call = "return" \/ c.act # a
    <2>1. \A c \in Members(r) \cup Members(q) : c.act = a
        BY <1>5, <1>7
    <2>2. Keyboard!Begin(t, r \o q)
        BY <1>1, <1>6
    <2> QED BY <1>1, <1>2, <1>4, <1>5, <1>7, <2>1, <2>2, JobBegun
<1>9. CallReturn.call = "return"
    BY DEF CallReturn
<1>10. keys' \in [KeyActs -> Seq(KeyCodes)] /\ KeysOf(a)' = {}
       /\ \A b \in KeyActs : b # a => KeysOf(b)' = KeysOf(b)
    <2>1. <<>> \in Seq(KeyCodes) /\ Members(<<>>) = {}
        BY DEF Members
    <2>2. keys' \in [KeyActs -> Seq(KeyCodes)] /\ keys'[a] = <<>>
          /\ \A b \in KeyActs : b # a => keys'[b] = keys[b]
        BY <1>1, <1>2, <2>1 DEF KeyInv, KeyTypes
    <2> QED BY <2>1, <2>2 DEF KeysOf
<1>11. KeyTypes' /\ CodesAreDeclared'
    <2>1. \A b \in KeyActs : KeysOf(b)' \subseteq enabled'
        BY <1>1, <1>10 DEF KeyInv, CodesAreDeclared
    <2> QED BY <1>1, <1>8, <1>10, <2>1 DEF KeyInv, KeyTypes, CodesAreDeclared, PendingDeclared
<1>12. PressesAreKeys' /\ TypedIsKnown' /\ DownIsTyped'
    <2>1. \A c \in Pends(t)' : c.call = "clear" => c.act = a
        BY <1>5, <1>7, <1>8, <1>9
    <2>2. \A b \in KeyActs : b # a => KeysOf(b)' = KeysOf(b) /\ (b \in keying => b \in keying')
        BY <1>1, <1>10
    <2>3. \A k \in typed[a] : FALSE
        BY <1>2, <1>8, NoneTyped
    <2> QED BY <1>1, <1>2, <1>8, <2>1, <2>2, <2>3, BegunKeeps
<1> QED BY <1>8, <1>11, <1>12 DEF KeyInv

\* So does a new action.
LEMMA MakeInv ==
    ASSUME KeyInv, NEW n \in Keyboard!Names, Keyboard!Make(n)
    PROVE  KeyInv'
<1> DEFINE a == "new keypress"
           r == <<>>
           q == Keyboard!Configure(a, n)
           t == "worker"
<1>1. /\ Keyboard!Locks(t, a) /\ Keyboard!Begin(t, q) /\ keys[a] = <<>>
      /\ UNCHANGED <<registered, enabled, kernel, down, keys, keying, typed, undone, dropped>>
    BY DEF Keyboard!Make
<1>2. t \in Writers /\ t # "io" /\ a \in KeyActs
    BY DEF Writers, KeyActs
<1>3. q \in Seq(KeyCalls) /\ \A c \in Members(q) : c.call \in {"clear", "register"} /\ c.act = a
    BY <1>2, ConfigureFacts
<1>4. r \in Seq(KeyCalls) /\ Members(r) = {}
    BY NoCalls
<1>5. r \o q = q
    BY <1>3, <1>4, ConcatEmptySeq
<1>6. KeysOf(a) = {}
    BY <1>1, NoCalls DEF KeysOf
<1> HIDE DEF a, r, q, t
<1>7. /\ job' \in [Writers -> Seq(KeyCalls)] /\ busy' \in [Writers -> KeyActs \cup {"free"}]
      /\ JobsAreOrdered' /\ JobsAreOwned' /\ PendingDeclared'
      /\ Pends(t) = {} /\ Pends(t)' = Members(r) \cup Members(q) \cup {CallReturn}
      /\ \A u \in Writers : u # t => Pends(u)' = Pends(u)
      /\ \A u \in Writers : \A c \in Pends(u) : c.call = "return" \/ c.act # a
    <2>1. \A c \in Members(r) \cup Members(q) : c.act = a
        BY <1>3, <1>4
    <2>2. Keyboard!Begin(t, r \o q)
        BY <1>1, <1>5
    <2> QED BY <1>1, <1>2, <1>3, <1>4, <2>1, <2>2, JobBegun
<1>8. CallReturn.call = "return"
    BY DEF CallReturn
<1>9. KeyTypes' /\ CodesAreDeclared'
    BY <1>1, <1>7 DEF KeyInv, KeyTypes, CodesAreDeclared, PendingDeclared, KeysOf
<1>10. PressesAreKeys' /\ TypedIsKnown' /\ DownIsTyped'
    <2>1. \A c \in Pends(t)' : c.call = "clear" => c.act = a
        BY <1>3, <1>4, <1>7, <1>8
    <2>2. \A b \in KeyActs : b # a => KeysOf(b)' = KeysOf(b) /\ (b \in keying => b \in keying')
        BY <1>1 DEF KeysOf
    <2>3. \A k \in typed[a] : FALSE
        BY <1>2, <1>6, <1>7, NoneTyped
    <2> QED BY <1>1, <1>2, <1>7, <2>1, <2>2, <2>3, BegunKeeps
<1> QED BY <1>7, <1>9, <1>10 DEF KeyInv
-----------------------------------------------------------------------------
\* A key is pressed: it was declared, and is a key of an action that is pressed.
LEMMA SendKeyInv ==
    ASSUME KeyInv, NEW t \in Writers, Keyboard!SendKey(t)
    PROVE  KeyInv'
<1> DEFINE c == Head(job[t])
<1>1. /\ job[t] # <<>> /\ c.call = "press" /\ kernel # {} /\ Keyboard!Ends(t)
      /\ down' = down \cup ({c.code} \cap kernel) /\ dropped' = dropped \cup ({c.code} \ kernel)
      /\ typed' = [typed EXCEPT ![c.act] = @ \cup {c.code}] /\ undone' = undone \ {c.code}
      /\ UNCHANGED <<registered, enabled, kernel, keys, keying, busy>>
    BY DEF Keyboard!SendKey, Keyboard!Does
<1>2. /\ job' \in [Writers -> Seq(KeyCalls)] /\ JobsAreOrdered'
      /\ \A u \in Writers : u # t => Pends(u)' = Pends(u)
      /\ Pends(t) = {c} \cup Pends(t)' /\ c \in KeyCalls
    BY <1>1, CallMade DEF KeyInv
<1>3. JobsAreOwned' /\ PendingDeclared'
    BY <1>1, CallKeeps
<1>4. t = "io" /\ c \in Pends(t)
    BY <1>1, <1>2 DEF KeyInv, JobsAreOwned, Writers
<1>5. c.act \in KeyActs /\ c.act \in keying /\ c.code \in KeysOf(c.act) /\ c.code \in KeyCodes
    <2>1. c.act \in keying /\ c.code \in KeysOf(c.act)
        BY <1>1, <1>4 DEF KeyInv, PressesAreKeys
    <2>2. c.code \in KeyCodes
        BY <1>1, <1>2 DEF KeyCalls, CallReturn
    <2> QED BY <2>1, <2>2 DEF KeyInv, KeyTypes
<1>6. c.code \in kernel
    BY <1>1, <1>4 DEF KeyInv, CodesAreDeclared
<1> DEFINE a == c.act
           k == c.code
<1>7. a \in KeyActs /\ a \in keying /\ k \in KeysOf(a) /\ k \in KeyCodes /\ k \in kernel
    BY <1>5, <1>6
<1>8. down' = down \cup {k} /\ dropped' = dropped /\ undone' = undone \ {k}
      /\ typed' = [typed EXCEPT ![a] = typed[a] \cup {k}]
    BY <1>1, <1>6
<1>9. c.call = "press" /\ busy[t] = a
    BY <1>1, <1>4 DEF KeyInv, JobsAreOwned
<1> HIDE DEF c, a, k
<1>10. /\ typed' \in [KeyActs -> SUBSET KeyCodes] /\ typed'[a] = typed[a] \cup {k}
       /\ \A b \in KeyActs : b # a => typed'[b] = typed[b]
    BY <1>7, <1>8 DEF KeyInv, KeyTypes
<1>11. KeyTypes' /\ CodesAreDeclared'
    BY <1>1, <1>2, <1>3, <1>8, <1>10 DEF KeyInv, KeyTypes, CodesAreDeclared, PendingDeclared, KeysOf
<1>12. PressesAreKeys'
    <2>1. Pends("io")' \subseteq Pends("io")
        BY <1>2, <1>4
    <2> QED BY <1>1, <2>1 DEF KeyInv, PressesAreKeys, KeysOf
<1>13. \A u \in Writers : \A d \in Pends(u) : d.call # "press" => d \in Pends(u)'
    BY <1>2, <1>9
<1>14. ~ToClear(a)
    <2> SUFFICES ASSUME NEW u \in Writers, [call |-> "clear", act |-> a] \in Pends(u) PROVE FALSE
        BY DEF ToClear
    <2>1. [call |-> "clear", act |-> a].call = "clear" /\ [call |-> "clear", act |-> a].act = a
        OBVIOUS
    <2>2. u # t
        BY <1>4, <2>1 DEF KeyInv, JobsAreOwned
    <2>3. busy[u] = busy[t] /\ busy[u] # "free"
        BY <1>7, <1>9, <2>1 DEF KeyInv, JobsAreOwned, KeyActs
    <2> QED BY <2>2, <2>3 DEF KeyInv, JobsAreOwned
<1>15. \A b \in KeyActs : ToClear(b)' => ToClear(b)
    BY <1>2 DEF ToClear
<1>16. \A b \in KeyActs : \A m : ToRelease(b, m) => ToRelease(b, m)'
    <2> SUFFICES ASSUME NEW b \in KeyActs, NEW m, NEW u \in Writers,
                        [call |-> "release", act |-> b, code |-> m] \in Pends(u)
                 PROVE  [call |-> "release", act |-> b, code |-> m] \in Pends(u)'
        BY DEF ToRelease
    <2>1. [call |-> "release", act |-> b, code |-> m].call # "press"
        OBVIOUS
    <2> QED BY <1>13, <2>1
<1>17. TypedIsKnown'
    <2> SUFFICES ASSUME NEW b \in KeyActs, NEW m \in typed'[b]
                 PROVE  /\ m \in down' \cup undone'
                        /\ \/ ToRelease(b, m)'
                           \/ b \in keying' /\ m \in KeysOf(b)' /\ ~ToClear(b)'
        BY DEF TypedIsKnown
    <2>1. CASE m \in typed[b]
        <3>1. /\ m \in down \cup undone
              /\ ToRelease(b, m) \/ (b \in keying /\ m \in KeysOf(b) /\ ~ToClear(b))
            BY <2>1 DEF KeyInv, TypedIsKnown
        <3>2. KeysOf(b)' = KeysOf(b) /\ keying' = keying
            BY <1>1 DEF KeysOf
        <3> QED BY <1>8, <1>15, <1>16, <3>1, <3>2
    <2>2. CASE m \notin typed[b]
        <3>1. b = a /\ m = k
            BY <1>10, <2>2
        <3>2. KeysOf(b)' = KeysOf(b) /\ keying' = keying
            BY <1>1 DEF KeysOf
        <3> QED BY <1>7, <1>8, <1>14, <1>15, <3>1, <3>2
    <2> QED BY <2>1, <2>2
<1>18. DownIsTyped'
    BY <1>7, <1>8, <1>10 DEF KeyInv, DownIsTyped
<1> QED BY <1>2, <1>3, <1>11, <1>12, <1>17, <1>18 DEF KeyInv

\* A key is let go of: of others that pressed it is known that it was.
LEMMA LetKeyGoInv ==
    ASSUME KeyInv, NEW t \in Writers, Keyboard!LetKeyGo(t)
    PROVE  KeyInv'
<1> DEFINE c == Head(job[t])
           a == c.act
           k == c.code
<1>1. /\ job[t] # <<>> /\ c.call = "release" /\ Keyboard!Ends(t)
      /\ down' = down \ {k} /\ undone' = undone \cup {k}
      /\ typed' = [typed EXCEPT ![a] = typed[a] \ {k}]
      /\ UNCHANGED <<registered, enabled, kernel, keys, keying, busy, dropped>>
    BY DEF Keyboard!LetKeyGo, Keyboard!Does
<1>2. /\ job' \in [Writers -> Seq(KeyCalls)] /\ JobsAreOrdered'
      /\ \A u \in Writers : u # t => Pends(u)' = Pends(u)
      /\ Pends(t) = {c} \cup Pends(t)' /\ c \in KeyCalls
    BY <1>1, CallMade DEF KeyInv
<1>3. JobsAreOwned' /\ PendingDeclared'
    BY <1>1, CallKeeps
<1>4. a \in KeyActs /\ c = [call |-> "release", act |-> a, code |-> k]
    BY <1>1, <1>2 DEF KeyCalls, CallReturn
<1> HIDE DEF c, a, k
<1>5. /\ typed' \in [KeyActs -> SUBSET KeyCodes] /\ typed'[a] = typed[a] \ {k}
      /\ \A b \in KeyActs : b # a => typed'[b] = typed[b]
    BY <1>1, <1>4 DEF KeyInv, KeyTypes
<1>6. KeyTypes' /\ CodesAreDeclared'
    BY <1>1, <1>2, <1>3, <1>5 DEF KeyInv, KeyTypes, CodesAreDeclared, PendingDeclared, KeysOf
<1>7. PressesAreKeys'
    <2>1. Pends("io")' \subseteq Pends("io")
        BY <1>2 DEF Writers
    <2> QED BY <1>1, <2>1 DEF KeyInv, PressesAreKeys, KeysOf
<1>8. \A b \in KeyActs : ToClear(b)' => ToClear(b)
    BY <1>2 DEF ToClear
<1>9. \A b \in KeyActs : \A m : ToRelease(b, m) /\ (b # a \/ m # k) => ToRelease(b, m)'
    <2> SUFFICES ASSUME NEW b \in KeyActs, NEW m, b # a \/ m # k, NEW u \in Writers,
                        [call |-> "release", act |-> b, code |-> m] \in Pends(u)
                 PROVE  [call |-> "release", act |-> b, code |-> m] \in Pends(u)'
        BY DEF ToRelease
    <2>1. [call |-> "release", act |-> b, code |-> m] # c
        BY <1>4
    <2> QED BY <1>2, <2>1
<1>10. TypedIsKnown'
    <2> SUFFICES ASSUME NEW b \in KeyActs, NEW m \in typed'[b]
                 PROVE  /\ m \in down' \cup undone'
                        /\ \/ ToRelease(b, m)'
                           \/ b \in keying' /\ m \in KeysOf(b)' /\ ~ToClear(b)'
        BY DEF TypedIsKnown
    <2>1. m \in typed[b] /\ (b # a \/ m # k)
        BY <1>5
    <2>2. /\ m \in down \cup undone
          /\ ToRelease(b, m) \/ (b \in keying /\ m \in KeysOf(b) /\ ~ToClear(b))
        BY <2>1 DEF KeyInv, TypedIsKnown
    <2>3. KeysOf(b)' = KeysOf(b) /\ keying' = keying
        BY <1>1 DEF KeysOf
    <2> QED BY <1>1, <1>8, <1>9, <2>1, <2>2, <2>3
<1>11. DownIsTyped'
    <2> SUFFICES ASSUME NEW m \in down' PROVE \E b \in KeyActs : m \in typed'[b]
        BY DEF DownIsTyped
    <2>1. m \in down /\ m # k
        BY <1>1
    <2>2. PICK b \in KeyActs : m \in typed[b]
        BY <2>1 DEF KeyInv, DownIsTyped
    <2>3. m \in typed'[b]
        BY <1>5, <2>1, <2>2
    <2> QED BY <2>3
<1> QED BY <1>2, <1>3, <1>6, <1>7, <1>10, <1>11 DEF KeyInv

\* The axis moves: it was declared.
LEMMA MoveAxisInv ==
    ASSUME KeyInv, NEW t \in Writers, Keyboard!MoveAxis(t)
    PROVE  KeyInv'
<1> DEFINE c == Head(job[t])
<1>1. /\ job[t] # <<>> /\ c.call = "move" /\ kernel # {} /\ Keyboard!Ends(t)
      /\ dropped' = dropped \cup ({c.code} \ kernel)
      /\ UNCHANGED <<registered, enabled, kernel, down, keys, keying, busy, typed, undone>>
    BY DEF Keyboard!MoveAxis, Keyboard!Does
<1>2. /\ job' \in [Writers -> Seq(KeyCalls)] /\ JobsAreOrdered'
      /\ \A u \in Writers : u # t => Pends(u)' = Pends(u)
      /\ Pends(t) = {c} \cup Pends(t)' /\ c \in KeyCalls
    BY <1>1, CallMade DEF KeyInv
<1>3. JobsAreOwned' /\ PendingDeclared'
    BY <1>1, CallKeeps
<1>4. t = "io" /\ c \in Pends(t)
    BY <1>1, <1>2 DEF KeyInv, JobsAreOwned, Writers
<1>5. dropped' = dropped
    BY <1>1, <1>4 DEF KeyInv, CodesAreDeclared
<1> HIDE DEF c
<1>6. KeyTypes' /\ CodesAreDeclared'
    BY <1>1, <1>2, <1>3, <1>5 DEF KeyInv, KeyTypes, CodesAreDeclared, PendingDeclared, KeysOf
<1>7. PressesAreKeys' /\ TypedIsKnown' /\ DownIsTyped'
    <2>1. \A u \in Writers : \A d \in Pends(u)' : d.call \in {"press", "clear"} => d \in Pends(u)
        BY <1>2
    <2>2. \A u \in Writers : \A d \in Pends(u) : d.call = "release" => d \in Pends(u)'
        BY <1>1, <1>2
    <2>3. \A b \in KeyActs : KeysOf(b) \subseteq KeysOf(b)'
        BY <1>1 DEF KeysOf
    <2> QED BY <1>1, <2>1, <2>2, <2>3, KeysKept
<1> QED BY <1>2, <1>3, <1>6, <1>7 DEF KeyInv
\* A code more at the end of an action's.
LEMMA MembersOfAppend ==
    ASSUME NEW s \in Seq(KeyCodes), NEW k \in KeyCodes
    PROVE  /\ Append(s, k) \in Seq(KeyCodes)
           /\ Members(Append(s, k)) = Members(s) \cup {k}
<1>1. PICK n \in Nat :
          /\ n = Len(s) /\ DOMAIN s = 1 .. n /\ Append(s, k) \in Seq(KeyCodes)
          /\ DOMAIN Append(s, k) = 1 .. n + 1 /\ Append(s, k)[n + 1] = k
          /\ \A i \in 1 .. n : Append(s, k)[i] = s[i]
    BY AppendProperties, LenProperties
<1> DEFINE u == Append(s, k)
<1>2. DOMAIN u = 1 .. n + 1 /\ u[n + 1] = k /\ \A i \in 1 .. n : u[i] = s[i]
    BY <1>1
<1>3. \A i \in 1 .. n + 1 : i = n + 1 \/ i \in 1 .. n
    BY <1>1
<1>4. n + 1 \in 1 .. n + 1 /\ \A i \in 1 .. n : i \in 1 .. n + 1
    BY <1>1
<1> HIDE DEF u
<1>5. \A c \in Members(u) : c \in Members(s) \cup {k}
    BY <1>1, <1>2, <1>3 DEF Members
<1>6. \A c \in Members(s) \cup {k} : c \in Members(u)
    BY <1>1, <1>2, <1>4 DEF Members
<1> QED BY <1>1, <1>5, <1>6 DEF u

\* The keys of an action are cleared: none of them is still to be released.
LEMMA ClearInv ==
    ASSUME KeyInv, NEW t \in Writers, Keyboard!Clear(t)
    PROVE  KeyInv'
<1> DEFINE c == Head(job[t])
<1>1. /\ job[t] # <<>> /\ c.call = "clear" /\ Keyboard!Ends(t)
      /\ keys' = [keys EXCEPT ![c.act] = <<>>]
      /\ UNCHANGED <<registered, enabled, kernel, down, keying, busy, typed, undone, dropped>>
    BY DEF Keyboard!Clear, Keyboard!Does
<1>2. /\ job' \in [Writers -> Seq(KeyCalls)] /\ JobsAreOrdered'
      /\ \A u \in Writers : u # t => Pends(u)' = Pends(u)
      /\ Pends(t) = {c} \cup Pends(t)' /\ c \in KeyCalls
      /\ \A d \in Pends(t) : d.call # "release"
    BY <1>1, CallMade DEF KeyInv
<1>3. JobsAreOwned' /\ PendingDeclared'
    BY <1>1, CallKeeps
<1>4. PICK a \in KeyActs : c = [call |-> "clear", act |-> a] /\ c.act = a
    BY <1>1, <1>2 DEF KeyCalls, CallReturn, CodeCalls
<1>5. t # "io" /\ busy[t] = a
    BY <1>1, <1>2, <1>4 DEF KeyInv, JobsAreOwned
<1> HIDE DEF c
<1>6. /\ keys' \in [KeyActs -> Seq(KeyCodes)] /\ KeysOf(a)' = {}
      /\ \A b \in KeyActs : b # a => KeysOf(b)' = KeysOf(b)
    <2>1. <<>> \in Seq(KeyCodes) /\ Members(<<>>) = {}
        BY NoCalls
    <2>2. keys' \in [KeyActs -> Seq(KeyCodes)] /\ keys'[a] = <<>>
          /\ \A b \in KeyActs : b # a => keys'[b] = keys[b]
        BY <1>1, <1>4, <2>1 DEF KeyInv, KeyTypes
    <2> QED BY <2>1, <2>2 DEF KeysOf
<1>7. KeyTypes' /\ CodesAreDeclared'
    <2>1. \A b \in KeyActs : KeysOf(b)' \subseteq enabled'
        BY <1>1, <1>6 DEF KeyInv, CodesAreDeclared
    <2> QED BY <1>1, <1>2, <1>3, <1>6, <2>1
            DEF KeyInv, KeyTypes, CodesAreDeclared, PendingDeclared
<1>8. \A u \in Writers : \A d \in Pends(u) : d.call # "return" /\ d.act = a => u = t
    <2>1. ASSUME NEW u \in Writers, NEW d \in Pends(u), d.call # "return", d.act = a PROVE u = t
        <3>1. busy[u] = busy[t] /\ busy[u] # "free"
            BY <1>4, <1>5, <2>1 DEF KeyInv, JobsAreOwned, KeyActs
        <3> QED BY <3>1 DEF KeyInv, JobsAreOwned
    <2> QED BY <2>1
<1>9. \A k \in typed[a] : FALSE
    <2>1. ASSUME NEW k, ToRelease(a, k) PROVE FALSE
        <3>1. PICK u \in Writers : [call |-> "release", act |-> a, code |-> k] \in Pends(u)
            BY <2>1 DEF ToRelease
        <3>2. [call |-> "release", act |-> a, code |-> k].call = "release"
              /\ [call |-> "release", act |-> a, code |-> k].act = a
            OBVIOUS
        <3> QED BY <1>2, <1>8, <3>1, <3>2
    <2>2. ToClear(a)
        BY <1>2, <1>4 DEF ToClear
    <2> QED BY <1>4, <2>1, <2>2 DEF KeyInv, TypedIsKnown
<1>10. PressesAreKeys'
    <2> SUFFICES ASSUME NEW d \in Pends("io")', d.call = "press"
                 PROVE  d.act \in keying' /\ d.code \in Members(keys'[d.act])
        BY DEF PressesAreKeys, KeysOf
    <2>1. "io" \in Writers /\ d \in Pends("io")
        BY <1>2, <1>5 DEF Writers
    <2>2. d.act \in keying /\ d.code \in Members(keys[d.act]) /\ d.act \in KeyActs
        BY <2>1 DEF KeyInv, PressesAreKeys, KeyTypes, KeysOf
    <2>3. d.act # a
        BY <1>5, <1>8, <2>1
    <2> QED BY <1>1, <1>6, <2>2, <2>3 DEF KeysOf
<1>11. TypedIsKnown' /\ DownIsTyped'
    <2>1. DownIsTyped'
        BY <1>1 DEF KeyInv, DownIsTyped
    <2>2. \A b \in KeyActs : ToClear(b)' => ToClear(b)
        BY <1>2 DEF ToClear
    <2>3. \A b \in KeyActs : \A m : ToRelease(b, m) => ToRelease(b, m)'
        <3> SUFFICES ASSUME NEW b \in KeyActs, NEW m, NEW u \in Writers,
                            [call |-> "release", act |-> b, code |-> m] \in Pends(u)
                     PROVE  [call |-> "release", act |-> b, code |-> m] \in Pends(u)'
            BY DEF ToRelease
        <3>1. [call |-> "release", act |-> b, code |-> m].call = "release"
            OBVIOUS
        <3> QED BY <1>2, <3>1
    <2>4. TypedIsKnown'
        <3> SUFFICES ASSUME NEW b \in KeyActs, NEW m \in typed'[b]
                     PROVE  /\ m \in down' \cup undone'
                            /\ \/ ToRelease(b, m)'
                               \/ b \in keying' /\ m \in KeysOf(b)' /\ ~ToClear(b)'
            BY DEF TypedIsKnown
        <3>1. m \in typed[b] /\ b # a
            BY <1>1, <1>9
        <3>2. /\ m \in down \cup undone
              /\ ToRelease(b, m) \/ (b \in keying /\ m \in KeysOf(b) /\ ~ToClear(b))
            BY <3>1 DEF KeyInv, TypedIsKnown
        <3> QED BY <1>1, <1>6, <2>2, <2>3, <3>1, <3>2
    <2> QED BY <2>1, <2>4
<1> QED BY <1>2, <1>3, <1>7, <1>10, <1>11 DEF KeyInv

\* Another device is made with one more code, or none.
LEMMA EnableInv ==
    ASSUME KeyInv, NEW t \in Writers, Keyboard!Enable(t)
    PROVE  KeyInv'
<1> DEFINE c == Head(job[t])
<1>1. /\ job[t] # <<>> /\ c.call = "enable" /\ Keyboard!Ends(t)
      /\ enabled' = enabled \cup {c.code} /\ kernel' = enabled'
      /\ down' = {} /\ undone' = undone \cup down
      /\ UNCHANGED <<registered, keys, keying, busy, typed, dropped>>
    BY DEF Keyboard!Enable, Keyboard!Does
<1>2. /\ job' \in [Writers -> Seq(KeyCalls)] /\ JobsAreOrdered'
      /\ \A u \in Writers : u # t => Pends(u)' = Pends(u)
      /\ Pends(t) = {c} \cup Pends(t)' /\ c \in KeyCalls
    BY <1>1, CallMade DEF KeyInv
<1>3. JobsAreOwned' /\ PendingDeclared'
    BY <1>1, CallKeeps
<1> HIDE DEF c
<1>4. KeyTypes' /\ CodesAreDeclared'
    BY <1>1, <1>2, <1>3 DEF KeyInv, KeyTypes, CodesAreDeclared, PendingDeclared, KeysOf
<1>5. PressesAreKeys' /\ TypedIsKnown' /\ DownIsTyped'
    <2>1. \A u \in Writers : \A d \in Pends(u)' : d.call \in {"press", "clear"} => d \in Pends(u)
        BY <1>2
    <2>2. \A u \in Writers : \A d \in Pends(u) : d.call = "release" => d \in Pends(u)'
        BY <1>1, <1>2
    <2>3. \A b \in KeyActs : KeysOf(b) \subseteq KeysOf(b)'
        BY <1>1 DEF KeysOf
    <2> QED BY <1>1, <2>1, <2>2, <2>3, KeysKept
<1> QED BY <1>2, <1>3, <1>4, <1>5 DEF KeyInv

\* So does a code that cannot be enabled.
LEMMA EnableFailsInv ==
    ASSUME KeyInv, NEW t \in Writers, Keyboard!EnableFails(t)
    PROVE  KeyInv'
<1>1. /\ job[t] # <<>> /\ Head(job[t]).call = "enable"
      /\ kernel' = {} /\ down' = {} /\ undone' = undone \cup down
      /\ job' = [job EXCEPT ![t] = <<>>] /\ busy' = [busy EXCEPT ![t] = "free"]
      /\ UNCHANGED <<registered, enabled, keys, keying, typed, dropped>>
    BY DEF Keyboard!EnableFails, Keyboard!Does, Keyboard!Free
<1>2. /\ job' \in [Writers -> Seq(KeyCalls)] /\ job'[t] = <<>>
      /\ \A u \in Writers : u # t => job'[u] = job[u]
    BY <1>1, NoCalls DEF KeyInv, KeyTypes
<1>3. /\ busy' \in [Writers -> KeyActs \cup {"free"}] /\ busy'[t] = "free"
      /\ \A u \in Writers : u # t => busy'[u] = busy[u]
    BY <1>1 DEF KeyInv, KeyTypes
<1>4. Pends(t)' = {} /\ \A u \in Writers : u # t => Pends(u)' = Pends(u)
    BY <1>2, NoCalls DEF Pends
<1>5. \A d \in Pends(t) : d.call # "release"
    <2>1. job[t] \in Seq(KeyCalls) /\ JobIsOrdered(job[t])
        BY DEF KeyInv, KeyTypes, JobsAreOrdered
    <2> QED BY <1>1, <2>1, JobTail DEF Pends
<1>6. JobsAreOrdered'
    <2>1. JobIsOrdered(<<>>)
        BY DEF JobIsOrdered
    <2> QED BY <1>2, <2>1 DEF KeyInv, JobsAreOrdered
<1>7. JobsAreOwned'
    <2>1. "io" \in Writers /\ "ipc" \in Writers /\ "worker" \in Writers
        BY DEF Writers
    <2>2. \A u \in Writers : \A c \in Pends(u)' : c.call # "return" => c.act = busy'[u]
        BY <1>3, <1>4 DEF KeyInv, JobsAreOwned
    <2>3. \A u, v \in Writers : busy'[u] = busy'[v] => u = v \/ busy'[u] = "free"
        BY <1>3 DEF KeyInv, JobsAreOwned
    <2>4. \A u \in Writers : Pends(u)' \subseteq Pends(u)
        BY <1>4
    <2> QED BY <2>1, <2>2, <2>3, <2>4 DEF KeyInv, JobsAreOwned
<1>8. KeyTypes'
    BY <1>1, <1>2, <1>3 DEF KeyInv, KeyTypes
<1>9. CodesAreDeclared'
    <2>1. \A a \in KeyActs : KeysOf(a)' \subseteq enabled'
        BY <1>1 DEF KeyInv, CodesAreDeclared, KeysOf
    <2>2. \A c \in Pends("io")' : c.call \in {"press", "move"} => c.code \in enabled'
        BY <1>1, <1>4 DEF KeyInv, CodesAreDeclared, Writers
    <2>3. ASSUME NEW u \in Writers, NEW c \in Pends(u)', c.call \in {"note", "use"}
          PROVE  \/ c.code \in enabled'
                 \/ Head(job'[u]).call = "enable" /\ Head(job'[u]).code = c.code
        <3>1. u # t /\ c \in Pends(u)
            BY <1>4, <2>3
        <3> QED BY <1>1, <1>2, <2>3, <3>1 DEF KeyInv, CodesAreDeclared
    <2> QED BY <1>1, <2>1, <2>2, <2>3 DEF KeyInv, CodesAreDeclared
<1>10. PressesAreKeys' /\ TypedIsKnown' /\ DownIsTyped'
    <2>1. \A u \in Writers : \A d \in Pends(u)' : d.call \in {"press", "clear"} => d \in Pends(u)
        BY <1>4
    <2>2. \A u \in Writers : \A d \in Pends(u) : d.call = "release" => d \in Pends(u)'
        BY <1>4, <1>5
    <2>3. \A b \in KeyActs : KeysOf(b) \subseteq KeysOf(b)'
        BY <1>1 DEF KeysOf
    <2> QED BY <1>1, <2>1, <2>2, <2>3, KeysKept
<1> QED BY <1>6, <1>7, <1>8, <1>9, <1>10 DEF KeyInv

\* The code is noted ...
LEMMA NoteInv ==
    ASSUME KeyInv, NEW t \in Writers, Keyboard!Note(t)
    PROVE  KeyInv'
<1> DEFINE c == Head(job[t])
<1>1. /\ job[t] # <<>> /\ c.call = "note" /\ Keyboard!Ends(t)
      /\ registered' = registered \cup {c.code}
      /\ UNCHANGED <<enabled, kernel, down, keys, keying, busy, typed, undone, dropped>>
    BY DEF Keyboard!Note, Keyboard!Does
<1>2. /\ job' \in [Writers -> Seq(KeyCalls)] /\ JobsAreOrdered'
      /\ \A u \in Writers : u # t => Pends(u)' = Pends(u)
      /\ Pends(t) = {c} \cup Pends(t)' /\ c \in KeyCalls
    BY <1>1, CallMade DEF KeyInv
<1>3. JobsAreOwned' /\ PendingDeclared'
    BY <1>1, CallKeeps
<1>4. c.code \in enabled
    BY <1>1, <1>2 DEF KeyInv, CodesAreDeclared
<1> HIDE DEF c
<1>5. KeyTypes' /\ CodesAreDeclared'
    BY <1>1, <1>2, <1>3, <1>4 DEF KeyInv, KeyTypes, CodesAreDeclared, PendingDeclared, KeysOf
<1>6. PressesAreKeys' /\ TypedIsKnown' /\ DownIsTyped'
    <2>1. \A u \in Writers : \A d \in Pends(u)' : d.call \in {"press", "clear"} => d \in Pends(u)
        BY <1>2
    <2>2. \A u \in Writers : \A d \in Pends(u) : d.call = "release" => d \in Pends(u)'
        BY <1>1, <1>2
    <2>3. \A b \in KeyActs : KeysOf(b) \subseteq KeysOf(b)'
        BY <1>1 DEF KeysOf
    <2> QED BY <1>1, <2>1, <2>2, <2>3, KeysKept
<1> QED BY <1>2, <1>3, <1>5, <1>6 DEF KeyInv

\* ... and becomes one of the action's.
LEMMA UseCodeInv ==
    ASSUME KeyInv, NEW t \in Writers, Keyboard!UseCode(t)
    PROVE  KeyInv'
<1> DEFINE c == Head(job[t])
<1>1. /\ job[t] # <<>> /\ c.call = "use" /\ Keyboard!Ends(t)
      /\ keys' = [keys EXCEPT ![c.act] = Append(keys[c.act], c.code)]
      /\ UNCHANGED <<registered, enabled, kernel, down, keying, busy, typed, undone, dropped>>
    BY DEF Keyboard!UseCode, Keyboard!Does
<1>2. /\ job' \in [Writers -> Seq(KeyCalls)] /\ JobsAreOrdered'
      /\ \A u \in Writers : u # t => Pends(u)' = Pends(u)
      /\ Pends(t) = {c} \cup Pends(t)' /\ c \in KeyCalls
    BY <1>1, CallMade DEF KeyInv
<1>3. JobsAreOwned' /\ PendingDeclared'
    BY <1>1, CallKeeps
<1>4. PICK a \in KeyActs, k \in KeyCodes : a = c.act /\ k = c.code
    BY <1>1, <1>2 DEF KeyCalls, CallReturn
<1>5. k \in enabled
    BY <1>1, <1>2, <1>4 DEF KeyInv, CodesAreDeclared
<1> HIDE DEF c
<1>6. /\ keys' \in [KeyActs -> Seq(KeyCodes)] /\ KeysOf(a)' = KeysOf(a) \cup {k}
      /\ \A b \in KeyActs : b # a => KeysOf(b)' = KeysOf(b)
    <2>1. keys[a] \in Seq(KeyCodes)
        BY DEF KeyInv, KeyTypes
    <2>2. Append(keys[a], k) \in Seq(KeyCodes)
          /\ Members(Append(keys[a], k)) = Members(keys[a]) \cup {k}
        BY <2>1, MembersOfAppend
    <2>3. /\ keys' \in [KeyActs -> Seq(KeyCodes)] /\ keys'[a] = Append(keys[a], k)
          /\ \A b \in KeyActs : b # a => keys'[b] = keys[b]
        BY <1>1, <1>4, <2>2 DEF KeyInv, KeyTypes
    <2> QED BY <2>2, <2>3 DEF KeysOf
<1>7. KeyTypes' /\ CodesAreDeclared'
    <2>1. \A b \in KeyActs : KeysOf(b)' \subseteq enabled'
        BY <1>1, <1>5, <1>6 DEF KeyInv, CodesAreDeclared
    <2> QED BY <1>1, <1>2, <1>3, <1>6, <2>1
            DEF KeyInv, KeyTypes, CodesAreDeclared, PendingDeclared
<1>8. PressesAreKeys' /\ TypedIsKnown' /\ DownIsTyped'
    <2>1. \A u \in Writers : \A d \in Pends(u)' : d.call \in {"press", "clear"} => d \in Pends(u)
        BY <1>2
    <2>2. \A u \in Writers : \A d \in Pends(u) : d.call = "release" => d \in Pends(u)'
        BY <1>1, <1>2
    <2>3. \A b \in KeyActs : KeysOf(b) \subseteq KeysOf(b)'
        BY <1>6
    <2> QED BY <1>1, <2>1, <2>2, <2>3, KeysKept
<1> QED BY <1>2, <1>3, <1>7, <1>8 DEF KeyInv
\* What the registration of a code puts before the rest of the job.
LEMMA RegisterCalls ==
    ASSUME NEW a \in KeyActs, NEW k \in KeyCodes, NEW c \in KeyCalls,
           c = [call |-> "register", act |-> a, code |-> k]
    PROVE  /\ Keyboard!Steps(c) = <<[call |-> "enable", act |-> a, code |-> k],
                                    [call |-> "note", act |-> a, code |-> k],
                                    [call |-> "use", act |-> a, code |-> k]>>
           /\ <<Keyboard!As(c, "use")>> = <<[call |-> "use", act |-> a, code |-> k]>>
<1>1. ASSUME NEW w PROVE [c EXCEPT !.call = w] = [call |-> w, act |-> a, code |-> k]
    OBVIOUS
<1> QED BY <1>1 DEF Keyboard!Steps, Keyboard!As

\* Whichever calls come before the rest of a job, that it keeps.
LEMMA RegisterKeeps ==
    ASSUME KeyInv, NEW t \in Writers, job[t] # <<>>, Head(job[t]).call = "register",
           NEW a \in KeyActs, Head(job[t]).act = a, NEW p \in Seq(KeyCalls), NEW k,
           \A c \in Members(p) :
              c.call \in {"enable", "note", "use"} /\ c.act = a /\ c.code = k,
           \/ k \in enabled \/ Members(p) = {}
           \/ p # <<>> /\ Head(p).call = "enable" /\ Head(p).code = k,
           Keyboard!Then(t, p),
           UNCHANGED <<registered, enabled, kernel, down, keys, keying, busy, typed, undone, dropped>>
    PROVE  KeyInv'
<1> DEFINE s == Tail(job[t])
<1>1. job[t] \in Seq(KeyCalls) /\ JobIsOrdered(job[t])
    BY DEF KeyInv, KeyTypes, JobsAreOrdered
<1>2. /\ s \in Seq(KeyCalls) /\ JobIsOrdered(s)
      /\ Pends(t) = {Head(job[t])} \cup Members(s)
      /\ \A c \in Pends(t) : c.call # "release"
    BY <1>1, JobTail DEF Pends
<1>3. job' = [job EXCEPT ![t] = p \o s]
    BY DEF Keyboard!Then
<1> HIDE DEF s
<1>4. p \o s \in Seq(KeyCalls) /\ Members(p \o s) = Members(p) \cup Members(s)
    BY <1>2, JobConcat
<1>5. JobIsOrdered(p \o s)
    <2>1. \A c \in Members(p) : c.call # "return"
        OBVIOUS
    <2>2. \A c \in Members(p) \cup Members(s) : c.call # "release"
        BY <1>2
    <2> QED BY <1>2, <2>1, <2>2, ConcatIsOrdered
<1>6. /\ job' \in [Writers -> Seq(KeyCalls)] /\ job'[t] = p \o s
      /\ \A u \in Writers : u # t => job'[u] = job[u]
    BY <1>3, <1>4 DEF KeyInv, KeyTypes
<1>7. Pends(t)' = Members(p) \cup Members(s) /\ \A u \in Writers : u # t => Pends(u)' = Pends(u)
    BY <1>4, <1>6 DEF Pends
<1>8. KeyTypes' /\ JobsAreOrdered'
    BY <1>5, <1>6 DEF KeyInv, KeyTypes, JobsAreOrdered
<1>9. t # "io" /\ busy[t] = a
    BY <1>2 DEF KeyInv, JobsAreOwned
<1>10. JobsAreOwned'
    <2>1. "io" \in Writers /\ "ipc" \in Writers /\ "worker" \in Writers
        BY DEF Writers
    <2>2. \A u \in Writers : \A c \in Pends(u)' : c.call # "return" => c.act = busy'[u]
        BY <1>2, <1>7, <1>9 DEF KeyInv, JobsAreOwned
    <2>3. \A u, v \in Writers : busy'[u] = busy'[v] => u = v \/ busy'[u] = "free"
        BY DEF KeyInv, JobsAreOwned
    <2>4. \A c \in Pends("io")' : c.call \in {"press", "release", "move", "return"}
        BY <1>7, <1>9, <2>1 DEF KeyInv, JobsAreOwned
    <2>5. \A u \in {"ipc", "worker"} : \A c \in Pends(u)' : c.call \notin {"press", "move"}
        BY <1>2, <1>7, <2>1 DEF KeyInv, JobsAreOwned
    <2> QED BY <2>2, <2>3, <2>4, <2>5 DEF JobsAreOwned
<1>11. CodesAreDeclared'
    <2>1. \A b \in KeyActs : KeysOf(b)' \subseteq enabled'
        BY DEF KeyInv, CodesAreDeclared, KeysOf
    <2>2. \A c \in Pends("io")' : c.call \in {"press", "move"} => c.code \in enabled'
        BY <1>7, <1>9 DEF KeyInv, CodesAreDeclared, Writers
    <2>3. \A c \in Members(s) : c.call \in {"note", "use"} => c.code \in enabled
        BY <1>2 DEF KeyInv, CodesAreDeclared
    <2>4. p # <<>> => Head(p \o s) = Head(p)
        BY <1>2
    <2>5. \A c \in Members(p) : \/ c.code \in enabled
                                \/ Head(p \o s).call = "enable" /\ Head(p \o s).code = c.code
        BY <2>4
    <2>6. ASSUME NEW u \in Writers, NEW c \in Pends(u)', c.call \in {"note", "use"}
          PROVE  \/ c.code \in enabled'
                 \/ Head(job'[u]).call = "enable" /\ Head(job'[u]).code = c.code
        <3>1. CASE u = t
            BY <1>6, <1>7, <2>3, <2>5, <2>6, <3>1
        <3>2. CASE u # t
            BY <1>6, <1>7, <2>6, <3>2 DEF KeyInv, CodesAreDeclared
        <3> QED BY <3>1, <3>2
    <2> QED BY <2>1, <2>2, <2>6 DEF KeyInv, CodesAreDeclared
<1>12. PressesAreKeys' /\ TypedIsKnown' /\ DownIsTyped'
    <2>1. \A u \in Writers : \A d \in Pends(u)' : d.call \in {"press", "clear"} => d \in Pends(u)
        BY <1>2, <1>7
    <2>2. \A u \in Writers : \A d \in Pends(u) : d.call = "release" => d \in Pends(u)'
        BY <1>2, <1>7
    <2>3. \A b \in KeyActs : KeysOf(b) \subseteq KeysOf(b)'
        BY DEF KeysOf
    <2> QED BY <2>1, <2>2, <2>3, KeysKept
<1> QED BY <1>8, <1>10, <1>11, <1>12 DEF KeyInv

\* A code is registered: it is declared and noted unless it was.
LEMMA RegisterInv ==
    ASSUME KeyInv, NEW t \in Writers, Keyboard!Register(t)
    PROVE  KeyInv'
<1> DEFINE c == Head(job[t])
<1>1. /\ job[t] # <<>> /\ c.call = "register"
      /\ Keyboard!Then(t, IF c.code = "KEY_NONE" THEN <<>>
                          ELSE IF c.code \in registered THEN <<Keyboard!As(c, "use")>>
                          ELSE Keyboard!Steps(c))
      /\ UNCHANGED <<registered, enabled, kernel, down, keys, keying, busy, typed, undone, dropped>>
    BY DEF Keyboard!Register, Keyboard!Does
<1>2. c \in KeyCalls
    <2>1. job[t] \in Seq(KeyCalls) /\ JobIsOrdered(job[t])
        BY DEF KeyInv, KeyTypes, JobsAreOrdered
    <2> QED BY <1>1, <2>1, JobTail
<1>3. PICK a \in KeyActs, k \in KeyCodes : c = [call |-> "register", act |-> a, code |-> k]
    BY <1>1, <1>2 DEF KeyCalls, CallReturn
<1>4. c.act = a /\ c.code = k
    BY <1>3
<1> DEFINE e == [call |-> "enable", act |-> a, code |-> k]
           n == [call |-> "note", act |-> a, code |-> k]
           u == [call |-> "use", act |-> a, code |-> k]
<1>5. <<Keyboard!As(c, "use")>> = <<u>> /\ Keyboard!Steps(c) = <<e, n, u>>
    BY <1>2, <1>3, RegisterCalls
<1> HIDE DEF c
<1>6. /\ e \in KeyCalls /\ n \in KeyCalls /\ u \in KeyCalls
      /\ e.call = "enable" /\ n.call = "note" /\ u.call = "use"
      /\ e.act = a /\ n.act = a /\ u.act = a /\ e.code = k /\ n.code = k /\ u.code = k
    BY DEF KeyCalls, CodeCalls
<1> HIDE DEF e, n, u
<1>7. CASE c.code = "KEY_NONE"
    <2>1. Keyboard!Then(t, <<>>)
        BY <1>1, <1>7
    <2> QED BY <1>1, <1>4, <2>1, NoCalls, RegisterKeeps DEF c
<1>8. CASE c.code # "KEY_NONE" /\ c.code \in registered
    <2>1. Keyboard!Then(t, <<u>>) /\ k \in enabled
        BY <1>1, <1>4, <1>5, <1>8 DEF KeyInv, CodesAreDeclared
    <2>2. <<u>> \in Seq(KeyCalls) /\ Members(<<u>>) = {u}
        <3>1. <<u>> \in Seq(KeyCalls) /\ DOMAIN <<u>> = {1} /\ <<u>>[1] = u
            BY <1>6
        <3> QED BY <3>1 DEF Members
    <2>3. \A d \in Members(<<u>>) :
              d.call \in {"enable", "note", "use"} /\ d.act = a /\ d.code = k
        BY <1>6, <2>2
    <2> QED BY <1>1, <1>4, <2>1, <2>2, <2>3, RegisterKeeps DEF c
<1>9. CASE c.code # "KEY_NONE" /\ c.code \notin registered
    <2> DEFINE p == <<e, n, u>>
    <2>1. Keyboard!Then(t, p)
        BY <1>1, <1>5, <1>9
    <2>2. p \in Seq(KeyCalls) /\ Head(p) = e /\ p # <<>> /\ Members(p) = {e, n, u}
        <3>1. p \in Seq(KeyCalls) /\ Head(p) = e /\ p # <<>>
            BY <1>6
        <3>2. DOMAIN p = {1, 2, 3} /\ p[1] = e /\ p[2] = n /\ p[3] = u
            OBVIOUS
        <3> HIDE DEF p
        <3> QED BY <3>1, <3>2 DEF Members
    <2> HIDE DEF p
    <2>3. \A d \in Members(p) : d.call \in {"enable", "note", "use"} /\ d.act = a /\ d.code = k
        BY <1>6, <2>2
    <2>4. p # <<>> /\ Head(p).call = "enable" /\ Head(p).code = k
        BY <1>6, <2>2
    <2> QED BY <1>1, <1>4, <2>1, <2>2, <2>3, <2>4, RegisterKeeps DEF c
<1> QED BY <1>7, <1>8, <1>9

\* A job returns when nothing is left of it.
LEMMA ReturnInv ==
    ASSUME KeyInv, NEW t \in Writers, Keyboard!Return(t)
    PROVE  KeyInv'
<1>1. /\ job[t] # <<>> /\ Head(job[t]).call = "return" /\ Keyboard!Ends(t)
      /\ busy' = [busy EXCEPT ![t] = "free"]
      /\ UNCHANGED <<registered, enabled, kernel, down, keys, keying, typed, undone, dropped>>
    BY DEF Keyboard!Return, Keyboard!Does, Keyboard!Free
<1>2. /\ job' \in [Writers -> Seq(KeyCalls)] /\ JobsAreOrdered'
      /\ \A u \in Writers : u # t => job'[u] = job[u] /\ Pends(u)' = Pends(u)
      /\ Pends(t)' = {} /\ \A d \in Pends(t) : d.call # "release"
    BY <1>1, CallMade DEF KeyInv
<1>3. /\ busy' \in [Writers -> KeyActs \cup {"free"}] /\ busy'[t] = "free"
      /\ \A u \in Writers : u # t => busy'[u] = busy[u]
    BY <1>1 DEF KeyInv, KeyTypes
<1>4. JobsAreOwned'
    <2>1. "io" \in Writers /\ "ipc" \in Writers /\ "worker" \in Writers
        BY DEF Writers
    <2>2. \A u \in Writers : \A c \in Pends(u)' : c.call # "return" => c.act = busy'[u]
        BY <1>2, <1>3 DEF KeyInv, JobsAreOwned
    <2>3. \A u, v \in Writers : busy'[u] = busy'[v] => u = v \/ busy'[u] = "free"
        BY <1>3 DEF KeyInv, JobsAreOwned
    <2>4. \A u \in Writers : Pends(u)' \subseteq Pends(u)
        BY <1>2
    <2> QED BY <2>1, <2>2, <2>3, <2>4 DEF KeyInv, JobsAreOwned
<1>5. KeyTypes'
    BY <1>1, <1>2, <1>3 DEF KeyInv, KeyTypes
<1>6. CodesAreDeclared'
    <2>1. \A a \in KeyActs : KeysOf(a)' \subseteq enabled'
        BY <1>1 DEF KeyInv, CodesAreDeclared, KeysOf
    <2>2. \A c \in Pends("io")' : c.call \in {"press", "move"} => c.code \in enabled'
        BY <1>1, <1>2 DEF KeyInv, CodesAreDeclared, Writers
    <2>3. ASSUME NEW u \in Writers, NEW c \in Pends(u)', c.call \in {"note", "use"}
          PROVE  \/ c.code \in enabled'
                 \/ Head(job'[u]).call = "enable" /\ Head(job'[u]).code = c.code
        <3>1. u # t /\ c \in Pends(u)
            BY <1>2, <2>3
        <3> QED BY <1>1, <1>2, <2>3, <3>1 DEF KeyInv, CodesAreDeclared
    <2> QED BY <1>1, <2>1, <2>2, <2>3 DEF KeyInv, CodesAreDeclared
<1>7. PressesAreKeys' /\ TypedIsKnown' /\ DownIsTyped'
    <2>1. \A u \in Writers : \A d \in Pends(u)' : d.call \in {"press", "clear"} => d \in Pends(u)
        BY <1>2
    <2>2. \A u \in Writers : \A d \in Pends(u) : d.call = "release" => d \in Pends(u)'
        BY <1>2
    <2>3. \A b \in KeyActs : KeysOf(b) \subseteq KeysOf(b)'
        BY <1>1 DEF KeysOf
    <2> QED BY <1>1, <2>1, <2>2, <2>3, KeysKept
<1> QED BY <1>2, <1>4, <1>5, <1>6, <1>7 DEF KeyInv
\* Nothing is pressed and no job is under way at first.
LEMMA KeyInitInv == ASSUME Keyboard!Init PROVE KeyInv
<1>1. /\ registered = {"KEY_A", "KEY_B"} /\ enabled = registered /\ kernel = registered
      /\ down = {} /\ keying = {} /\ dropped = {}
      /\ job = [t \in Writers |-> <<>>] /\ busy = [t \in Writers |-> "free"]
      /\ typed = [a \in KeyActs |-> {}]
    <2>1. Keyboard!Threads = Writers /\ Keyboard!Acts = KeyActs
        BY DEF Keyboard!Threads, Writers, Keyboard!Acts, KeyActs
    <2> QED BY <2>1 DEF Keyboard!Init, Keyboard!Free
<1>2. PICK k \in [{"keypress"} -> {"KEY_A", "KEY_B"}] :
          keys = [a \in KeyActs |-> IF a \in {"keypress"} THEN <<k[a]>> ELSE <<>>]
    BY DEF Keyboard!Init, Keyboard!Acts, KeyActs
<1>3. keys \in [KeyActs -> Seq(KeyCodes)] /\ \A a \in KeyActs : KeysOf(a) \subseteq enabled
    <2>1. \A a \in KeyActs : keys[a] = <<>> \/ \E c \in {"KEY_A", "KEY_B"} : keys[a] = <<c>>
        BY <1>2
    <2>2. <<>> \in Seq(KeyCodes) /\ Members(<<>>) = {}
        BY NoCalls
    <2>3. ASSUME NEW c \in {"KEY_A", "KEY_B"}
          PROVE  <<c>> \in Seq(KeyCodes) /\ Members(<<c>>) = {c}
        <3>1. c \in KeyCodes
            BY <2>3 DEF KeyCodes
        <3>2. <<c>> \in Seq(KeyCodes) /\ DOMAIN <<c>> = {1} /\ <<c>>[1] = c
            BY <3>1
        <3> QED BY <3>2 DEF Members
    <2>4. \A a \in KeyActs : keys[a] \in Seq(KeyCodes) /\ Members(keys[a]) \subseteq enabled
        BY <1>1, <2>1, <2>2, <2>3
    <2>5. keys \in [KeyActs -> Seq(KeyCodes)]
        BY <1>2, <2>4
    <2> QED BY <2>4, <2>5 DEF KeysOf
<1>4. \A t \in Writers : job[t] = <<>> /\ Pends(t) = {}
    BY <1>1, NoCalls DEF Pends
<1>5. KeyTypes
    BY <1>1, <1>3, NoCalls DEF KeyTypes
<1>6. JobsAreOrdered
    BY <1>4 DEF JobsAreOrdered, JobIsOrdered
<1>7. JobsAreOwned
    BY <1>1, <1>4 DEF JobsAreOwned, Writers
<1>8. CodesAreDeclared
    BY <1>1, <1>3, <1>4 DEF CodesAreDeclared, Writers
<1>9. PressesAreKeys
    BY <1>4 DEF PressesAreKeys, Writers
<1>10. TypedIsKnown /\ DownIsTyped
    BY <1>1 DEF TypedIsKnown, DownIsTyped
<1> QED BY <1>5, <1>6, <1>7, <1>8, <1>9, <1>10 DEF KeyInv

\* Every step keeps the invariant.
LEMMA KeyNextInv == ASSUME KeyInv, Keyboard!Next \/ UNCHANGED Keyboard!vars PROVE KeyInv'
<1>1. CASE UNCHANGED Keyboard!vars
    BY <1>1 DEF Keyboard!vars, KeyInv, KeyTypes, JobsAreOrdered, JobsAreOwned, CodesAreDeclared,
        PressesAreKeys, TypedIsKnown, DownIsTyped, ToRelease, ToClear, Pends, KeysOf
<1>2. ASSUME NEW a \in KeyActs \ {"axis"}, Keyboard!Press(a) \/ Keyboard!Release(a) PROVE KeyInv'
    BY <1>2, PressInv, ReleaseInv
<1>3. ASSUME NEW n \in Keyboard!Names,
             \/ Keyboard!Make(n)
             \/ \E a \in {"keypress"} : Keyboard!SetKeys(a, n)
      PROVE  KeyInv'
    <2>1. "keypress" \in KeyActs \ {"axis"}
        BY DEF KeyActs
    <2> QED BY <1>3, <2>1, MakeInv, SetKeysInv
<1>4. ASSUME NEW c \in {"KEY_MACRO1", "REL_MISC"}, Keyboard!SetAxis(c) PROVE KeyInv'
    <2>1. c \in KeyCodes
        BY <1>4 DEF KeyCodes
    <2> QED BY <1>4, <2>1, SetAxisInv
<1>5. ASSUME NEW t \in Writers,
             \/ Keyboard!SendKey(t) \/ Keyboard!LetKeyGo(t) \/ Keyboard!MoveAxis(t)
             \/ Keyboard!Clear(t) \/ Keyboard!Register(t) \/ Keyboard!Enable(t)
             \/ Keyboard!EnableFails(t) \/ Keyboard!Note(t) \/ Keyboard!UseCode(t)
             \/ Keyboard!Return(t)
      PROVE  KeyInv'
    BY <1>5, SendKeyInv, LetKeyGoInv, MoveAxisInv, ClearInv, RegisterInv, EnableInv,
       EnableFailsInv, NoteInv, UseCodeInv, ReturnInv
<1>6. CASE Keyboard!Next
    <2>1. {"keypress"} \cup {"new keypress"} = KeyActs \ {"axis"}
        BY DEF KeyActs
    <2>2. Keyboard!Threads = Writers
        BY DEF Keyboard!Threads, Writers
    <2> QED BY <1>2, <1>3, <1>4, <1>5, <1>6, <2>1, <2>2, MoveInv DEF Keyboard!Next
<1> QED BY <1>1, <1>6

\* The invariant says what the kernel sees once no call is under way.
LEMMA KeysAgree == ASSUME KeyInv PROVE Keyboard!KernelAgrees
<1>1. dropped = {}
    BY DEF KeyInv, CodesAreDeclared
<1>2. ASSUME \A t \in Keyboard!Threads : job[t] = <<>>
      PROVE  /\ down \subseteq UNION {typed[a] : a \in keying}
             /\ UNION {typed[a] : a \in keying} \subseteq down \cup undone
    <2>1. \A t \in Writers : Pends(t) = {}
        BY <1>2, NoCalls DEF Keyboard!Threads, Writers, Pends
    <2>2. \A a \in KeyActs : \A k : ~ToRelease(a, k)
        BY <2>1 DEF ToRelease
    <2>3. \A a \in KeyActs : \A k \in typed[a] : a \in keying /\ k \in down \cup undone
        BY <2>2 DEF KeyInv, TypedIsKnown
    <2>4. \A k \in down : \E a \in keying : k \in typed[a]
        BY <2>3 DEF KeyInv, DownIsTyped
    <2>5. \A a \in keying : \A k \in typed[a] : k \in down \cup undone
        BY <2>3 DEF KeyInv, KeyTypes
    <2> QED BY <2>4, <2>5
<1> QED BY <1>1, <1>2 DEF Keyboard!KernelAgrees

(***************************************************************************)
(* VirtualTouchpad: what the kernel is told of contacts and tools.         *)
(***************************************************************************)

\* While the part is explored, its steps are those of VirtualTouchpad.
LEMMA TouchpadMove ==
    ASSUME MCNext, part = "touchpad"
    PROVE  part' = part /\ (Touchpad!Next \/ UNCHANGED Touchpad!vars)
BY DEF MCNext, Rest, Touchpad!vars, touchpadVars

\* The part starts as VirtualTouchpad does.
LEMMA TouchpadInit ==
    ASSUME MCInit, part = "touchpad"
    PROVE  Touchpad!Init
BY DEF MCInit

Gesturing == {"gesture button", "mode button"}

\* The fields of the touchpad and its buttons have their types.
TouchTypes ==
    /\ touching \in BOOLEAN /\ touch \in BOOLEAN /\ next \in Int
    /\ fingers = 0 \/ fingers \in {3, 4}
    /\ contacts \in [0 .. 3 -> Int]
    /\ wishes \in [Gesturing -> Int]

\* The kernel has the contacts and the tool of the gesture that is under way.
KernelHasGesture ==
    /\ touching <=> fingers # 0
    /\ touch <=> touching
    /\ tools = IF fingers = 0 THEN {} ELSE {Touchpad!ToolCode(fingers)}
    /\ tracked = [i \in 0 .. 3 |-> IF i < fingers THEN next - fingers + i ELSE None]
    /\ \A i \in 0 .. 3 : i < fingers => contacts[i] = next - fingers + i

\* A gesture is some button's, and goes on while its button did not lose it.
GestureIsSomeones ==
    /\ touching => gesture # {}
    /\ gesture \ ended # {} => touching

TouchInv == TouchTypes /\ KernelHasGesture /\ GestureIsSomeones

\* The slots of a contact.
LEMMA TouchSlots == Touchpad!Slots = 0 .. 3
BY DEF Touchpad!Slots, Touchpad!max_fingers

\* Fingers that are asked for become three or four.
LEMMA ClampFacts == ASSUME NEW n \in Int PROVE Touchpad!Clamp(n) \in {3, 4}
BY DEF Touchpad!Clamp, Touchpad!min_fingers, Touchpad!max_fingers

\* The number of fingers that is wanted is a number.
LEMMA ClampWanted == \A n \in {1, 3, 4} : Touchpad!Clamp(n) \in Int
BY ClampFacts

\* Nothing is touched at first.
LEMMA TouchInitInv == ASSUME Touchpad!Init PROVE TouchInv
<1>1. touching = FALSE /\ touch = FALSE /\ fingers = 0 /\ tools = {} /\ gesture = {} /\ next = 1
    BY DEF Touchpad!Init
<1>2. tracked = [i \in 0 .. 3 |-> None] /\ contacts = [i \in 0 .. 3 |-> 0]
    BY TouchSlots DEF Touchpad!Init
<1>3. wishes \in [Gesturing -> Int]
    <2>1. wishes \in [Gesturing -> {1, 3, 4}]
        BY DEF Gesturing, Touchpad!Init
    <2> QED BY <2>1
<1>4. TouchTypes
    <2>1. contacts \in [0 .. 3 -> Int]
        BY <1>2
    <2>2. touching \in BOOLEAN /\ touch \in BOOLEAN
        BY <1>1, Zenon
    <2>3. next \in Int
        BY <1>1
    <2>4. fingers = 0
        BY <1>1, Zenon
    <2> QED BY <1>3, <2>1, <2>2, <2>3, <2>4, Zenon DEF TouchTypes
<1>5. KernelHasGesture
    <2>1. \A i \in 0 .. 3 : ~(i < fingers)
        BY <1>1
    <2>2. tracked = [i \in 0 .. 3 |-> IF i < fingers THEN next - fingers + i ELSE None]
        BY <1>2, <2>1
    <2> QED BY <1>1, <2>1, <2>2 DEF KernelHasGesture
<1> QED BY <1>1, <1>4, <1>5 DEF TouchInv, GestureIsSomeones

\* A gesture that begins ends the one under way and has as many new contacts as
\* it has fingers.
LEMMA TouchBegins ==
    ASSUME TouchTypes, KernelHasGesture, NEW w \in Int, Touchpad!BeginGesture(w),
           UNCHANGED wishes
    PROVE  TouchTypes' /\ KernelHasGesture' /\ touching'
<1> USE ComponentsAssumption DEF Touchpad!VirtualTouchpadAssumption, Touchpad!Slots,
        Touchpad!max_fingers, Touchpad!min_fingers, TouchTypes
<1> DEFINE n == Touchpad!Clamp(w)
<1>1. n \in {3, 4}
    BY ClampFacts
<1>2. touching' /\ fingers' = n /\ next' = next + n /\ touch'
    BY DEF Touchpad!BeginGesture
<1>3. contacts' = [i \in 0 .. 3 |-> IF i < n THEN next + i ELSE contacts[i]]
    BY DEF Touchpad!BeginGesture
<1>4. Touchpad!Cleared.tracked = [i \in 0 .. 3 |-> None]
    BY DEF Touchpad!Cleared, Touchpad!Lifted, KernelHasGesture
<1>5. Touchpad!Cleared.tools = {}
    BY DEF Touchpad!Cleared, KernelHasGesture
<1>6. tools' = {Touchpad!ToolCode(n)}
    BY <1>5 DEF Touchpad!BeginGesture
<1>7. tracked' = [i \in 0 .. 3 |-> IF i < n THEN next + i ELSE None]
    BY <1>4 DEF Touchpad!BeginGesture, Touchpad!Written
<1> HIDE DEF n
<1>8. TouchTypes'
    BY <1>1, <1>2, <1>3
<1>9. KernelHasGesture'
    <2>1. n # 0 /\ next' - n = next
        BY <1>1, <1>2
    <2>2. \A i \in 0 .. 3 : next' - n + i = next + i
        BY <2>1
    <2> QED BY <1>2, <1>3, <1>6, <1>7, <2>1, <2>2 DEF KernelHasGesture
<1> QED BY <1>2, <1>8, <1>9

\* A gesture that ends leaves no contact.
LEMMA TouchEnds ==
    ASSUME TouchTypes, KernelHasGesture, Touchpad!EndGesture, UNCHANGED wishes
    PROVE  TouchTypes' /\ KernelHasGesture' /\ ~touching'
<1> USE DEF Touchpad!Slots, Touchpad!max_fingers, TouchTypes
<1>1. CASE ~touching
    <2>1. UNCHANGED <<touching, fingers, contacts, next, tracked, tools, touch>>
        BY <1>1 DEF Touchpad!EndGesture, Touchpad!padVars, Touchpad!kernelVars
    <2> QED BY <1>1, <2>1 DEF KernelHasGesture
<1>2. CASE touching
    <2>1. touching' = FALSE /\ fingers' = 0 /\ touch' = FALSE /\ UNCHANGED <<contacts, next>>
        BY <1>2 DEF Touchpad!EndGesture
    <2>2. tools' = {}
        BY <1>2 DEF Touchpad!EndGesture, KernelHasGesture
    <2>3. tracked' = [i \in 0 .. 3 |-> None]
        BY <1>2 DEF Touchpad!EndGesture, Touchpad!Lifted, KernelHasGesture
    <2>4. TouchTypes'
        BY <2>1, <2>3
    <2>5. \A i \in 0 .. 3 : ~(i < fingers')
        BY <2>1
    <2>6. tracked' = [i \in 0 .. 3 |-> IF i < fingers' THEN next' - fingers' + i ELSE None]
        BY <2>3, <2>5
    <2>7. ~touch' /\ KernelHasGesture'
        BY <2>1, <2>2, <2>5, <2>6 DEF KernelHasGesture
    <2> QED BY <2>1, <2>4, <2>7
<1> QED BY <1>1, <1>2

\* Every step keeps the invariant.
LEMMA TouchNextInv == ASSUME TouchInv, Touchpad!Next \/ UNCHANGED Touchpad!vars PROVE TouchInv'
<1> USE DEF TouchInv, Gesturing
<1>1. CASE UNCHANGED Touchpad!vars
    BY <1>1 DEF Touchpad!vars, TouchTypes, KernelHasGesture, GestureIsSomeones
<1>2. CASE UNCHANGED <<Touchpad!padVars, Touchpad!kernelVars, gesture, ended>> /\ TouchTypes'
    BY <1>2 DEF Touchpad!padVars, Touchpad!kernelVars, KernelHasGesture, GestureIsSomeones
<1>3. ASSUME NEW b \in Gesturing, Touchpad!BeginGesture(wishes[b]), gesture' = gesture \cup {b},
             UNCHANGED wishes
      PROVE  TouchInv'
    <2>1. wishes[b] \in Int
        BY DEF TouchTypes
    <2>2. TouchTypes' /\ KernelHasGesture' /\ touching'
        BY <1>3, <2>1, TouchBegins
    <2> QED BY <1>3, <2>2 DEF GestureIsSomeones
<1>4. ASSUME NEW b \in Gesturing, NEW click \in BOOLEAN, Touchpad!Press(b, click) PROVE TouchInv'
    <2>1. CASE click
        BY <1>2, <1>4, <2>1 DEF Touchpad!Press, Touchpad!padVars, Touchpad!kernelVars, TouchTypes
    <2>2. CASE ~click
        BY <1>3, <1>4, <2>2 DEF Touchpad!Press
    <2> QED BY <2>1, <2>2
<1>5. ASSUME NEW b \in Gesturing, Touchpad!Move(b) PROVE TouchInv'
    <2>1. CASE b \in gesture
        <3>1. UNCHANGED <<touching, fingers, contacts, next, tools, touch, gesture, ended, wishes>>
            BY <1>5, <2>1 DEF Touchpad!Move, Touchpad!MoveGesture, Touchpad!padVars
        <3>2. tracked' = tracked
            <4>1. tracked' = IF touching THEN Touchpad!Written(fingers, contacts, tracked)
                             ELSE tracked
                BY <1>5, <2>1 DEF Touchpad!Move, Touchpad!MoveGesture
            <4>2. Touchpad!Written(fingers, contacts, tracked) =
                      [i \in 0 .. 3 |-> IF i < fingers THEN contacts[i] ELSE tracked[i]]
                BY TouchSlots DEF Touchpad!Written
            <4>3. \A i \in 0 .. 3 :
                      (IF i < fingers THEN contacts[i] ELSE tracked[i]) = tracked[i]
                BY DEF KernelHasGesture
            <4>4. tracked = [i \in 0 .. 3 |-> tracked[i]]
                BY DEF KernelHasGesture
            <4> QED BY <4>1, <4>2, <4>3, <4>4
        <3> QED BY <3>1, <3>2 DEF TouchTypes, KernelHasGesture, GestureIsSomeones
    <2>2. CASE b \notin gesture
        BY <1>3, <1>5, <2>2 DEF Touchpad!Move
    <2> QED BY <2>1, <2>2
<1>6. ASSUME NEW b \in Gesturing, Touchpad!Release(b) PROVE TouchInv'
    <2>1. CASE b \in gesture
        <3>1. Touchpad!EndGesture /\ UNCHANGED wishes /\ gesture' \subseteq ended'
            BY <1>6, <2>1 DEF Touchpad!Release
        <3> QED BY <3>1, TouchEnds DEF GestureIsSomeones
    <2>2. CASE b \notin gesture
        BY <1>2, <1>6, <2>2 DEF Touchpad!Release, Touchpad!padVars, Touchpad!kernelVars, TouchTypes
    <2> QED BY <2>1, <2>2
<1>7. ASSUME NEW b \in Gesturing, NEW n \in {1, 3, 4}, Touchpad!SetFingers(b, n) PROVE TouchInv'
    <2>1. Touchpad!Clamp(n) \in Int
        BY <1>7, ClampWanted, Zenon
    <2>2. UNCHANGED <<Touchpad!padVars, Touchpad!kernelVars, gesture, ended>>
        BY <1>7 DEF Touchpad!SetFingers
    <2>3. wishes' \in [Gesturing -> Int]
        BY <1>7, <2>1 DEF Touchpad!SetFingers, TouchTypes
    <2> QED BY <1>2, <2>2, <2>3 DEF TouchTypes, Touchpad!padVars, Touchpad!kernelVars
<1> QED BY <1>1, <1>4, <1>5, <1>6, <1>7 DEF Touchpad!Next

\* The invariant says what the kernel sees.
LEMMA TouchAgrees == ASSUME TouchInv PROVE Touchpad!TouchpadAgrees
<1> USE ComponentsAssumption DEF Touchpad!VirtualTouchpadAssumption, TouchInv, TouchTypes
<1> DEFINE live == {i \in Touchpad!Slots : tracked[i] # None}
<1>1. live = 0 .. fingers - 1
    BY DEF KernelHasGesture, Touchpad!Slots, Touchpad!max_fingers
<1>2. Touchpad!Cardinality(live) = fingers
    <2>1. Cardinality(0 .. fingers - 1) = fingers
        BY FS_Interval
    <2> QED BY <1>1, <2>1, Zenon DEF Touchpad!Cardinality, Cardinality
<1>3. {tracked[i] : i \in live} = next - fingers .. next - 1
    <2>1. \A i \in 0 .. fingers - 1 : tracked[i] = next - fingers + i
        BY DEF KernelHasGesture
    <2>2. \A n \in next - fingers .. next - 1 :
              n - (next - fingers) \in 0 .. fingers - 1
              /\ n = next - fingers + (n - (next - fingers))
        OBVIOUS
    <2>3. \A i \in 0 .. fingers - 1 : next - fingers + i \in next - fingers .. next - 1
        OBVIOUS
    <2>4. \A m : m \in {tracked[i] : i \in live} => m \in next - fingers .. next - 1
        BY <1>1, <2>1, <2>3
    <2>5. \A m \in next - fingers .. next - 1 : m \in {tracked[i] : i \in live}
        <3> SUFFICES ASSUME NEW m \in next - fingers .. next - 1
                     PROVE  \E i \in live : m = tracked[i]
            OBVIOUS
        <3> DEFINE i == m - (next - fingers)
        <3>1. i \in 0 .. fingers - 1 /\ m = next - fingers + i
            BY <2>2
        <3> HIDE DEF i
        <3> QED BY <1>1, <2>1, <3>1
    <2> HIDE DEF live
    <2> QED BY <2>4, <2>5
<1>4. (live = {}) <=> fingers = 0
    BY <1>1
<1> HIDE DEF live
<1>5. tools = IF live = {} THEN {} ELSE {Touchpad!ToolCode(fingers)}
    BY <1>4 DEF KernelHasGesture
<1>6. touch = (live # {})
    BY <1>4 DEF KernelHasGesture
<1>7. (live # {} => gesture # {}) /\ (gesture \ ended # {} => live # {})
    BY <1>4 DEF KernelHasGesture, GestureIsSomeones
<1>8. fingers \in {0, 3, 4}
    OBVIOUS
<1> HIDE DEF TouchInv, TouchTypes
<1> QED BY <1>1, <1>2, <1>3, <1>5, <1>6, <1>7, <1>8, Zenon DEF Touchpad!TouchpadAgrees, live

TouchOk == part = "touchpad" => TouchInv

\* No event is lost for want of a declared code, no key stays down when its action
\* is not pressed, and the kernel has the contacts, the tool and the touch of one
\* gesture or of none (InputDevice.cpp, TouchpadDevice.cpp).
THEOREM KernelAlwaysAgrees == MCSpec => []KernelAgrees
<1>1. MCInit => KeyOk /\ TouchOk
    BY KeyboardInit, KeyInitInv, TouchpadInit, TouchInitInv DEF KeyOk, TouchOk
<1>2. KeyOk /\ TouchOk /\ [MCNext]_allVars => (KeyOk /\ TouchOk)'
    <2>1. CASE MCNext
        BY <2>1, PartStays, KeyboardMove, KeyNextInv, TouchpadMove, TouchNextInv
           DEF KeyOk, TouchOk
    <2>2. CASE UNCHANGED allVars
        <3>1. UNCHANGED part /\ UNCHANGED Keyboard!vars /\ UNCHANGED Touchpad!vars
            BY <2>2 DEF allVars, keyboardVars, touchpadVars, Keyboard!vars, Touchpad!vars
        <3> QED BY <3>1, KeyNextInv, TouchNextInv DEF KeyOk, TouchOk
    <2> QED BY <2>1, <2>2
<1>3. KeyOk /\ TouchOk => KernelAgrees
    BY KeysAgree, TouchAgrees DEF KeyOk, TouchOk, KernelAgrees
<1> QED BY <1>1, <1>2, <1>3, PTL DEF MCSpec

=============================================================================
