-------------------------- MODULE DeviceLinkProofs --------------------------
(***************************************************************************)
(* The devices of a receiver, for any indices, workers, notifications and  *)
(* tries: hooks alternate, the last one tells the device's state, a device *)
(* that is gone was told so unless a wakeup overtook its end, and an index *)
(* is pending only while something will still try to add it.               *)
(***************************************************************************)
EXTENDS DeviceLink, SequenceTheorems, TLAPS

TypeInv == TypeOK /\ task \in [Workers -> Task \cup {Nobody}]

\* _devices_change: its owner is where the devices are changed, and nobody
\* else is.
ChangeIsExclusive ==
    \A w \in Workers : pc[w] \in {"locked", "erase", "emplace"} <=> change = w

\* Where a worker is in _addHandler() tells which task it has.
TaskFits ==
    \A w \in Workers :
        /\ pc[w] \in {"emplace", "added", "notready", "giveup", "failed"} =>
               task[w].kind = "add"
        /\ pc[w] = "erase" => task[w].kind = "remove"
        /\ pc[w] = "notready" => task[w].check

\* Whether the last hook of a sequence is on_connect, if its hooks alternate.
Odd(s) == Len(s) % 2 = 1

\* The manager lets the Receiver go when it has put every Device to sleep.
ManagerInv == (~unplugged => alive) /\ (unslept # {} => alive)

At(w, s, i) == pc[w] = s /\ Index(w) = i
Made(i) == \E w \in Workers : At(w, "emplace", i)

\* A sleep() is still to come for the Device in _devices.
WillSleep(i) ==
    /\ i \in present
    /\ \A w \in Workers : ~At(w, "erase", i)
    /\ unplugged => i \in unslept

\* GoneAreTold alone is not inductive: whether a Device that is awake will be
\* told of its end depends on how far its removal, and that of the Receiver,
\* have come.
WillBeTold == \A i \in Indices : awake[i] => i \in raced \/ Made(i) \/ WillSleep(i)

\* What run_task_after() holds of a device being added are further tries.
DelayedAreRetries ==
    \A t \in BagToSet(delayed) : t.kind = "add" => t.tries > 0

\* Only tasks that add a device check it.
ChecksAreAdds ==
    /\ \A n \in DOMAIN queue : queue[n].check => queue[n].kind = "add"
    /\ \A t \in BagToSet(delayed) : t.check => t.kind = "add"
    /\ \A w \in Workers : pc[w] # "idle" /\ task[w].check => task[w].kind = "add"

\* The worker has the chain of tries that made index i pending.
Tries(w, i) ==
    /\ pc[w] \notin {"idle", "wake", "giveup"}
    /\ Check(task[w], i)
    /\ pc[w] = "begin" => task[w].tries > 0

\* A pending index has its chain of tries: PendingIsWorkedOn alone is not
\* inductive, because a task that finds the index pending goes away.
Chained(i) ==
    \/ \E w \in Workers : Tries(w, i)
    \/ \E t \in BagToSet(delayed) : Check(t, i)
    \/ \E n \in DOMAIN queue : Check(queue[n], i) /\ queue[n].tries > 0

PendingHasChain == \A i \in pending : SelfLocks => Chained(i)

\* What is inductive.
IInv ==
    /\ TypeInv
    /\ ChangeIsExclusive
    /\ TaskFits
    /\ ManagerInv
    /\ HooksAlternate
    /\ WillBeTold
    /\ DelayedAreRetries
    /\ ChecksAreAdds
    /\ PendingHasChain

-----------------------------------------------------------------------------
\* What BagAdd and BagRemove do to the elements of a bag.
LEMMA BagAddFacts ==
    ASSUME NEW B, NEW x, IsABag(B)
    PROVE  /\ IsABag(BagAdd(B, x))
           /\ BagToSet(BagAdd(B, x)) = BagToSet(B) \cup {x}
BY DEF IsABag, BagAdd, BagToSet

\* A bag from which one element is taken keeps the others.
LEMMA BagRemoveFacts ==
    ASSUME NEW B, NEW x, IsABag(B)
    PROVE  /\ IsABag(BagRemove(B, x))
           /\ BagToSet(BagRemove(B, x)) \subseteq BagToSet(B)
           /\ \A e \in BagToSet(B) : e # x => e \in BagToSet(BagRemove(B, x))
BY DEF IsABag, BagRemove, BagToSet

\* The empty bag holds nothing.
LEMMA EmptyBagFacts == IsABag(EmptyBag) /\ BagToSet(EmptyBag) = {}
BY DEF IsABag, EmptyBag, BagToSet, SetToBag

\* The queue's elements after a push and after a pop.
LEMMA PushFacts ==
    ASSUME NEW S, NEW s \in Seq(S), NEW e \in S
    PROVE  /\ Append(s, e) \in Seq(S)
           /\ \A n \in DOMAIN s : n \in DOMAIN Append(s, e) /\ Append(s, e)[n] = s[n]
           /\ Len(s) + 1 \in DOMAIN Append(s, e)
           /\ Append(s, e)[Len(s) + 1] = e
OBVIOUS

\* What is left of a queue, and what was taken.
LEMMA PopFacts ==
    ASSUME NEW S, NEW s \in Seq(S), s # <<>>
    PROVE  /\ Head(s) \in S
           /\ Tail(s) \in Seq(S)
           /\ \A n \in DOMAIN s : \/ s[n] = Head(s)
                                  \/ \E m \in DOMAIN Tail(s) : Tail(s)[m] = s[n]
<1>1. /\ Head(s) \in S /\ Tail(s) \in Seq(S) /\ Head(s) = s[1]
      /\ DOMAIN s = 1..Len(s) /\ DOMAIN Tail(s) = 1..Len(s) - 1
      /\ Len(s) \in Nat
      /\ \A m \in 1..Len(s) - 1 : Tail(s)[m] = s[m + 1]
  OBVIOUS
<1>2. ASSUME NEW n \in DOMAIN s, n # 1
      PROVE  \E m \in DOMAIN Tail(s) : Tail(s)[m] = s[n]
  <2>1. n - 1 \in DOMAIN Tail(s) /\ Tail(s)[n - 1] = s[n]
    BY <1>1, <1>2
  <2> QED
    BY <2>1
<1> QED
  BY <1>1, <1>2

\* The tasks are of their type.
LEMMA TaskTypes ==
    ASSUME TypeInv
    PROVE  /\ \A i \in Indices, up \in BOOLEAN, check \in BOOLEAN :
                  AddTask(i, up, check, 0) \in Task
           /\ \A i \in Indices : RemoveTask(i) \in Task /\ WakeTask(i) \in Task
           /\ \A t \in Task : t.tries # MaxTries =>
                  [t EXCEPT !.tries = NextTry(@)] \in Task
<1>1. MaxTries \in Nat
  BY DeviceLinkAssumption DEF DeviceLinkAssumption
<1>2. ASSUME NEW i \in Indices, NEW up \in BOOLEAN, NEW check \in BOOLEAN
      PROVE  AddTask(i, up, check, 0) \in Task
  BY <1>1 DEF Task, AddTask
<1>3. ASSUME NEW i \in Indices
      PROVE  RemoveTask(i) \in Task /\ WakeTask(i) \in Task
  <2>1. AddTask(i, FALSE, FALSE, 0) \in Task /\ AddTask(i, TRUE, FALSE, 0) \in Task
    BY <1>2
  <2>2. \A t \in Task, n \in Nat : /\ [t EXCEPT !.kind = "remove"] \in Task
                                   /\ [t EXCEPT !.kind = "wake", !.device = n] \in Task
    BY DEF Task
  <2> QED
    BY <2>1, <2>2 DEF RemoveTask, WakeTask, TypeInv, TypeOK
<1>4. ASSUME NEW t \in Task, t.tries # MaxTries
      PROVE  [t EXCEPT !.tries = NextTry(@)] \in Task
  <2>1. t.tries + 1 \in 0..MaxTries
    BY <1>1, <1>4 DEF Task
  <2> QED
    BY <2>1 DEF Task, NextTry
<1> QED
  BY <1>2, <1>3, <1>4

-----------------------------------------------------------------------------
(***************************************************************************)
(* Types, and the mutex _devices_change.                                   *)
(***************************************************************************)

HookTypes ==
    /\ awake \in [Indices -> BOOLEAN]
    /\ hooks \in [Indices -> Seq({"connect", "disconnect"})]
    /\ raced \subseteq Indices

\* Device::sleep() and wakeup() keep the types.
LEMMA HookSteps ==
    ASSUME HookTypes, NEW i \in Indices, Sleep(i) \/ Wakeup(i) \/ UNCHANGED hookVars
    PROVE  HookTypes'
<1>1. ASSUME NEW h \in {"connect", "disconnect"}, QueueHook(i, h)
      PROVE  hooks' \in [Indices -> Seq({"connect", "disconnect"})]
  <2>1. Append(hooks[i], h) \in Seq({"connect", "disconnect"})
    BY PushFacts DEF HookTypes
  <2> QED
    BY <1>1, <2>1 DEF HookTypes, QueueHook
<1> QED
  BY <1>1 DEF HookTypes, Sleep, Wakeup, Note, hookVars

\* The types hold at the start.
LEMMA InitTypes == Init => TypeInv
<1> SUFFICES ASSUME Init
             PROVE  TypeInv
  OBVIOUS
<1>1. 0 \in 0..MaxEvents /\ 0 \in 0..MaxBroadcasts
  BY DeviceLinkAssumption DEF DeviceLinkAssumption
<1>2. <<>> \in Seq(Task) /\ <<>> \in Seq({"connect", "disconnect"})
  BY EmptySeq
<1> QED
  BY <1>1, <1>2, EmptyBagFacts DEF Init, TypeInv, TypeOK, Places

\* The handlers on the I/O thread keep the types.
LEMMA HandlerTypes ==
    ASSUME TypeInv, NEW i \in Indices,
           \/ \E up \in BOOLEAN : ConnectNotification(i, up)
           \/ DisconnectNotification(i)
           \/ Input(i)
           \/ Enumerate(i)
           \/ StatusBroadcast(i)
    PROVE  TypeInv'
<1>1. ASSUME NEW t \in Task
      PROVE  /\ RunTask(t) => queue' \in Seq(Task)
             /\ RunTaskAfter(t) => IsABag(delayed') /\ BagToSet(delayed') \subseteq Task
  <2>1. RunTask(t) => queue' \in Seq(Task)
    BY PushFacts DEF RunTask, TypeInv, TypeOK
  <2>2. IsABag(BagAdd(delayed, t)) /\ BagToSet(BagAdd(delayed, t)) \subseteq Task
    BY BagAddFacts DEF TypeInv, TypeOK
  <2> QED
    BY <2>1, <2>2 DEF RunTaskAfter
<1>2. Event => events' \in 0..MaxEvents
  BY DeviceLinkAssumption DEF DeviceLinkAssumption, Event, TypeInv, TypeOK
<1>3. ASSUME NEW up \in BOOLEAN, ConnectNotification(i, up)
      PROVE  TypeInv'
  BY <1>1, <1>2, <1>3, TaskTypes DEF ConnectNotification, TypeInv, TypeOK, deviceVars, waitVars,
       hookVars, receiverVars
<1>4. CASE DisconnectNotification(i)
  BY <1>1, <1>2, <1>4, TaskTypes DEF DisconnectNotification, TypeInv, TypeOK, deviceVars, waitVars,
       hookVars, receiverVars
<1>5. CASE Input(i)
  BY <1>1, <1>2, <1>5, TaskTypes DEF Input, TypeInv, TypeOK, deviceVars, waitVars,
       hookVars, receiverVars
<1>6. CASE Enumerate(i)
  BY <1>1, <1>6, TaskTypes DEF Enumerate, TypeInv, TypeOK, deviceVars, waitVars,
       hookVars, receiverVars
<1>7. CASE StatusBroadcast(i)
  <2>1. broadcasts' \in 0..MaxBroadcasts
    BY <1>7, DeviceLinkAssumption DEF DeviceLinkAssumption, StatusBroadcast, TypeInv, TypeOK
  <2> QED
    BY <2>1, <1>1, <1>7, TaskTypes DEF StatusBroadcast, TypeInv, TypeOK, deviceVars, waitVars,
       hookVars, receiverVars
<1> QED
  BY <1>3, <1>4, <1>5, <1>6, <1>7

\* The workers' steps keep the types.
LEMMA WorkerTypes ==
    ASSUME TypeInv, NEW w \in Workers, WorkerStep(w)
    PROVE  TypeInv'
<1> USE DEF Go, Leave, deviceVars, waitVars, poolVars, envVars, hookVars, receiverVars, Places
<1>h. HookTypes
  BY DEF HookTypes, TypeInv, TypeOK
<1>i. pc[w] # "idle" => task[w] \in Task /\ Index(w) \in Indices
  BY DEF TypeInv, TypeOK, Task, Index
<1>q. queue # <<>> => Head(queue) \in Task /\ Tail(queue) \in Seq(Task)
                      /\ Head(queue).index \in Indices
  <2>1. queue # <<>> => Head(queue) \in Task /\ Tail(queue) \in Seq(Task)
    BY PopFacts DEF TypeInv, TypeOK
  <2> QED
    BY <2>1 DEF Task
<1>1. CASE TakeTask(w)
  BY <1>1, <1>q DEF TakeTask, TypeInv, TypeOK
<1>w. CASE TakeWakeTask(w)
  BY <1>w, <1>q DEF TakeWakeTask, TypeInv, TypeOK
<1>2. CASE WakeTaskRuns(w)
  <2>1. HookTypes'
    BY <1>2, <1>i, <1>h, HookSteps DEF WakeTaskRuns
  <2> QED
    BY <1>2, <2>1, <1>i DEF WakeTaskRuns, TypeInv, TypeOK, HookTypes
<1>3. CASE Begin(w)
  BY <1>3, <1>i DEF Begin, TypeInv, TypeOK
<1>4. CASE Lock(w)
  BY <1>4, <1>i DEF Lock, TypeInv, TypeOK
<1>5. CASE RemoveSleeps(w)
  <2>1. HookTypes'
    BY <1>5, <1>i, <1>h, HookSteps DEF RemoveSleeps, Removes
  <2> QED
    BY <1>5, <2>1, <1>i DEF RemoveSleeps, Removes, TypeInv, TypeOK, HookTypes
<1>e. CASE RemoveErases(w)
  BY <1>e, <1>i DEF RemoveErases, TypeInv, TypeOK
<1>6. CASE Add(w)
  <2> USE DEF Add, TypeInv, TypeOK
  <2>h. ASSUME Sleep(Index(w)) \/ Wakeup(Index(w)) \/ UNCHANGED hookVars
        PROVE  HookTypes'
    BY <2>h, <1>6, <1>i, <1>h, HookSteps
  <2>1. CASE AddNothing(w)
    <3>1. HookTypes'
      BY <2>1, <2>h DEF AddNothing
    <3> QED
      BY <2>1, <3>1, <1>6, <1>i DEF AddNothing, HookTypes
  <2>2. CASE AddWakeup(w)
    <3>1. HookTypes'
      BY <2>2, <2>h DEF AddWakeup
    <3> QED
      BY <2>2, <3>1, <1>6, <1>i DEF AddWakeup, HookTypes
  <2>3. CASE AddMakes(w)
    <3>1. <<"connect">> \in Seq({"connect", "disconnect"})
      OBVIOUS
    <3> QED
      BY <2>3, <3>1, <1>6, <1>i DEF AddMakes
  <2>4. CASE AddTimesOut(w)
    BY <2>4, <1>6, <1>i DEF AddTimesOut
  <2>5. CASE AddFails(w)
    BY <2>5, <1>6, <1>i DEF AddFails
  <2> QED
    BY <1>6, <2>1, <2>2, <2>3, <2>4, <2>5
<1>7. CASE Emplace(w)
  BY <1>7, <1>i DEF Emplace, Note, TypeInv, TypeOK
<1>8. CASE Added(w)
  BY <1>8, <1>i DEF Added, ClearPending, TypeInv, TypeOK
<1>9. CASE NotReady(w)
  <2>1. CASE IsLastTry(task[w].tries)
    BY <2>1, <1>9, <1>i DEF NotReady, ClearPending, TypeInv, TypeOK
  <2>2. CASE ~IsLastTry(task[w].tries)
    <3>1. [task[w] EXCEPT !.tries = NextTry(@)] \in Task
      BY <2>2, <1>9, <1>i, TaskTypes DEF NotReady, IsLastTry
    <3>2. /\ pc' = [pc EXCEPT ![w] = "idle"]
          /\ delayed' = BagAdd(delayed, [task[w] EXCEPT !.tries = NextTry(@)])
          /\ UNCHANGED <<envVars, queue, task, receiverVars, change, waitVars, deviceVars>>
      BY <2>2, <1>9 DEF NotReady, RunTaskAfter
    <3>3. IsABag(delayed') /\ BagToSet(delayed') \subseteq Task
      <4> DEFINE t == [task[w] EXCEPT !.tries = NextTry(@)]
      <4>1. delayed' = BagAdd(delayed, t) /\ t \in Task
        BY <3>1, <3>2
      <4> HIDE DEF t
      <4>2. IsABag(delayed) /\ BagToSet(delayed) \subseteq Task
        BY DEF TypeInv, TypeOK
      <4>3. IsABag(BagAdd(delayed, t)) /\ BagToSet(BagAdd(delayed, t)) \subseteq Task
        BY <4>1, <4>2, BagAddFacts
      <4> QED
        BY <4>1, <4>3
    <3>4. /\ pc' \in [Workers -> Places]
          /\ \A v \in Workers : pc'[v] # "idle" => pc[v] # "idle"
      BY <3>2 DEF TypeInv, TypeOK
    <3>5. \A v \in Workers : pc'[v] # "idle" => task'[v] \in Task
      BY <3>2, <3>4 DEF TypeInv, TypeOK
    <3> HIDE DEF Places
    <3> QED
      BY <3>2, <3>3, <3>4, <3>5 DEF TypeInv, TypeOK
  <2> QED
    BY <2>1, <2>2
<1>10. CASE GiveUp(w)
  BY <1>10, <1>i DEF GiveUp, TypeInv, TypeOK
<1>11. CASE Failed(w)
  BY <1>11, <1>i DEF Failed, ClearPending, TypeInv, TypeOK
<1> QED
  BY <1>1, <1>w, <1>2, <1>3, <1>4, <1>5, <1>e, <1>6, <1>7, <1>8, <1>9, <1>10, <1>11
     DEF WorkerStep

\* The types are inductive on their own.
LEMMA NextTypes == TypeInv /\ [Next]_vars => TypeInv'
<1> SUFFICES ASSUME TypeInv, [Next]_vars
             PROVE  TypeInv'
  OBVIOUS
<1> USE DEF deviceVars, waitVars, poolVars, envVars, hookVars, receiverVars
<1>1. ASSUME NEW t \in BagToSet(delayed), Expire(t)
      PROVE  TypeInv'
  <2>1. /\ t \in Task
        /\ IsABag(delayed') /\ BagToSet(delayed') \subseteq Task
    BY <1>1, BagRemoveFacts DEF Expire, TypeInv, TypeOK
  <2>2. queue' \in Seq(Task)
    BY <1>1, <2>1, PushFacts DEF Expire, RunTask, TypeInv, TypeOK
  <2> QED
    BY <1>1, <2>1, <2>2 DEF Expire, TypeInv, TypeOK
<1>2. CASE Unplug \/ RemoveReceiver
  BY <1>2 DEF Unplug, RemoveReceiver, TypeInv, TypeOK
<1>3. ASSUME NEW i \in unslept, UnpluggedSleeps(i)
      PROVE  TypeInv'
  <2>1. HookTypes /\ i \in Indices
    BY DEF HookTypes, TypeInv, TypeOK
  <2>2. HookTypes'
    BY <1>3, <2>1, HookSteps DEF UnpluggedSleeps
  <2> QED
    BY <1>3, <2>2 DEF UnpluggedSleeps, TypeInv, TypeOK, HookTypes
<1>4. CASE UNCHANGED vars
  BY <1>4 DEF vars, TypeInv, TypeOK
<1> QED
  BY <1>1, <1>2, <1>4, <1>3, HandlerTypes, WorkerTypes DEF Next

\* The mutex is exclusive, and each place of _addHandler() has its task.
LEMMA NextExclusive ==
    TypeInv /\ ChangeIsExclusive /\ TaskFits /\ [Next]_vars =>
        ChangeIsExclusive' /\ TaskFits'
<1> SUFFICES ASSUME TypeInv, ChangeIsExclusive, TaskFits, [Next]_vars
             PROVE  ChangeIsExclusive' /\ TaskFits'
  OBVIOUS
<1> USE DEF deviceVars, waitVars, poolVars, envVars
<1>1. ASSUME UNCHANGED <<pc, task, change>>
      PROVE  ChangeIsExclusive' /\ TaskFits'
  BY <1>1 DEF ChangeIsExclusive, TaskFits
<1>2. ASSUME NEW i \in Indices,
             \/ \E up \in BOOLEAN : ConnectNotification(i, up)
             \/ DisconnectNotification(i)
             \/ Input(i)
             \/ Enumerate(i)
             \/ StatusBroadcast(i)
      PROVE  ChangeIsExclusive' /\ TaskFits'
  BY <1>1, <1>2 DEF ConnectNotification, DisconnectNotification, Input, Enumerate,
                    StatusBroadcast
<1>3. ASSUME NEW t \in BagToSet(delayed), Expire(t)
      PROVE  ChangeIsExclusive' /\ TaskFits'
  BY <1>1, <1>3 DEF Expire
<1>4. CASE \/ Unplug \/ RemoveReceiver \/ \E i \in unslept : UnpluggedSleeps(i)
           \/ UNCHANGED vars
  BY <1>1, <1>4 DEF Unplug, RemoveReceiver, UnpluggedSleeps, vars
<1>5. ASSUME NEW w \in Workers, WorkerStep(w)
      PROVE  ChangeIsExclusive' /\ TaskFits'
  <2> USE DEF ChangeIsExclusive, TaskFits, TypeInv, TypeOK, Go, Leave
  <2>1. CASE TakeTask(w)
    BY <2>1 DEF TakeTask
  <2>2. CASE TakeWakeTask(w) \/ WakeTaskRuns(w)
    BY <2>2 DEF TakeWakeTask, WakeTaskRuns
  <2>3. CASE Begin(w)
    BY <2>3 DEF Begin
  <2>4. CASE Lock(w)
    BY <2>4, DeviceLinkAssumption DEF Lock, DeviceLinkAssumption
  <2>5. CASE RemoveSleeps(w) \/ RemoveErases(w)
    BY <2>5, DeviceLinkAssumption
       DEF RemoveSleeps, RemoveErases, Removes, DeviceLinkAssumption
  <2>6. CASE Add(w)
    BY <2>6, DeviceLinkAssumption
       DEF Add, AddNothing, AddWakeup, AddMakes, AddTimesOut, AddFails, New,
           DeviceLinkAssumption
  <2>7. CASE Emplace(w)
    BY <2>7, DeviceLinkAssumption DEF Emplace, DeviceLinkAssumption
  <2>8. CASE Added(w) \/ NotReady(w) \/ GiveUp(w) \/ Failed(w)
    BY <2>8 DEF Added, NotReady, GiveUp, Failed
  <2> QED
    BY <1>5, <2>1, <2>2, <2>3, <2>4, <2>5, <2>6, <2>7, <2>8 DEF WorkerStep
<1> QED
  BY <1>2, <1>3, <1>4, <1>5 DEF Next

-----------------------------------------------------------------------------
(***************************************************************************)
(* The hooks.                                                              *)
(***************************************************************************)

Hook == {"connect", "disconnect"}
Alternates(s) == \A n \in DOMAIN s : s[n] = IF n % 2 = 1 THEN "connect" ELSE "disconnect"

\* The hook whose turn it is keeps the sequence alternating.
LEMMA AppendAlternates ==
    ASSUME NEW s \in Seq(Hook), Alternates(s), NEW h \in Hook,
           h = IF Odd(s) THEN "disconnect" ELSE "connect"
    PROVE  /\ Append(s, h) \in Seq(Hook)
           /\ Alternates(Append(s, h))
           /\ Odd(Append(s, h)) <=> ~Odd(s)
<1>1. /\ Len(s) \in Nat
      /\ Append(s, h) \in Seq(Hook)
      /\ Len(Append(s, h)) = Len(s) + 1
      /\ DOMAIN Append(s, h) = 1..Len(s) + 1
      /\ \A n \in 1..Len(s) : Append(s, h)[n] = s[n]
      /\ Append(s, h)[Len(s) + 1] = h
      /\ DOMAIN s = 1..Len(s)
  OBVIOUS
<1>2. (Len(s) + 1) % 2 = 1 <=> ~(Len(s) % 2 = 1)
  BY <1>1
<1>3. Alternates(Append(s, h))
  <2> SUFFICES ASSUME NEW n \in 1..Len(s) + 1
               PROVE  Append(s, h)[n] = IF n % 2 = 1 THEN "connect" ELSE "disconnect"
    BY <1>1 DEF Alternates
  <2>1. CASE n = Len(s) + 1
    BY <2>1, <1>1, <1>2 DEF Odd
  <2>2. CASE n \in 1..Len(s)
    BY <2>2, <1>1 DEF Alternates
  <2> QED
    BY <1>1, <2>1, <2>2
<1> QED
  BY <1>1, <1>2, <1>3 DEF Odd

\* What HooksAlternate says of one device.
LEMMA HooksAlternateIs ==
    /\ HooksAlternate <=>
           \A i \in Indices : Alternates(hooks[i]) /\ (Odd(hooks[i]) <=> awake[i])
    /\ HooksAlternate' <=>
           \A i \in Indices : Alternates(hooks'[i]) /\ (Odd(hooks'[i]) <=> awake'[i])
BY DEF HooksAlternate, Alternates, Odd, Connected

\* Device::sleep() and wakeup() queue the hook whose turn it is.
LEMMA HookInTurn ==
    ASSUME HookTypes, HooksAlternate, NEW i \in Indices, Sleep(i) \/ Wakeup(i)
    PROVE  HooksAlternate'
<1>1. \A j \in Indices :
          hooks[j] \in Seq(Hook) /\ Alternates(hooks[j]) /\ (Odd(hooks[j]) <=> awake[j])
  BY HooksAlternateIs DEF HookTypes, Hook
<1>2. ASSUME Sleep(i), awake[i]
      PROVE  /\ hooks' = [hooks EXCEPT ![i] = Append(hooks[i], "disconnect")]
             /\ Alternates(Append(hooks[i], "disconnect"))
             /\ ~Odd(Append(hooks[i], "disconnect"))
             /\ awake' = [awake EXCEPT ![i] = FALSE]
  BY <1>1, <1>2, AppendAlternates DEF Sleep, QueueHook, Hook
<1>3. ASSUME Wakeup(i), ~awake[i]
      PROVE  /\ hooks' = [hooks EXCEPT ![i] = Append(hooks[i], "connect")]
             /\ Alternates(Append(hooks[i], "connect"))
             /\ Odd(Append(hooks[i], "connect"))
             /\ awake' = [awake EXCEPT ![i] = TRUE]
  BY <1>1, <1>3, AppendAlternates DEF Wakeup, QueueHook, Hook
<1>4. CASE UNCHANGED <<awake, hooks>>
  BY <1>1, <1>4, HooksAlternateIs
<1>5. CASE Sleep(i) /\ awake[i]
  BY <1>1, <1>2, <1>5, HooksAlternateIs DEF HookTypes
<1>6. CASE Wakeup(i) /\ ~awake[i]
  BY <1>1, <1>3, <1>6, HooksAlternateIs DEF HookTypes
<1> QED
  BY <1>4, <1>5, <1>6 DEF Sleep, Wakeup, hookVars

\* A new Device starts with its own on_connect.
LEMMA MakeHooks ==
    ASSUME HookTypes, HooksAlternate, NEW w \in Workers, Index(w) \in Indices, AddMakes(w)
    PROVE  HooksAlternate'
<1>1. Alternates(<<"connect">>) /\ Odd(<<"connect">>)
  BY DEF Alternates, Odd
<1>2. \A j \in Indices :
          /\ hooks'[j] = IF j = Index(w) THEN <<"connect">> ELSE hooks[j]
          /\ awake'[j] = IF j = Index(w) THEN TRUE ELSE awake[j]
  BY DEF AddMakes, HookTypes
<1> QED
  BY <1>1, <1>2, HooksAlternateIs

\* The hooks alternate, whatever step is taken.
LEMMA NextHooks == TypeInv /\ HooksAlternate /\ [Next]_vars => HooksAlternate'
<1> SUFFICES ASSUME TypeInv, HooksAlternate, [Next]_vars
             PROVE  HooksAlternate'
  OBVIOUS
<1> USE DEF deviceVars, waitVars, poolVars, envVars, hookVars
<1>h. HookTypes /\ unslept \subseteq Indices
  BY DEF HookTypes, TypeInv, TypeOK
<1>i. \A w \in Workers : pc[w] # "idle" => Index(w) \in Indices
  BY DEF TypeInv, TypeOK, Task, Index
<1>1. ASSUME UNCHANGED <<awake, hooks>>
      PROVE  HooksAlternate'
  BY <1>1, HooksAlternateIs
<1>2. ASSUME NEW i \in Indices, Sleep(i) \/ Wakeup(i)
      PROVE  HooksAlternate'
  BY <1>2, <1>h, HookInTurn
<1>3. ASSUME NEW i \in Indices,
             \/ \E up \in BOOLEAN : ConnectNotification(i, up)
             \/ DisconnectNotification(i)
             \/ Input(i)
             \/ Enumerate(i)
             \/ StatusBroadcast(i)
      PROVE  HooksAlternate'
  BY <1>1, <1>3 DEF ConnectNotification, DisconnectNotification, Input, Enumerate,
                    StatusBroadcast
<1>4. CASE (\E t \in BagToSet(delayed) : Expire(t)) \/ UNCHANGED vars
  BY <1>1, <1>4 DEF Expire, vars
<1>5. CASE Unplug \/ RemoveReceiver \/ \E i \in unslept : UnpluggedSleeps(i)
  BY <1>1, <1>2, <1>5, <1>h DEF Unplug, RemoveReceiver, UnpluggedSleeps
<1>6. ASSUME NEW w \in Workers, WorkerStep(w)
      PROVE  HooksAlternate'
  <2>1. CASE TakeTask(w) \/ TakeWakeTask(w) \/ Begin(w) \/ Lock(w)
    BY <2>1, <1>1 DEF TakeTask, TakeWakeTask, Begin, Lock
  <2>2. CASE WakeTaskRuns(w)
    BY <2>2, <1>1, <1>2, <1>i DEF WakeTaskRuns
  <2>3. CASE RemoveSleeps(w) \/ RemoveErases(w)
    BY <2>3, <1>1, <1>2, <1>i DEF RemoveSleeps, RemoveErases, Removes
  <2>4. CASE Add(w)
    <3>1. CASE AddMakes(w)
      BY <2>4, <3>1, <1>h, <1>i, MakeHooks DEF Add
    <3>2. CASE ~AddMakes(w)
      BY <2>4, <3>2, <1>1, <1>2, <1>i
         DEF Add, AddNothing, AddWakeup, AddTimesOut, AddFails
    <3> QED
      BY <3>1, <3>2
  <2>5. CASE Emplace(w)
    BY <2>5, <1>1 DEF Emplace
  <2>6. CASE Added(w) \/ NotReady(w) \/ GiveUp(w) \/ Failed(w)
    BY <2>6, <1>1 DEF Added, NotReady, GiveUp, Failed
  <2> QED
    BY <1>6, <2>1, <2>2, <2>3, <2>4, <2>5, <2>6 DEF WorkerStep
<1> QED
  BY <1>3, <1>4, <1>5, <1>6 DEF Next

-----------------------------------------------------------------------------
(***************************************************************************)
(* Removals, and who is told of them.                                      *)
(***************************************************************************)

\* The Receiver is in the manager's hands until its removal has ended.
LEMMA NextManager == ManagerInv /\ [Next]_vars => ManagerInv'
<1> SUFFICES ASSUME ManagerInv, [Next]_vars
             PROVE  ManagerInv'
  OBVIOUS
<1>1. \/ UNCHANGED receiverVars
      \/ Unplug \/ RemoveReceiver \/ \E i \in unslept : UnpluggedSleeps(i)
  BY DEF Next, vars, ConnectNotification, DisconnectNotification, Input, Enumerate,
       StatusBroadcast, Expire, WorkerStep, TakeTask, TakeWakeTask, WakeTaskRuns, Begin,
       Lock, RemoveSleeps, RemoveErases, Add, Emplace, Added, NotReady, GiveUp, Failed
<1> QED
  BY <1>1 DEF ManagerInv, receiverVars, Unplug, RemoveReceiver, UnpluggedSleeps

\* Who is removing or adding which device is the same after the step.
SameRemovals ==
    \A w \in Workers, s \in {"erase", "emplace"}, i \in Indices :
        (pc'[w] = s /\ task'[w].index = i) <=> (pc[w] = s /\ task[w].index = i)

\* A step that wakes nobody up and removes nobody keeps the promise.
LEMMA SleepersAreTold ==
    ASSUME WillBeTold, SameRemovals, UNCHANGED <<present, raced, unplugged, unslept>>,
           \A i \in Indices : awake'[i] => awake[i]
    PROVE  WillBeTold'
<1> SUFFICES ASSUME NEW i \in Indices, awake'[i]
             PROVE  i \in raced' \/ Made(i)' \/ WillSleep(i)'
  BY DEF WillBeTold
<1>1. i \in raced \/ Made(i) \/ WillSleep(i)
  BY DEF WillBeTold
<1>2. Made(i) => Made(i)'
  BY DEF Made, At, SameRemovals, Index
<1>3. WillSleep(i) => WillSleep(i)'
  <2>1. \A w \in Workers : At(w, "erase", i)' <=> At(w, "erase", i)
    BY DEF SameRemovals, At, Index
  <2> QED
    BY <2>1 DEF WillSleep
<1> QED
  BY <1>1, <1>2, <1>3

\* sleep() of a Device.
LEMMA SleepIsTold ==
    ASSUME HookTypes, WillBeTold, SameRemovals, NEW i \in Indices, Sleep(i),
           UNCHANGED <<present, unplugged, unslept>>
    PROVE  WillBeTold'
BY SleepersAreTold DEF Sleep, HookTypes

\* wakeup() of a Device, which notes that it came too late.
LEMMA WakeupIsTold ==
    ASSUME HookTypes, WillBeTold, SameRemovals, NEW i \in Indices, Wakeup(i),
           UNCHANGED <<present, unplugged, unslept>>
    PROVE  WillBeTold'
<1>1. CASE awake[i]
  BY <1>1, SleepersAreTold DEF Wakeup, hookVars
<1>2. CASE ~awake[i]
  <2> SUFFICES ASSUME NEW j \in Indices, awake'[j]
               PROVE  j \in raced' \/ Made(j)' \/ WillSleep(j)'
    BY DEF WillBeTold
  <2>1. /\ Made(j) => Made(j)'
        /\ WillSleep(j) => WillSleep(j)'
    <3>1. \A w \in Workers : /\ At(w, "erase", j)' <=> At(w, "erase", j)
                             /\ At(w, "emplace", j)' <=> At(w, "emplace", j)
      BY DEF SameRemovals, At, Index
    <3> QED
      BY <3>1 DEF Made, WillSleep
  <2>2. raced \subseteq raced'
    BY <1>2 DEF Wakeup, Note
  <2>3. CASE j = i
    BY <1>2, <2>1, <2>3 DEF Wakeup, Note, TooLate, Lives, Made, At, WillSleep
  <2>4. CASE j # i
    BY <1>2, <2>1, <2>2, <2>4 DEF Wakeup, HookTypes, WillBeTold
  <2> QED
    BY <2>3, <2>4
<1> QED
  BY <1>1, <1>2

\* The places of the other workers are the same after a step of one.
LEMMA OneMoves ==
    ASSUME TypeInv, NEW w \in Workers, NEW s, pc' = [pc EXCEPT ![w] = s], UNCHANGED task
    PROVE  /\ pc'[w] = s
           /\ \A v \in Workers : v # w => pc'[v] = pc[v]
           /\ pc[w] \notin {"erase", "emplace"} /\ s \notin {"erase", "emplace"} =>
                  SameRemovals
BY DEF TypeInv, TypeOK, SameRemovals

\* removeDevice() puts the Device to sleep before it erases it.
LEMMA RemovalIsPrepared ==
    ASSUME TypeInv, WillBeTold, NEW w \in Workers, RemoveSleeps(w)
    PROVE  WillBeTold'
<1> USE DEF receiverVars, hookVars
<1>h. HookTypes /\ Index(w) \in Indices
  BY DEF HookTypes, TypeInv, TypeOK, RemoveSleeps, Removes, Index, Task
<1>1. CASE Index(w) \notin present
  <2>1. SameRemovals
    BY <1>1, OneMoves DEF RemoveSleeps, Removes, Leave, Go
  <2> QED
    BY <2>1, <1>1, SleepersAreTold DEF RemoveSleeps
<1>2. CASE Index(w) \in present
  <2>1. /\ pc'[w] = "erase" /\ pc[w] = "locked"
        /\ \A v \in Workers : v # w => pc'[v] = pc[v]
        /\ UNCHANGED <<task, present, unplugged, unslept, raced>>
    BY <1>2, OneMoves DEF RemoveSleeps, Removes, Go, Sleep
  <2>2. \A j \in Indices : awake'[j] => awake[j] /\ j # Index(w)
    BY <1>2, <1>h DEF RemoveSleeps, Sleep, HookTypes
  <2> SUFFICES ASSUME NEW j \in Indices, awake'[j]
               PROVE  j \in raced' \/ Made(j)' \/ WillSleep(j)'
    BY DEF WillBeTold
  <2>3. j \in raced \/ Made(j) \/ WillSleep(j)
    BY <2>2 DEF WillBeTold
  <2>4. Made(j) => Made(j)'
    BY <2>1 DEF Made, At, Index
  <2>5. WillSleep(j) => WillSleep(j)'
    BY <2>1, <2>2 DEF WillSleep, At, Index
  <2> QED
    BY <2>1, <2>3, <2>4, <2>5
<1> QED
  BY <1>1, <1>2

\* A Device that is erased was told, or woken up too late.
LEMMA ErasedIsTold ==
    ASSUME TypeInv, ChangeIsExclusive, WillBeTold, NEW w \in Workers, RemoveErases(w)
    PROVE  WillBeTold'
<1> USE DEF receiverVars, hookVars
<1>1. /\ pc[w] = "erase" /\ pc'[w] = "idle"
      /\ \A v \in Workers : v # w => pc'[v] = pc[v]
      /\ UNCHANGED <<task, unplugged, unslept, awake, raced>>
      /\ present' = present \ {Index(w)}
  BY OneMoves DEF RemoveErases, Leave, Go
<1>2. \A v \in Workers : pc[v] \notin {"erase", "emplace"} \/ v = w
  BY <1>1 DEF ChangeIsExclusive
<1> SUFFICES ASSUME NEW j \in Indices, awake'[j]
             PROVE  j \in raced' \/ WillSleep(j)'
  BY DEF WillBeTold
<1>3. j \in raced \/ WillSleep(j)
  BY <1>1, <1>2 DEF WillBeTold, Made, At
<1>4. WillSleep(j) => j # Index(w)
  BY <1>1 DEF WillSleep, At
<1>5. WillSleep(j) => WillSleep(j)'
  BY <1>1, <1>4 DEF WillSleep, At, Index
<1> QED
  BY <1>1, <1>3, <1>5

\* Device::make() makes a Device that is not in _devices yet.
LEMMA MadeIsTold ==
    ASSUME TypeInv, ChangeIsExclusive, WillBeTold, NEW w \in Workers,
           pc[w] = "locked", AddMakes(w), UNCHANGED <<task, receiverVars>>
    PROVE  WillBeTold'
<1> USE DEF receiverVars, hookVars
<1>h. HookTypes /\ Index(w) \in Indices
  BY DEF HookTypes, TypeInv, TypeOK, Index, Task
<1>1. /\ pc'[w] = "emplace"
      /\ \A v \in Workers : v # w => pc'[v] = pc[v]
      /\ UNCHANGED <<task, present, unplugged, unslept>>
      /\ raced' = raced \ {Index(w)}
      /\ \A j \in Indices : j # Index(w) => awake'[j] = awake[j]
  BY <1>h, OneMoves DEF AddMakes, Go, HookTypes
<1> SUFFICES ASSUME NEW j \in Indices, awake'[j]
             PROVE  j \in raced' \/ Made(j)' \/ WillSleep(j)'
  BY DEF WillBeTold
<1>2. CASE j = Index(w)
  BY <1>1, <1>2 DEF Made, At, Index
<1>3. CASE j # Index(w)
  <2>1. j \in raced \/ Made(j) \/ WillSleep(j)
    BY <1>1, <1>3 DEF WillBeTold
  <2>2. Made(j) => Made(j)'
    BY <1>1 DEF Made, At, Index
  <2>3. WillSleep(j) => WillSleep(j)'
    BY <1>1 DEF WillSleep, At, Index
  <2> QED
    BY <1>1, <1>3, <2>1, <2>2, <2>3
<1> QED
  BY <1>2, <1>3

\* The Device enters _devices, in time or not.
LEMMA EmplacedIsTold ==
    ASSUME TypeInv, ChangeIsExclusive, WillBeTold, NEW w \in Workers, Emplace(w)
    PROVE  WillBeTold'
<1> USE DEF receiverVars, hookVars
<1>1. /\ pc[w] = "emplace" /\ pc'[w] = "added"
      /\ \A v \in Workers : v # w => pc'[v] = pc[v]
      /\ UNCHANGED <<task, unplugged, unslept, awake>>
      /\ present' = present \cup {Index(w)}
  BY OneMoves DEF Emplace, Leave, Go
<1>2. \A v \in Workers : pc'[v] \notin {"erase", "emplace"}
  BY <1>1 DEF ChangeIsExclusive
<1>3. raced \subseteq raced'
  BY DEF Emplace, Note
<1> SUFFICES ASSUME NEW j \in Indices, awake'[j]
             PROVE  j \in raced' \/ WillSleep(j)'
  BY DEF WillBeTold
<1>4. CASE j = Index(w)
  BY <1>1, <1>2, <1>4 DEF Emplace, Note, TooLate, WillSleep, At
<1>5. CASE j # Index(w)
  <2>1. j \in raced \/ WillSleep(j)
    BY <1>1, <1>5 DEF WillBeTold, Made, At, ChangeIsExclusive
  <2>2. WillSleep(j) => WillSleep(j)'
    BY <1>1, <1>2 DEF WillSleep, At
  <2> QED
    BY <1>3, <2>1, <2>2
<1> QED
  BY <1>4, <1>5

\* The manager puts the Devices of the Receiver to sleep.
LEMMA ManagerTells ==
    ASSUME TypeInv, ManagerInv, WillBeTold,
           Unplug \/ RemoveReceiver \/ \E i \in unslept : UnpluggedSleeps(i)
    PROVE  WillBeTold'
<1> USE DEF hookVars, deviceVars, poolVars
<1>1. SameRemovals
  BY DEF SameRemovals, Unplug, RemoveReceiver, UnpluggedSleeps
<1>2. CASE Unplug
  <2> SUFFICES ASSUME NEW i \in Indices, awake'[i]
               PROVE  i \in raced' \/ Made(i)' \/ WillSleep(i)'
    BY DEF WillBeTold
  <2>1. i \in raced \/ Made(i) \/ WillSleep(i)
    BY <1>2 DEF WillBeTold, Unplug
  <2> QED
    BY <2>1, <1>2 DEF Unplug, Made, WillSleep, At, Index
<1>3. CASE RemoveReceiver
  BY <1>1, <1>3, SleepersAreTold DEF RemoveReceiver
<1>4. ASSUME NEW i \in unslept, UnpluggedSleeps(i)
      PROVE  WillBeTold'
  <2>1. \A j \in Indices : awake'[j] => awake[j] /\ j \notin {i}
    BY <1>4 DEF UnpluggedSleeps, Sleep, TypeInv, TypeOK
  <2>2. /\ UNCHANGED <<present, raced, unplugged>> /\ unslept' = unslept \ {i}
        /\ {i} \in SUBSET Indices
    BY <1>4 DEF UnpluggedSleeps, Sleep, TypeInv, TypeOK
  <2> SUFFICES ASSUME NEW j \in Indices, awake'[j]
               PROVE  j \in raced' \/ Made(j)' \/ WillSleep(j)'
    BY DEF WillBeTold
  <2>3. j \in raced \/ Made(j) \/ WillSleep(j)
    BY <2>1 DEF WillBeTold
  <2> QED
    BY <1>4, <2>1, <2>2, <2>3 DEF UnpluggedSleeps, Made, WillSleep, At, Index
<1> QED
  BY <1>2, <1>3, <1>4

\* No step lets a Device go that is awake, but for the wakeups that are noted.
LEMMA NextTold ==
    TypeInv /\ ChangeIsExclusive /\ ManagerInv /\ WillBeTold /\ [Next]_vars => WillBeTold'
<1> SUFFICES ASSUME TypeInv, ChangeIsExclusive, ManagerInv, WillBeTold, [Next]_vars
             PROVE  WillBeTold'
  OBVIOUS
<1> USE DEF deviceVars, waitVars, poolVars, envVars, hookVars, receiverVars
<1>h. HookTypes
  BY DEF HookTypes, TypeInv, TypeOK
<1>i. \A w \in Workers : pc[w] # "idle" => Index(w) \in Indices
  BY DEF TypeInv, TypeOK, Task, Index
<1>s. SameRemovals /\ UNCHANGED <<deviceVars, unplugged, unslept>> => WillBeTold'
  BY SleepersAreTold
<1>1. ASSUME UNCHANGED <<pc, task, deviceVars, unplugged, unslept>>
      PROVE  WillBeTold'
  BY <1>1, <1>s DEF SameRemovals
<1>2. ASSUME NEW i \in Indices,
             \/ \E up \in BOOLEAN : ConnectNotification(i, up)
             \/ DisconnectNotification(i)
             \/ Input(i)
             \/ Enumerate(i)
             \/ StatusBroadcast(i)
      PROVE  WillBeTold'
  BY <1>1, <1>2 DEF ConnectNotification, DisconnectNotification, Input, Enumerate,
                    StatusBroadcast
<1>3. CASE (\E t \in BagToSet(delayed) : Expire(t)) \/ UNCHANGED vars
  BY <1>1, <1>3 DEF Expire, vars
<1>4. ASSUME NEW w \in Workers, WorkerStep(w)
      PROVE  WillBeTold'
  <2>m. ASSUME NEW s, pc' = [pc EXCEPT ![w] = s], UNCHANGED task,
               pc[w] \notin {"erase", "emplace"}, s \notin {"erase", "emplace"}
        PROVE  SameRemovals
    BY <2>m, OneMoves
  <2> USE DEF Go, Leave
  <2>1. CASE TakeTask(w) \/ TakeWakeTask(w)
    <3>1. SameRemovals
      BY <2>1 DEF TakeTask, TakeWakeTask, SameRemovals, TypeInv, TypeOK
    <3> QED
      BY <3>1, <2>1, <1>s DEF TakeTask, TakeWakeTask
  <2>2. CASE WakeTaskRuns(w)
    <3>1. SameRemovals
      <4>1. /\ pc' = [pc EXCEPT ![w] = "idle"] /\ UNCHANGED task
            /\ pc[w] = "wake"
        BY <2>2 DEF WakeTaskRuns
      <4>2. pc[w] \notin {"erase", "emplace"} /\ "idle" \notin {"erase", "emplace"}
        BY <4>1
      <4> QED
        BY <4>1, <4>2, OneMoves
    <3>2. UNCHANGED hookVars \/ Wakeup(Index(w))
      BY <2>2 DEF WakeTaskRuns
    <3> QED
      BY <3>1, <3>2, <2>2, <1>s, <1>h, <1>i, WakeupIsTold DEF WakeTaskRuns
  <2>3. CASE Begin(w) \/ Lock(w)
    <3>1. SameRemovals
      BY <2>3, <2>m DEF Begin, Lock
    <3> QED
      BY <3>1, <2>3, <1>s DEF Begin, Lock
  <2>4. CASE Add(w)
    <3>1. CASE AddMakes(w)
      BY <2>4, <3>1, MadeIsTold DEF Add
    <3>2. CASE ~AddMakes(w)
      <4>1. SameRemovals
        BY <2>4, <3>2, <2>m DEF Add, AddNothing, AddWakeup, AddTimesOut, AddFails
      <4>2. UNCHANGED hookVars \/ Sleep(Index(w)) \/ Wakeup(Index(w))
        BY <2>4, <3>2 DEF Add, AddNothing, AddWakeup, AddTimesOut, AddFails
      <4>3. UNCHANGED <<present, made, unplugged, unslept>>
        BY <2>4, <3>2 DEF Add, AddNothing, AddWakeup, AddTimesOut, AddFails
      <4>4. Index(w) \in Indices
        BY <2>4, <1>i DEF Add
      <4> QED
        BY <4>1, <4>2, <4>3, <4>4, <1>s, <1>h, SleepIsTold, WakeupIsTold
    <3> QED
      BY <3>1, <3>2
  <2>5. CASE Added(w) \/ NotReady(w) \/ GiveUp(w) \/ Failed(w)
    <3>1. SameRemovals
      BY <2>5, <2>m DEF Added, NotReady, GiveUp, Failed
    <3> QED
      BY <3>1, <2>5, <1>s DEF Added, NotReady, GiveUp, Failed
  <2> QED
    BY <1>4, <2>1, <2>2, <2>3, <2>4, <2>5, RemovalIsPrepared, ErasedIsTold, EmplacedIsTold
       DEF WorkerStep
<1> QED
  BY <1>2, <1>3, <1>4, ManagerTells DEF Next

-----------------------------------------------------------------------------
(***************************************************************************)
(* Pending indices and their chains of tries.                              *)
(***************************************************************************)

PendingInv == DelayedAreRetries /\ ChecksAreAdds /\ PendingHasChain

\* The Receiver is not locked again once nobody holds it.
LEMMA SelfLocksBefore ==
    ASSUME TypeInv, [Next]_vars, SelfLocks'
    PROVE  SelfLocks
<1> SUFFICES ASSUME ~SelfLocks
             PROVE  FALSE
  OBVIOUS
<1>1. ~alive /\ \A w \in Workers : pc[w] \in {"idle", "wake"}
  BY DEF SelfLocks, Holds
<1> DEFINE Stays == /\ ~alive'
                    /\ UNCHANGED pc \/ \E w \in Workers : pc' = [pc EXCEPT ![w] = "idle"]
<1>2. UNCHANGED <<alive, pc>> => Stays
  BY <1>1
<1>3. ASSUME NEW w \in Workers, WorkerStep(w)
      PROVE  Stays
  <2>1. CASE TakeTask(w)
    BY <2>1, <1>2 DEF TakeTask, receiverVars
  <2>2. CASE TakeWakeTask(w)
    BY <2>2, <1>2 DEF TakeWakeTask, Lives, receiverVars
  <2>3. CASE WakeTaskRuns(w)
    BY <2>3, <1>1 DEF WakeTaskRuns, Go, receiverVars
  <2> QED
    BY <1>3, <1>1, <2>1, <2>2, <2>3
       DEF WorkerStep, Begin, Lock, RemoveSleeps, Removes, RemoveErases, Add, Emplace,
           Added, NotReady, GiveUp, Failed
<1>4. ASSUME Unplug \/ RemoveReceiver \/ \E i \in unslept : UnpluggedSleeps(i)
      PROVE  Stays
  <2>1. ~alive' /\ UNCHANGED pc
    BY <1>4, <1>1 DEF Unplug, RemoveReceiver, UnpluggedSleeps, poolVars
  <2> QED
    BY <2>1
<1>5. ASSUME UNCHANGED vars \/ \E t \in BagToSet(delayed) : Expire(t)
      PROVE  Stays
  <2>1. ~alive' /\ UNCHANGED pc
    BY <1>5, <1>1 DEF vars, Expire, poolVars, receiverVars
  <2> QED
    BY <2>1
<1>6. Stays
  BY <1>2, <1>3, <1>4, <1>5
     DEF receiverVars, Next, ConnectNotification, DisconnectNotification, Input, Enumerate,
         StatusBroadcast
<1>7. \A w \in Workers : pc'[w] \in {"idle", "wake"}
  BY <1>1, <1>6 DEF TypeInv, TypeOK
<1> QED
  BY <1>6, <1>7 DEF SelfLocks, Holds

\* A worker goes on with its task: its chain goes on with it, unless its
\* index is no longer pending.
LEMMA WorkerKeepsChain ==
    ASSUME TypeInv, PendingInv, SelfLocks' => SelfLocks, NEW w \in Workers, NEW s,
           pc[w] # "idle",
           pc' = [pc EXCEPT ![w] = s],
           pending' \subseteq pending,
           \A i \in pending' : Tries(w, i) => s \notin {"idle", "wake", "giveup", "begin"},
           UNCHANGED <<task, queue, delayed>>
    PROVE  PendingInv'
<1>1. /\ \A v \in Workers : v # w => pc'[v] = pc[v]
      /\ pc'[w] = s
  BY DEF TypeInv, TypeOK
<1>2. ASSUME NEW i \in pending', Chained(i)
      PROVE  Chained(i)'
  <2>1. \A v \in Workers : Tries(v, i) => Tries(v, i)'
    BY <1>1 DEF Tries, Check
  <2> QED
    BY <1>2, <2>1 DEF Chained, Check
<1>3. PendingHasChain'
  BY <1>2 DEF PendingInv, PendingHasChain
<1>4. DelayedAreRetries' /\ ChecksAreAdds'
  BY <1>1 DEF PendingInv, DelayedAreRetries, ChecksAreAdds
<1> QED
  BY <1>3, <1>4 DEF PendingInv

\* A handler gives a task to run_task() or run_task_after().
LEMMA HandlersKeepChains ==
    ASSUME TypeInv, PendingInv, SelfLocks' => SelfLocks, NEW t \in Task,
           t.check => t.kind = "add",
           \/ RunTask(t) /\ UNCHANGED delayed
           \/ RunTaskAfter(t) /\ UNCHANGED queue /\ t.kind # "add",
           UNCHANGED <<pc, task, pending>>
    PROVE  PendingInv'
<1>q. queue \in Seq(Task) /\ IsABag(delayed)
  BY DEF TypeInv, TypeOK
<1>1. /\ \A n \in DOMAIN queue : n \in DOMAIN queue' /\ queue'[n] = queue[n]
      /\ \A n \in DOMAIN queue' : queue'[n] = t \/ n \in DOMAIN queue
  <2>1. /\ \A n \in DOMAIN queue : /\ n \in DOMAIN Append(queue, t)
                                   /\ Append(queue, t)[n] = queue[n]
        /\ \A n \in DOMAIN Append(queue, t) :
               Append(queue, t)[n] = t \/ n \in DOMAIN queue
    BY <1>q
  <2> QED
    BY <2>1 DEF RunTask
<1>2. \/ BagToSet(delayed') = BagToSet(delayed)
      \/ BagToSet(delayed') = BagToSet(delayed) \cup {t} /\ t.kind # "add"
  BY <1>q, BagAddFacts DEF RunTaskAfter
<1>3. ASSUME NEW i \in pending, Chained(i)
      PROVE  Chained(i)'
  <2>1. \A v \in Workers : Tries(v, i) => Tries(v, i)'
    BY DEF Tries, Check
  <2> QED
    BY <1>1, <1>2, <1>3, <2>1 DEF Chained, Check
<1>4. PendingHasChain'
  BY <1>3 DEF PendingInv, PendingHasChain
<1>5. DelayedAreRetries' /\ ChecksAreAdds'
  BY <1>1, <1>2 DEF PendingInv, DelayedAreRetries, ChecksAreAdds
<1> QED
  BY <1>4, <1>5 DEF PendingInv

\* A delayed task that expires goes on as a queued one.
LEMMA ExpireKeepsChains ==
    ASSUME TypeInv, PendingInv, SelfLocks' => SelfLocks,
           NEW t \in BagToSet(delayed), Expire(t)
    PROVE  PendingInv'
<1>q. queue \in Seq(Task) /\ IsABag(delayed) /\ t \in Task
  BY DEF TypeInv, TypeOK
<1>0. /\ queue' = Append(queue, t)
      /\ delayed' = BagRemove(delayed, t)
      /\ UNCHANGED <<pc, task, pending>>
  BY DEF Expire, RunTask, waitVars
<1>1. /\ \A n \in DOMAIN queue : n \in DOMAIN queue' /\ queue'[n] = queue[n]
      /\ \A n \in DOMAIN queue' : queue'[n] = t \/ n \in DOMAIN queue
      /\ \E n \in DOMAIN queue' : queue'[n] = t
  BY <1>0, <1>q, PushFacts
<1>2. /\ BagToSet(delayed') \subseteq BagToSet(delayed)
      /\ \A u \in BagToSet(delayed) : u # t => u \in BagToSet(delayed')
  BY <1>0, <1>q, BagRemoveFacts
<1>3. ASSUME NEW i \in pending, Chained(i)
      PROVE  Chained(i)'
  <2>1. \A v \in Workers : Tries(v, i) => Tries(v, i)'
    BY <1>0 DEF Tries, Check
  <2>2. Check(t, i) => t.tries > 0
    BY DEF PendingInv, DelayedAreRetries, Check
  <2> QED
    BY <1>1, <1>2, <1>3, <2>1, <2>2 DEF Chained, Check
<1>4. PendingHasChain'
  BY <1>0, <1>3 DEF PendingInv, PendingHasChain
<1>5. DelayedAreRetries' /\ ChecksAreAdds'
  BY <1>0, <1>1, <1>2 DEF PendingInv, DelayedAreRetries, ChecksAreAdds
<1> QED
  BY <1>4, <1>5 DEF PendingInv

\* A task that is taken goes on with the worker.
LEMMA TakingKeepsChains ==
    ASSUME TypeInv, PendingInv, SelfLocks' => SelfLocks, NEW w \in Workers,
           TakeTask(w) \/ TakeWakeTask(w)
    PROVE  PendingInv'
<1>q. queue \in Seq(Task) /\ queue # <<>>
  BY DEF TypeInv, TypeOK, TakeTask, TakeWakeTask
<1> DEFINE t == Head(queue)
<1>0. queue' = Tail(queue) /\ UNCHANGED <<delayed, pending>> /\ pc[w] = "idle"
  BY DEF TakeTask, TakeWakeTask, waitVars
<1>1. /\ \A n \in DOMAIN queue : queue[n] = t \/ \E m \in DOMAIN queue' : queue'[m] = queue[n]
      /\ \A m \in DOMAIN queue' : \E n \in DOMAIN queue : queue'[m] = queue[n]
      /\ \E n \in DOMAIN queue : queue[n] = t
  <2>1. \A m \in DOMAIN Tail(queue) :
            m + 1 \in DOMAIN queue /\ Tail(queue)[m] = queue[m + 1]
    BY <1>q
  <2>2. 1 \in DOMAIN queue /\ t = queue[1]
    BY <1>q
  <2> QED
    BY <1>0, <1>q, <2>1, <2>2, PopFacts
<1> HIDE DEF t
<1>2. \/ UNCHANGED <<pc, task>> /\ (t.kind = "wake" \/ ~SelfLocks)
      \/ /\ \/ pc' = [pc EXCEPT ![w] = "begin"]
            \/ pc' = [pc EXCEPT ![w] = "wake"] /\ t.kind = "wake"
         /\ task' = [task EXCEPT ![w] = t]
  BY DEF TakeTask, TakeWakeTask, Go, t
<1>3. /\ \A v \in Workers : v # w => pc'[v] = pc[v] /\ task'[v] = task[v]
      /\ \/ UNCHANGED <<pc, task>> /\ (t.kind = "wake" \/ ~SelfLocks)
         \/ (pc'[w] = "begin" \/ t.kind = "wake") /\ task'[w] = t
  BY <1>2 DEF TypeInv, TypeOK
<1>4. ASSUME NEW i \in pending, Chained(i), SelfLocks
      PROVE  Chained(i)'
  <2>1. \A v \in Workers : Tries(v, i) => Tries(v, i)'
    BY <1>0, <1>3 DEF Tries, Check
  <2>2. Check(t, i) /\ t.tries > 0 => Tries(w, i)'
    BY <1>3, <1>4 DEF Tries, Check
  <2>3. CASE \E n \in DOMAIN queue : Check(queue[n], i) /\ queue[n].tries > 0
    BY <1>1, <2>2, <2>3 DEF Chained, Check
  <2> QED
    BY <1>0, <1>4, <2>1, <2>3 DEF Chained, Check
<1>5. PendingHasChain'
  BY <1>0, <1>4 DEF PendingInv, PendingHasChain
<1>6. DelayedAreRetries'
  BY <1>0 DEF PendingInv, DelayedAreRetries
<1>7. ChecksAreAdds'
  <2>1. t.check => t.kind = "add"
    BY <1>1 DEF PendingInv, ChecksAreAdds
  <2> QED
    BY <2>1, <1>0, <1>1, <1>3 DEF PendingInv, ChecksAreAdds
<1> QED
  BY <1>5, <1>6, <1>7 DEF PendingInv

\* A device that is pending has a chain of retries under way.
LEMMA NextPending ==
    TypeInv /\ TaskFits /\ PendingInv /\ [Next]_vars => PendingInv'
<1> SUFFICES ASSUME TypeInv, TaskFits, PendingInv, [Next]_vars
             PROVE  PendingInv'
  OBVIOUS
<1>s. SelfLocks' => SelfLocks
  BY SelfLocksBefore
<1>1. ASSUME NEW i \in Indices,
             \/ \E up \in BOOLEAN : ConnectNotification(i, up)
             \/ DisconnectNotification(i)
             \/ Input(i)
             \/ Enumerate(i)
             \/ StatusBroadcast(i)
      PROVE  PendingInv'
  <2>1. \A up \in BOOLEAN, check \in BOOLEAN :
            /\ AddTask(i, up, check, 0) \in Task
            /\ AddTask(i, up, check, 0).kind = "add"
    BY TaskTypes DEF AddTask
  <2>2. /\ RemoveTask(i) \in Task /\ ~RemoveTask(i).check
        /\ WakeTask(i) \in Task /\ ~WakeTask(i).check /\ WakeTask(i).kind # "add"
    BY TaskTypes DEF RemoveTask, WakeTask, AddTask
  <2>3. ASSUME NEW t \in Task, t.check => t.kind = "add",
               \/ RunTask(t) /\ UNCHANGED delayed
               \/ RunTaskAfter(t) /\ UNCHANGED queue /\ t.kind # "add"
        PROVE  UNCHANGED <<pc, task, pending>> => PendingInv'
    BY <2>3, <1>s, HandlersKeepChains
  <2> USE DEF waitVars, deviceVars
  <2>4. ASSUME NEW up \in BOOLEAN, ConnectNotification(i, up)
        PROVE  PendingInv'
    BY <2>1, <2>3, <2>4 DEF ConnectNotification
  <2>5. CASE DisconnectNotification(i)
    BY <2>2, <2>3, <2>5 DEF DisconnectNotification
  <2>6. CASE Input(i)
    BY <2>1, <2>3, <2>6 DEF Input
  <2>7. CASE Enumerate(i)
    BY <2>1, <2>3, <2>7 DEF Enumerate
  <2>8. CASE StatusBroadcast(i)
    BY <2>2, <2>3, <2>8 DEF StatusBroadcast
  <2> QED
    BY <1>1, <2>4, <2>5, <2>6, <2>7, <2>8
<1>2. ASSUME UNCHANGED <<pc, task, queue, delayed, pending>>
      PROVE  PendingInv'
  <2>1. \A i \in pending : Chained(i) => Chained(i)'
    BY <1>2 DEF Chained, Tries, Check
  <2> QED
    BY <1>2, <1>s, <2>1 DEF PendingInv, DelayedAreRetries, ChecksAreAdds, PendingHasChain
<1>3. CASE \/ Unplug \/ RemoveReceiver \/ \E i \in unslept : UnpluggedSleeps(i)
           \/ UNCHANGED vars
  BY <1>2, <1>3 DEF Unplug, RemoveReceiver, UnpluggedSleeps, vars, poolVars, waitVars
<1>4. ASSUME NEW w \in Workers, NEW s, pc[w] # "idle",
             pc' = [pc EXCEPT ![w] = s],
             pending' \subseteq pending,
             \A i \in pending' : Tries(w, i) => s \notin {"idle", "wake", "giveup", "begin"}
      PROVE  UNCHANGED <<task, queue, delayed>> => PendingInv'
  BY <1>4, <1>s, WorkerKeepsChain
<1>5. ASSUME NEW w \in Workers, WorkerStep(w)
      PROVE  PendingInv'
  <2> USE DEF Go, Leave, waitVars, deviceVars
  <2>1. CASE Begin(w)
    <3>1. CASE /\ task[w].check /\ task[w].tries = 0
               /\ Index(w) \in pending
      BY <3>1, <2>1, <1>4 DEF Begin, Tries
    <3>2. CASE /\ task[w].check /\ task[w].tries = 0
               /\ Index(w) \notin pending
      <4>1. /\ pc' = [pc EXCEPT ![w] = "lock"]
            /\ pending' = pending \cup {Index(w)}
            /\ UNCHANGED <<task, queue, delayed>>
            /\ pc[w] = "begin"
        BY <3>2, <2>1 DEF Begin
      <4>2. /\ \A v \in Workers : v # w => pc'[v] = pc[v]
            /\ pc'[w] = "lock"
        BY <4>1 DEF TypeInv, TypeOK
      <4>3. Tries(w, Index(w))'
        BY <4>1, <4>2, <3>2 DEF Tries, Check, Index, PendingInv, ChecksAreAdds
      <4>4. \A i, v : v \in Workers /\ Tries(v, i) => Tries(v, i)'
        BY <4>1, <4>2 DEF Tries, Check
      <4>5. \A i \in pending : Chained(i) => Chained(i)'
        BY <4>1, <4>4 DEF Chained, Check
      <4>6. Chained(Index(w))'
        BY <4>3 DEF Chained
      <4>7. PendingHasChain'
        <5> SUFFICES ASSUME NEW i \in pending', SelfLocks'
                     PROVE  Chained(i)'
          BY DEF PendingHasChain
        <5>1. CASE i = Index(w)
          BY <5>1, <4>1, <4>3 DEF Chained, Index
        <5>2. CASE i # Index(w)
          BY <5>2, <4>1, <4>5, <1>s DEF PendingInv, PendingHasChain
        <5> QED
          BY <5>1, <5>2
      <4> QED
        BY <4>1, <4>2, <4>7 DEF PendingInv, DelayedAreRetries, ChecksAreAdds
    <3>3. CASE ~(task[w].check /\ task[w].tries = 0)
      BY <3>3, <2>1, <1>4 DEF Begin
    <3> QED
      BY <3>1, <3>2, <3>3
  <2>2. CASE Lock(w)
    <3>1. /\ pc[w] # "idle" /\ pc' = [pc EXCEPT ![w] = "locked"]
          /\ UNCHANGED <<task, queue, delayed, pending>>
      BY <2>2 DEF Lock
    <3>2. pending' \subseteq pending /\ "locked" \notin {"idle", "wake", "giveup", "begin"}
      BY <3>1
    <3> QED
      BY <3>1, <3>2, <1>4, Zenon
  <2>w. CASE WakeTaskRuns(w)
    BY <2>w, <1>4 DEF WakeTaskRuns, Tries
  <2>3. CASE RemoveSleeps(w) \/ RemoveErases(w)
    <3>1. \E s \in {"erase", "idle"} : pc' = [pc EXCEPT ![w] = s]
      BY <2>3 DEF RemoveSleeps, RemoveErases
    <3>2. pc[w] = "erase" => task[w].kind = "remove"
      BY DEF TaskFits
    <3>3. pc[w] # "idle" /\ \A i : ~Tries(w, i)
      BY <2>3, <3>2 DEF RemoveSleeps, RemoveErases, Removes, Tries, Check
    <3> QED
      BY <2>3, <3>1, <3>3, <1>4 DEF RemoveSleeps, RemoveErases
  <2>4. CASE Add(w)
    <3>1. \E s \in {"added", "failed", "notready", "emplace"} : pc' = [pc EXCEPT ![w] = s]
      BY <2>4 DEF Add, AddNothing, AddWakeup, AddMakes, AddTimesOut, AddFails
    <3> QED
      BY <3>1, <2>4, <1>4 DEF Add
  <2>5. CASE Emplace(w)
    <3>1. /\ pc[w] # "idle" /\ pc' = [pc EXCEPT ![w] = "added"]
          /\ UNCHANGED <<task, queue, delayed, pending>>
      BY <2>5 DEF Emplace
    <3>2. pending' \subseteq pending /\ "added" \notin {"idle", "wake", "giveup", "begin"}
      BY <3>1
    <3> QED
      BY <3>1, <3>2, <1>4, Zenon
  <2>6. CASE Added(w) \/ Failed(w)
    BY <2>6, <1>4 DEF Added, Failed, ClearPending, Tries, Check, Index
  <2>7. CASE GiveUp(w)
    BY <2>7, <1>4 DEF GiveUp, Tries
  <2>8. CASE NotReady(w) /\ IsLastTry(task[w].tries)
    BY <2>8, <1>4 DEF NotReady, ClearPending, Tries, Check, Index
  <2>9. CASE NotReady(w) /\ ~IsLastTry(task[w].tries)
    <3> DEFINE t == [task[w] EXCEPT !.tries = NextTry(@)]
    <3>1. /\ delayed' = BagAdd(delayed, t)
          /\ pc[w] = "notready"
          /\ pc' = [pc EXCEPT ![w] = "idle"]
          /\ UNCHANGED <<task, queue, pending>>
      BY <2>9 DEF NotReady, RunTaskAfter
    <3>2. task[w] \in Task /\ task[w].kind = "add" /\ task[w].check
      BY <3>1 DEF TypeInv, TypeOK, TaskFits
    <3>3. /\ t.kind = "add" /\ t.check
          /\ t.tries > 0
          /\ t.index = Index(w)
      BY <3>2 DEF Task, NextTry, Index
    <3> HIDE DEF t
    <3>4. BagToSet(delayed') = BagToSet(delayed) \cup {t}
      BY <3>1, BagAddFacts DEF TypeInv, TypeOK
    <3>5. /\ \A v \in Workers : v # w => pc'[v] = pc[v]
          /\ pc'[w] = "idle"
      BY <3>1 DEF TypeInv, TypeOK
    <3>6. ASSUME NEW i \in pending, Chained(i)
          PROVE  Chained(i)'
      <4>1. \A v \in Workers : v # w /\ Tries(v, i) => Tries(v, i)'
        BY <3>1, <3>5 DEF Tries, Check
      <4>2. Tries(w, i) => Check(t, i)
        BY <3>3 DEF Tries, Check, Index
      <4> QED
        BY <3>1, <3>4, <3>6, <4>1, <4>2 DEF Chained, Check
    <3>7. PendingHasChain'
      BY <3>1, <3>6, <1>s DEF PendingInv, PendingHasChain
    <3>8. DelayedAreRetries' /\ ChecksAreAdds'
      BY <3>1, <3>3, <3>4, <3>5 DEF PendingInv, DelayedAreRetries, ChecksAreAdds
    <3> QED
      BY <3>7, <3>8 DEF PendingInv
  <2> QED
    BY <1>5, <1>s, <2>1, <2>2, <2>w, <2>3, <2>4, <2>5, <2>6, <2>7, <2>8, <2>9,
       TakingKeepsChains DEF WorkerStep
<1> QED
  BY <1>1, <1>3, <1>5, <1>s, ExpireKeepsChains DEF Next

-----------------------------------------------------------------------------
\* The invariant holds at the start.
LEMMA InitIInv == Init => IInv
<1> SUFFICES ASSUME Init
             PROVE  IInv
  OBVIOUS
<1>1. TypeInv
  BY InitTypes
<1>2. ChangeIsExclusive /\ TaskFits
  BY DeviceLinkAssumption
     DEF Init, ChangeIsExclusive, TaskFits, DeviceLinkAssumption
<1>3. ManagerInv /\ WillBeTold
  BY DEF Init, ManagerInv, WillBeTold
<1>4. HooksAlternate
  <2>1. Alternates(<<>>) /\ ~Odd(<<>>)
    BY DEF Alternates, Odd
  <2> QED
    BY <2>1, HooksAlternateIs DEF Init
<1>5. DelayedAreRetries /\ ChecksAreAdds /\ PendingHasChain
  BY EmptyBagFacts DEF Init, DelayedAreRetries, ChecksAreAdds, PendingHasChain
<1> QED
  BY <1>1, <1>2, <1>3, <1>5, <1>4 DEF IInv

\* Every step keeps the invariant.
LEMMA NextIInv == IInv /\ [Next]_vars => IInv'
  BY NextTypes, NextExclusive, NextManager, NextHooks, NextTold, NextPending
  DEF IInv, PendingInv

\* The invariant holds in every behaviour.
THEOREM Invariance == Spec => []IInv
  BY InitIInv, NextIInv, PTL DEF Spec

\* The fields of Receiver, ReceiverMonitor and Device keep their types.
THEOREM TypeCorrect == Spec => []TypeOK
<1>1. IInv => TypeOK
  BY DEF IInv, TypeInv
<1> QED
  BY <1>1, Invariance, PTL

\* However the link events, the enumeration, the broadcasts and the removal of a
\* device and of its receiver race: its hooks alternate from on_connect, the last
\* one tells whether it is awake, a device that is gone has had its
\* on_disconnect unless a wakeup or its own addition overtook the removal's
\* sleep(), and its index is pending only while some task will still try to add
\* it (Device.cpp 189-219, Receiver.cpp 83-160, DeviceManager.cpp 171-181,
\* ReceiverMonitor.cpp 226-274).
THEOREM LinkFollowed == Spec => []LinkIsFollowed
<1>1. ASSUME IInv
      PROVE  LinkIsFollowed
  <2>1. PendingIsWorkedOn
    <3>1. \A w \in Workers, i \in pending : Tries(w, i) => Busy(w, i)
      BY DEF Tries, Busy, Holds, Check, Index
    <3> QED
      BY <1>1, <3>1 DEF IInv, PendingHasChain, Chained, PendingIsWorkedOn
  <2>2. ASSUME NEW i \in Indices, Connected(i)
        PROVE  Lives(i) \/ i \in raced
    <3>1. i \in raced \/ Made(i) \/ WillSleep(i)
      BY <1>1, <2>2 DEF IInv, HooksAlternate, WillBeTold
    <3>2. Made(i) => Lives(i)
      BY DEF Made, At, Lives, SelfLocks, Holds
    <3>3. WillSleep(i) => Lives(i)
      BY <1>1 DEF IInv, ManagerInv, WillSleep, Lives, SelfLocks
    <3> QED
      BY <3>1, <3>2, <3>3
  <2> QED
    BY <1>1, <2>1, <2>2 DEF IInv, TypeInv, LinkIsFollowed, GoneAreTold
<1> QED
  BY <1>1, Invariance, PTL
=============================================================================
