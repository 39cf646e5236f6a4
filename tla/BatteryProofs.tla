---------------------------- MODULE BatteryProofs ----------------------------
(***************************************************************************)
(* Proofs about Battery: the battery is published while the device is      *)
(* awake and not when it sleeps, and the kernel is told of it.             *)
(***************************************************************************)
EXTENDS Battery, TLAPS

Reading == {"read", "create", "update", "copy", "write"}

Types ==
    /\ charge \in Nat /\ gen \in Nat /\ inbox \in Nat /\ resends \in Nat
    /\ awake \in BOOLEAN /\ ready \in BOOLEAN
    /\ delayed \subseteq {"refresh", "withdraw"} \X (0 .. gen) \X Nat
    /\ pc \in [Threads -> Reading \cup {"idle", "onSleep", "onWakeup", "withdraw", "poll"}]
    /\ val \in [Threads -> Nat \cup {None}]
    /\ since \in [Threads -> 0 .. gen]
    /\ wakes \in [Threads -> BOOLEAN]
    /\ uhid \in Nat \cup {None} /\ kernel \in Nat \cup {None}
    /\ \A w \in Workers : pc[w] # "poll"
    /\ \A w \in Workers : pc[w] \in {"create", "update", "write"} => val[w] # None

\* The UHID device has a thread, and the kernel shows nothing without one.
UhidLives ==
    /\ pc[Uhid] \in {"idle", "poll", "copy", "write"}
    /\ pc[Uhid] = "idle" <=> uhid = None
    /\ uhid = None => kernel = None

\* While a withdrawal is under way nobody reads or will, but a wakeup that came late.
WithdrawsAlone ==
    ~late => \A w \in Workers : pc[w] = "withdraw" =>
        /\ \A v \in Workers : pc[v] \notin Reading \cup {"onWakeup"}
        /\ \A d \in delayed : d[1] # "refresh"

\* No worker uses a UHID device that was withdrawn, nor one that was replaced.
InUse ==
    /\ crashed => late \/ twice
    /\ ~late => \A w \in Workers : pc[w] \in {"update", "copy", "write"} => uhid # None

\* The withdrawal of the last sleep is still to come, and will be carried out.
SleepToCheck == \E d \in delayed : d[1] = "withdraw" /\ d[2] = gen

\* A device that wakes up has told so after its last sleep, or is about to.
WokeAfter ==
    ~overtaken /\ awake /\ SleepToCheck =>
        \E w \in Workers : pc[w] = "onWakeup"
AsleepWhenWithdrawn ==
    ~overtaken /\ ~late /\ (\E w \in Workers : pc[w] = "withdraw") => ~awake

\* The battery of a device that is awake is there or will be.
WillBePublished ==
    awake /\ uhid = None => \/ failed \/ overtaken \/ late \/ crashed
                            \/ \E w \in Workers : pc[w] \in {"onWakeup", "read", "create"}

\* The battery of a sleeping device will be withdrawn, for good.
WillBeWithdrawn ==
    ~overtaken /\ ~awake =>
        \/ \E w \in Workers : pc[w] = "onSleep"
        \/ SleepToCheck
        \/ /\ uhid = None \/ \E w \in Workers : pc[w] = "withdraw"
           /\ \A w \in Workers : pc[w] \notin Reading
           /\ \A d \in delayed : d[1] # "refresh"

\* The kernel will be told, when a driver is bound and by then.
WillBeTold ==
    uhid # None =>
        /\ ~ready => inbox > 0 \/ resends > 0
        /\ ready /\ ~stale =>
              \/ kernel = uhid \/ inbox > 0 \/ resends > 0
              \/ \E t \in Threads : pc[t] \in {"copy", "write"}

IInv ==
    /\ Types /\ UhidLives /\ WithdrawsAlone /\ InUse /\ WokeAfter /\ AsleepWhenWithdrawn
    /\ WillBePublished /\ WillBeWithdrawn /\ WillBeTold

(***************************************************************************)
(* The steps, and what they change.                                        *)
(***************************************************************************)

\* Steps of the device, its user, the I/O thread and the kernel.
Outside ==
    \/ LinkChanges \/ StatusBroadcast \/ ChargeChanges \/ BatteryEvent \/ BatteryEventEnds
    \/ KernelIsReady \/ KernelOpens

\* What such a step leaves as it is; reports and a driver may come.
LEMMA OutsideKeeps ==
    ASSUME Types, Outside
    PROVE  /\ UNCHANGED <<gen, awake, delayed, pc, val, since, wakes, uhid, kernel, resends,
                          overtaken, late, stale, failed, crashed>>
           /\ charge' \in Nat /\ inbox' \in Nat /\ inbox' >= inbox /\ ready' \in BOOLEAN
           /\ (ready' = ready \/ (uhid # None /\ ~ready /\ inbox' = inbox))
<1>1. CASE LinkChanges \/ StatusBroadcast \/ ChargeChanges \/ BatteryEvent \/ BatteryEventEnds
    <2>1. /\ UNCHANGED <<gen, awake, delayed, pc, val, since, wakes, uhid, kernel, resends,
                         overtaken, late, stale, failed, crashed>>
          /\ inbox' = inbox /\ ready' = ready
        BY <1>1 DEF LinkChanges, StatusBroadcast, ChargeChanges, BatteryEvent,
            BatteryEventEnds, device, threads, uhidVars, history
    <2>2. charge' = charge \/ charge' = charge + 1
        BY <1>1 DEF LinkChanges, StatusBroadcast, ChargeChanges, BatteryEvent,
            BatteryEventEnds, env
    <2>3. charge' \in Nat /\ inbox' \in Nat /\ inbox' >= inbox /\ ready' \in BOOLEAN
        BY <2>1, <2>2 DEF Types
    <2>4. ready' = ready
        BY <2>1
    <2> QED BY <2>1, <2>3, <2>4
<1>2. CASE KernelIsReady \/ KernelOpens
    <2>1. /\ UNCHANGED <<gen, awake, delayed, pc, val, since, wakes, uhid, kernel, resends,
                         overtaken, late, stale, failed, crashed, charge>>
          /\ inbox' = inbox \/ inbox' = inbox + 1
        BY <1>2 DEF KernelIsReady, KernelOpens, env, device, threads, uhidVars, history
    <2>2. ready' = ready \/ (uhid # None /\ ~ready /\ inbox' = inbox /\ ready' = TRUE)
        BY <1>2 DEF KernelIsReady, KernelOpens
    <2>3. charge' \in Nat /\ inbox' \in Nat /\ inbox' >= inbox
        BY <2>1 DEF Types
    <2>4. ready' \in BOOLEAN
        BY <2>2 DEF Types
    <2> QED BY <2>1, <2>2, <2>3, <2>4
<1> QED BY <1>1, <1>2 DEF Outside

\* The end of a reading.
LEMMA FinishFacts ==
    ASSUME Types, NEW w \in Workers, Finish(w)
    PROVE  /\ wakes' \in [Threads -> BOOLEAN]
           /\ val' = [val EXCEPT ![w] = None] /\ val' \in [Threads -> Nat \cup {None}]
           /\ since' = [since EXCEPT ![w] = 0] /\ since' \in [Threads -> 0 .. gen]
           /\ delayed \subseteq delayed'
           /\ delayed' \subseteq {"refresh", "withdraw"} \X (0 .. gen) \X Nat
           /\ \A d \in delayed' : d \in delayed \/ d[1] = "refresh"
<1>1. w \in Threads
    BY DEF Threads
<1>2. 0 \in 0 .. gen /\ gen \in 0 .. gen
    BY DEF Types
<1>3. /\ wakes' \in [Threads -> BOOLEAN]
      /\ val' = [val EXCEPT ![w] = None] /\ val' \in [Threads -> Nat \cup {None}]
      /\ since' = [since EXCEPT ![w] = 0] /\ since' \in [Threads -> 0 .. gen]
    BY <1>1, <1>2 DEF Finish, Types
<1>4. \A n \in 1 .. Refreshes :
         <<"refresh", gen, n>> \in {"refresh", "withdraw"} \X (0 .. gen) \X Nat
    BY <1>2, BatteryAssumption
<1>5. \/ delayed' = delayed
      \/ delayed' = delayed \cup {<<"refresh", gen, n>> : n \in 1 .. Refreshes}
    BY DEF Finish
<1>6. delayed' \subseteq {"refresh", "withdraw"} \X (0 .. gen) \X Nat
    BY <1>4, <1>5 DEF Types
<1>7. \A d \in delayed' : d \in delayed \/ d[1] = "refresh"
    BY <1>5
<1> QED BY <1>3, <1>5, <1>6, <1>7

\* Every step keeps the types.
LEMMA NextTypes == ASSUME Types, UhidLives, Next PROVE Types'
<1> USE BatteryAssumption
<1>0. Uhid \in Threads /\ Workers \subseteq Threads /\ Uhid \notin Workers
    BY DEF Threads
<1>1. CASE Outside
    BY <1>1, OutsideKeeps DEF Types
<1>2. ASSUME NEW w \in Workers, Begin(w) PROVE Types'
    <2>1. /\ pc' \in [Threads -> Reading \cup {"idle", "onSleep", "onWakeup", "withdraw", "poll"}]
          /\ \A v \in Workers : pc'[v] = pc[v] \/ pc'[v] \in {"onSleep", "onWakeup"}
        BY <1>0, <1>2 DEF Begin, Go, Types
    <2>2. awake' \in BOOLEAN
        BY <1>2 DEF Begin
    <2> QED BY <1>2, <2>1, <2>2 DEF Begin, Types, env, uhidVars
<1>3. ASSUME NEW w \in Workers, OnSleep(w) PROVE Types'
    <2>1. gen' = gen + 1 /\ gen' \in Nat /\ 0 .. gen \subseteq 0 .. gen' /\ gen + 1 \in 0 .. gen'
        BY <1>3 DEF OnSleep, Types
    <2>2. delayed' = delayed \cup {<<"withdraw", gen + 1, 1>>}
        BY <1>3 DEF OnSleep, SleepGeneration
    <2>3. delayed' \subseteq {"refresh", "withdraw"} \X (0 .. gen') \X Nat
        BY <2>1, <2>2 DEF Types
    <2>4. since' \in [Threads -> 0 .. gen']
        BY <1>3, <2>1 DEF OnSleep, Types
    <2>5. /\ pc' \in [Threads -> Reading \cup {"idle", "onSleep", "onWakeup", "withdraw", "poll"}]
          /\ \A v \in Workers : pc'[v] = pc[v] \/ pc'[v] = "idle"
        BY <1>0, <1>3 DEF OnSleep, Go, Types
    <2> QED BY <1>3, <2>1, <2>3, <2>4, <2>5 DEF OnSleep, Types, env, uhidVars
<1>4. ASSUME NEW w \in Workers, OnWakeup(w) PROVE Types'
    <2>1. gen' = gen + 1 /\ gen' \in Nat /\ 0 .. gen \subseteq 0 .. gen' /\ gen' \in 0 .. gen'
        BY <1>4 DEF OnWakeup, WakeGeneration, Types
    <2>3. delayed' \subseteq {"refresh", "withdraw"} \X (0 .. gen') \X Nat
        BY <1>4, <2>1 DEF OnWakeup, Types
    <2>4. since' \in [Threads -> 0 .. gen'] /\ wakes' \in [Threads -> BOOLEAN]
        BY <1>0, <1>4, <2>1 DEF OnWakeup, Types
    <2>5. /\ pc' \in [Threads -> Reading \cup {"idle", "onSleep", "onWakeup", "withdraw", "poll"}]
          /\ \A v \in Workers : pc'[v] = pc[v] \/ pc'[v] = "read"
        BY <1>0, <1>4 DEF OnWakeup, Go, Types, Reading
    <2> QED BY <1>4, <2>1, <2>3, <2>4, <2>5 DEF OnWakeup, Types, env, uhidVars
<1>5. ASSUME NEW w \in Workers, ReadFails(w) \/ CreateFails(w) PROVE Types'
    <2>1. Finish(w) /\ Go(w, "idle")
        BY <1>5 DEF ReadFails, CreateFails, Published
    <2>2. /\ pc' \in [Threads -> Reading \cup {"idle", "onSleep", "onWakeup", "withdraw", "poll"}]
          /\ pc'[w] = "idle" /\ \A v \in Workers \ {w} : pc'[v] = pc[v]
        BY <1>0, <2>1 DEF Go, Types
    <2>3. \A v \in Workers \ {w} : val'[v] = val[v]
        BY <1>0, <2>1, FinishFacts DEF Types
    <2>4. UNCHANGED <<charge, gen, inbox, resends, awake, ready, uhid, kernel>>
        BY <1>5 DEF ReadFails, CreateFails, env, uhidVars
    <2> QED BY <2>1, <2>2, <2>3, <2>4, FinishFacts DEF Types
<1>6. ASSUME NEW w \in Workers, Read(w) PROVE Types'
    <2>1. /\ pc' \in [Threads -> Reading \cup {"idle", "onSleep", "onWakeup", "withdraw", "poll"}]
          /\ pc'[w] # "poll" /\ \A v \in Workers \ {w} : pc'[v] = pc[v]
        BY <1>0, <1>6 DEF Read, Publication, Go, Types, Reading
    <2>2. /\ val' \in [Threads -> Nat \cup {None}]
          /\ val'[w] = charge /\ \A v \in Workers \ {w} : val'[v] = val[v]
        BY <1>0, <1>6 DEF Read, Types
    <2>3. charge # None
        BY DEF Types
    <2> QED BY <1>6, <2>1, <2>2, <2>3 DEF Read, Types, env, device, uhidVars
<1>7. ASSUME NEW w \in Workers, Create(w) PROVE Types'
    <2>1. Finish(w) /\ val[w] \in Nat \cup {None}
        BY <1>0, <1>7 DEF Create, Types
    <2>2. /\ pc' \in [Threads -> Reading \cup {"idle", "onSleep", "onWakeup", "withdraw", "poll"}]
          /\ pc'[w] = "idle" /\ \A v \in Workers \ {w} : pc'[v] = pc[v]
        BY <1>0, <1>7 DEF Create, Types
    <2>3. \A v \in Workers \ {w} : val'[v] = val[v]
        BY <1>0, <2>1, FinishFacts DEF Types
    <2>4. /\ UNCHANGED <<charge, gen, awake>> /\ uhid' = val[w] /\ kernel' = None
          /\ ready' = FALSE /\ inbox' = 1 /\ resends' = 0
        BY <1>7 DEF Create, env
    <2> QED BY <2>1, <2>2, <2>3, <2>4, FinishFacts DEF Types
<1>8. ASSUME NEW w \in Workers, Update(w) PROVE Types'
    <2>1. /\ pc' \in [Threads -> Reading \cup {"idle", "onSleep", "onWakeup", "withdraw", "poll"}]
          /\ \A v \in Workers : pc'[v] = pc[v] \/ pc'[v] = "copy"
        BY <1>0, <1>8 DEF Update, Go, Types, Reading
    <2>2. uhid' \in Nat \cup {None}
        BY <1>0, <1>8 DEF Update, Types
    <2> QED BY <1>8, <2>1, <2>2 DEF Update, Types, env, device
<1>9. ASSUME NEW t \in Threads, Copy(t) PROVE Types'
    <2>1. CASE uhid = None
        BY <1>9, <2>1 DEF Copy, Types, env, device, uhidVars
    <2>2. CASE uhid # None
        <3>1. /\ pc' \in [Threads -> Reading \cup {"idle", "onSleep", "onWakeup", "withdraw", "poll"}]
              /\ pc'[t] = "write" /\ \A v \in Workers \ {t} : pc'[v] = pc[v]
            BY <1>0, <1>9, <2>2 DEF Copy, Go, Types, Reading
        <3>2. /\ val' \in [Threads -> Nat \cup {None}]
              /\ val'[t] = uhid /\ \A v \in Workers \ {t} : val'[v] = val[v]
            BY <1>0, <1>9, <2>2 DEF Copy, Types
        <3> QED BY <1>9, <2>2, <3>1, <3>2 DEF Copy, Types, env, device, uhidVars
    <2> QED BY <2>1, <2>2
<1>10. ASSUME NEW w \in Workers, Write(w) PROVE Types'
    <2>1. CASE uhid = None
        BY <1>10, <2>1 DEF Write, Types, env, threads
    <2>2. CASE uhid # None
        <3>1. Finish(w) /\ Go(w, "idle") /\ Shown(w)
            BY <1>10, <2>2 DEF Write, Published
        <3>2. /\ pc' \in [Threads -> Reading \cup {"idle", "onSleep", "onWakeup", "withdraw", "poll"}]
              /\ pc'[w] = "idle" /\ \A v \in Workers \ {w} : pc'[v] = pc[v]
            BY <1>0, <3>1 DEF Go, Types
        <3>3. \A v \in Workers \ {w} : val'[v] = val[v]
            BY <1>0, <3>1, FinishFacts DEF Types
        <3>4. kernel' \in Nat \cup {None}
            BY <1>0, <3>1 DEF Shown, Types
        <3>5. UNCHANGED <<charge, gen, inbox, resends, awake, ready, uhid>>
            BY <1>10 DEF Write, env
        <3> QED BY <3>1, <3>2, <3>3, <3>4, <3>5, FinishFacts DEF Types
    <2> QED BY <2>1, <2>2
<1>11. ASSUME NEW w \in Workers, Refresh(w) PROVE Types'
    <2>1. PICK d \in delayed : delayed' = delayed \ {d} /\ since' = [since EXCEPT ![w] = d[2]]
        BY <1>11 DEF Refresh
    <2>2. d[2] \in 0 .. gen
        BY DEF Types
    <2>3. since' \in [Threads -> 0 .. gen]
        BY <1>0, <2>1, <2>2 DEF Types
    <2>4. /\ pc' \in [Threads -> Reading \cup {"idle", "onSleep", "onWakeup", "withdraw", "poll"}]
          /\ \A v \in Workers : pc'[v] = pc[v] \/ pc'[v] = "read"
        BY <1>0, <1>11 DEF Refresh, Go, Types, Reading
    <2> QED BY <1>11, <2>1, <2>3, <2>4 DEF Refresh, Types, env, uhidVars
<1>12. ASSUME NEW w \in Workers, CheckWithdrawal(w) PROVE Types'
    <2>1. delayed' \subseteq delayed
        BY <1>12 DEF CheckWithdrawal
    <2>2. /\ pc' \in [Threads -> Reading \cup {"idle", "onSleep", "onWakeup", "withdraw", "poll"}]
          /\ \A v \in Workers : pc'[v] = pc[v] \/ pc'[v] = "withdraw"
        BY <1>0, <1>12 DEF CheckWithdrawal, Go, Types
    <2> QED BY <1>12, <2>1, <2>2 DEF CheckWithdrawal, Types, env, uhidVars
<1>13. ASSUME NEW w \in Workers, Withdraw(w) PROVE Types'
    <2>1. /\ pc' \in [Threads -> Reading \cup {"idle", "onSleep", "onWakeup", "withdraw", "poll"}]
          /\ \A v \in Workers : pc'[v] = pc[v] \/ pc'[v] = "idle"
        BY <1>0, <1>13 DEF Withdraw, Types
    <2> QED BY <1>13, <2>1 DEF Withdraw, Types, env, device
<1>14. CASE ReadKernelEvent \/ Resend
    <2>1. /\ pc' \in [Threads -> Reading \cup {"idle", "onSleep", "onWakeup", "withdraw", "poll"}]
          /\ \A v \in Workers : pc'[v] = pc[v]
        BY <1>0, <1>14 DEF ReadKernelEvent, Resend, Go, Types, Reading
    <2>2. inbox' \in Nat /\ resends' \in Nat
        BY <1>14 DEF ReadKernelEvent, Resend, StartupResends, Types
    <2> QED BY <1>14, <2>1, <2>2 DEF ReadKernelEvent, Resend, Types, env, device
<1>15. CASE UhidWrite
    <2>1. /\ pc' \in [Threads -> Reading \cup {"idle", "onSleep", "onWakeup", "withdraw", "poll"}]
          /\ \A v \in Workers : pc'[v] = pc[v]
        BY <1>0, <1>15 DEF UhidWrite, Go, Types
    <2>2. val' \in [Threads -> Nat \cup {None}] /\ \A v \in Workers : val'[v] = val[v]
        BY <1>0, <1>15 DEF UhidWrite, Types
    <2>3. kernel' \in Nat \cup {None}
        BY <1>0, <1>15 DEF UhidWrite, Shown, Types
    <2> QED BY <1>15, <2>1, <2>2, <2>3 DEF UhidWrite, Types, env, device
<1> QED BY <1>0, <1>1, <1>2, <1>3, <1>4, <1>5, <1>6, <1>7, <1>8, <1>9, <1>10, <1>11, <1>12,
           <1>13, <1>14, <1>15 DEF Next, Outside, WorkerStep

(***************************************************************************)
(* The UHID device and its thread.                                         *)
(***************************************************************************)

\* Steps of a worker that change neither the UHID device nor its thread.
Elsewhere(w) ==
    \/ Begin(w) \/ OnSleep(w) \/ OnWakeup(w) \/ ReadFails(w) \/ Read(w) \/ CreateFails(w)
    \/ Refresh(w) \/ CheckWithdrawal(w)

\* Such a step moves the worker alone.
LEMMA ElsewhereKeeps ==
    ASSUME Types, NEW w \in Workers, Elsewhere(w)
    PROVE  /\ UNCHANGED <<uhid, kernel, ready, inbox, resends, stale, crashed>>
           /\ pc[w] \notin {"copy", "write"} /\ \A t \in Threads \ {w} : pc'[t] = pc[t]
<1>1. UNCHANGED <<uhid, kernel, ready, inbox, resends, stale, crashed>>
    BY DEF Elsewhere, Begin, OnSleep, OnWakeup, ReadFails, Read, CreateFails, Refresh,
        CheckWithdrawal, uhidVars, history
<1>2. pc[w] \notin {"copy", "write"} /\ ((\E s : Go(w, s)) \/ UNCHANGED pc)
    BY DEF Elsewhere, Begin, OnSleep, OnWakeup, ReadFails, Read, CreateFails, Refresh,
        CheckWithdrawal, Published
<1> QED BY <1>1, <1>2 DEF Go, Types

\* The thread comes with the UHID device and goes with it.
LEMMA NextUhid == ASSUME Types, UhidLives, Next PROVE UhidLives'
<1> USE BatteryAssumption DEF UhidLives
<1>0. Uhid \in Threads /\ Workers \subseteq Threads /\ \A w \in Workers : w # Uhid
    BY DEF Threads
<1>1. CASE Outside
    BY <1>1, OutsideKeeps
<1>2. ASSUME NEW w \in Workers, Elsewhere(w) PROVE UhidLives'
    BY <1>0, <1>2, ElsewhereKeeps
<1>3. ASSUME NEW w \in Workers, Create(w) PROVE UhidLives'
    <2>1. pc'[Uhid] = "poll" /\ val[w] # None
        BY <1>0, <1>3 DEF Create, Types
    <2> QED BY <1>3, <2>1 DEF Create
<1>4. ASSUME NEW w \in Workers, Update(w) PROVE UhidLives'
    <2>1. pc'[Uhid] = pc[Uhid] /\ kernel' = kernel /\ val[w] # None
        BY <1>0, <1>4 DEF Update, Go, Types
    <2>2. uhid' = None <=> uhid = None
        BY <1>4, <2>1 DEF Update
    <2> QED BY <2>1, <2>2
<1>5. ASSUME NEW w \in Workers, Copy(w) PROVE UhidLives'
    <2>1. pc'[Uhid] = pc[Uhid] /\ UNCHANGED <<kernel, uhid>>
        BY <1>0, <1>5 DEF Copy, Go, Types, uhidVars
    <2> QED BY <2>1
<1>6. ASSUME NEW w \in Workers, Write(w) PROVE UhidLives'
    <2>1. pc'[Uhid] = pc[Uhid] /\ UNCHANGED uhid /\ (uhid = None => kernel' = kernel)
        BY <1>0, <1>6 DEF Write, Published, Go, Types, threads
    <2> QED BY <2>1
<1>7. ASSUME NEW w \in Workers, Withdraw(w) PROVE UhidLives'
    <2>1. pc'[Uhid] = "idle" /\ uhid' = None /\ kernel' = None
        BY <1>0, <1>7 DEF Withdraw, Types
    <2> QED BY <2>1
<1>8. CASE ReadKernelEvent \/ Resend \/ Copy(Uhid) \/ UhidWrite
    <2>1. pc[Uhid] # "idle"
        BY <1>8 DEF ReadKernelEvent, Resend, Copy, UhidWrite
    <2>2. UNCHANGED uhid
        BY <1>8 DEF ReadKernelEvent, Resend, Copy, UhidWrite, uhidVars
    <2>3. pc'[Uhid] \in {"poll", "copy", "write"}
        BY <1>0, <1>8, <2>1 DEF ReadKernelEvent, Resend, Copy, UhidWrite, Go, Types
    <2> QED BY <2>1, <2>2, <2>3
<1> QED BY <1>1, <1>2, <1>3, <1>4, <1>5, <1>6, <1>7, <1>8 DEF Next, Outside, WorkerStep,
           Elsewhere

\* A change of the UHID device is written, or will be by the next input.
LEMMA NextTold == ASSUME Types, UhidLives, WillBeTold, Next PROVE WillBeTold'
<1> USE BatteryAssumption DEF WillBeTold
<1>0. /\ Uhid \in Threads /\ Workers \subseteq Threads /\ \A w \in Workers : w # Uhid
      /\ inbox \in Nat /\ resends \in Nat
    BY DEF Threads, Types
<1>1. CASE Outside
    BY <1>0, <1>1, OutsideKeeps
<1>2. ASSUME NEW w \in Workers, Elsewhere(w) PROVE WillBeTold'
    BY <1>0, <1>2, ElsewhereKeeps
<1>3. ASSUME NEW w \in Workers, Create(w) PROVE WillBeTold'
    BY <1>3 DEF Create
<1>4. ASSUME NEW w \in Workers, Update(w) PROVE WillBeTold'
    <2>1. UNCHANGED <<ready, inbox, resends>>
        BY <1>4 DEF Update
    <2>2. CASE uhid = None
        BY <1>4, <2>2 DEF Update
    <2>3. CASE uhid # None
        <3>1. pc'[w] = "copy"
            BY <1>0, <1>4, <2>3 DEF Update, Go, Types
        <3> QED BY <1>0, <2>1, <2>3, <3>1
    <2> QED BY <2>2, <2>3
<1>5. ASSUME NEW t \in Threads, Copy(t) PROVE WillBeTold'
    <2>1. UNCHANGED <<ready, inbox, resends, uhid, kernel, stale>>
        BY <1>5 DEF Copy, uhidVars, history
    <2>2. uhid # None => pc'[t] = "write"
        BY <1>0, <1>5 DEF Copy, Go, Types
    <2> QED BY <1>0, <2>1, <2>2
<1>6. ASSUME NEW t \in Threads, Write(t) \/ (t = Uhid /\ UhidWrite) PROVE WillBeTold'
    <2>1. UNCHANGED <<ready, inbox, resends, uhid>>
        BY <1>6 DEF Write, UhidWrite
    <2>2. uhid # None => Shown(t) /\ stale' = (val[t] # uhid)
        BY <1>6 DEF Write, UhidWrite
    <2>3. uhid # None /\ ready /\ ~stale' => kernel' = uhid'
        BY <2>1, <2>2 DEF Shown
    <2> QED BY <2>1, <2>3
<1>7. ASSUME NEW w \in Workers, Withdraw(w) PROVE WillBeTold'
    BY <1>7 DEF Withdraw
<1>8. CASE ReadKernelEvent
    <2>1. resends' > 0 /\ UNCHANGED uhid
        BY <1>8 DEF ReadKernelEvent, StartupResends
    <2> QED BY <2>1
<1>9. CASE Resend
    <2>1. UNCHANGED <<uhid, kernel, ready, inbox, stale>> /\ resends' = resends - 1
          /\ (resends = 1 => ready) /\ resends > 0
        BY <1>9 DEF Resend, history
    <2>2. pc'[Uhid] = "copy"
        BY <1>0, <1>9 DEF Resend, Go, Types
    <2>3. ~ready => resends' > 0
        BY <1>0, <2>1
    <2> QED BY <1>0, <2>1, <2>2, <2>3
<1> QED BY <1>0, <1>1, <1>2, <1>3, <1>4, <1>5, <1>6, <1>7, <1>8, <1>9
    DEF Next, Outside, WorkerStep, Elsewhere

(***************************************************************************)
(* Sleep and wakeup: who reads, who withdraws, and what is still to come.  *)
(***************************************************************************)

Reads(w) ==
    \/ ReadFails(w) \/ Read(w) \/ CreateFails(w) \/ Create(w)
    \/ Update(w) \/ Copy(w) \/ Write(w)

\* A worker that reads goes on or is done, and may schedule refreshes.
LEMMA ReadsFacts ==
    ASSUME Types, NEW w \in Workers, Reads(w)
    PROVE  /\ pc[w] \in Reading /\ pc'[w] \in Reading \cup {"idle"}
           /\ \A v \in Workers \ {w} : pc'[v] = pc[v]
           /\ UNCHANGED <<gen, awake, overtaken, late>>
           /\ delayed \subseteq delayed' /\ \A d \in delayed' : d \in delayed \/ d[1] = "refresh"
<1>0. w \in Threads /\ Workers \subseteq Threads /\ w # Uhid /\ Uhid \notin Workers
    BY BatteryAssumption DEF Threads
<1>1. pc[w] \in Reading /\ UNCHANGED <<gen, awake, overtaken, late>>
    BY DEF Reads, ReadFails, Read, CreateFails, Create, Update, Copy, Write, Reading, device,
        history
<1>2. \/ Finish(w) \/ UNCHANGED delayed
    BY DEF Reads, ReadFails, Read, CreateFails, Create, Update, Copy, Write, Published, device
<1>3. delayed \subseteq delayed' /\ \A d \in delayed' : d \in delayed \/ d[1] = "refresh"
    BY <1>2, FinishFacts
<1>4. \/ \E s \in Reading \cup {"idle"} : Go(w, s)
      \/ UNCHANGED pc
      \/ pc' = [pc EXCEPT ![w] = "idle", ![Uhid] = "poll"]
    BY DEF Reads, ReadFails, Read, CreateFails, Create, Update, Copy, Write, Published,
        Publication, Reading, threads
<1>5. pc'[w] \in Reading \cup {"idle"} /\ \A v \in Workers \ {w} : pc'[v] = pc[v]
    BY <1>0, <1>1, <1>4 DEF Go, Types
<1> QED BY <1>1, <1>3, <1>5

\* The thread of the UHID device changes nothing of the device and its workers.
UhidThread == ReadKernelEvent \/ Resend \/ Copy(Uhid) \/ UhidWrite

\* Such a step leaves the workers where they are.
LEMMA UhidThreadKeeps ==
    ASSUME Types, UhidLives, UhidThread
    PROVE  /\ UNCHANGED <<gen, awake, delayed, overtaken, late, failed, uhid, crashed>>
           /\ \A v \in Workers : pc'[v] = pc[v]
<1>0. \A v \in Workers : v \in Threads /\ v # Uhid
    BY BatteryAssumption DEF Threads
<1>1. Copy(Uhid) => uhid # None
    BY DEF Copy, UhidLives
<1>2. UNCHANGED <<gen, awake, delayed, overtaken, late, failed, uhid, crashed>>
    BY <1>1 DEF UhidThread, ReadKernelEvent, Resend, Copy, UhidWrite, device, uhidVars, history
<1>3. \E s : Go(Uhid, s)
    BY <1>1 DEF UhidThread, ReadKernelEvent, Resend, Copy, UhidWrite
<1> QED BY <1>0, <1>2, <1>3 DEF Go, Types

\* Sleeping and waking up, step by step.
LEMMA BeginFacts ==
    ASSUME Types, NEW w \in Workers, Begin(w)
    PROVE  /\ pc[w] = "idle" /\ UNCHANGED <<gen, delayed, overtaken, failed>>
           /\ late' = (late \/ (awake' /\ \E v \in Workers : pc[v] = "withdraw"))
           /\ \A v \in Workers \ {w} : pc'[v] = pc[v]
           /\ \/ awake' /\ pc'[w] = "onWakeup"
              \/ ~awake' /\ pc'[w] = "onSleep"
              \/ ~awake' /\ ~awake /\ pc'[w] = "idle"
<1>0. w \in Threads /\ Workers \subseteq Threads
    BY DEF Threads
<1>1. /\ pc[w] = "idle" /\ UNCHANGED <<gen, delayed, overtaken, failed>>
      /\ late' = (late \/ (awake' /\ \E v \in Workers : pc[v] = "withdraw"))
    BY DEF Begin
<1>2. \/ awake' /\ Go(w, "onWakeup")
      \/ ~awake' /\ Go(w, "onSleep")
      \/ ~awake' /\ ~awake /\ UNCHANGED pc
    BY DEF Begin
<1> QED BY <1>0, <1>1, <1>2 DEF Go, Types

\* A sleep schedules the withdrawal that is checked.
LEMMA OnSleepFacts ==
    ASSUME Types, NEW w \in Workers, OnSleep(w)
    PROVE  /\ pc[w] = "onSleep" /\ pc'[w] = "idle" /\ \A v \in Workers \ {w} : pc'[v] = pc[v]
           /\ UNCHANGED <<awake, late>> /\ overtaken' = (overtaken \/ awake)
           /\ SleepToCheck' /\ \A d \in delayed' : d \in delayed \/ d[1] = "withdraw"
<1>0. w \in Threads /\ Workers \subseteq Threads
    BY DEF Threads
<1>1. pc'[w] = "idle" /\ \A v \in Workers \ {w} : pc'[v] = pc[v]
    BY <1>0 DEF OnSleep, Go, Types
<1>2. gen' = gen + 1 /\ delayed' = delayed \cup {<<"withdraw", gen + 1, 1>>}
    BY DEF OnSleep, SleepGeneration
<1>3. SleepToCheck'
    <2> DEFINE d == <<"withdraw", gen + 1, 1>>
    <2>1. d \in delayed' /\ d[1] = "withdraw" /\ d[2] = gen'
        BY <1>2
    <2> QED BY <2>1 DEF SleepToCheck
<1>4. \A d \in delayed' : d \in delayed \/ d[1] = "withdraw"
    BY <1>2
<1> QED BY <1>1, <1>3, <1>4 DEF OnSleep

\* A wakeup makes every scheduled withdrawal void.
LEMMA OnWakeupFacts ==
    ASSUME Types, NEW w \in Workers, OnWakeup(w)
    PROVE  /\ pc[w] = "onWakeup" /\ pc'[w] = "read" /\ \A v \in Workers \ {w} : pc'[v] = pc[v]
           /\ UNCHANGED <<awake, late, delayed>> /\ overtaken' = (overtaken \/ ~awake)
           /\ ~SleepToCheck'
<1>0. w \in Threads /\ Workers \subseteq Threads
    BY DEF Threads
<1>1. pc'[w] = "read" /\ \A v \in Workers \ {w} : pc'[v] = pc[v]
    BY <1>0 DEF OnWakeup, Go, Types
<1>2. gen' = gen + 1 /\ delayed' = delayed
    BY DEF OnWakeup, WakeGeneration
<1>3. \A d \in delayed : d[2] <= gen
    BY DEF Types
<1>4. ~SleepToCheck'
    BY <1>2, <1>3 DEF SleepToCheck, Types
<1> QED BY <1>1, <1>2, <1>4 DEF OnWakeup

\* A refresh is taken by a worker, which reads.
LEMMA RefreshFacts ==
    ASSUME Types, NEW w \in Workers, Refresh(w)
    PROVE  /\ pc[w] = "idle" /\ pc'[w] = "read" /\ \A v \in Workers \ {w} : pc'[v] = pc[v]
           /\ UNCHANGED <<gen, awake, late, overtaken, failed>>
           /\ \E d \in delayed : d[1] = "refresh" /\ delayed' = delayed \ {d}
<1>0. w \in Threads /\ Workers \subseteq Threads
    BY DEF Threads
<1>1. pc'[w] = "read" /\ \A v \in Workers \ {w} : pc'[v] = pc[v]
    BY <1>0 DEF Refresh, Go, Types
<1> QED BY <1>1 DEF Refresh, history

\* A withdrawal is carried out when nothing that began before the sleep is left.
LEMMA CheckFacts ==
    ASSUME Types, NEW w \in Workers, CheckWithdrawal(w)
    PROVE  /\ pc[w] = "idle" /\ \A v \in Workers \ {w} : pc'[v] = pc[v]
           /\ UNCHANGED <<gen, awake, overtaken, failed>>
           /\ late' = (late \/ \E v \in Workers : pc[v] = "onWakeup")
           /\ delayed' \subseteq delayed
           /\ \/ /\ pc'[w] = "withdraw" /\ SleepToCheck
                 /\ \A v \in Workers : pc[v] \notin Reading
                 /\ \A d \in delayed : d[1] # "refresh"
              \/ pc'[w] = "idle" /\ (SleepToCheck => SleepToCheck')
<1>0. w \in Threads /\ Workers \subseteq Threads
    BY DEF Threads
<1>1. PICK d \in delayed : /\ d[1] = "withdraw" /\ LongAgo(d[2]) /\ delayed' = delayed \ {d}
                           /\ IF gen = d[2] THEN Go(w, "withdraw") ELSE UNCHANGED pc
    BY DEF CheckWithdrawal
<1>2. /\ pc[w] = "idle" /\ UNCHANGED <<gen, awake, overtaken, failed>>
      /\ late' = (late \/ \E v \in Workers : pc[v] = "onWakeup")
    BY DEF CheckWithdrawal
<1>3. CASE gen = d[2]
    <2>1. pc'[w] = "withdraw" /\ \A v \in Workers \ {w} : pc'[v] = pc[v]
        BY <1>0, <1>1, <1>3 DEF Go, Types
    <2>2. SleepToCheck
        BY <1>1, <1>3 DEF SleepToCheck
    <2>3. \A v \in Workers : since[v] <= gen
        BY <1>0 DEF Types
    <2>4. \A e \in delayed : e[2] <= gen /\ e[2] \in Nat
        BY DEF Types
    <2>5. \A v \in Workers : pc[v] \notin Reading
        BY <1>0, <1>1, <1>3, <2>3 DEF LongAgo, Reading, Types
    <2>6. \A e \in delayed : e[1] # "refresh"
        BY <1>1, <1>3, <2>4 DEF LongAgo, Types
    <2> QED BY <1>1, <1>2, <2>1, <2>2, <2>5, <2>6
<1>4. CASE gen # d[2]
    <2>1. UNCHANGED pc
        BY <1>1, <1>4
    <2>2. SleepToCheck => SleepToCheck'
        BY <1>1, <1>2, <1>4 DEF SleepToCheck
    <2> QED BY <1>1, <1>2, <2>1, <2>2
<1> QED BY <1>3, <1>4

\* A withdrawal leaves no UHID device.
LEMMA WithdrawFacts ==
    ASSUME Types, NEW w \in Workers, Withdraw(w)
    PROVE  /\ pc[w] = "withdraw" /\ pc'[w] = "idle" /\ \A v \in Workers \ {w} : pc'[v] = pc[v]
           /\ UNCHANGED <<gen, awake, delayed, late, overtaken, failed, crashed>> /\ uhid' = None
<1>0. w \in Threads /\ Workers \subseteq Threads /\ Uhid \notin Workers
    BY BatteryAssumption DEF Threads
<1>1. pc'[w] = "idle" /\ \A v \in Workers \ {w} : pc'[v] = pc[v]
    BY <1>0 DEF Withdraw, Types
<1> QED BY <1>1 DEF Withdraw, device, history

\* Every step is one of those.
LEMMA StepCases ==
    ASSUME Next
    PROVE  /\ ~crashed
           /\ \/ Outside \/ UhidThread
              \/ \E w \in Workers : \/ Begin(w) \/ OnSleep(w) \/ OnWakeup(w) \/ Reads(w)
                                    \/ Refresh(w) \/ CheckWithdrawal(w) \/ Withdraw(w)
    BY DEF Next, Outside, UhidThread, WorkerStep, Reads

\* A withdrawal starts when nobody reads, and nobody starts after it.
LEMMA NextWithdrawsAlone ==
    ASSUME Types, UhidLives, WithdrawsAlone, Next PROVE WithdrawsAlone'
<1> USE DEF WithdrawsAlone
<1>1. CASE Outside
    BY <1>1, OutsideKeeps
<1>2. CASE UhidThread
    BY <1>2, UhidThreadKeeps
<1>3. ASSUME NEW w \in Workers, Begin(w) PROVE WithdrawsAlone'
    BY <1>3, BeginFacts DEF Reading
<1>4. ASSUME NEW w \in Workers, OnSleep(w) PROVE WithdrawsAlone'
    BY <1>4, OnSleepFacts DEF Reading
<1>5. ASSUME NEW w \in Workers, OnWakeup(w) PROVE WithdrawsAlone'
    BY <1>5, OnWakeupFacts DEF Reading
<1>6. ASSUME NEW w \in Workers, Reads(w) PROVE WithdrawsAlone'
    <2>1. ~late => \A v \in Workers : pc'[v] # "withdraw"
        BY <1>6, ReadsFacts DEF Reading
    <2> QED BY <1>6, <2>1, ReadsFacts
<1>7. ASSUME NEW w \in Workers, Refresh(w) PROVE WithdrawsAlone'
    <2>1. ~late => \A v \in Workers : pc'[v] # "withdraw"
        BY <1>7, RefreshFacts
    <2> QED BY <1>7, <2>1, RefreshFacts
<1>8. ASSUME NEW w \in Workers, CheckWithdrawal(w) PROVE WithdrawsAlone'
    <2>1. CASE pc'[w] = "withdraw"
        BY <1>8, <2>1, CheckFacts DEF Reading
    <2>2. CASE pc'[w] = "idle"
        BY <1>8, <2>2, CheckFacts DEF Reading
    <2> QED BY <1>8, <2>1, <2>2, CheckFacts
<1>9. ASSUME NEW w \in Workers, Withdraw(w) PROVE WithdrawsAlone'
    BY <1>9, WithdrawFacts DEF Reading
<1> QED BY <1>1, <1>2, <1>3, <1>4, <1>5, <1>6, <1>7, <1>8, <1>9, StepCases

\* A UHID device goes only when no worker uses it.
LEMMA NextInUse ==
    ASSUME Types, UhidLives, WithdrawsAlone, InUse, Next PROVE InUse'
<1> USE DEF InUse
<1>0. Workers \subseteq Threads /\ ~crashed
    BY StepCases DEF Threads
<1>1. CASE Outside \/ UhidThread
    <2>1. UNCHANGED <<late, uhid, crashed>> /\ \A v \in Workers : pc'[v] = pc[v]
        BY <1>1, OutsideKeeps, UhidThreadKeeps
    <2>2. ~crashed'
        BY <1>0, <2>1
    <2>3. ~late' => \A w \in Workers : pc'[w] \in {"update", "copy", "write"} => uhid' # None
        BY <2>1
    <2> QED BY <2>2, <2>3
<1>2. ASSUME NEW w \in Workers,
             Begin(w) \/ OnSleep(w) \/ OnWakeup(w) \/ Refresh(w) \/ CheckWithdrawal(w)
      PROVE  InUse'
    <2>1. pc'[w] \notin {"update", "copy", "write"} /\ (late => late')
        BY <1>2, BeginFacts, OnSleepFacts, OnWakeupFacts, RefreshFacts, CheckFacts
    <2> QED BY <1>0, <1>2, <2>1, ElsewhereKeeps DEF Elsewhere
<1>3. ASSUME NEW w \in Workers, Reads(w) PROVE InUse'
    <2>1. ~late => uhid # None \/ pc[w] \in {"read", "create"}
        BY <1>3, ReadsFacts DEF Reading
    <2>2. crashed' => twice' \/ (uhid = None /\ pc[w] \in {"update", "copy", "write"})
        BY <1>0, <1>3 DEF Reads, ReadFails, Read, CreateFails, Create, Update, Copy, Write,
            history
    <2>3. uhid # None => uhid' # None
        BY <1>0, <1>3 DEF Reads, ReadFails, Read, CreateFails, Create, Update, Copy, Write,
            uhidVars, Types
    <2>4. pc'[w] \in {"update", "copy", "write"} =>
              uhid' # None \/ (uhid = None /\ pc[w] \in {"update", "copy", "write"})
        <3>1. CASE ReadFails(w) \/ CreateFails(w)
            BY <1>0, <3>1 DEF ReadFails, CreateFails, Published, Go, Types
        <3>2. CASE Read(w)
            BY <1>0, <3>2 DEF Read, Publication, Go, uhidVars, Types
        <3>3. CASE Create(w)
            BY <1>0, <3>3 DEF Create, Types
        <3>4. CASE Update(w) \/ Copy(w) \/ Write(w)
            BY <2>3, <3>4 DEF Update, Copy, Write
        <3> QED BY <1>3, <3>1, <3>2, <3>3, <3>4 DEF Reads
    <2> QED BY <1>3, <2>1, <2>2, <2>3, <2>4, ReadsFacts
<1>4. ASSUME NEW w \in Workers, Withdraw(w) PROVE InUse'
    BY <1>0, <1>4, WithdrawFacts DEF WithdrawsAlone, Reading
<1> QED BY <1>1, <1>2, <1>3, <1>4, StepCases

\* A withdrawal that is checked with success is that of a sleeping device.
LEMMA NextWoke ==
    ASSUME Types, UhidLives, WokeAfter, AsleepWhenWithdrawn, Next
    PROVE  WokeAfter' /\ AsleepWhenWithdrawn'
<1> USE DEF WokeAfter, AsleepWhenWithdrawn
<1>1. CASE Outside
    BY <1>1, OutsideKeeps DEF SleepToCheck
<1>2. CASE UhidThread
    BY <1>2, UhidThreadKeeps DEF SleepToCheck
<1>3. ASSUME NEW w \in Workers, Begin(w) PROVE WokeAfter' /\ AsleepWhenWithdrawn'
    BY <1>3, BeginFacts
<1>4. ASSUME NEW w \in Workers, OnSleep(w) PROVE WokeAfter' /\ AsleepWhenWithdrawn'
    BY <1>4, OnSleepFacts
<1>5. ASSUME NEW w \in Workers, OnWakeup(w) PROVE WokeAfter' /\ AsleepWhenWithdrawn'
    BY <1>5, OnWakeupFacts
<1>6. ASSUME NEW w \in Workers, Reads(w) PROVE WokeAfter' /\ AsleepWhenWithdrawn'
    <2>1. SleepToCheck' => SleepToCheck
        BY <1>6, ReadsFacts DEF SleepToCheck
    <2> QED BY <1>6, <2>1, ReadsFacts DEF Reading
<1>7. ASSUME NEW w \in Workers, Refresh(w) PROVE WokeAfter' /\ AsleepWhenWithdrawn'
    <2>1. SleepToCheck' => SleepToCheck
        BY <1>7, RefreshFacts DEF SleepToCheck
    <2> QED BY <1>7, <2>1, RefreshFacts
<1>8. ASSUME NEW w \in Workers, CheckWithdrawal(w) PROVE WokeAfter' /\ AsleepWhenWithdrawn'
    <2>1. SleepToCheck' => SleepToCheck
        BY <1>8, CheckFacts DEF SleepToCheck
    <2>2. WokeAfter'
        BY <1>8, <2>1, CheckFacts
    <2>3. CASE pc'[w] = "withdraw"
        BY <1>8, <2>3, CheckFacts
    <2>4. CASE pc'[w] = "idle"
        <3>1. \A v \in Workers : pc'[v] = "withdraw" => pc[v] = "withdraw"
            BY <1>8, <2>4, CheckFacts
        <3>2. AsleepWhenWithdrawn'
            BY <1>8, <3>1, CheckFacts
        <3> QED BY <2>2, <3>2
    <2> QED BY <1>8, <2>2, <2>3, <2>4, CheckFacts
<1>9. ASSUME NEW w \in Workers, Withdraw(w) PROVE WokeAfter' /\ AsleepWhenWithdrawn'
    BY <1>9, WithdrawFacts DEF SleepToCheck
<1> QED BY <1>1, <1>2, <1>3, <1>4, <1>5, <1>6, <1>7, <1>8, <1>9, StepCases

\* A device that wakes up reads, and what it reads is published or fails.
LEMMA NextPublished ==
    ASSUME Types, UhidLives, AsleepWhenWithdrawn, WillBePublished, Next PROVE WillBePublished'
<1> USE DEF WillBePublished
<1>0. Workers \subseteq Threads /\ ~crashed
    BY StepCases DEF Threads
<1>1. CASE Outside
    BY <1>1, OutsideKeeps
<1>2. CASE UhidThread
    BY <1>2, UhidThreadKeeps
<1>3. ASSUME NEW w \in Workers, Begin(w) PROVE WillBePublished'
    BY <1>3, BeginFacts
<1>4. ASSUME NEW w \in Workers, OnSleep(w) PROVE WillBePublished'
    <2>1. UNCHANGED <<uhid, failed>>
        BY <1>4 DEF OnSleep, uhidVars
    <2> QED BY <1>0, <1>4, <2>1, OnSleepFacts
<1>5. ASSUME NEW w \in Workers, OnWakeup(w) PROVE WillBePublished'
    BY <1>5, OnWakeupFacts
<1>6. ASSUME NEW w \in Workers, Reads(w) PROVE WillBePublished'
    <2>1. CASE ReadFails(w) \/ CreateFails(w)
        BY <2>1 DEF ReadFails, CreateFails
    <2>2. CASE Read(w)
        <3>1. uhid = None => pc'[w] = "create"
            BY <1>0, <2>2 DEF Read, Publication, Go, Types
        <3>2. uhid' = uhid
            BY <2>2 DEF Read, uhidVars
        <3> QED BY <3>1, <3>2
    <2>3. CASE Create(w)
        BY <1>0, <2>3 DEF Create, Types
    <2>4. CASE Update(w) \/ Copy(w) \/ Write(w)
        <3>1. uhid = None => crashed'
            BY <2>4 DEF Update, Copy, Write
        <3>2. uhid # None => uhid' # None
            BY <1>0, <2>4 DEF Update, Copy, Write, uhidVars, Types
        <3> QED BY <3>1, <3>2
    <2> QED BY <1>6, <2>1, <2>2, <2>3, <2>4 DEF Reads
<1>7. ASSUME NEW w \in Workers, Refresh(w) PROVE WillBePublished'
    BY <1>7, RefreshFacts
<1>8. ASSUME NEW w \in Workers, CheckWithdrawal(w) PROVE WillBePublished'
    <2>1. UNCHANGED uhid
        BY <1>8 DEF CheckWithdrawal, uhidVars
    <2> QED BY <1>0, <1>8, <2>1, CheckFacts
<1>9. ASSUME NEW w \in Workers, Withdraw(w) PROVE WillBePublished'
    BY <1>9, WithdrawFacts DEF AsleepWhenWithdrawn
<1> QED BY <1>1, <1>2, <1>3, <1>4, <1>5, <1>6, <1>7, <1>8, <1>9, StepCases

\* A sleep leads to a withdrawal, after the readings that began before it.
LEMMA NextWithdrawn ==
    ASSUME Types, UhidLives, WillBeWithdrawn, Next PROVE WillBeWithdrawn'
<1> USE DEF WillBeWithdrawn
<1>1. CASE Outside
    BY <1>1, OutsideKeeps DEF SleepToCheck
<1>2. CASE UhidThread
    BY <1>2, UhidThreadKeeps DEF SleepToCheck
<1>3. ASSUME NEW w \in Workers, Begin(w) PROVE WillBeWithdrawn'
    <2>1. SleepToCheck => SleepToCheck'
        BY <1>3, BeginFacts DEF SleepToCheck
    <2>2. UNCHANGED uhid
        BY <1>3 DEF Begin, uhidVars
    <2>3. CASE ~awake' /\ pc'[w] = "idle"
        BY <1>3, <2>1, <2>2, <2>3, BeginFacts DEF Reading
    <2> QED BY <1>3, <2>3, BeginFacts
<1>4. ASSUME NEW w \in Workers, OnSleep(w) PROVE WillBeWithdrawn'
    BY <1>4, OnSleepFacts
<1>5. ASSUME NEW w \in Workers, OnWakeup(w) PROVE WillBeWithdrawn'
    <2>1. ~awake' => overtaken'
        <3>1. awake' = awake /\ overtaken' = (overtaken \/ ~awake)
            BY <1>5 DEF OnWakeup
        <3> QED BY Zenon, <3>1
    <2> QED BY <2>1
<1>6. ASSUME NEW w \in Workers, Reads(w) PROVE WillBeWithdrawn'
    <2>1. SleepToCheck => SleepToCheck'
        BY <1>6, ReadsFacts DEF SleepToCheck
    <2> QED BY <1>6, <2>1, ReadsFacts DEF Reading
<1>7. ASSUME NEW w \in Workers, Refresh(w) PROVE WillBeWithdrawn'
    <2>1. SleepToCheck => SleepToCheck'
        BY <1>7, RefreshFacts DEF SleepToCheck
    <2> QED BY <1>7, <2>1, RefreshFacts
<1>8. ASSUME NEW w \in Workers, CheckWithdrawal(w) PROVE WillBeWithdrawn'
    <2>1. UNCHANGED uhid
        BY <1>8 DEF CheckWithdrawal, uhidVars
    <2>2. CASE pc'[w] = "withdraw"
        BY <1>8, <2>2, CheckFacts DEF Reading
    <2>3. CASE pc'[w] = "idle"
        BY <1>8, <2>1, <2>3, CheckFacts DEF Reading
    <2> QED BY <1>8, <2>2, <2>3, CheckFacts
<1>9. ASSUME NEW w \in Workers, Withdraw(w) PROVE WillBeWithdrawn'
    <2>1. SleepToCheck => SleepToCheck'
        BY <1>9, WithdrawFacts DEF SleepToCheck
    <2> QED BY <1>9, <2>1, WithdrawFacts DEF Reading
<1> QED BY <1>1, <1>2, <1>3, <1>4, <1>5, <1>6, <1>7, <1>8, <1>9, StepCases

(***************************************************************************)
(* The theorems.                                                           *)
(***************************************************************************)

\* A device that has just been configured reads its battery.
LEMMA InitIInv == ASSUME Init PROVE IInv
<1> USE BatteryAssumption
<1>0. Uhid \in Threads /\ Workers \subseteq Threads /\ Uhid \notin Workers
    BY DEF Threads
<1>1. PICK w \in Workers : pc = [t \in Threads |-> IF t = w THEN "read" ELSE "idle"]
                           /\ wakes = [t \in Threads |-> t = w]
    BY DEF Init
<1>2. pc[w] = "read" /\ \A t \in Threads \ {w} : pc[t] = "idle"
    BY <1>0, <1>1
<1>3. /\ pc \in [Threads -> Reading \cup {"idle", "onSleep", "onWakeup", "withdraw", "poll"}]
      /\ wakes \in [Threads -> BOOLEAN]
    BY <1>1 DEF Reading
<1>4. /\ charge = 0 /\ gen = 0 /\ inbox = 0 /\ resends = 0 /\ awake = TRUE /\ ready = FALSE
      /\ delayed = {} /\ uhid = None /\ kernel = None /\ crashed = FALSE
      /\ val = [t \in Threads |-> None] /\ since = [t \in Threads |-> 0]
    BY DEF Init
<1>5. Types
    <2>1. 0 \in 0 .. gen
        BY <1>4
    <2> QED BY <1>0, <1>2, <1>3, <1>4, <2>1 DEF Types
<1>6. UhidLives
    BY <1>0, <1>2, <1>4 DEF UhidLives
<1>7. WithdrawsAlone /\ InUse /\ AsleepWhenWithdrawn /\ WillBePublished
    BY <1>0, <1>2, <1>4 DEF WithdrawsAlone, InUse, AsleepWhenWithdrawn, WillBePublished
<1>8. WokeAfter /\ WillBeWithdrawn /\ WillBeTold
    BY <1>4 DEF WokeAfter, SleepToCheck, WillBeWithdrawn, WillBeTold
<1> QED BY <1>5, <1>6, <1>7, <1>8 DEF IInv

\* The inductive invariant: a wakeup that was told of after a sleep makes its
\* withdrawal void, and a withdrawal waits for what began before the sleep.
THEOREM Invariance == Spec => []IInv
<1>1. ASSUME IInv, [Next]_vars PROVE IInv'
    <2>1. CASE Next
        BY <1>1, <2>1, NextTypes, NextUhid, NextWithdrawsAlone, NextInUse, NextWoke,
            NextPublished, NextWithdrawn, NextTold DEF IInv
    <2>2. CASE UNCHANGED vars
        <3>1. UNCHANGED <<charge, gen, awake, delayed, pc, val, since, wakes, uhid, kernel,
                          ready, inbox, resends, overtaken, late, stale, twice, failed,
                          crashed>>
            BY <2>2 DEF vars, env, device, threads, uhidVars, history
        <3>2. SleepToCheck' <=> SleepToCheck
            BY <3>1 DEF SleepToCheck
        <3>3. Types' /\ UhidLives' /\ WithdrawsAlone' /\ InUse'
            BY <1>1, <3>1 DEF IInv, Types, UhidLives, WithdrawsAlone, InUse
        <3>4. WokeAfter' /\ AsleepWhenWithdrawn' /\ WillBePublished'
            BY <1>1, <3>1, <3>2 DEF IInv, WokeAfter, AsleepWhenWithdrawn, WillBePublished
        <3>5. WillBeWithdrawn' /\ WillBeTold'
            BY <1>1, <3>1, <3>2 DEF IInv, WillBeWithdrawn, WillBeTold
        <3> QED BY <3>3, <3>4, <3>5 DEF IInv
    <2> QED BY <1>1, <2>1, <2>2
<1> QED BY <1>1, InitIInv, PTL DEF Spec

\* Once everything is quiet, the battery of a device that is awake is
\* published and that of one that sleeps is not, for any number of workers,
\* sleeps, wakeups and readings, but for the races the properties name
\* (BatteryStatus.cpp, onSleep, onWakeup and _scheduleWithdraw).
THEOREM BatteryFollows == Spec => []BatteryFollowsSleep
<1>1. ASSUME IInv PROVE BatteryFollowsSleep
    <2>1. AwakeKeepsBattery
        BY <1>1 DEF IInv, WillBePublished, AwakeKeepsBattery, Quiet
    <2>2. Quiet => ~SleepToCheck
        BY DEF Quiet, SleepToCheck
    <2>3. SleeperIsWithdrawn
        BY <1>1, <2>2 DEF IInv, WillBeWithdrawn, SleeperIsWithdrawn, Quiet
    <2> QED BY <2>1, <2>3 DEF BatteryFollowsSleep
<1> QED BY <1>1, Invariance, PTL

\* Once everything is quiet the kernel shows the charge the UHID device
\* keeps, whenever its driver was bound, or the last write was overtaken
\* (UhidBatteryDevice.cpp, _eventLoop and update).
THEOREM KernelStaysTold == Spec => []KernelIsTold
<1>1. ASSUME IInv PROVE KernelIsTold
    <2>1. Quiet => \A t \in Threads : pc[t] \notin {"copy", "write"}
        BY DEF Quiet, Threads
    <2>2. Quiet => ~(inbox > 0) /\ ~(resends > 0) /\ (uhid # None => ready)
        BY DEF Quiet
    <2> QED BY <1>1, <2>1, <2>2 DEF IInv, WillBeTold, UhidLives, KernelIsTold
<1> QED BY <1>1, Invariance, PTL

\* A UHID device is not used after it was withdrawn, but for a wakeup between
\* the check of the generation and the withdrawal, or a second creation.
THEOREM UsedOnlyWhileThere == Spec => []UsedWhileThere
<1>1. ASSUME IInv PROVE UsedWhileThere
    BY <1>1 DEF IInv, InUse, UsedWhileThere
<1> QED BY <1>1, Invariance, PTL
=============================================================================
