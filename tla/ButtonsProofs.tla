---------------------------- MODULE ButtonsProofs ----------------------------
(***************************************************************************)
(* Proofs about Buttons: what is held and what is diverted are known.      *)
(***************************************************************************)
EXTENDS Buttons, WellFoundedInduction, TLAPS

\* Where a thread can be, and when it clears the diversions.
Places ==
    /\ pc[IO] \in {"idle", "event", "release", "destroy"}
    /\ pc[Worker] \in {"idle", "release", "reset", "configure", "destroy"}
    /\ pc[Ipc] \in {"idle", "lock", "make", "reset", "configure"}
    /\ alive => pc[IO] # "destroy" /\ pc[Worker] # "destroy"
    /\ ~alive => pc[Ipc] = "idle" /\ pc[Worker] \in {"idle", "destroy"}
    /\ pc[IO] = "event" => reports # <<>> /\ reports[1].kind = "buttons"

\* What is down is down for an action that is active, of a button that is pressed.
DownIsActive ==
    /\ \A k \in down : k \in orphans \/ \E c \in pressed \cap active : action[c] = k
    /\ fingers => Fingers \in orphans \/ Touches(pressed \cap active) # {}

\* What logid was told before diversions went, or may still know.
Seen == (held \cap diverted) \cup blind

\* Only wakeups come after report i.
IsLast(i) == \A j \in DOMAIN reports : j > i => reports[j].kind = "wakeup"

SleepDue == pc[Worker] = "release" \/ \E i \in DOMAIN due : due[i] = "sleep"

\* The last report tells what is so, unless the link was lost after it ...
LastReport ==
    \A i \in DOMAIN reports :
        reports[i].kind = "buttons" /\ IsLast(i) => link /\ reports[i].set \subseteq Seen

\* ... and so does _pressed_buttons when no report is left, unless onSleep() is
\* still to clear it.
PressedSeen ==
    alive /\ IsLast(0) /\ ~SleepDue =>
        pressed \subseteq Seen /\ (~link => pressed = {})

\* The Device is awake when it comes to report j.
DueUp == IF due = <<>> THEN awake ELSE due[Len(due)] = "wakeup"
Up(j) ==
    /\ \/ DueUp
       \/ \E m \in DOMAIN reports : m < j /\ reports[m].kind # "buttons"
    /\ \A m \in DOMAIN reports :
          m < j /\ reports[m].kind = "sleep" =>
              \E n \in DOMAIN reports : m < n /\ n < j /\ reports[n].kind = "wakeup"

UpLast == Up(Len(reports) + 1)

\* A sleep is told to a Device that is awake.
SleepsAwake ==
    alive =>
        /\ \A i \in DOMAIN due :
              due[i] = "sleep" => IF i = 1 THEN awake ELSE due[i - 1] = "wakeup"
        /\ \A j \in DOMAIN reports : reports[j].kind = "sleep" => Up(j)
        /\ link => UpLast

\* The device will be configured when its wakeup has been handled; a button's
\* diversion will be set.
WakeupDue ==
    \/ ~link
    \/ \E i \in DOMAIN due : due[i] = "wakeup"
    \/ \E i \in DOMAIN reports : reports[i].kind = "wakeup"
WillBeSet(c) ==
    \/ pc[Ipc] = "make"
    \/ \E t \in Threads : pc[t] = "reset" \/ (pc[t] = "configure" /\ c \in todo[t])

\* A button's diversion is that of its action, or will be set, or its request failed.
DivertsSet ==
    alive /\ ~WakeupDue =>
        \A c \in Cids \ missed :
            WillBeSet(c) \/ (c \in diverted <=> Diverts(action[c]))

\* After the end of the feature what is left is still to be cleared, or failed.
WillBeCleared(c) == \E t \in Threads : pc[t] = "destroy" /\ c \in todo[t]
DivertsGo ==
    ~alive =>
        \/ pc[IO] \in {"event", "release"}
        \/ \A c \in diverted : c \in missed \/ WillBeCleared(c)

IInv ==
    /\ TypeOK /\ Places /\ DownIsActive /\ LastReport /\ PressedSeen /\ SleepsAwake
    /\ DivertsSet /\ DivertsGo

(***************************************************************************)
(* Facts about the data.                                                   *)
(***************************************************************************)

\* Every nonempty set of numbers has a least one.
LEMMA LeastOf ==
    ASSUME NEW S \in SUBSET Nat, S # {}
    PROVE  \E n \in S : \A m \in S : n <= m
<1>1. PICK n \in S : \A m \in S : <<m, n>> \notin OpToRel(<, Nat)
    BY NatLessThanWellFounded, WFMin
<1>2. \A m \in S : ~(m < n)
    BY <1>1 DEF OpToRel
<1> QED BY <1>2

\* The button a loop comes to is one of those it has not come to.
LEMMA NextIsDue ==
    ASSUME TypeOK, NEW t \in Threads, pc[t] \in {"make", "configure", "destroy"}
    PROVE  Next1(todo[t]) \in todo[t] /\ Next1(todo[t]) \in Cids
<1>1. todo[t] \in SUBSET Nat /\ todo[t] \subseteq Cids /\ todo[t] # {}
    BY ButtonsAssumption DEF TypeOK
<1>2. \E c \in todo[t] : \A d \in todo[t] : c <= d
    BY <1>1, LeastOf
<1>3. Next1(todo[t]) \in todo[t]
    BY <1>2 DEF Next1
<1> QED BY <1>1, <1>3

\* What is left of a queue when its first element is taken.
LEMMA TailFacts ==
    ASSUME NEW S, NEW s \in Seq(S), s # <<>>
    PROVE  /\ Len(s) \in Nat \ {0} /\ Head(s) = s[1] /\ s[1] \in S /\ 1 \in DOMAIN s
           /\ Tail(s) \in Seq(S) /\ Len(Tail(s)) = Len(s) - 1
           /\ \A i \in DOMAIN Tail(s) :
                 i \in Nat /\ i + 1 \in DOMAIN s /\ Tail(s)[i] = s[i + 1]
           /\ \A i \in DOMAIN s : i = 1 \/ (i \in Nat /\ i - 1 \in DOMAIN Tail(s))
OBVIOUS

\* What is in a queue when an element is added.
LEMMA AppendFacts ==
    ASSUME NEW S, NEW s \in Seq(S), NEW e \in S
    PROVE  /\ Append(s, e) \in Seq(S) /\ Len(Append(s, e)) = Len(s) + 1
           /\ Append(s, e)[Len(s) + 1] = e /\ Append(s, e) # <<>>
           /\ DOMAIN Append(s, e) = DOMAIN s \cup {Len(s) + 1}
           /\ \A i \in DOMAIN s : i \in Nat /\ i <= Len(s) /\ Append(s, e)[i] = s[i]
OBVIOUS

ReportSet == [kind : {"buttons", "sleep", "wakeup"}, set : SUBSET Cids]

(***************************************************************************)
(* The types.                                                              *)
(***************************************************************************)

Counts == [reports : 0..MaxReports, losses : 0..MaxLosses, drops : 0..MaxDrops,
           calls : 0..MaxCalls]

\* What is counted stays within its bound.
LEMMA CountsUp ==
    ASSUME count \in Counts
    PROVE  /\ count.reports < MaxReports => [count EXCEPT !.reports = @ + 1] \in Counts
           /\ count.losses < MaxLosses => [count EXCEPT !.losses = @ + 1] \in Counts
           /\ count.drops < MaxDrops => [count EXCEPT !.drops = @ + 1] \in Counts
           /\ count.calls < MaxCalls => [count EXCEPT !.calls = @ + 1] \in Counts
<1>1. MaxReports \in Nat /\ MaxLosses \in Nat /\ MaxDrops \in Nat /\ MaxCalls \in Nat
    BY ButtonsAssumption
<1>2. \A n \in Nat : \A i \in 0..n : i < n => i + 1 \in 0..n
    OBVIOUS
<1>3. /\ count.reports \in 0..MaxReports /\ count.losses \in 0..MaxLosses
      /\ count.drops \in 0..MaxDrops /\ count.calls \in 0..MaxCalls
    BY DEF Counts
<1>4. /\ count.reports < MaxReports => count.reports + 1 \in 0..MaxReports
      /\ count.losses < MaxLosses => count.losses + 1 \in 0..MaxLosses
      /\ count.drops < MaxDrops => count.drops + 1 \in 0..MaxDrops
      /\ count.calls < MaxCalls => count.calls + 1 \in 0..MaxCalls
    BY <1>1, <1>2, <1>3
<1> QED BY <1>3, <1>4 DEF Counts

\* At the start nothing is pressed, held or diverted.
LEMMA InitTypes == ASSUME Init PROVE TypeOK
<1>1. count \in Counts
    BY ButtonsAssumption DEF Init, Counts
<1>2. reports \in Seq(ReportSet) /\ due \in Seq({"sleep", "wakeup"})
    BY DEF Init
<1>3. action \in [Cids -> Actions] /\ pressed \subseteq Cids /\ diverted \subseteq Cids
    BY ButtonsAssumption DEF Init
<1>4. /\ pc \in [Threads -> {"idle"}] /\ todo \in [Threads -> SUBSET Cids]
      /\ \A t \in Threads : todo[t] = {} /\ pc[t] = "idle"
      /\ lock = IF pc[Ipc] = "make" THEN Ipc ELSE Nobody
    BY DEF Init, Threads
<1> QED BY <1>1, <1>2, <1>3, <1>4, ButtonsAssumption DEF Init, TypeOK, Counts, ReportSet

\* A control loop's place and the buttons it is still to come to.
LEMMA GoTypes ==
    ASSUME TypeOK, NEW t \in Threads, NEW s, NEW d \in SUBSET Cids, Go(t, s, d),
           s \in {"idle", "event", "release", "lock", "make", "reset", "configure", "destroy"},
           d # {} <=> s \in {"make", "configure", "destroy"}
    PROVE  /\ pc' \in [Threads -> {"idle", "event", "release", "lock", "make", "reset",
                                   "configure", "destroy"}]
           /\ todo' \in [Threads -> SUBSET Cids]
           /\ \A u \in Threads : todo'[u] # {} <=> pc'[u] \in {"make", "configure", "destroy"}
BY DEF TypeOK, Go

\* A replaced action leaves its keys and its touch behind.
LEMMA ReplaceTypes ==
    ASSUME TypeOK, NEW c \in Cids, NEW a \in Actions, Replace(c, a)
    PROVE  /\ action' \in [Cids -> Actions] /\ active' \subseteq Cids
           /\ orphans' \subseteq Keys \cup {Fingers}
           /\ UNCHANGED <<pressed, down, fingers>>
BY DEF TypeOK, Replace, KeysOf

\* Presses and releases of the buttons of a report.
LEMMA PressTypes ==
    ASSUME TypeOK, NEW s \in SUBSET Cids, NEW r \in SUBSET Cids, PressThenRelease(s, r)
    PROVE  /\ active' \subseteq Cids /\ down' \subseteq Keys /\ fingers' \in BOOLEAN
           /\ orphans' \subseteq Keys \cup {Fingers} /\ UNCHANGED action
<1>1. active' \subseteq Cids /\ UNCHANGED action
    BY DEF TypeOK, PressThenRelease
<1>2. down' \subseteq Keys /\ orphans' \subseteq Keys \cup {Fingers}
    BY DEF TypeOK, PressThenRelease, KeysOf
<1>3. fingers' \in BOOLEAN
    BY DEF PressThenRelease
<1> QED BY <1>1, <1>2, <1>3

\* Every step keeps the types.
LEMMA NextTypes == ASSUME TypeOK, Places, Next PROVE TypeOK'
<1> USE ButtonsAssumption
<1>1. ASSUME NEW c \in Cids, Move(c) PROVE TypeOK'
    <2>0. reports \in Seq(ReportSet)
        BY DEF TypeOK, ReportSet
    <2>1. Buttons(held' \cap diverted) \in ReportSet /\ held' \subseteq Cids
        BY <1>1 DEF Move, Buttons, ReportSet, TypeOK
    <2>5. Append(reports, Buttons(held' \cap diverted)) \in Seq(ReportSet)
        BY <2>0, <2>1, AppendFacts, Zenon
    <2>6. \/ reports' = Append(reports, Buttons(held' \cap diverted))
          \/ reports' = reports
        BY <1>1, Zenon DEF Move
    <2>2. reports' \in Seq(ReportSet)
        BY <2>0, <2>5, <2>6, Zenon
    <2>3. count' \in Counts
        BY <1>1, CountsUp, Zenon DEF Move, TypeOK, Counts
    <2>4. blind' \subseteq Cids
        BY <1>1 DEF Move, TypeOK
    <2> QED BY <1>1, <2>1, <2>2, <2>3, <2>4
        DEF Move, TypeOK, ReportSet, Counts, buttonVars, outVars, threadVars
<1>2. CASE LinkLost
    <2>0. reports \in Seq(ReportSet) /\ LinkIs("sleep") \in ReportSet
        BY DEF TypeOK, ReportSet, LinkIs
    <2>1. reports' \in Seq(ReportSet)
        BY <1>2, <2>0, AppendFacts, Zenon DEF LinkLost
    <2>2. count' \in Counts
        BY <1>2, CountsUp, Zenon DEF LinkLost, TypeOK, Counts
    <2> QED BY <1>2, <2>1, <2>2
        DEF LinkLost, TypeOK, ReportSet, Counts, buttonVars, outVars, threadVars
<1>11. CASE LinkReturns
    <2>0. reports \in Seq(ReportSet) /\ LinkIs("wakeup") \in ReportSet
        BY DEF TypeOK, ReportSet, LinkIs
    <2>1. reports' \in Seq(ReportSet)
        BY <1>11, <2>0, AppendFacts, Zenon DEF LinkReturns
    <2> QED BY <1>11, <2>1
        DEF LinkReturns, Divert, TypeOK, ReportSet, buttonVars, outVars, threadVars
<1>3. CASE ReadReport
    <2>0. reports \in Seq(ReportSet) /\ due \in Seq({"sleep", "wakeup"}) /\ reports # <<>>
        BY <1>3 DEF ReadReport, TypeOK, ReportSet
    <2>3. Tail(reports) \in Seq(ReportSet) /\ Head(reports) \in ReportSet
        BY <2>0, TailFacts
    <2>1. reports' \in Seq(ReportSet)
        BY <1>3, <2>0, <2>3, Zenon DEF ReadReport
    <2>4. Head(reports).kind # "buttons" => Head(reports).kind \in {"sleep", "wakeup"}
        BY <2>3 DEF ReportSet
    <2>5. Head(reports).kind # "buttons" =>
             Append(due, Head(reports).kind) \in Seq({"sleep", "wakeup"})
        BY <2>0, <2>4, AppendFacts, Zenon
    <2>2. due' \in Seq({"sleep", "wakeup"})
        BY <1>3, <2>0, <2>5, Zenon DEF ReadReport
    <2>6. /\ UNCHANGED <<held, diverted, link, buttonVars, outVars, profile, awake,
                         lock, alive, count, missed, blind>>
          /\ UNCHANGED <<pc, todo>> \/ Go(IO, "event", {})
          /\ pc[IO] = "idle"
        BY <1>3 DEF ReadReport
    <2>7. /\ pc' \in [Threads -> {"idle", "event", "release", "lock", "make", "reset",
                                   "configure", "destroy"}]
          /\ todo' \in [Threads -> SUBSET Cids]
          /\ \A u \in Threads :
                todo'[u] # {} <=> pc'[u] \in {"make", "configure", "destroy"}
        <3>1. CASE UNCHANGED <<pc, todo>>
            BY <3>1 DEF TypeOK
        <3>2. CASE Go(IO, "event", {})
            <4>1. IO \in Threads /\ {} \in SUBSET Cids
                BY DEF Threads
            <4> QED BY <3>2, <4>1, GoTypes, Zenon
        <3> QED BY <2>6, <3>1, <3>2
    <2>8. pc'[Ipc] = pc[Ipc]
        BY <2>6 DEF Go, TypeOK, Threads
    <2> QED BY <2>1, <2>2, <2>6, <2>7, <2>8 DEF TypeOK, ReportSet, buttonVars, outVars
<1>4. CASE ButtonEvent
    <2>0. reports \in Seq(ReportSet) /\ reports # <<>>
        BY <1>4 DEF ButtonEvent, TypeOK, ReportSet, Places
    <2>3. Tail(reports) \in Seq(ReportSet) /\ Head(reports) \in ReportSet
        BY <2>0, TailFacts
    <2>1. reports' \in Seq(ReportSet)
        BY <1>4, <2>3, Zenon DEF ButtonEvent
    <2>2. Head(reports).set \subseteq Cids
        BY <2>3 DEF ReportSet
    <2>4. /\ active' \subseteq Cids /\ down' \subseteq Keys /\ fingers' \in BOOLEAN
          /\ orphans' \subseteq Keys \cup {Fingers} /\ UNCHANGED action
          /\ pressed' \subseteq Cids
        <3> DEFINE new == Head(reports).set
        <3>1. new \ pressed \in SUBSET Cids /\ pressed \ new \in SUBSET Cids
            BY <2>2 DEF TypeOK
        <3>2. PressThenRelease(new \ pressed, pressed \ new) /\ pressed' = new
            BY <1>4 DEF ButtonEvent, Released
        <3> HIDE DEF new
        <3>3. pressed' \subseteq Cids
            BY <3>2, <2>2 DEF new
        <3> QED BY <3>1, <3>2, <3>3, PressTypes
    <2>5. Go(IO, "release", {}) /\ IO \in Threads
        BY <1>4 DEF ButtonEvent, Threads
    <2>6. pc'[Ipc] = pc[Ipc] /\ UNCHANGED lock
        BY <1>4, <2>5 DEF ButtonEvent, Go, TypeOK
    <2>7. /\ pc' \in [Threads -> {"idle", "event", "release", "lock", "make", "reset",
                                   "configure", "destroy"}]
          /\ todo' \in [Threads -> SUBSET Cids]
          /\ \A u \in Threads : todo'[u] # {} <=> pc'[u] \in {"make", "configure", "destroy"}
        BY <2>5, GoTypes
    <2>8. UNCHANGED <<held, diverted, link, profile, awake, due, alive, count, missed, blind>>
        BY <1>4, Zenon DEF ButtonEvent
    <2> QED BY <2>1, <2>4, <2>6, <2>7, <2>8 DEF TypeOK, ReportSet
<1>5. CASE EventEnds
    <2>1. Go(IO, "idle", {}) \/ Go(IO, "destroy", Cids)
        BY <1>5 DEF EventEnds
    <2>2. IO \in Threads /\ pc'[Ipc] = pc[Ipc] /\ Cids # {}
        BY <2>1 DEF Go, TypeOK, Threads
    <2> QED BY <1>5, <2>1, <2>2, GoTypes DEF EventEnds, TypeOK, deviceVars, buttonVars, outVars
<1>13. CASE LockButtons
    <2>1. Go(Ipc, "make", Cids) /\ Ipc \in Threads /\ Cids # {}
        BY <1>13 DEF LockButtons, Threads
    <2>2. lock' = Ipc /\ pc'[Ipc] = "make"
        BY <1>13, <2>1 DEF LockButtons, Go, TypeOK
    <2> QED BY <1>13, <2>1, <2>2, GoTypes DEF LockButtons, TypeOK, deviceVars, buttonVars, outVars
<1>12. CASE DropDevice \/ BeginDue
    <2>0. due \in Seq({"sleep", "wakeup"}) /\ <<>> \in Seq({"sleep", "wakeup"})
        BY DEF TypeOK
    <2>1. due # <<>> => Tail(due) \in Seq({"sleep", "wakeup"})
        BY <2>0, TailFacts, Zenon
    <2>2. due' \in Seq({"sleep", "wakeup"})
        BY <1>12, <2>0, <2>1, Zenon DEF DropDevice, BeginDue
    <2>3. \/ Go(Worker, "destroy", Cids) \/ Go(Worker, "reset", {})
          \/ Go(Worker, "release", {}) \/ UNCHANGED <<pc, todo>>
        BY <1>12, Zenon DEF DropDevice, BeginDue
    <2>4. awake' \in BOOLEAN /\ alive' \in BOOLEAN
        BY <1>12 DEF DropDevice, BeginDue, TypeOK
    <2>5. /\ pc' \in [Threads -> {"idle", "event", "release", "lock", "make", "reset",
                                   "configure", "destroy"}]
          /\ todo' \in [Threads -> SUBSET Cids]
          /\ \A u \in Threads : todo'[u] # {} <=> pc'[u] \in {"make", "configure", "destroy"}
          /\ pc'[Ipc] = pc[Ipc]
        BY <2>3 DEF Go, TypeOK, Threads
    <2> QED BY <1>12, <2>2, <2>4, <2>5
        DEF DropDevice, BeginDue, TypeOK, deviceVars, buttonVars, outVars
<1>6. CASE OnSleep
    BY <1>6 DEF OnSleep, Go, TypeOK, ReleaseAll, PressThenRelease, KeysOf, deviceVars, Threads
<1>7. ASSUME NEW t \in Threads, Reset(t) \/ Configure(t) \/ ClearDivert(t) PROVE TypeOK'
    <2> DEFINE c == Next1(todo[t])
    <2>4. Configure(t) \/ ClearDivert(t) => c \in Cids /\ c \in todo[t]
        BY NextIsDue DEF Configure, ClearDivert
    <2>5. Answered(t) \/ TimesOut(t) => count' \in Counts
        BY CountsUp, Zenon DEF Answered, TimesOut, TypeOK, Counts
    <2>6. count' \in Counts
        BY <1>7, <2>5 DEF Reset, Configure, ClearDivert, Unanswered, TypeOK, Counts
    <2>7. ASSUME NEW s \in SUBSET Cids, Divert(s)
          PROVE  diverted' \subseteq Cids /\ blind' \subseteq Cids
        BY <2>7 DEF Divert, TypeOK
    <2> HIDE DEF c
    <2>8. /\ diverted \cup {c} \subseteq Cids \/ ~(Configure(t) \/ ClearDivert(t))
          /\ diverted \subseteq Cids /\ diverted \ {c} \subseteq Cids /\ {} \subseteq Cids
          /\ blind \subseteq Cids /\ missed \subseteq Cids /\ todo[t] \subseteq Cids
        BY <2>4 DEF TypeOK
    <2>9. \/ diverted' = diverted /\ blind' = blind
          \/ \E s \in SUBSET Cids : Divert(s)
        BY <1>7, <2>8 DEF Reset, Configure, ClearDivert, SetReporting, Unanswered, c
    <2>10. missed' \subseteq Cids
        BY <1>7, <2>4, <2>8 DEF Reset, Configure, ClearDivert, c
    <2>1. /\ diverted' \subseteq Cids /\ blind' \subseteq Cids /\ missed' \subseteq Cids
          /\ count' \in Counts
        BY <2>6, <2>7, <2>8, <2>9, <2>10
    <2>2. /\ pc' \in [Threads -> {"idle", "event", "release", "lock", "make", "reset",
                                   "configure", "destroy"}]
          /\ todo' \in [Threads -> SUBSET Cids]
          /\ \A u \in Threads :
                todo'[u] # {} <=> pc'[u] \in {"make", "configure", "destroy"}
          /\ pc'[Ipc] = "make" <=> pc[Ipc] = "make"
        <3>1. \E s \in {"idle", "configure", "destroy"}, d \in SUBSET Cids :
                 Go(t, s, d) /\ (d # {} <=> s # "idle")
            <4>1. CASE Reset(t)
                BY <4>1 DEF Reset
            <4>2. CASE Configure(t)
                <5>1. Go(t, "idle", {}) \/ Advance(t, c, "configure")
                    BY <4>2 DEF Configure, c
                <5> QED BY <2>4, <2>8, <4>2, <5>1 DEF Advance
            <4>3. CASE ClearDivert(t)
                <5>1. Advance(t, c, "destroy")
                    BY <4>3 DEF ClearDivert, AfterFailure, c
                <5> QED BY <2>4, <2>8, <4>3, <5>1 DEF Advance
            <4> QED BY <1>7, <4>1, <4>2, <4>3
        <3>2. PICK s \in {"idle", "configure", "destroy"}, d \in SUBSET Cids :
                 Go(t, s, d) /\ (d # {} <=> s # "idle")
            BY <3>1
        <3>3. pc[t] # "make"
            BY <1>7 DEF Reset, Configure, ClearDivert
        <3>4. pc'[Ipc] = "make" <=> pc[Ipc] = "make"
            BY <3>2, <3>3 DEF Go, TypeOK, Threads
        <3> QED BY <3>2, <3>4, GoTypes
    <2> QED BY <1>7, <2>1, <2>2
        DEF Reset, Configure, ClearDivert, TypeOK, Counts, buttonVars, outVars
<1>8. ASSUME NEW p \in Profiles, SetProfile(p) PROVE TypeOK'
    <2>1. count' \in Counts
        BY <1>8, CountsUp, Zenon DEF SetProfile, Call, TypeOK, Counts
    <2>2. Go(Ipc, "lock", {}) /\ Ipc \in Threads /\ pc[Ipc] # "make"
        BY <1>8 DEF SetProfile, Call, Threads
    <2>3. pc'[Ipc] # "make"
        BY <2>2 DEF Go, TypeOK
    <2> QED BY <1>8, <2>1, <2>2, <2>3, GoTypes
        DEF SetProfile, Counts, TypeOK, deviceVars, buttonVars, outVars
<1>9. CASE MakeAction
    <2> DEFINE c == Next1(todo[Ipc])
    <2>4. Ipc \in Threads /\ pc[Ipc] = "make"
        BY <1>9 DEF MakeAction, Threads
    <2>5. c \in todo[Ipc] /\ c \in Cids
        BY <2>4, NextIsDue
    <2>6. profile \in [Cids -> Actions]
        BY DEF TypeOK
    <2> HIDE DEF c
    <2>7. profile[c] \in Actions
        BY <2>5, <2>6
    <2>0. c \in todo[Ipc] /\ c \in Cids /\ profile[c] \in Actions /\ pc[Ipc] = "make"
        BY <2>4, <2>5, <2>7
    <2>8. \E a \in Actions : Replace(c, a)
        BY <1>9, <2>0 DEF MakeAction, c, Actions
    <2>1. /\ action' \in [Cids -> Actions] /\ active' \subseteq Cids
          /\ orphans' \subseteq Keys \cup {Fingers} /\ UNCHANGED <<pressed, down, fingers>>
        BY <2>8, <2>0, ReplaceTypes
    <2>9. count' \in Counts
        <3>1. Answered(Ipc) \/ TimesOut(Ipc) => count' \in Counts
            BY CountsUp, Zenon DEF Answered, TimesOut, TypeOK, Counts
        <3> QED BY <1>9, <3>1 DEF MakeAction, TypeOK, Counts
    <2>3. /\ pc' \in [Threads -> {"idle", "event", "release", "lock", "make", "reset",
                                   "configure", "destroy"}]
          /\ todo' \in [Threads -> SUBSET Cids]
          /\ \A u \in Threads :
                todo'[u] # {} <=> pc'[u] \in {"make", "configure", "destroy"}
          /\ lock' = IF pc'[Ipc] = "make" THEN Ipc ELSE Nobody
        BY <1>9, <2>0 DEF MakeAction, TypeOK, Go, Unlock, Threads, c
    <2> QED BY <1>9, <2>1, <2>3, <2>9 DEF MakeAction, TypeOK, Counts, deviceVars
<1>10. ASSUME NEW c \in Cids, NEW a \in {Touch, None}, SetAction(c, a) PROVE TypeOK'
    <2>1. action' \in [Cids -> Actions] /\ active' \subseteq Cids
        BY <1>10 DEF SetAction, Replace, TypeOK, Actions
    <2>2. orphans' \subseteq Keys \cup {Fingers}
        BY <1>10 DEF SetAction, Replace, TypeOK, KeysOf
    <2>3. count' \in Counts
        BY <1>10, CountsUp, Zenon DEF SetAction, Call, TypeOK, Counts
    <2> QED BY <1>10, <2>1, <2>2, <2>3
        DEF SetAction, Call, Counts, Replace, ThenConfigure, Go, TypeOK, deviceVars, Threads
<1> QED BY <1>1, <1>2, <1>3, <1>4, <1>5, <1>6, <1>7, <1>8, <1>9, <1>10, <1>11,
          <1>12, <1>13 DEF Next

(***************************************************************************)
(* Where the threads are, and what is down.                                *)
(***************************************************************************)

\* A thread stays where its program lets it be.
LEMMA NextPlaces == ASSUME TypeOK, Places, Next PROVE Places'
<1> USE ButtonsAssumption DEF Places
<1>0. /\ Worker \in Threads /\ Ipc \in Threads /\ IO \in Threads
      /\ DOMAIN pc = Threads /\ reports \in Seq(ReportSet)
    BY DEF Threads, TypeOK, ReportSet
<1>1. ASSUME NEW e \in ReportSet, reports' = Append(reports, e)
      PROVE  reports # <<>> /\ reports[1].kind = "buttons" =>
                 reports' # <<>> /\ reports'[1].kind = "buttons"
    BY <1>0, <1>1
<1>2. ASSUME NEW c \in Cids, Move(c) PROVE Places'
    <2>1. UNCHANGED <<pc, alive>>
        BY <1>2 DEF Move, threadVars
    <2>2. Buttons(held' \cap diverted) \in ReportSet
        BY <1>2 DEF Move, Buttons, ReportSet, TypeOK
    <2>3. reports' = reports \/ reports' = Append(reports, Buttons(held' \cap diverted))
        BY <1>2, Zenon DEF Move
    <2> QED BY <1>1, <2>1, <2>2, <2>3
<1>3. CASE LinkLost \/ LinkReturns
    <2>1. UNCHANGED <<pc, alive>>
        BY <1>3 DEF LinkLost, LinkReturns, threadVars
    <2>2. \E e \in ReportSet : reports' = Append(reports, e)
        BY <1>3 DEF LinkLost, LinkReturns, ReportSet, LinkIs
    <2> QED BY <1>1, <2>1, <2>2
<1>4. CASE ReadReport
    <2>1. Head(reports) = reports[1] /\ reports # <<>>
        BY <1>0, <1>4, TailFacts DEF ReadReport
    <2> QED BY <1>0, <1>4, <2>1 DEF ReadReport, Go
<1>5. CASE ButtonEvent \/ EventEnds
    <2>1. \/ Go(IO, "release", {}) \/ (alive /\ Go(IO, "idle", {}))
          \/ (~alive /\ Go(IO, "destroy", Cids))
        BY <1>5 DEF ButtonEvent, EventEnds
    <2>2. UNCHANGED alive
        BY <1>5 DEF ButtonEvent, EventEnds
    <2> QED BY <1>0, <2>1, <2>2 DEF Go
<1>6. CASE BeginDue \/ OnSleep \/ DropDevice
    <2>1. UNCHANGED reports
        BY <1>6 DEF BeginDue, OnSleep, DropDevice, deviceVars
    <2>2. CASE BeginDue \/ OnSleep
        BY <1>0, <2>1, <2>2 DEF BeginDue, OnSleep, Go
    <2>3. CASE DropDevice
        BY <1>0, <2>1, <2>3 DEF DropDevice, Go
    <2> QED BY <1>6, <2>2, <2>3
<1>7. ASSUME NEW t \in Threads, Reset(t) \/ Configure(t) \/ ClearDivert(t) PROVE Places'
    <2>1. UNCHANGED <<reports, alive>>
        BY <1>7 DEF Reset, Configure, ClearDivert
    <2>2. pc[t] # "event" /\ \A u \in Threads \ {t} : pc'[u] = pc[u]
        BY <1>0, <1>7 DEF Reset, Configure, ClearDivert, Go, Advance, AfterFailure
    <2>3. CASE Reset(t) \/ Configure(t)
        <3>1. pc[t] \in {"reset", "configure"} /\ pc'[t] \in {"idle", "configure"}
            BY <1>0, <2>3 DEF Reset, Configure, Go, Advance
        <3> QED BY <2>1, <2>2, <3>1 DEF Threads
    <2>4. CASE ClearDivert(t)
        <3>1. pc[t] = "destroy" /\ pc'[t] \in {"idle", "destroy"}
            BY <1>0, <2>4 DEF ClearDivert, Go, Advance, AfterFailure
        <3> QED BY <2>1, <2>2, <3>1 DEF Threads
    <2> QED BY <1>7, <2>3, <2>4
<1>8. CASE LockButtons \/ MakeAction \/ \E p \in Profiles : SetProfile(p)
    <2>1. UNCHANGED <<reports, alive>>
        BY <1>8 DEF LockButtons, MakeAction, SetProfile, deviceVars
    <2>2. alive /\ (\A u \in Threads \ {Ipc} : pc'[u] = pc[u])
          /\ pc'[Ipc] \in {"lock", "make", "reset"}
        <3>1. CASE MakeAction
            BY <1>0, <3>1 DEF MakeAction, Go
        <3>2. CASE LockButtons \/ \E p \in Profiles : SetProfile(p)
            BY <1>0, <3>2 DEF LockButtons, SetProfile, Call, Go
        <3> QED BY <1>8, <3>1, <3>2
    <2> QED BY <2>1, <2>2 DEF Threads
<1>9. ASSUME NEW c \in Cids, NEW a \in {Touch, None}, SetAction(c, a) PROVE Places'
    BY <1>0, <1>9 DEF SetAction, Call, ThenConfigure, Go, deviceVars
<1> QED BY <1>2, <1>3, <1>4, <1>5, <1>6, <1>7, <1>8, <1>9 DEF Next

\* Pressing the buttons of s and releasing those of r.
LEMMA PressKeepsActive ==
    ASSUME TypeOK, DownIsActive, NEW s \in SUBSET Cids, NEW r \in SUBSET Cids,
           s \cap r = {}, PressThenRelease(s, r), pressed' = (pressed \cup s) \ r
    PROVE  DownIsActive'
<1>1. ASSUME NEW k \in down' PROVE k \in orphans' \/ \E c \in pressed' \cap active' : action'[c] = k
    <2>1. k \in Keys /\ k # Fingers /\ k \notin KeysOf(r)
        BY <1>1, ButtonsAssumption DEF TypeOK, PressThenRelease, KeysOf
    <2>2. CASE k \in KeysOf(s)
        <3>1. PICK c \in s : action[c] = k
            BY <2>2 DEF KeysOf
        <3>2. c \notin r
            BY <2>1, <3>1 DEF KeysOf
        <3> QED BY <3>1, <3>2 DEF PressThenRelease
    <2>3. CASE k \notin KeysOf(s)
        <3>1. k \in down
            BY <1>1, <2>3 DEF PressThenRelease
        <3>2. CASE k \in orphans
            BY <2>1, <2>3, <3>2 DEF PressThenRelease
        <3>3. ASSUME NEW c \in pressed \cap active, action[c] = k PROVE c \in pressed' \cap active' /\ action'[c] = k
            <4>1. c \notin r
                BY <2>1, <3>3 DEF KeysOf
            <4> QED BY <3>3, <4>1 DEF PressThenRelease
        <3> QED BY <3>1, <3>2, <3>3 DEF DownIsActive
    <2> QED BY <2>2, <2>3
<1>2. ASSUME fingers' PROVE Fingers \in orphans' \/ Touches(pressed \cap active)' # {}
    <2>1. Touches(r) \cap active = {} /\ (fingers \/ Touches(s) # {}) /\ action' = action
        BY <1>2 DEF PressThenRelease
    <2>2. CASE Touches(s) # {}
        <3>1. PICK c \in s : action[c] = Touch
            BY <2>2 DEF Touches
        <3>2. c \in active' /\ c \in pressed'
            BY <3>1 DEF PressThenRelease
        <3> QED BY <2>1, <3>1, <3>2 DEF Touches
    <2>3. CASE Touches(s) = {}
        <3>1. fingers
            BY <2>1, <2>3
        <3>2. CASE Fingers \in orphans
            BY <1>2, <2>3, <3>2, ButtonsAssumption DEF PressThenRelease, KeysOf
        <3>3. CASE Touches(pressed \cap active) # {}
            <4>1. PICK c \in pressed \cap active : action[c] = Touch
                BY <3>3 DEF Touches
            <4>2. c \notin r
                BY <2>1, <4>1 DEF Touches
            <4> QED BY <2>1, <4>1, <4>2 DEF Touches, PressThenRelease
        <3> QED BY <3>1, <3>2, <3>3 DEF DownIsActive
    <2> QED BY <2>2, <2>3
<1> QED BY <1>1, <1>2 DEF DownIsActive

\* Another action for a button: what is down for the old one is an orphan.
LEMMA ReplaceKeepsActive ==
    ASSUME TypeOK, DownIsActive, NEW c \in Cids, NEW a, Replace(c, a)
    PROVE  DownIsActive'
<1>1. \A d \in Cids \ {c} : action'[d] = action[d]
    BY DEF Replace, TypeOK
<1>2. /\ pressed' = pressed /\ down' = down /\ fingers' = fingers /\ pressed \subseteq Cids
      /\ active' = active \ {c} /\ orphans \subseteq orphans'
    BY DEF Replace, TypeOK
<1>3. ASSUME NEW k \in down, k \notin orphans'
      PROVE  \E d \in pressed' \cap active' : action'[d] = k
    <2>1. PICK d \in pressed \cap active : action[d] = k
        BY <1>2, <1>3 DEF DownIsActive
    <2>2. d # c
        BY <1>3, <2>1 DEF Replace, KeysOf, TypeOK
    <2> QED BY <1>1, <1>2, <2>1, <2>2
<1>4. ASSUME fingers, Fingers \notin orphans' PROVE Touches(pressed \cap active)' # {}
    <2>1. PICK d \in pressed \cap active : action[d] = Touch
        BY <1>2, <1>4 DEF DownIsActive, Touches
    <2>2. d # c
        BY <1>4, <2>1 DEF Replace, Touches
    <2> QED BY <1>1, <1>2, <2>1, <2>2 DEF Touches
<1> QED BY <1>2, <1>3, <1>4 DEF DownIsActive

\* A key goes down for an action that is pressed, and up with it.
LEMMA NextDown == ASSUME TypeOK, Places, DownIsActive, Next PROVE DownIsActive'
<1>1. CASE ButtonEvent
    <2> DEFINE new == Head(reports).set
    <2>1. reports \in Seq(ReportSet) /\ reports # <<>>
        BY <1>1 DEF ButtonEvent, TypeOK, Places, ReportSet
    <2>2. new \subseteq Cids
        <3>1. Head(reports) \in ReportSet
            BY <2>1, TailFacts
        <3> QED BY <3>1 DEF ReportSet
    <2>3. PressThenRelease(new \ pressed, pressed \ new) /\ pressed' = new
        BY <1>1 DEF ButtonEvent, Released
    <2> HIDE DEF new
    <2>4. /\ new \ pressed \in SUBSET Cids /\ pressed \ new \in SUBSET Cids
          /\ (new \ pressed) \cap (pressed \ new) = {}
          /\ new = (pressed \cup (new \ pressed)) \ (pressed \ new)
        BY <2>2 DEF TypeOK
    <2> QED BY <2>3, <2>4, PressKeepsActive
<1>2. CASE OnSleep
    <2>1. PressThenRelease({}, pressed) /\ pressed' = {}
        BY <1>2 DEF OnSleep, ReleaseAll
    <2>2. pressed \in SUBSET Cids
        BY DEF TypeOK
    <2> QED BY <2>1, <2>2, PressKeepsActive
<1>3. CASE MakeAction
    <2>1. Next1(todo[Ipc]) \in Cids
        BY <1>3, NextIsDue DEF MakeAction, Threads
    <2>2. \E a : Replace(Next1(todo[Ipc]), a)
        BY <1>3 DEF MakeAction
    <2> QED BY <2>1, <2>2, ReplaceKeepsActive
<1>4. ASSUME NEW c \in Cids, NEW a \in {Touch, None}, SetAction(c, a) PROVE DownIsActive'
    BY <1>4, ReplaceKeepsActive DEF SetAction
<1>5. ASSUME UNCHANGED <<buttonVars, outVars>> PROVE DownIsActive'
    BY <1>5 DEF buttonVars, outVars, DownIsActive, Touches
<1>6. \/ ButtonEvent \/ OnSleep \/ MakeAction
      \/ \E c \in Cids, a \in {Touch, None} : SetAction(c, a)
      \/ UNCHANGED <<buttonVars, outVars>>
    BY Zenon DEF Next, Move, LinkLost, LinkReturns, ReadReport, EventEnds, BeginDue, Reset,
        Configure, ClearDivert, SetProfile, LockButtons, DropDevice
<1> QED BY <1>1, <1>2, <1>3, <1>4, <1>5, <1>6

(***************************************************************************)
(* What logid was told of the buttons that are pressed.                    *)
(***************************************************************************)

\* What a button was before its diversion went is still seen.
LEMMA DivertSeen ==
    ASSUME NEW s, Divert(s), UNCHANGED held
    PROVE  Seen \subseteq Seen'
BY DEF Divert, Seen

\* Steps that neither read a report nor change what is reported.
Aside ==
    \/ EventEnds \/ LockButtons \/ MakeAction
    \/ \E p \in Profiles : SetProfile(p)
    \/ \E c \in Cids, a \in {Touch, None} : SetAction(c, a)
Requests == \E t \in Threads : Reset(t) \/ Configure(t) \/ ClearDivert(t)

\* Such a step leaves the reports and what they tell alone.
LEMMA AsideKeeps ==
    ASSUME TypeOK, Aside
    PROVE  /\ UNCHANGED <<held, diverted, link, reports, blind, pressed, due, awake, alive, missed>>
           /\ pc'[Worker] = pc[Worker]
<1>1. UNCHANGED <<held, diverted, link, reports, blind, pressed, due, awake, alive, missed>>
    BY DEF Aside, EventEnds, LockButtons, MakeAction, SetProfile, SetAction, Replace,
        deviceVars, buttonVars
<1>2. \E t \in {IO, Ipc} : \E s, d : Go(t, s, d)
    BY DEF Aside, EventEnds, LockButtons, MakeAction, SetProfile, SetAction, ThenConfigure
<1>3. pc'[Worker] = pc[Worker]
    BY <1>2, ButtonsAssumption DEF Go, TypeOK, Threads
<1> QED BY <1>1, <1>3

\* A request changes diversions, of which logid still knows.
LEMMA RequestsKeep ==
    ASSUME TypeOK, Requests
    PROVE  /\ UNCHANGED <<held, link, reports, pressed, due, awake, alive, action>>
           /\ Seen \subseteq Seen'
           /\ pc'[Worker] = "release" <=> pc[Worker] = "release"
<1> PICK t \in Threads : Reset(t) \/ Configure(t) \/ ClearDivert(t)
    BY DEF Requests
<1>1. UNCHANGED <<held, link, reports, pressed, due, awake, alive, action>>
    BY DEF Reset, Configure, ClearDivert, buttonVars
<1>2. UNCHANGED <<diverted, blind>> \/ \E s : Divert(s)
    BY DEF Reset, Configure, ClearDivert, Unanswered, SetReporting
<1>3. Seen \subseteq Seen'
    BY <1>1, <1>2, DivertSeen DEF Seen
<1>4. pc[t] # "release" /\ \E s \in {"idle", "configure", "destroy"} : \E d : Go(t, s, d)
    BY DEF Reset, Configure, ClearDivert, Advance, AfterFailure
<1>5. pc'[Worker] = "release" <=> pc[Worker] = "release"
    BY <1>4, ButtonsAssumption DEF Go, TypeOK, Threads
<1> QED BY <1>1, <1>3, <1>5

\* A step takes the first report from the queue.
Takes == reports # <<>> /\ reports' = Tail(reports)

\* The reports that are left are those after the first.
LEMMA TakesFirst ==
    ASSUME TypeOK, Takes
    PROVE  /\ Len(reports) \in Nat \ {0} /\ 1 \in DOMAIN reports /\ Head(reports) = reports[1]
           /\ Len(reports') = Len(reports) - 1 /\ reports' \in Seq(ReportSet)
           /\ \A i \in DOMAIN reports' :
                 i \in Nat /\ i + 1 \in DOMAIN reports /\ reports'[i] = reports[i + 1]
           /\ \A i \in DOMAIN reports : i = 1 \/ (i \in Nat /\ i - 1 \in DOMAIN reports')
           /\ \A i \in Nat : IsLast(i)' => IsLast(i + 1)
<1>1. reports \in Seq(ReportSet) /\ reports # <<>> /\ reports' = Tail(reports)
    BY DEF TypeOK, ReportSet, Takes
<1>2. /\ Len(reports) \in Nat \ {0} /\ 1 \in DOMAIN reports /\ Head(reports) = reports[1]
      /\ Len(reports') = Len(reports) - 1 /\ reports' \in Seq(ReportSet)
      /\ \A i \in DOMAIN reports' :
            i \in Nat /\ i + 1 \in DOMAIN reports /\ reports'[i] = reports[i + 1]
      /\ \A i \in DOMAIN reports : i = 1 \/ (i \in Nat /\ i - 1 \in DOMAIN reports')
    BY <1>1, TailFacts
<1>3. ASSUME NEW i \in Nat, IsLast(i)', NEW j \in DOMAIN reports, j > i + 1
      PROVE  reports[j].kind = "wakeup"
    <2>1. j # 1 /\ j \in Nat
        BY <1>1, <1>3
    <2>2. j - 1 \in DOMAIN reports' /\ j - 1 > i
        BY <1>2, <1>3, <2>1
    <2>3. reports'[j - 1] = reports[j]
        BY <1>2, <2>1, <2>2
    <2> QED BY <1>3, <2>2, <2>3 DEF IsLast
<1> QED BY <1>2, <1>3 DEF IsLast

\* A step adds a report to the queue.
LEMMA AddsLast ==
    ASSUME TypeOK, NEW e \in ReportSet, reports' = Append(reports, e)
    PROVE  /\ Len(reports) \in Nat /\ Len(reports') = Len(reports) + 1
           /\ DOMAIN reports' = DOMAIN reports \cup {Len(reports) + 1}
           /\ reports'[Len(reports) + 1] = e
           /\ \A i \in DOMAIN reports : i \in Nat /\ i <= Len(reports) /\ reports'[i] = reports[i]
           /\ \A i \in DOMAIN reports \cup {0} : IsLast(i)' => IsLast(i) /\ e.kind = "wakeup"
<1>1. reports \in Seq(ReportSet)
    BY DEF TypeOK, ReportSet
<1>2. /\ Len(reports) \in Nat /\ Len(reports') = Len(reports) + 1
      /\ DOMAIN reports' = DOMAIN reports \cup {Len(reports) + 1}
      /\ reports'[Len(reports) + 1] = e
      /\ \A i \in DOMAIN reports : i \in Nat /\ i <= Len(reports) /\ reports'[i] = reports[i]
    BY <1>1, AppendFacts
<1>3. \A i \in DOMAIN reports \cup {0} : Len(reports) + 1 > i
    BY <1>2
<1> QED BY <1>2, <1>3 DEF IsLast

\* Whatever changes what is held is reported, or the link is lost.
LEMMA NextLastReport == ASSUME TypeOK, Places, LastReport, Next PROVE LastReport'
<1>1. ASSUME NEW c \in Cids, Move(c) PROVE LastReport'
    <2> DEFINE e == Buttons(held' \cap diverted)
    <2>1. UNCHANGED <<diverted, link>> /\ held' \subseteq held \cup {c} /\ held \subseteq held' \cup {c}
        BY <1>1 DEF Move
    <2>2. CASE c \in diverted /\ link
        <3>1. reports' = Append(reports, e) /\ blind' = {} /\ e \in ReportSet
            BY <1>1, <2>2 DEF Move, Buttons, ReportSet, TypeOK
        <3>2. e.kind = "buttons" /\ e.set = held' \cap diverted
            BY DEF Buttons
        <3> HIDE DEF e
        <3> QED BY <2>1, <2>2, <3>1, <3>2, AddsLast DEF LastReport, Seen
    <2>3. CASE ~(c \in diverted /\ link)
        <3>1. UNCHANGED <<reports, blind>>
            BY <1>1, <2>3 DEF Move
        <3>2. link => Seen \subseteq Seen'
            BY <2>1, <2>3, <3>1 DEF Seen
        <3> QED BY <2>1, <3>1, <3>2 DEF LastReport, IsLast
    <2> QED BY <2>2, <2>3
<1>2. CASE LinkLost
    <2>1. LinkIs("sleep") \in ReportSet /\ LinkIs("sleep").kind = "sleep"
        BY DEF LinkIs, ReportSet
    <2>2. reports' = Append(reports, LinkIs("sleep"))
        BY <1>2 DEF LinkLost
    <2> QED BY <2>1, <2>2, AddsLast DEF LastReport
<1>3. CASE LinkReturns
    <2>1. LinkIs("wakeup") \in ReportSet /\ LinkIs("wakeup").kind = "wakeup"
        BY DEF LinkIs, ReportSet
    <2>2. reports' = Append(reports, LinkIs("wakeup")) /\ ~link
        BY <1>3 DEF LinkReturns
    <2> QED BY <2>1, <2>2, AddsLast DEF LastReport
<1>4. CASE ReadReport \/ ButtonEvent
    <2>1. UNCHANGED <<held, diverted, link, blind>>
        BY <1>4 DEF ReadReport, ButtonEvent
    <2>2. Takes \/ UNCHANGED reports
        BY <1>4 DEF ReadReport, ButtonEvent, Takes, Places
    <2>3. CASE Takes
        BY <2>1, <2>3, TakesFirst DEF LastReport, Seen
    <2> QED BY <2>1, <2>2, <2>3 DEF LastReport, IsLast, Seen
<1>5. CASE BeginDue \/ OnSleep \/ DropDevice
    BY <1>5 DEF BeginDue, OnSleep, DropDevice, deviceVars, LastReport, IsLast, Seen
<1>6. CASE Aside
    BY <1>6, AsideKeeps DEF LastReport, IsLast, Seen
<1>7. CASE Requests
    BY <1>7, RequestsKeep DEF LastReport, IsLast
<1> QED BY <1>1, <1>2, <1>3, <1>4, <1>5, <1>6, <1>7 DEF Next, Aside, Requests

\* What is pressed is what the last report told, or what is still due.
LEMMA NextPressed ==
    ASSUME TypeOK, Places, LastReport, SleepsAwake, PressedSeen, Next
    PROVE  PressedSeen'
<1>1. ASSUME NEW c \in Cids, Move(c) PROVE PressedSeen'
    <2> DEFINE e == Buttons(held' \cap diverted)
    <2>1. /\ UNCHANGED <<diverted, link, pressed, pc, due, alive>>
          /\ held' \subseteq held \cup {c} /\ held \subseteq held' \cup {c}
        BY <1>1 DEF Move, buttonVars, threadVars
    <2>2. CASE c \in diverted /\ link
        <3>1. reports' = Append(reports, e) /\ e \in ReportSet
            BY <1>1, <2>2 DEF Move, Buttons, ReportSet, TypeOK
        <3>2. e.kind = "buttons"
            BY DEF Buttons
        <3> HIDE DEF e
        <3> QED BY <3>1, <3>2, AddsLast DEF PressedSeen
    <2>3. CASE ~(c \in diverted /\ link)
        <3>1. UNCHANGED <<reports, blind>>
            BY <1>1, <2>3 DEF Move
        <3>2. link => Seen \subseteq Seen'
            BY <2>1, <2>3, <3>1 DEF Seen
        <3> QED BY <2>1, <3>1, <3>2 DEF PressedSeen, IsLast, SleepDue
    <2> QED BY <2>2, <2>3
<1>2. CASE LinkLost
    <2>1. LinkIs("sleep") \in ReportSet /\ LinkIs("sleep").kind = "sleep"
        BY DEF LinkIs, ReportSet
    <2>2. reports' = Append(reports, LinkIs("sleep"))
        BY <1>2 DEF LinkLost
    <2> QED BY <2>1, <2>2, AddsLast DEF PressedSeen
<1>3. CASE LinkReturns
    <2>1. LinkIs("wakeup") \in ReportSet /\ LinkIs("wakeup").kind = "wakeup"
        BY DEF LinkIs, ReportSet
    <2>2. /\ reports' = Append(reports, LinkIs("wakeup")) /\ ~link
          /\ UNCHANGED <<pressed, pc, due, alive>>
        BY <1>3 DEF LinkReturns, buttonVars, threadVars
    <2> QED BY <2>1, <2>2, AddsLast DEF PressedSeen, SleepDue
<1>4. CASE ReadReport
    <2>1. UNCHANGED <<held, diverted, link, blind, pressed, alive>> /\ pc'[Worker] = pc[Worker]
        BY <1>4, ButtonsAssumption DEF ReadReport, buttonVars, Go, TypeOK, Threads
    <2>2. \/ UNCHANGED <<reports, due>>
          \/ Takes /\ ~alive
          \/ Takes /\ alive /\ Head(reports).kind # "buttons"
                /\ due' = Append(due, Head(reports).kind)
        BY <1>4 DEF ReadReport, Takes
    <2>3. CASE UNCHANGED <<reports, due>>
        BY <2>1, <2>3 DEF PressedSeen, IsLast, SleepDue, Seen
    <2>4. CASE Takes /\ ~alive
        BY <2>1, <2>4 DEF PressedSeen
    <2>5. CASE Takes /\ alive /\ Head(reports).kind # "buttons"
                  /\ due' = Append(due, Head(reports).kind)
        <3>1. Head(reports) = reports[1] /\ reports[1].kind \in {"sleep", "wakeup"}
            <4>1. Head(reports) = reports[1] /\ 1 \in DOMAIN reports
                BY <2>5, TakesFirst
            <4>2. reports[1] \in ReportSet
                <5>1. reports \in Seq(ReportSet)
                    BY DEF ReportSet, TypeOK
                <5> QED BY <4>1, <5>1
            <4> QED BY <2>5, <4>1, <4>2 DEF ReportSet
        <3>2. due \in Seq({"sleep", "wakeup"}) /\ due' = Append(due, reports[1].kind)
            BY <2>5, <3>1 DEF TypeOK
        <3>3. /\ DOMAIN due' = DOMAIN due \cup {Len(due) + 1}
              /\ due'[Len(due) + 1] = reports[1].kind
              /\ \A i \in DOMAIN due : due'[i] = due[i]
            BY <3>1, <3>2, AppendFacts
        <3>4. CASE reports[1].kind = "wakeup"
            <4>1. IsLast(0)' => IsLast(0)
                <5>1. IsLast(0)' => IsLast(1)
                    BY <2>5, TakesFirst
                <5>2. \A j \in DOMAIN reports : j > 0 => j > 1 \/ j = 1
                    BY DEF TypeOK
                <5> QED BY <3>4, <5>1, <5>2 DEF IsLast
            <4>2. ~SleepDue' => ~SleepDue
                BY <2>1, <3>3 DEF SleepDue
            <4> QED BY <2>1, <4>1, <4>2 DEF PressedSeen, Seen
        <3>5. CASE reports[1].kind = "sleep"
            BY <3>3, <3>5 DEF PressedSeen, SleepDue
        <3> QED BY <3>1, <3>4, <3>5
    <2> QED BY <2>2, <2>3, <2>4, <2>5
<1>5. CASE ButtonEvent
    <2>1. Takes /\ reports[1].kind = "buttons" /\ pressed' = Head(reports).set
          /\ UNCHANGED <<held, diverted, link, blind>>
        BY <1>5 DEF ButtonEvent, Takes, Places, Released
    <2>2. IsLast(0)' => IsLast(1)
        BY <2>1, TakesFirst
    <2>3. pressed' = reports[1].set /\ 1 \in DOMAIN reports
        BY <2>1, TakesFirst
    <2>4. IsLast(0)' => link /\ pressed' \subseteq Seen
        BY <2>1, <2>2, <2>3 DEF LastReport
    <2> QED BY <2>1, <2>4 DEF PressedSeen, Seen
<1>6. CASE BeginDue
    <2>1. /\ UNCHANGED <<held, diverted, link, reports, blind, pressed, alive>> /\ alive
          /\ pc[Worker] = "idle" /\ due # <<>> /\ due' = Tail(due)
        BY <1>6 DEF BeginDue, deviceVars, buttonVars
    <2>2. due \in Seq({"sleep", "wakeup"})
        BY DEF TypeOK
    <2>3. /\ Head(due) = due[1] /\ 1 \in DOMAIN due /\ due[1] \in {"sleep", "wakeup"}
          /\ \A i \in DOMAIN due : i = 1 \/ (i \in Nat /\ i - 1 \in DOMAIN due')
          /\ \A i \in DOMAIN due' : i \in Nat /\ i + 1 \in DOMAIN due /\ due'[i] = due[i + 1]
        BY <2>1, <2>2, TailFacts
    <2>4. CASE due[1] = "sleep"
        <3>1. awake
            BY <2>1, <2>3, <2>4 DEF SleepsAwake
        <3>2. pc'[Worker] = "release"
            BY <1>6, <2>3, <2>4, <3>1 DEF BeginDue, Go, TypeOK, Threads
        <3> QED BY <3>2 DEF PressedSeen, SleepDue
    <2>5. CASE due[1] = "wakeup"
        <3>1. ~SleepDue' => ~SleepDue
            <4>1. \A i \in DOMAIN due : i = 1 \/ due[i] = due'[i - 1]
                BY <2>3
            <4> QED BY <2>1, <2>3, <2>5, <4>1 DEF SleepDue
        <3> QED BY <2>1, <3>1 DEF PressedSeen, IsLast, Seen
    <2> QED BY <2>3, <2>4, <2>5
<1>7. CASE OnSleep
    <2>1. pressed' = {}
        BY <1>7 DEF OnSleep
    <2>2. \A S : {} \subseteq S
        OBVIOUS
    <2> QED BY <2>1, <2>2, Zenon DEF PressedSeen
<1>10. CASE DropDevice
    <2>1. ~alive'
        BY <1>10 DEF DropDevice
    <2> QED BY <2>1 DEF PressedSeen
<1>8. CASE Aside
    BY <1>8, AsideKeeps DEF PressedSeen, SleepDue, IsLast, Seen
<1>9. CASE Requests
    BY <1>9, RequestsKeep DEF PressedSeen, SleepDue, IsLast
<1> QED BY <1>1, <1>2, <1>3, <1>4, <1>5, <1>6, <1>7, <1>8, <1>9, <1>10
    DEF Next, Aside, Requests

\* Adding a report keeps what comes before it.
LEMMA UpKept ==
    ASSUME TypeOK, NEW e \in ReportSet, reports' = Append(reports, e), UNCHANGED <<due, awake>>
    PROVE  /\ \A j \in DOMAIN reports : Up(j) => Up(j)'
           /\ \A j : j = Len(reports) + 1 /\ UpLast => Up(j)'
           /\ e.kind = "wakeup" => UpLast'
           /\ e.kind = "buttons" /\ UpLast => UpLast'
<1>1. PICK n \in Nat : n = Len(reports)
    BY AddsLast
<1>2. /\ Len(reports') = n + 1
      /\ DOMAIN reports' = DOMAIN reports \cup {n + 1}
      /\ reports'[n + 1] = e
      /\ \A i \in DOMAIN reports : i \in Nat /\ i <= n /\ reports'[i] = reports[i]
    BY <1>1, AddsLast
<1>3. DueUp' = DueUp
    BY DEF DueUp
<1>4. ASSUME NEW j \in DOMAIN reports \cup {n + 1}, Up(j) PROVE Up(j)'
    <2>1. \A m \in DOMAIN reports' : m < j => m \in DOMAIN reports
        BY <1>2
    <2> QED BY <1>2, <1>3, <1>4, <2>1 DEF Up
<1>5. ASSUME NEW j, j = n + 2, e.kind = "wakeup" PROVE Up(j)'
    <2>1. \A m \in DOMAIN reports' : m < j /\ (m < n + 1 \/ m = n + 1)
        BY <1>2, <1>5
    <2>2. n + 1 \in DOMAIN reports' /\ reports'[n + 1].kind = "wakeup" /\ n + 1 < j
        BY <1>2, <1>5
    <2> QED BY <1>5, <2>1, <2>2 DEF Up
<1>6. ASSUME NEW j, j = n + 2, e.kind = "buttons", UpLast PROVE Up(j)'
    <2>1. /\ \A m \in DOMAIN reports : m < n + 1 /\ m < j /\ m \in DOMAIN reports'
          /\ \A m \in DOMAIN reports' : m \in DOMAIN reports \/ m = n + 1
        BY <1>2, <1>6
    <2>2. Up(n + 1)
        BY <1>1, <1>6 DEF UpLast
    <2> QED BY <1>2, <1>3, <1>6, <2>1, <2>2 DEF Up
<1>7. ASSUME NEW j, j = n + 2, Up(j)' PROVE UpLast'
    <2>1. Len(reports') + 1 = j
        BY <1>2, <1>7
    <2> QED BY <1>7, <2>1 DEF UpLast, Up
<1>8. UpLast => Up(n + 1)
    BY <1>1 DEF UpLast
<1>9. \E j : j = n + 2
    OBVIOUS
<1> QED BY <1>1, <1>4, <1>5, <1>6, <1>7, <1>8, <1>9

\* Taking a report keeps the order of those behind it.
LEMMA UpTaken ==
    ASSUME TypeOK, Takes, NEW j \in Nat, j # 0, Up(j + 1),
           (reports[1].kind = "buttons" /\ (DueUp => DueUp'))
               \/ (reports[1].kind # "buttons" /\ (DueUp' <=> reports[1].kind = "wakeup"))
    PROVE  Up(j)'
<1>1. /\ 1 \in DOMAIN reports
      /\ \A i \in DOMAIN reports' :
            i \in Nat /\ i + 1 \in DOMAIN reports /\ reports'[i] = reports[i + 1]
      /\ \A i \in DOMAIN reports : i = 1 \/ (i \in Nat /\ i - 1 \in DOMAIN reports')
    BY TakesFirst
<1>2. \A i \in DOMAIN reports : i # 1 => reports'[i - 1] = reports[i]
    BY <1>1
<1>3. ASSUME NEW m \in DOMAIN reports', m < j, reports'[m].kind = "sleep"
      PROVE  \E n \in DOMAIN reports' : m < n /\ n < j /\ reports'[n].kind = "wakeup"
    <2>1. m + 1 < j + 1 /\ reports[m + 1].kind = "sleep" /\ m + 1 \in DOMAIN reports
        BY <1>1, <1>3
    <2>2. PICK n \in DOMAIN reports : m + 1 < n /\ n < j + 1 /\ reports[n].kind = "wakeup"
        BY <2>1 DEF Up
    <2>3. n \in Nat /\ n # 1 /\ n - 1 \in DOMAIN reports' /\ m < n - 1 /\ n - 1 < j
        BY <1>1, <2>1, <2>2
    <2> QED BY <1>2, <2>2, <2>3
<1>4. DueUp' \/ \E m \in DOMAIN reports' : m < j /\ reports'[m].kind # "buttons"
    <2>1. CASE reports[1].kind = "buttons"
        <3>1. DueUp \/ \E m \in DOMAIN reports : m < j + 1 /\ reports[m].kind # "buttons"
            BY DEF Up
        <3>2. ASSUME NEW m \in DOMAIN reports, m < j + 1, reports[m].kind # "buttons"
              PROVE  m - 1 \in DOMAIN reports' /\ m - 1 < j /\ reports'[m - 1].kind # "buttons"
            BY <1>1, <1>2, <2>1, <3>2
        <3> QED BY <2>1, <3>1, <3>2
    <2>2. CASE reports[1].kind = "wakeup"
        BY <2>2
    <2>3. CASE reports[1].kind = "sleep"
        <3>1. 1 < j + 1
            OBVIOUS
        <3>2. PICK n \in DOMAIN reports : 1 < n /\ n < j + 1 /\ reports[n].kind = "wakeup"
            BY <1>1, <2>3, <3>1 DEF Up
        <3>3. n - 1 \in DOMAIN reports' /\ n - 1 < j /\ reports'[n - 1].kind = "wakeup"
            BY <1>1, <1>2, <3>2
        <3> QED BY <3>3
    <2>4. reports[1].kind \in {"buttons", "sleep", "wakeup"}
        <3>1. reports \in Seq(ReportSet)
            BY DEF TypeOK, ReportSet
        <3>2. reports[1] \in ReportSet
            BY <1>1, <3>1
        <3> QED BY <3>2 DEF ReportSet
    <2> QED BY <2>1, <2>2, <2>3, <2>4
<1> QED BY <1>3, <1>4 DEF Up

\* Sleeps and wakeups alternate in the queue and among the tasks.
LEMMA NextSleeps == ASSUME TypeOK, Places, SleepsAwake, Next PROVE SleepsAwake'
<1>1. ASSUME NEW e \in ReportSet, reports' = Append(reports, e), UNCHANGED <<due, awake, alive>>,
             e.kind = "sleep" => link /\ ~link',
             e.kind = "buttons" => link, e.kind \in {"buttons", "sleep", "wakeup"}
      PROVE  SleepsAwake'
    <2>1. /\ DOMAIN reports' = DOMAIN reports \cup {Len(reports) + 1}
          /\ reports'[Len(reports) + 1] = e
          /\ \A i \in DOMAIN reports : reports'[i] = reports[i]
        BY <1>1, AddsLast
    <2>2. /\ \A j \in DOMAIN reports : Up(j) => Up(j)'
          /\ \A j : j = Len(reports) + 1 /\ UpLast => Up(j)'
          /\ e.kind = "wakeup" => UpLast'
          /\ e.kind = "buttons" /\ UpLast => UpLast'
        BY <1>1, UpKept
    <2>3. ASSUME alive, NEW j \in DOMAIN reports', reports'[j].kind = "sleep" PROVE Up(j)'
        BY <1>1, <2>1, <2>2, <2>3 DEF SleepsAwake
    <2>4. alive /\ link' => UpLast'
        BY <1>1, <2>2 DEF SleepsAwake
    <2> QED BY <1>1, <2>3, <2>4 DEF SleepsAwake
<1>2. ASSUME UNCHANGED <<reports, due, awake, alive, link>> PROVE SleepsAwake'
    BY <1>2 DEF SleepsAwake, UpLast, Up, DueUp
<1>3. ASSUME NEW c \in Cids, Move(c) PROVE SleepsAwake'
    <2>1. Buttons(held' \cap diverted) \in ReportSet /\ Buttons(held' \cap diverted).kind = "buttons"
        BY <1>3 DEF Move, Buttons, ReportSet, TypeOK
    <2>2. UNCHANGED <<due, awake, alive, link>>
        BY <1>3 DEF Move
    <2>3. UNCHANGED reports \/ (link /\ reports' = Append(reports, Buttons(held' \cap diverted)))
        BY <1>3, Zenon DEF Move
    <2> QED BY <1>1, <1>2, <2>1, <2>2, <2>3
<1>4. CASE LinkLost
    <2>1. LinkIs("sleep") \in ReportSet /\ LinkIs("sleep").kind = "sleep"
        BY DEF LinkIs, ReportSet
    <2> QED BY <1>1, <1>4, <2>1 DEF LinkLost
<1>5. CASE LinkReturns
    <2>1. LinkIs("wakeup") \in ReportSet /\ LinkIs("wakeup").kind = "wakeup"
        BY DEF LinkIs, ReportSet
    <2> QED BY <1>1, <1>5, <2>1 DEF LinkReturns
<1>6. ASSUME Takes, UNCHANGED <<link, awake, alive>>, alive,
             \/ reports[1].kind = "buttons" /\ due' = due
             \/ reports[1].kind # "buttons" /\ due' = Append(due, reports[1].kind)
      PROVE  SleepsAwake'
    <2>0. due \in Seq({"sleep", "wakeup"}) /\ reports \in Seq(ReportSet)
        BY DEF TypeOK, ReportSet
    <2>1. /\ Len(reports) \in Nat \ {0} /\ 1 \in DOMAIN reports
          /\ Len(reports') = Len(reports) - 1
          /\ \A i \in DOMAIN reports' :
                i \in Nat /\ i + 1 \in DOMAIN reports /\ reports'[i] = reports[i + 1]
        BY <1>6, TakesFirst
    <2>2. reports[1].kind \in {"buttons", "sleep", "wakeup"}
        <3>1. reports[1] \in ReportSet
            BY <2>0, <2>1
        <3> QED BY <3>1 DEF ReportSet
    <2>3. CASE reports[1].kind # "buttons"
        <3>1. /\ Len(due') = Len(due) + 1 /\ due' # <<>> /\ due'[Len(due) + 1] = reports[1].kind
              /\ DOMAIN due' = DOMAIN due \cup {Len(due) + 1}
              /\ \A i \in DOMAIN due : i \in Nat /\ i <= Len(due) /\ due'[i] = due[i]
            <4>1. reports[1].kind \in {"sleep", "wakeup"} /\ due' = Append(due, reports[1].kind)
                BY <1>6, <2>2, <2>3
            <4> QED BY <2>0, <4>1, AppendFacts
        <3>2. DueUp' <=> reports[1].kind = "wakeup"
            BY <3>1 DEF DueUp
        <3>3. ASSUME NEW j \in DOMAIN reports', reports'[j].kind = "sleep" PROVE Up(j)'
            <4>1. j + 1 \in DOMAIN reports /\ reports[j + 1].kind = "sleep" /\ j \in Nat /\ j # 0
                BY <2>0, <2>1, <3>3, <1>6, TakesFirst
            <4>2. Up(j + 1)
                BY <1>6, <4>1 DEF SleepsAwake
            <4> QED BY <1>6, <2>3, <3>2, <4>1, <4>2, UpTaken
        <3>4. ASSUME link' PROVE UpLast'
            <4>1. PICK n \in Nat : n # 0 /\ n = Len(reports') + 1 /\ n + 1 = Len(reports) + 1
                BY <2>1
            <4>2. Up(n + 1)
                BY <1>6, <3>4, <4>1 DEF SleepsAwake, UpLast
            <4>3. Up(n)'
                BY <1>6, <2>3, <3>2, <4>1, <4>2, UpTaken
            <4> QED BY <4>1, <4>3 DEF UpLast, Up
        <3>5. ASSUME NEW i \in DOMAIN due', due'[i] = "sleep"
              PROVE  IF i = 1 THEN awake ELSE due'[i - 1] = "wakeup"
            <4>1. CASE i \in DOMAIN due
                <5>1. due[i] = "sleep" /\ (i # 1 => i - 1 \in DOMAIN due)
                    BY <2>0, <3>1, <3>5, <4>1
                <5> QED BY <1>6, <3>1, <4>1, <5>1 DEF SleepsAwake
            <4>2. CASE i = Len(due) + 1
                <5>1. Up(1)
                    BY <1>6, <2>1, <3>1, <3>5, <4>2 DEF SleepsAwake
                <5>2. \A m \in DOMAIN reports : ~(m < 1)
                    BY <2>0
                <5>3. DueUp
                    BY <5>1, <5>2 DEF Up
                <5>4. CASE due = <<>>
                    BY <2>0, <4>2, <5>3, <5>4 DEF DueUp
                <5>5. CASE due # <<>>
                    <6>1. Len(due) \in DOMAIN due /\ i # 1 /\ i - 1 = Len(due)
                        BY <2>0, <4>2, <5>5
                    <6> QED BY <3>1, <5>3, <5>5, <6>1 DEF DueUp
                <5> QED BY <5>4, <5>5
            <4> QED BY <3>1, <4>1, <4>2
        <3> QED BY <1>6, <3>3, <3>4, <3>5 DEF SleepsAwake
    <2>4. CASE reports[1].kind = "buttons"
        <3>1. UNCHANGED <<due, awake, alive, link>> /\ DueUp' = DueUp
            BY <1>6, <2>4 DEF DueUp
        <3>2. ASSUME NEW j \in DOMAIN reports', reports'[j].kind = "sleep" PROVE Up(j)'
            <4>1. j + 1 \in DOMAIN reports /\ reports[j + 1].kind = "sleep" /\ j \in Nat /\ j # 0
                BY <2>0, <2>1, <3>2, <1>6, TakesFirst
            <4>2. Up(j + 1)
                BY <1>6, <4>1 DEF SleepsAwake
            <4> QED BY <1>6, <2>4, <3>1, <4>1, <4>2, UpTaken
        <3>3. ASSUME link' PROVE UpLast'
            <4>1. PICK n \in Nat : n # 0 /\ n = Len(reports') + 1 /\ n + 1 = Len(reports) + 1
                BY <2>1
            <4>2. Up(n + 1)
                BY <1>6, <3>3, <4>1 DEF SleepsAwake, UpLast
            <4>3. Up(n)'
                BY <1>6, <2>4, <3>1, <4>1, <4>2, UpTaken
            <4> QED BY <4>1, <4>3 DEF UpLast, Up
        <3> QED BY <1>6, <3>1, <3>2, <3>3 DEF SleepsAwake
    <2> QED BY <2>3, <2>4
<1>7. CASE ReadReport \/ ButtonEvent
    <2>1. UNCHANGED <<link, awake, alive>>
        BY <1>7 DEF ReadReport, ButtonEvent
    <2>2. CASE ~alive
        BY <2>1, <2>2 DEF SleepsAwake
    <2>3. CASE alive /\ ButtonEvent
        <3>1. Takes /\ reports[1].kind = "buttons" /\ due' = due
            BY <2>3 DEF ButtonEvent, Takes, Places
        <3> QED BY <1>6, <2>1, <2>3, <3>1
    <2>4. CASE alive /\ ReadReport
        <3>1. \/ UNCHANGED <<reports, due>>
              \/ Takes /\ Head(reports).kind # "buttons"
                    /\ due' = Append(due, Head(reports).kind)
            BY <2>4 DEF ReadReport, Takes
        <3>2. Takes => Head(reports) = reports[1]
            BY TakesFirst
        <3> QED BY <1>2, <1>6, <2>1, <2>4, <3>1, <3>2
    <2> QED BY <1>7, <2>2, <2>3, <2>4
<1>8. CASE BeginDue
    <2>1. /\ UNCHANGED <<reports, link, alive>> /\ alive /\ due # <<>> /\ due' = Tail(due)
          /\ awake' = (Head(due) = "wakeup") /\ due \in Seq({"sleep", "wakeup"})
        BY <1>8 DEF BeginDue, deviceVars, TypeOK
    <2>2. /\ Len(due) \in Nat \ {0} /\ Head(due) = due[1] /\ 1 \in DOMAIN due
          /\ Len(due') = Len(due) - 1
          /\ \A i \in DOMAIN due' :
                i \in Nat /\ i + 1 \in DOMAIN due /\ due'[i] = due[i + 1]
        BY <2>1, TailFacts
    <2>3. DueUp' = DueUp
        <3>1. CASE due' = <<>>
            <4>1. Len(due) = 1
                BY <2>2, <3>1
            <4> QED BY <2>1, <2>2, <3>1, <4>1 DEF DueUp
        <3>2. CASE due' # <<>>
            <4>1. due' \in Seq({"sleep", "wakeup"})
                BY <2>1, TailFacts
            <4>2. Len(due') \in DOMAIN due'
                BY <3>2, <4>1
            <4>3. due'[Len(due')] = due[Len(due)]
                BY <2>2, <4>2
            <4> QED BY <2>1, <3>2, <4>3 DEF DueUp
        <3> QED BY <3>1, <3>2
    <2>4. (\A j : Up(j)' = Up(j)) /\ UpLast' = UpLast
        BY <2>1, <2>3 DEF Up, UpLast
    <2>5. ASSUME NEW i \in DOMAIN due', due'[i] = "sleep"
          PROVE  IF i = 1 THEN awake' ELSE due'[i - 1] = "wakeup"
        <3>1. /\ i \in Nat /\ i + 1 \in DOMAIN due /\ due[i + 1] = "sleep" /\ i + 1 # 1
              /\ (i + 1) - 1 = i
            BY <2>2, <2>5
        <3>2. due[i] = "wakeup"
            BY <2>1, <3>1 DEF SleepsAwake
        <3>3. i # 1 => i - 1 \in DOMAIN due' /\ (i - 1) + 1 = i
            BY <2>1, <2>2, <3>1
        <3> QED BY <2>1, <2>2, <3>2, <3>3
    <2> QED BY <2>1, <2>4, <2>5 DEF SleepsAwake
<1>9. CASE OnSleep
    BY <1>2, <1>9 DEF OnSleep, deviceVars
<1>10. CASE DropDevice
    <2>1. ~alive'
        BY <1>10 DEF DropDevice
    <2> QED BY <2>1 DEF SleepsAwake
<1>11. CASE Aside
    BY <1>2, <1>11, AsideKeeps
<1>12. CASE Requests
    BY <1>2, <1>12, RequestsKeep
<1> QED BY <1>3, <1>4, <1>5, <1>7, <1>8, <1>9, <1>10, <1>11, <1>12
    DEF Next, Aside, Requests

(***************************************************************************)
(* Which buttons are diverted.                                             *)
(***************************************************************************)

\* A loop that is done with a button has the others still to come.
LEMMA AdvanceFacts ==
    ASSUME TypeOK, NEW t \in Threads, NEW c \in todo[t], NEW s, Advance(t, c, s)
    PROVE  /\ \A u \in Threads \ {t} : pc'[u] = pc[u] /\ todo'[u] = todo[u]
           /\ \A d \in todo[t] \ {c} : pc'[t] = s /\ d \in todo'[t]
BY DEF TypeOK, Advance, Go

\* A diversion that differs from its action's is about to be set.
LEMMA NextDivertsSet == ASSUME TypeOK, Places, DivertsSet, Next PROVE DivertsSet'
<1>1. ASSUME UNCHANGED <<alive, missed, diverted, action>>, alive /\ WakeupDue => WakeupDue',
             \A c : WillBeSet(c) => WillBeSet(c)'
      PROVE  DivertsSet'
    BY <1>1 DEF DivertsSet
<1>2. ASSUME \A c \in Cids : WillBeSet(c)' PROVE DivertsSet'
    BY <1>2 DEF DivertsSet, TypeOK
<1>3. ASSUME NEW e \in ReportSet, reports' = Append(reports, e), UNCHANGED <<due, link>>, WakeupDue
      PROVE  WakeupDue'
    BY <1>3, AddsLast DEF WakeupDue
<1>4. ASSUME NEW c \in Cids, Move(c) PROVE DivertsSet'
    <2>1. Buttons(held' \cap diverted) \in ReportSet
        BY <1>4 DEF Move, Buttons, ReportSet, TypeOK
    <2>2. UNCHANGED <<due, link, alive, missed, diverted, action, pc, todo>>
        BY <1>4 DEF Move, buttonVars, threadVars
    <2>3. UNCHANGED reports \/ reports' = Append(reports, Buttons(held' \cap diverted))
        BY <1>4, Zenon DEF Move
    <2>4. WakeupDue => WakeupDue'
        BY <1>3, <2>1, <2>2, <2>3 DEF WakeupDue
    <2> QED BY <1>1, <2>2, <2>4 DEF WillBeSet
<1>5. CASE LinkLost
    <2>1. WakeupDue'
        BY <1>5 DEF LinkLost, WakeupDue
    <2> QED BY <2>1 DEF DivertsSet
<1>6. CASE LinkReturns
    <2>1. LinkIs("wakeup") \in ReportSet /\ LinkIs("wakeup").kind = "wakeup"
        BY DEF LinkIs, ReportSet
    <2>2. WakeupDue'
        BY <1>6, <2>1, AddsLast DEF LinkReturns, WakeupDue
    <2> QED BY <2>2 DEF DivertsSet
<1>7. CASE ReadReport \/ ButtonEvent
    <2>1. UNCHANGED <<link, alive, missed, diverted, action>>
        BY <1>7 DEF ReadReport, ButtonEvent, buttonVars, PressThenRelease
    <2>2. (\E s : Go(IO, s, {}) /\ pc[IO] \notin {"reset", "configure"}) \/ UNCHANGED <<pc, todo>>
        BY <1>7 DEF ReadReport, ButtonEvent
    <2>3. \A c : WillBeSet(c) => WillBeSet(c)'
        BY <2>2, ButtonsAssumption DEF WillBeSet, Go, TypeOK, Threads
    <2>4. alive /\ WakeupDue => WakeupDue'
        <3>1. CASE UNCHANGED <<reports, due>>
            BY <2>1, <3>1 DEF WakeupDue
        <3>2. CASE Takes /\ reports[1].kind = "buttons" /\ due' = due
            <4>1. \A i \in DOMAIN reports : reports[i].kind = "wakeup" =>
                     i - 1 \in DOMAIN reports' /\ reports'[i - 1].kind = "wakeup"
                BY <3>2, TakesFirst
            <4> QED BY <2>1, <3>2, <4>1 DEF WakeupDue
        <3>3. CASE Takes /\ reports[1].kind \in {"sleep", "wakeup"}
                   /\ due' = Append(due, reports[1].kind)
            <4>1. \A i \in DOMAIN reports : i # 1 =>
                     i - 1 \in DOMAIN reports' /\ reports'[i - 1] = reports[i]
                BY <3>3, TakesFirst
            <4>2. due \in Seq({"sleep", "wakeup"})
                BY DEF TypeOK
            <4>3. /\ DOMAIN due' = DOMAIN due \cup {Len(due) + 1}
                  /\ due'[Len(due) + 1] = reports[1].kind
                  /\ \A i \in DOMAIN due : due'[i] = due[i]
                BY <3>3, <4>2, AppendFacts
            <4> QED BY <2>1, <4>1, <4>3 DEF WakeupDue
        <3>4. Takes => Head(reports) = reports[1] /\ reports[1].kind \in {"buttons", "sleep", "wakeup"}
            <4>1. Takes => Head(reports) = reports[1] /\ 1 \in DOMAIN reports
                BY TakesFirst
            <4>2. reports \in Seq(ReportSet)
                BY DEF TypeOK, ReportSet
            <4>3. Takes => reports[1] \in ReportSet
                BY <4>1, <4>2
            <4> QED BY <4>1, <4>3 DEF ReportSet
        <3>5. CASE ButtonEvent
            <4>1. Takes /\ reports[1].kind = "buttons" /\ due' = due
                BY <3>5 DEF ButtonEvent, Takes, Places
            <4> QED BY <3>2, <4>1
        <3>6. CASE ReadReport /\ alive
            <4>1. \/ UNCHANGED <<reports, due>>
                  \/ Takes /\ Head(reports).kind # "buttons"
                        /\ due' = Append(due, Head(reports).kind)
                BY <3>6 DEF ReadReport, Takes
            <4> QED BY <3>1, <3>3, <3>4, <4>1
        <3> QED BY <1>7, <3>5, <3>6
    <2> QED BY <1>1, <2>1, <2>3, <2>4
<1>8. CASE EventEnds
    <2>1. UNCHANGED <<reports, due, link, alive, missed, diverted, action>>
        BY <1>8 DEF EventEnds, deviceVars, buttonVars
    <2>2. \A c : WillBeSet(c) => WillBeSet(c)'
        BY <1>8, ButtonsAssumption DEF EventEnds, WillBeSet, Go, TypeOK, Threads
    <2> QED BY <1>1, <2>1, <2>2 DEF WakeupDue
<1>9. CASE BeginDue
    <2>1. /\ UNCHANGED <<reports, link, alive, missed, diverted, action>> /\ due # <<>>
          /\ due' = Tail(due) /\ due \in Seq({"sleep", "wakeup"}) /\ pc[Worker] = "idle"
        BY <1>9 DEF BeginDue, deviceVars, buttonVars, TypeOK
    <2>2. /\ Head(due) = due[1] /\ due[1] \in {"sleep", "wakeup"}
          /\ \A i \in DOMAIN due : i = 1 \/ (i \in Nat /\ i - 1 \in DOMAIN due')
          /\ \A i \in DOMAIN due' : i \in Nat /\ i + 1 \in DOMAIN due /\ due'[i] = due[i + 1]
        BY <2>1, TailFacts
    <2>3. CASE due[1] = "wakeup"
        <3>1. pc'[Worker] = "reset" /\ Worker \in Threads
            BY <1>9, <2>2, <2>3 DEF BeginDue, Go, TypeOK, Threads
        <3> QED BY <1>2, <3>1 DEF WillBeSet
    <2>4. CASE due[1] = "sleep"
        <3>1. \A i \in DOMAIN due : i # 1 => i - 1 \in DOMAIN due' /\ due'[i - 1] = due[i]
            BY <2>2
        <3>2. WakeupDue => WakeupDue'
            BY <2>1, <2>4, <3>1 DEF WakeupDue
        <3>3. \A c : WillBeSet(c) => WillBeSet(c)'
            <4>1. Go(Worker, "release", {}) \/ UNCHANGED <<pc, todo>>
                BY <1>9, <2>2, <2>4 DEF BeginDue
            <4> QED BY <2>1, <4>1, ButtonsAssumption DEF WillBeSet, Go, TypeOK, Threads
        <3> QED BY <1>1, <2>1, <3>2, <3>3
    <2> QED BY <2>2, <2>3, <2>4
<1>10. CASE OnSleep
    <2>1. UNCHANGED <<reports, due, link, alive, missed, diverted, action>>
        BY <1>10 DEF OnSleep, deviceVars, ReleaseAll, PressThenRelease
    <2>2. \A c : WillBeSet(c) => WillBeSet(c)'
        BY <1>10, ButtonsAssumption DEF OnSleep, WillBeSet, Go, TypeOK, Threads
    <2> QED BY <1>1, <2>1, <2>2 DEF WakeupDue
<1>11. CASE LockButtons \/ \E p \in Profiles : SetProfile(p)
    <2>1. UNCHANGED <<reports, due, link, alive, missed, diverted, action>>
        BY <1>11 DEF LockButtons, SetProfile, deviceVars, buttonVars
    <2>2. pc[Ipc] \in {"idle", "lock"} /\ \E s, d : Go(Ipc, s, d)
        BY <1>11 DEF LockButtons, SetProfile, Call
    <2>3. \A c : WillBeSet(c) => WillBeSet(c)'
        BY <2>2, ButtonsAssumption DEF WillBeSet, Go, TypeOK, Threads
    <2> QED BY <1>1, <2>1, <2>3 DEF WakeupDue
<1>12. CASE MakeAction
    <2>1. pc'[Ipc] \in {"make", "reset"} /\ Ipc \in Threads
        BY <1>12 DEF MakeAction, Go, TypeOK, Threads
    <2> QED BY <1>2, <2>1 DEF WillBeSet
<1>13. ASSUME NEW c \in Cids, NEW a \in {Touch, None}, SetAction(c, a) PROVE DivertsSet'
    <2>1. /\ UNCHANGED <<reports, due, link, alive, missed, diverted>> /\ pc[Ipc] = "idle"
          /\ Go(Ipc, "configure", {c}) /\ \A d \in Cids \ {c} : action'[d] = action[d]
        BY <1>13 DEF SetAction, Call, Replace, ThenConfigure, deviceVars, TypeOK
    <2>2. WillBeSet(c)' /\ \A d : WillBeSet(d) => WillBeSet(d)'
        BY <2>1, ButtonsAssumption DEF WillBeSet, Go, TypeOK, Threads
    <2>3. WakeupDue' = WakeupDue
        BY <2>1 DEF WakeupDue
    <2> QED BY <2>1, <2>2, <2>3 DEF DivertsSet
<1>14. ASSUME NEW t \in Threads, Reset(t) PROVE DivertsSet'
    <2>1. /\ \/ Go(t, "configure", Cids) \/ missed' = Cids
          /\ pc[t] = "reset"
        BY <1>14 DEF Reset
    <2>2. CASE missed' = Cids
        BY <2>2 DEF DivertsSet
    <2>3. CASE Go(t, "configure", Cids)
        <3>1. \A c \in Cids : WillBeSet(c)'
            BY <2>3 DEF WillBeSet, Go, TypeOK
        <3> QED BY <1>2, <3>1
    <2> QED BY <2>1, <2>2, <2>3
<1>15. ASSUME NEW t \in Threads, Configure(t) PROVE DivertsSet'
    <2> DEFINE c == Next1(todo[t])
    <2>1. pc[t] = "configure" /\ c \in todo[t] /\ c \in Cids
        BY <1>15, NextIsDue DEF Configure
    <2>2. UNCHANGED <<reports, due, link, alive, action>>
        BY <1>15 DEF Configure, buttonVars
    <2>3. \/ SetReporting(c) /\ missed' = missed \ {c} /\ Advance(t, c, "configure")
          \/ /\ SetReporting(c) \/ UNCHANGED diverted
             /\ missed' = missed \cup todo[t] /\ Go(t, "idle", {})
        BY <1>15 DEF Configure, Unanswered
    <2> HIDE DEF c
    <2>4. \A d \in Cids \ {c} : d \in diverted' <=> d \in diverted
        BY <2>3 DEF SetReporting, Divert
    <2>5. WakeupDue' = WakeupDue
        BY <2>2 DEF WakeupDue
    <2>6. CASE SetReporting(c) /\ missed' = missed \ {c} /\ Advance(t, c, "configure")
        <3>1. c \in diverted' <=> Diverts(action'[c])
            BY <2>1, <2>2, <2>6 DEF SetReporting, Divert
        <3>2. ASSUME NEW d \in Cids \ {c}, WillBeSet(d) PROVE WillBeSet(d)'
            <4>1. /\ \A u \in Threads \ {t} : pc'[u] = pc[u] /\ todo'[u] = todo[u]
                  /\ \A b \in todo[t] \ {c} : pc'[t] = "configure" /\ b \in todo'[t]
                BY <2>1, <2>6, AdvanceFacts
            <4>2. CASE pc[Ipc] = "make"
                BY <2>1, <4>1, <4>2 DEF WillBeSet, Threads
            <4>3. ASSUME NEW u \in Threads, pc[u] = "reset" \/ (pc[u] = "configure" /\ d \in todo[u])
                  PROVE  pc'[u] = "reset" \/ (pc'[u] = "configure" /\ d \in todo'[u])
                BY <2>1, <4>1, <4>3
            <4> QED BY <3>2, <4>2, <4>3 DEF WillBeSet
        <3> QED BY <2>2, <2>4, <2>5, <2>6, <3>1, <3>2 DEF DivertsSet
    <2>7. CASE missed' = missed \cup todo[t] /\ Go(t, "idle", {})
        <3>1. ASSUME NEW d \in Cids \ todo[t], WillBeSet(d) PROVE WillBeSet(d)'
            BY <2>1, <2>7, <3>1 DEF WillBeSet, Go, TypeOK, Threads
        <3> QED BY <2>1, <2>2, <2>4, <2>5, <2>7, <3>1 DEF DivertsSet
    <2> QED BY <2>3, <2>6, <2>7
<1>16. ASSUME NEW t \in Threads, ClearDivert(t) PROVE DivertsSet'
    <2>1. ~alive'
        BY <1>16 DEF ClearDivert, Places, Threads
    <2> QED BY <2>1 DEF DivertsSet
<1>17. CASE DropDevice
    <2>1. ~alive'
        BY <1>17 DEF DropDevice
    <2> QED BY <2>1 DEF DivertsSet
<1> QED BY <1>4, <1>5, <1>6, <1>7, <1>8, <1>9, <1>10, <1>11, <1>12, <1>13, <1>14, <1>15,
           <1>16, <1>17 DEF Next

\* After the end of the feature nothing diverts a button again.
LEMMA NextDivertsGo == ASSUME TypeOK, Places, DivertsGo, Next PROVE DivertsGo'
<1>1. ASSUME UNCHANGED <<alive, diverted, missed>>,
             pc[IO] \in {"event", "release"} => pc'[IO] \in {"event", "release"},
             \A c : WillBeCleared(c) => WillBeCleared(c)'
      PROVE  DivertsGo'
    BY <1>1 DEF DivertsGo
<1>2. ASSUME UNCHANGED <<alive, diverted, missed, pc, todo>> PROVE DivertsGo'
    BY <1>1, <1>2 DEF WillBeCleared
<1>3. ASSUME \A c \in Cids : WillBeCleared(c)' PROVE DivertsGo'
    BY <1>3, NextTypes DEF DivertsGo, TypeOK
<1>4. ASSUME alive, UNCHANGED alive PROVE DivertsGo'
    BY <1>4 DEF DivertsGo
<1>5. ASSUME NEW c \in Cids, Move(c) PROVE DivertsGo'
    BY <1>2, <1>5 DEF Move, threadVars
<1>6. CASE LinkLost
    BY <1>2, <1>6 DEF LinkLost, threadVars
<1>7. CASE LinkReturns
    <2>1. diverted' \subseteq diverted
        BY <1>7 DEF LinkReturns, Divert
    <2>2. UNCHANGED <<alive, missed, pc, todo>>
        BY <1>7 DEF LinkReturns, threadVars
    <2> QED BY <2>1, <2>2 DEF DivertsGo, WillBeCleared
<1>8. CASE ReadReport
    <2>1. UNCHANGED <<alive, diverted, missed>>
        BY <1>8 DEF ReadReport
    <2>2. CASE ~alive
        <3>1. UNCHANGED <<pc, todo>>
            BY <1>8, <2>2 DEF ReadReport
        <3> QED BY <1>2, <2>1, <3>1
    <2> QED BY <1>4, <2>1, <2>2
<1>9. CASE ButtonEvent
    <2>1. UNCHANGED <<alive, diverted, missed>> /\ Go(IO, "release", {}) /\ pc[IO] = "event"
        BY <1>9 DEF ButtonEvent
    <2>2. pc'[IO] = "release"
        BY <2>1 DEF Go, TypeOK, Threads
    <2>3. \A c : WillBeCleared(c) => WillBeCleared(c)'
        BY <2>1 DEF WillBeCleared, Go, TypeOK, Threads
    <2> QED BY <1>1, <2>1, <2>2, <2>3
<1>10. CASE EventEnds
    <2>1. UNCHANGED alive
        BY <1>10 DEF EventEnds
    <2>2. CASE ~alive
        <3>1. Go(IO, "destroy", Cids) /\ IO \in Threads
            BY <1>10, <2>2 DEF EventEnds, Threads
        <3>2. \A c \in Cids : WillBeCleared(c)'
            BY <3>1 DEF WillBeCleared, Go, TypeOK
        <3> QED BY <1>3, <3>2
    <2> QED BY <1>4, <2>1, <2>2
<1>11. CASE BeginDue
    BY <1>4, <1>11 DEF BeginDue
<1>12. CASE OnSleep
    <2>1. alive /\ UNCHANGED alive
        BY <1>12 DEF OnSleep, Places
    <2> QED BY <1>4, <2>1
<1>13. ASSUME NEW t \in Threads, Reset(t) \/ Configure(t) PROVE DivertsGo'
    <2>1. alive /\ UNCHANGED alive
        BY <1>13 DEF Reset, Configure, Places, Threads, TypeOK
    <2> QED BY <1>4, <2>1
<1>14. ASSUME NEW t \in Threads, ClearDivert(t) PROVE DivertsGo'
    <2> DEFINE c == Next1(todo[t])
    <2>1. pc[t] = "destroy" /\ c \in todo[t] /\ c \in Cids
        BY <1>14, NextIsDue DEF ClearDivert
    <2>2. UNCHANGED alive
        BY <1>14 DEF ClearDivert
    <2>3. /\ Advance(t, c, "destroy")
          /\ \/ Divert(diverted \ {c}) /\ missed' = missed \ {c}
             \/ Divert(diverted \ {c}) /\ missed' = missed \cup {c}
             \/ diverted' = diverted /\ missed' = missed \cup {c}
        BY <1>14 DEF ClearDivert, Unanswered, AfterFailure
    <2> HIDE DEF c
    <2>4. /\ \A u \in Threads \ {t} : pc'[u] = pc[u] /\ todo'[u] = todo[u]
          /\ \A b \in todo[t] \ {c} : pc'[t] = "destroy" /\ b \in todo'[t]
        BY <2>1, <2>3, AdvanceFacts
    <2>5. ASSUME NEW d, d # c, WillBeCleared(d) PROVE WillBeCleared(d)'
        <3>1. PICK u \in Threads : pc[u] = "destroy" /\ d \in todo[u]
            BY <2>5 DEF WillBeCleared
        <3>2. pc'[u] = "destroy" /\ d \in todo'[u]
            BY <2>4, <2>5, <3>1
        <3> QED BY <3>2 DEF WillBeCleared
    <2>6. /\ diverted' \subseteq diverted /\ missed \ {c} \subseteq missed'
          /\ c \in diverted' => c \in missed'
        BY <2>3 DEF Divert
    <2>7. pc[IO] \in {"event", "release"} => pc'[IO] = pc[IO]
        BY <2>1, <2>4 DEF Threads
    <2> QED BY <2>2, <2>5, <2>6, <2>7 DEF DivertsGo
<1>15. CASE LockButtons \/ MakeAction \/ \E p \in Profiles : SetProfile(p)
    <2>1. alive /\ UNCHANGED alive
        BY <1>15 DEF LockButtons, MakeAction, SetProfile, Call, Places
    <2> QED BY <1>4, <2>1
<1>16. ASSUME NEW c \in Cids, NEW a \in {Touch, None}, SetAction(c, a) PROVE DivertsGo'
    BY <1>4, <1>16 DEF SetAction, Call
<1>17. CASE DropDevice
    <2>1. CASE pc[IO] = "idle"
        <3>1. Go(Worker, "destroy", Cids) /\ Worker \in Threads
            BY <1>17, <2>1 DEF DropDevice, Threads
        <3>2. \A c \in Cids : WillBeCleared(c)'
            BY <3>1 DEF WillBeCleared, Go, TypeOK
        <3> QED BY <1>3, <3>2
    <2>2. CASE pc[IO] # "idle"
        <3>1. pc[IO] \in {"event", "release"} /\ UNCHANGED pc
            BY <1>17, <2>2 DEF DropDevice, Places
        <3> QED BY <3>1 DEF DivertsGo
    <2> QED BY <2>1, <2>2
<1> QED BY <1>5, <1>6, <1>7, <1>8, <1>9, <1>10, <1>11, <1>12, <1>13, <1>14, <1>15, <1>16,
           <1>17 DEF Next

(***************************************************************************)
(* The theorems.                                                           *)
(***************************************************************************)

\* The invariant holds at the start.
LEMMA InitIInv == ASSUME Init PROVE IInv
<1>1. TypeOK /\ Places
    BY InitTypes, ButtonsAssumption DEF Init, Places, Threads
<1>2. DownIsActive /\ LastReport /\ PressedSeen
    BY DEF Init, DownIsActive, LastReport, PressedSeen
<1>3. SleepsAwake
    BY DEF Init, SleepsAwake, UpLast, Up, DueUp
<1>4. DivertsSet /\ DivertsGo
    BY ButtonsAssumption DEF Init, DivertsSet, DivertsGo
<1> QED BY <1>1, <1>2, <1>3, <1>4 DEF IInv

\* The invariant is inductive.
THEOREM Invariance == Spec => []IInv
<1>1. IInv /\ Next => IInv'
    BY NextTypes, NextPlaces, NextDown, NextLastReport, NextPressed, NextSleeps,
       NextDivertsSet, NextDivertsGo DEF IInv
<1>2. IInv /\ UNCHANGED vars => IInv'
    BY DEF vars, deviceVars, buttonVars, outVars, threadVars, IInv, TypeOK, Places,
       DownIsActive, Touches, LastReport, IsLast, Seen, PressedSeen, SleepDue, SleepsAwake,
       UpLast, Up, DueUp, DivertsSet, WakeupDue, WillBeSet, DivertsGo, WillBeCleared
<1>3. Init => IInv
    BY InitIInv
<1> QED BY <1>1, <1>2, <1>3, PTL DEF Spec

\* logid's state has its types, whatever the buttons and profiles are.
THEOREM TypeCorrect == Spec => []TypeOK
<1>1. IInv => TypeOK
    BY DEF IInv
<1> QED BY <1>1, Invariance, PTL

\* Device, logid and virtual devices agree on what is held, through every loss of
\* the link (_buttonEvent(), onSleep()).
THEOREM HeldStaysKnown == Spec => []HeldIsKnown
<1>1. ASSUME IInv PROVE KnownPressed
    <2>1. ASSUME Quiet, alive, link PROVE pressed \subseteq held \cup blind
        <3>1. reports = <<>> /\ due = <<>> /\ pc[Worker] = "idle"
            BY <2>1 DEF Quiet, Threads
        <3>2. IsLast(0) /\ ~SleepDue
            BY <3>1 DEF IsLast, SleepDue
        <3> QED BY <1>1, <2>1, <3>2 DEF IInv, PressedSeen, Seen
    <2> QED BY <2>1 DEF KnownPressed
<1>2. ASSUME IInv PROVE DownIsHeld
    BY <1>2 DEF IInv, DownIsActive, DownIsHeld
<1>3. IInv => HeldIsKnown
    BY <1>1, <1>2 DEF HeldIsKnown, IInv
<1> QED BY <1>3, Invariance, PTL

\* They agree on what is diverted, whatever mixture of wakeups, changes of profile
\* and of actions there was, and nothing stays diverted after the feature
\* (Device::reconfigure(), _clearTemporaryDiverts()).
THEOREM DivertsStayKnown == Spec => []DivertsAreKnown
<1>1. ASSUME IInv, Quiet PROVE DivertsFollowActions
    <2>1. ~WakeupDue \/ ~link
        BY <1>1 DEF Quiet, WakeupDue
    <2>2. \A c : ~WillBeSet(c)
        BY <1>1 DEF Quiet, WillBeSet, Threads
    <2> QED BY <1>1, <2>1, <2>2 DEF IInv, DivertsSet, DivertsFollowActions
<1>2. ASSUME IInv, ~alive, \A t \in Threads : pc[t] = "idle" PROVE diverted \subseteq missed
    BY <1>2 DEF IInv, DivertsGo, WillBeCleared, Threads
<1>3. IInv => DivertsAreKnown
    BY <1>1, <1>2 DEF DivertsAreKnown, DivertsCleared, DivertsFollowActions
<1> QED BY <1>3, Invariance, PTL
=============================================================================
