--------------------------- MODULE PresenceProofs ---------------------------
(***************************************************************************)
(* Proofs about what is here and what is not: the keyboard and the mouse, and the*)
(* hosts they are on (HostSwitch.tla), and a device node that comes and goes*)
(* (Hotplug.tla).                                                          *)
(***************************************************************************)
EXTENDS HostSwitch, Hotplug, FiniteSetTheorems, WellFoundedInduction, SequenceTheorems,
        TLAPS

(***************************************************************************)
(* Hosts.                                                                  *)
(***************************************************************************)

Jobs == {"switched", "disconnected", "connected", "early", "refresh"}

\* The types, and where the monitor should be.
Types ==
    /\ setup \in {"daemon", "hooks"} /\ mode \in Modes
    /\ setup = "hooks" => mode = "link_state"
    /\ TypeOK
    /\ expected \in {"local", "remote"} /\ moves \in Nat /\ jobs \in Seq(Jobs)
    /\ \A s \in unsent : s[1] \in {"status", "connected", "switched"}
    /\ faulty \in BOOLEAN /\ ghost \in BOOLEAN
    /\ expected = "remote" => keyboard # "local"
    /\ mode = "link_state" /\ keyboard # "local" => expected = "remote"

\* The steps that a job is on.
Steps ==
    /\ pc \in {"early", "connected", "refresh"} => job = pc
    /\ pc = "query" => mode = "host_event"
    /\ pc = "down" => faulty /\ setup = "daemon"

\* Between the save and the clear the state file has the departure.
Persisted ==
    /\ RemoteIsPersisted
    /\ pc \in {"mouse", "remote"} => disk
    /\ pc = "clear" => monitor = "local"

Departing == pc \in {"disconnected", "save", "mouse", "remote"}
Returning == pc \in {"connected", "local", "clear"}

\* The last hook is for what logid last noticed, and does it.
HooksFollow ==
    setup = "hooks" =>
        /\ unsent = {} /\ jobs \in Seq({"connected", "disconnected"})
        /\ pc = "idle" \/ Departing \/ Returning
        /\ jobs # <<>> => jobs[Len(jobs)] = IF active THEN "connected" ELSE "disconnected"
        /\ jobs = <<>> /\ Departing => ~active
        /\ jobs = <<>> /\ Returning => active
        /\ pc # "idle" => away = disk
        /\ jobs = <<>> /\ pc = "idle" /\ ~faulty => monitor = IF active THEN "local" ELSE "remote"

NoEarly(i) == \A k \in i .. Len(jobs) : jobs[k] # "early"

LossFollows ==
    setup = "daemon" /\ mode = "link_state" /\ ~active /\ ~faulty /\ ~ghost =>
        \/ \E s \in unsent : s[1] = "status"
        \/ \E i \in 1 .. Len(jobs) : jobs[i] = "disconnected" /\ NoEarly(i)
        \/ Departing /\ NoEarly(1)
        \/ monitor = "remote" /\ pc \notin {"early", "local", "clear"} /\ NoEarly(1)

SwitchFollows ==
    mode = "host_event" /\ ~faulty =>
        /\ away /\ pc \notin {"mouse", "remote", "local", "clear"} => monitor = "remote"
        /\ expected = "remote" =>
            \/ \E s \in unsent : s[1] = "switched"
            \/ \E i \in 1 .. Len(jobs) : jobs[i] = "switched"
            \/ pc \in {"switched", "save", "mouse", "remote"}
            \/ monitor = "remote" /\ pc \notin {"local", "clear"}

IInv == Types /\ Steps /\ Persisted /\ HooksFollow /\ LossFollows /\ SwitchFollows
-----------------------------------------------------------------------------

\* The first steps of a departure and of a return.
LEMMA FirstSteps == Departure[1] = "save" /\ Return[1] = "local"
BY DEF Departure, Return

\* What follows a step.
LEMMA AfterIs ==
    /\ After("save") = "mouse" /\ After("mouse") = "remote" /\ After("remote") = "end"
    /\ After("local") = "clear" /\ After("clear") = "end"
<1>1. /\ DOMAIN Return = 1 .. 2 /\ Len(Return) = 2 /\ Return[1] = "local" /\ Return[2] = "clear"
    BY DEF Return
<1>2. /\ DOMAIN Departure = 1 .. 3 /\ Len(Departure) = 3
      /\ Departure[1] = "save" /\ Departure[2] = "mouse" /\ Departure[3] = "remote"
    BY DEF Departure
<1>3. ASSUME NEW step, NEW n \in 1 .. 3, Departure[n] = step
      PROVE  After(step) = IF n < 3 THEN Departure[n + 1] ELSE "end"
    <2>1. ~ \E i \in DOMAIN Return : Return[i] = step
        BY <1>1, <1>2, <1>3
    <2>2. (CHOOSE k \in DOMAIN Departure : Departure[k] = step) = n
        BY <1>2, <1>3
    <2>3. After(step) = LET i == CHOOSE k \in DOMAIN Departure : Departure[k] = step
                        IN  IF i < Len(Departure) THEN Departure[i + 1] ELSE "end"
        <3> DEFINE steps == IF \E i \in DOMAIN Return : Return[i] = step THEN Return ELSE Departure
        <3>1. steps = Departure
            BY <2>1
        <3>2. After(step) = LET i == CHOOSE k \in DOMAIN steps : steps[k] = step
                            IN  IF i < Len(steps) THEN steps[i + 1] ELSE "end"
            BY DEF After
        <3> HIDE DEF steps
        <3> QED BY <3>1, <3>2
    <2> QED BY <2>2, <2>3, <1>2
<1>4. ASSUME NEW step, NEW n \in 1 .. 2, Return[n] = step
      PROVE  After(step) = IF n < 2 THEN Return[n + 1] ELSE "end"
    <2>1. \E i \in DOMAIN Return : Return[i] = step
        BY <1>1, <1>4
    <2>2. (CHOOSE k \in DOMAIN Return : Return[k] = step) = n
        BY <1>1, <1>4
    <2> QED BY <2>1, <2>2, <1>1 DEF After
<1>5. After("save") = "mouse" /\ After("mouse") = "remote" /\ After("remote") = "end"
    BY <1>2, <1>3
<1>6. After("local") = "clear" /\ After("clear") = "end"
    BY <1>1, <1>4
<1> QED BY <1>5, <1>6

-----------------------------------------------------------------------------

\* The first of the queue and the rest.
LEMMA Queue ==
    ASSUME NEW S, jobs \in Seq(S), jobs # <<>>
    PROVE  /\ Len(jobs) \in Nat /\ Len(jobs) > 0
           /\ Head(jobs) = jobs[1] /\ Head(jobs) \in S
           /\ Tail(jobs) \in Seq(S) /\ Len(Tail(jobs)) = Len(jobs) - 1
           /\ \A i \in 1 .. Len(jobs) - 1 : Tail(jobs)[i] = jobs[i + 1]
<1>1. Len(jobs) \in Nat /\ Len(jobs) > 0
    BY EmptySeq, LenProperties
<1>2. /\ Head(jobs) = jobs[1] /\ Head(jobs) \in S
      /\ Tail(jobs) \in Seq(S) /\ Len(Tail(jobs)) = Len(jobs) - 1
      /\ \A i \in 1 .. Len(Tail(jobs)) : Tail(jobs)[i] = jobs[i + 1]
    BY HeadTailProperties
<1> QED BY <1>1, <1>2

\* The invariant holds at first.
LEMMA InitIInv == Init => IInv
<1> SUFFICES ASSUME Init
             PROVE  IInv
    OBVIOUS
<1>1. jobs \in Seq(Jobs) /\ jobs \in Seq({"connected", "disconnected"})
    BY EmptySeq DEF Init
<1>2. Types
    BY <1>1 DEF Init, Types, TypeOK, Modes
<1>3. Steps /\ Persisted /\ LossFollows
    BY DEF Init, Steps, Persisted, RemoteIsPersisted, LossFollows
<1>4. HooksFollow /\ SwitchFollows
    BY <1>1 DEF Init, HooksFollow, Departing, Returning, SwitchFollows
<1> QED BY <1>2, <1>3, <1>4 DEF IInv

\* Every step keeps the types.
LEMMA TypesNext ==
    ASSUME IInv, Next
    PROVE  Types'
<1>0. Types /\ Steps /\ Persisted /\ HooksFollow /\ LossFollows /\ SwitchFollows
    BY DEF IInv
<1>1. ASSUME NEW place \in {"local", "remote", "off"}, Move(place)
      PROVE  Types'
    BY <1>0, <1>1 DEF Types, TypeOK, Modes, Jobs, Move, Unworked, fixed, user, logid, worker, history
<1>2. ASSUME LinkNoticed
      PROVE  Types'
    BY <1>0, <1>2 DEF Types, TypeOK, Modes, Jobs, LinkNoticed, Unworked, fixed, user, logid, worker, history
<1>3. ASSUME Emit
      PROVE  Types'
    BY <1>0, <1>3 DEF Types, TypeOK, Modes, Jobs, Emit, Received, Unworked, fixed, user, logid, worker, history
<1>4. ASSUME Begin
      PROVE  Types'
    BY <1>0, <1>4 DEF Types, TypeOK, Modes, Jobs, Begin, Unworked, fixed, user, logid, worker, history
<1>5. ASSUME Switched
      PROVE  Types'
    BY <1>0, <1>5, FirstSteps DEF Types, TypeOK, Modes, Jobs, Switched, Departs, Goto, Done, Unworked, fixed, user, logid, worker, history
<1>6. ASSUME Disconnected
      PROVE  Types'
    BY <1>0, <1>6, FirstSteps DEF Types, TypeOK, Modes, Jobs, Disconnected, Departs, Goto, Done, Unworked, fixed, user, logid, worker, history
<1>7. ASSUME Connected
      PROVE  Types'
    BY <1>0, <1>7, FirstSteps DEF Types, TypeOK, Modes, Jobs, Connected, Returns, Goto, Done, Unworked, fixed, user, logid, worker, history
<1>8. ASSUME KeyboardHost
      PROVE  Types'
    BY <1>0, <1>8, FirstSteps DEF Types, TypeOK, Modes, Jobs, KeyboardHost, Fails, Goto, Done, Unworked, fixed, user, logid, worker, history
<1>9. ASSUME Save
      PROVE  Types'
    BY <1>0, <1>9, AfterIs DEF Types, TypeOK, Modes, Jobs, Save, Proceed, Goto, Done, Unworked, fixed, user, logid, worker, history
<1>10. ASSUME SendMouse
      PROVE  Types'
    BY <1>0, <1>10, AfterIs DEF Types, TypeOK, Modes, Jobs, SendMouse, Proceed, Goto, Done, Unworked, fixed, user, logid, worker, history
<1>11. ASSUME SetInput
      PROVE  Types'
    BY <1>0, <1>11, AfterIs DEF Types, TypeOK, Modes, Jobs, SetInput, Proceed, Fails, Goto, Done, Unworked, fixed, user, logid, worker, history
<1>12. ASSUME Tick
      PROVE  Types'
    BY <1>0, <1>12 DEF Types, TypeOK, Modes, Jobs, Tick, Unworked, fixed, user, logid, worker, history
<1>13. ASSUME Kill
      PROVE  Types'
    BY <1>0, <1>13, EmptySeq DEF Types, TypeOK, Modes, Kill, Unworked, fixed, user, logid, worker, history
<1>14. ASSUME Restart
      PROVE  Types'
    BY <1>0, <1>14 DEF Types, TypeOK, Modes, Jobs, Restart, Unworked, fixed, user, logid, worker, history
<1> QED BY <1>1, <1>2, <1>3, <1>4, <1>5, <1>6, <1>7, <1>8, <1>9, <1>10, <1>11, <1>12, <1>13, <1>14 DEF Next, Work

\* Every step keeps a job and its steps together.
LEMMA StepsNext ==
    ASSUME IInv, Next
    PROVE  Steps'
<1>0. Types /\ Steps /\ Persisted /\ HooksFollow /\ LossFollows /\ SwitchFollows
    BY DEF IInv
<1>1. ASSUME NEW place \in {"local", "remote", "off"}, Move(place)
      PROVE  Steps'
    BY <1>0, <1>1 DEF Steps, Types, Jobs, Modes, Move, Unworked, fixed, user, logid, worker, history
<1>2. ASSUME LinkNoticed
      PROVE  Steps'
    BY <1>0, <1>2 DEF Steps, Types, Jobs, Modes, LinkNoticed, Unworked, fixed, user, logid, worker, history
<1>3. ASSUME Emit
      PROVE  Steps'
    BY <1>0, <1>3 DEF Steps, Types, Jobs, Modes, Emit, Received, Unworked, fixed, user, logid, worker, history
<1>4. ASSUME Begin
      PROVE  Steps'
    BY <1>0, <1>4 DEF Steps, Types, Jobs, Modes, Begin, Unworked, fixed, user, logid, worker, history
<1>5. ASSUME Switched
      PROVE  Steps'
    BY <1>0, <1>5, FirstSteps DEF Steps, Types, Jobs, Modes, Switched, Departs, Goto, Done, Unworked, fixed, user, logid, worker, history
<1>6. ASSUME Disconnected
      PROVE  Steps'
    BY <1>0, <1>6, FirstSteps DEF Steps, Types, Jobs, Modes, Disconnected, Departs, Goto, Done, Unworked, fixed, user, logid, worker, history
<1>7. ASSUME Connected
      PROVE  Steps'
    BY <1>0, <1>7, FirstSteps DEF Steps, Types, Jobs, Modes, Connected, Returns, Goto, Done, Unworked, fixed, user, logid, worker, history
<1>8. ASSUME KeyboardHost
      PROVE  Steps'
    BY <1>0, <1>8, FirstSteps DEF Steps, Types, Jobs, Modes, KeyboardHost, Fails, Goto, Done, Unworked, fixed, user, logid, worker, history
<1>9. ASSUME Save
      PROVE  Steps'
    BY <1>0, <1>9, AfterIs DEF Steps, Types, Jobs, Modes, Save, Proceed, Goto, Done, Unworked, fixed, user, logid, worker, history
<1>10. ASSUME SendMouse
      PROVE  Steps'
    BY <1>0, <1>10, AfterIs DEF Steps, Types, Jobs, Modes, SendMouse, Proceed, Goto, Done, Unworked, fixed, user, logid, worker, history
<1>11. ASSUME SetInput
      PROVE  Steps'
    BY <1>0, <1>11, AfterIs DEF Steps, Types, Jobs, Modes, SetInput, Proceed, Fails, Goto, Done, Unworked, fixed, user, logid, worker, history
<1>12. ASSUME Tick
      PROVE  Steps'
    BY <1>0, <1>12 DEF Steps, Types, Jobs, Modes, Tick, Unworked, fixed, user, logid, worker, history
<1>13. ASSUME Kill
      PROVE  Steps'
    BY <1>0, <1>13 DEF Steps, Types, Jobs, Modes, Kill, Unworked, fixed, user, logid, worker, history
<1>14. ASSUME Restart
      PROVE  Steps'
    BY <1>0, <1>14 DEF Steps, Types, Jobs, Modes, Restart, Unworked, fixed, user, logid, worker, history
<1> QED BY <1>1, <1>2, <1>3, <1>4, <1>5, <1>6, <1>7, <1>8, <1>9, <1>10, <1>11, <1>12, <1>13, <1>14 DEF Next, Work

\* Every step keeps the state file ahead of the monitor.
LEMMA PersistedNext ==
    ASSUME IInv, Next
    PROVE  Persisted'
<1>0. Types /\ Steps /\ Persisted /\ HooksFollow /\ LossFollows /\ SwitchFollows
    BY DEF IInv
<1>1. ASSUME NEW place \in {"local", "remote", "off"}, Move(place)
      PROVE  Persisted'
    BY <1>0, <1>1 DEF Persisted, RemoteIsPersisted, Steps, Types, TypeOK, Move, Unworked, fixed, user, logid, worker, history
<1>2. ASSUME LinkNoticed
      PROVE  Persisted'
    BY <1>0, <1>2 DEF Persisted, RemoteIsPersisted, Steps, Types, TypeOK, LinkNoticed, Unworked, fixed, user, logid, worker, history
<1>3. ASSUME Emit
      PROVE  Persisted'
    BY <1>0, <1>3 DEF Persisted, RemoteIsPersisted, Steps, Types, TypeOK, Emit, Received, Unworked, fixed, user, logid, worker, history
<1>4. ASSUME Begin
      PROVE  Persisted'
    <2>1. pc' = Head(jobs) /\ jobs # <<>> /\ jobs \in Seq(Jobs) /\ UNCHANGED <<monitor, disk>>
        BY <1>0, <1>4 DEF Begin, Types
    <2>2. pc' \in Jobs
        BY <2>1, Queue
    <2> QED BY <2>1, <2>2, <1>0 DEF Persisted, RemoteIsPersisted, Jobs
<1>5. ASSUME Switched
      PROVE  Persisted'
    BY <1>0, <1>5, FirstSteps DEF Persisted, RemoteIsPersisted, Steps, Types, TypeOK, Switched, Departs, Goto, Done, Unworked, fixed, user, logid, worker, history
<1>6. ASSUME Disconnected
      PROVE  Persisted'
    BY <1>0, <1>6, FirstSteps DEF Persisted, RemoteIsPersisted, Steps, Types, TypeOK, Disconnected, Departs, Goto, Done, Unworked, fixed, user, logid, worker, history
<1>7. ASSUME Connected
      PROVE  Persisted'
    BY <1>0, <1>7, FirstSteps DEF Persisted, RemoteIsPersisted, Steps, Types, TypeOK, Connected, Returns, Goto, Done, Unworked, fixed, user, logid, worker, history
<1>8. ASSUME KeyboardHost
      PROVE  Persisted'
    BY <1>0, <1>8, FirstSteps DEF Persisted, RemoteIsPersisted, Steps, Types, TypeOK, KeyboardHost, Fails, Goto, Done, Unworked, fixed, user, logid, worker, history
<1>9. ASSUME Save
      PROVE  Persisted'
    BY <1>0, <1>9, AfterIs DEF Persisted, RemoteIsPersisted, Steps, Types, TypeOK, Save, Proceed, Goto, Done, Unworked, fixed, user, logid, worker, history
<1>10. ASSUME SendMouse
      PROVE  Persisted'
    BY <1>0, <1>10, AfterIs DEF Persisted, RemoteIsPersisted, Steps, Types, TypeOK, SendMouse, Proceed, Goto, Done, Unworked, fixed, user, logid, worker, history
<1>11. ASSUME SetInput
      PROVE  Persisted'
    BY <1>0, <1>11, AfterIs DEF Persisted, RemoteIsPersisted, Steps, Types, TypeOK, SetInput, Proceed, Fails, Goto, Done, Unworked, fixed, user, logid, worker, history
<1>12. ASSUME Tick
      PROVE  Persisted'
    BY <1>0, <1>12 DEF Persisted, RemoteIsPersisted, Steps, Types, TypeOK, Tick, Unworked, fixed, user, logid, worker, history
<1>13. ASSUME Kill
      PROVE  Persisted'
    BY <1>0, <1>13 DEF Persisted, RemoteIsPersisted, Steps, Types, TypeOK, Kill, Unworked, fixed, user, logid, worker, history
<1>14. ASSUME Restart
      PROVE  Persisted'
    BY <1>0, <1>14 DEF Persisted, RemoteIsPersisted, Steps, Types, TypeOK, Restart, Unworked, fixed, user, logid, worker, history
<1> QED BY <1>1, <1>2, <1>3, <1>4, <1>5, <1>6, <1>7, <1>8, <1>9, <1>10, <1>11, <1>12, <1>13, <1>14 DEF Next, Work

\* Every step keeps the last hook that of the link.
LEMMA HooksFollowNext ==
    ASSUME IInv, Next
    PROVE  HooksFollow'
<1>0. Types /\ Steps /\ Persisted /\ HooksFollow /\ LossFollows /\ SwitchFollows
    BY DEF IInv
<1>1. ASSUME NEW place \in {"local", "remote", "off"}, Move(place)
      PROVE  HooksFollow'
    BY <1>0, <1>1 DEF HooksFollow, Departing, Returning, Persisted, RemoteIsPersisted, Steps, Types, TypeOK, Jobs, Move, Unworked, fixed, user, logid, worker, history
<1>2. ASSUME LinkNoticed
      PROVE  HooksFollow'
    <2> SUFFICES ASSUME setup = "hooks"
                 PROVE  HooksFollow'
        BY <1>2 DEF HooksFollow, LinkNoticed, fixed
    <2>1. PICK j \in {"connected", "disconnected"} :
              /\ j = (IF active THEN "disconnected" ELSE "connected")
              /\ jobs' = Append(jobs, j)
        BY <1>2 DEF LinkNoticed
    <2>2. /\ UNCHANGED <<unsent, setup, pc, away, disk>>
          /\ active' = ~active /\ active \in BOOLEAN
        BY <1>2, <1>0 DEF LinkNoticed, fixed, Types, TypeOK
    <2>3. /\ unsent = {} /\ jobs \in Seq({"connected", "disconnected"})
          /\ pc = "idle" \/ Departing \/ Returning
          /\ pc # "idle" => away = disk
        BY <1>0 DEF HooksFollow
    <2>4. /\ jobs' \in Seq({"connected", "disconnected"})
          /\ Len(jobs') = Len(jobs) + 1 /\ Len(jobs) \in Nat /\ jobs'[Len(jobs')] = j
        BY <2>1, <2>3
    <2>5. jobs' # <<>>
        BY <2>4
    <2>6. j = IF active' THEN "connected" ELSE "disconnected"
        BY <2>1, <2>2
    <2> QED BY <2>2, <2>3, <2>4, <2>5, <2>6 DEF HooksFollow, Departing, Returning
<1>3. ASSUME Emit
      PROVE  HooksFollow'
    BY <1>0, <1>3 DEF HooksFollow, Departing, Returning, Persisted, RemoteIsPersisted, Steps, Types, TypeOK, Jobs, Emit, Received, Unworked, fixed, user, logid, worker, history
<1>4. ASSUME Begin
      PROVE  HooksFollow'
    <2> SUFFICES ASSUME setup = "hooks"
                 PROVE  HooksFollow'
        BY <1>4 DEF HooksFollow, Begin, Unworked, fixed
    <2>1. /\ jobs # <<>> /\ jobs' = Tail(jobs) /\ pc' = Head(jobs) /\ pc = "idle"
          /\ away' = disk /\ UNCHANGED <<unsent, setup, active, disk>>
        BY <1>4 DEF Begin, Unworked, fixed, logid
    <2>2. /\ unsent = {} /\ jobs \in Seq({"connected", "disconnected"})
          /\ jobs[Len(jobs)] = IF active THEN "connected" ELSE "disconnected"
        BY <2>1, <1>0 DEF HooksFollow
    <2>3. /\ Len(jobs) \in Nat /\ Len(jobs) > 0
          /\ Head(jobs) = jobs[1] /\ Head(jobs) \in {"connected", "disconnected"}
          /\ jobs' \in Seq({"connected", "disconnected"}) /\ Len(jobs') = Len(jobs) - 1
          /\ \A i \in 1 .. Len(jobs) - 1 : jobs'[i] = jobs[i + 1]
        BY <2>1, <2>2, Queue
    <2>4. CASE Len(jobs) = 1
        <3>1. jobs' = <<>>
            BY <2>3, <2>4, EmptySeq
        <3> QED BY <3>1, <2>1, <2>2, <2>3, <2>4 DEF HooksFollow, Departing, Returning
    <2>5. CASE Len(jobs) # 1
        <3>1. jobs' # <<>> /\ jobs'[Len(jobs')] = jobs[Len(jobs)]
            BY <2>3, <2>5
        <3> QED BY <3>1, <2>1, <2>2, <2>3 DEF HooksFollow, Departing, Returning
    <2> QED BY <2>4, <2>5
<1>5. ASSUME Switched
      PROVE  HooksFollow'
    BY <1>0, <1>5, FirstSteps DEF HooksFollow, Departing, Returning, Persisted, RemoteIsPersisted, Steps, Types, TypeOK, Jobs, Switched, Departs, Goto, Done, Unworked, fixed, user, logid, worker, history
<1>6. ASSUME Disconnected
      PROVE  HooksFollow'
    BY <1>0, <1>6, FirstSteps DEF HooksFollow, Departing, Returning, Persisted, RemoteIsPersisted, Steps, Types, TypeOK, Jobs, Disconnected, Departs, Goto, Done, Unworked, fixed, user, logid, worker, history
<1>7. ASSUME Connected
      PROVE  HooksFollow'
    BY <1>0, <1>7, FirstSteps DEF HooksFollow, Departing, Returning, Persisted, RemoteIsPersisted, Steps, Types, TypeOK, Jobs, Connected, Returns, Goto, Done, Unworked, fixed, user, logid, worker, history
<1>8. ASSUME KeyboardHost
      PROVE  HooksFollow'
    BY <1>0, <1>8, FirstSteps DEF HooksFollow, Departing, Returning, Persisted, RemoteIsPersisted, Steps, Types, TypeOK, Jobs, KeyboardHost, Fails, Goto, Done, Unworked, fixed, user, logid, worker, history
<1>9. ASSUME Save
      PROVE  HooksFollow'
    BY <1>0, <1>9, AfterIs DEF HooksFollow, Departing, Returning, Persisted, RemoteIsPersisted, Steps, Types, TypeOK, Jobs, Save, Proceed, Goto, Done, Unworked, fixed, user, logid, worker, history
<1>10. ASSUME SendMouse
      PROVE  HooksFollow'
    BY <1>0, <1>10, AfterIs DEF HooksFollow, Departing, Returning, Persisted, RemoteIsPersisted, Steps, Types, TypeOK, Jobs, SendMouse, Proceed, Goto, Done, Unworked, fixed, user, logid, worker, history
<1>11. ASSUME SetInput
      PROVE  HooksFollow'
    BY <1>0, <1>11, AfterIs DEF HooksFollow, Departing, Returning, Persisted, RemoteIsPersisted, Steps, Types, TypeOK, Jobs, SetInput, Proceed, Fails, Goto, Done, Unworked, fixed, user, logid, worker, history
<1>12. ASSUME Tick
      PROVE  HooksFollow'
    BY <1>0, <1>12 DEF HooksFollow, Departing, Returning, Persisted, RemoteIsPersisted, Steps, Types, TypeOK, Jobs, Tick, Unworked, fixed, user, logid, worker, history
<1>13. ASSUME Kill
      PROVE  HooksFollow'
    BY <1>0, <1>13 DEF HooksFollow, Departing, Returning, Persisted, RemoteIsPersisted, Steps, Types, TypeOK, Jobs, Kill, Unworked, fixed, user, logid, worker, history
<1>14. ASSUME Restart
      PROVE  HooksFollow'
    BY <1>0, <1>14 DEF HooksFollow, Departing, Returning, Persisted, RemoteIsPersisted, Steps, Types, TypeOK, Jobs, Restart, Unworked, fixed, user, logid, worker, history
<1> QED BY <1>1, <1>2, <1>3, <1>4, <1>5, <1>6, <1>7, <1>8, <1>9, <1>10, <1>11, <1>12, <1>13, <1>14 DEF Next, Work

\* Every step keeps a lost link on its way to the monitor.
LEMMA LossFollowsNext ==
    ASSUME IInv, Next
    PROVE  LossFollows'
<1>0. Types /\ Steps /\ Persisted /\ HooksFollow /\ LossFollows /\ SwitchFollows
    BY DEF IInv
<1>1. ASSUME NEW place \in {"local", "remote", "off"}, Move(place)
      PROVE  LossFollows'
    BY <1>0, <1>1 DEF LossFollows, NoEarly, Departing, Steps, Types, TypeOK, Jobs, Move, Unworked, fixed, user, logid, worker, history
<1>2. ASSUME LinkNoticed
      PROVE  LossFollows'
    <2> SUFFICES ASSUME setup' = "daemon", ~active'
                 PROVE  \E s \in unsent' : s[1] = "status"
        BY DEF LossFollows
    <2>1. /\ setup = "daemon"
          /\ unsent' = unsent \cup {<<"status", moves>>}
                         \cup (IF active THEN {} ELSE {<<"connected", moves>>})
        BY <1>2 DEF LinkNoticed, fixed
    <2>2. <<"status", moves>> \in unsent' /\ <<"status", moves>>[1] = "status"
        BY <2>1
    <2> QED BY <2>2
<1>3. ASSUME Emit
      PROVE  LossFollows'
    <2> SUFFICES ASSUME setup' = "daemon", mode' = "link_state", ~active', ~faulty', ~ghost'
                 PROVE  LossFollows'
        BY DEF LossFollows
    <2>1. PICK s \in unsent :
              /\ unsent' = unsent \ {s}
              /\ jobs' = IF pc = "down" THEN jobs ELSE Append(jobs, Received(s[1]))
              /\ faulty' = (faulty \/ pc = "down")
              /\ ghost' = (ghost \/ (s[1] = "connected" /\ ~active))
        BY <1>3 DEF Emit
    <2>2. UNCHANGED <<setup, mode, active, monitor, pc>>
        BY <1>3 DEF Emit, fixed
    <2>3. ~active /\ ~faulty /\ pc # "down" /\ ~ghost /\ s[1] # "connected"
        BY <2>1, <2>2
    <2>4. s[1] \in {"status", "switched"} /\ jobs \in Seq(Jobs)
        BY <2>1, <2>3, <1>0 DEF Types
    <2>5. PICK j \in Jobs :
              /\ j = Received(s[1]) /\ j # "early"
              /\ s[1] = "status" => j = "disconnected"
        BY <2>3, <2>4 DEF Received, Jobs
    <2>6. /\ Len(jobs) \in Nat /\ Len(jobs') = Len(jobs) + 1
          /\ jobs'[Len(jobs')] = j
          /\ \A i \in 1 .. Len(jobs) : jobs'[i] = jobs[i]
        <3>1. jobs' = Append(jobs, j)
            BY <2>1, <2>3, <2>5
        <3> QED BY <3>1, <2>4, AppendProperties
    <2>7. CASE s[1] = "status"
        <3>1. jobs'[Len(jobs')] = "disconnected"
            BY <2>5, <2>6, <2>7
        <3>3. Len(jobs') \in 1 .. Len(jobs')
            BY <2>6
        <3>2. \A k \in Len(jobs') .. Len(jobs') : jobs'[k] # "early"
            BY <3>1, <2>6
        <3> QED BY <3>1, <3>2, <3>3 DEF LossFollows, NoEarly
    <2>8. CASE s[1] # "status"
        <3>1. \/ \E u \in unsent : u[1] = "status"
              \/ \E i \in 1 .. Len(jobs) : jobs[i] = "disconnected" /\ NoEarly(i)
              \/ Departing /\ NoEarly(1)
              \/ monitor = "remote" /\ pc \notin {"early", "local", "clear"} /\ NoEarly(1)
            BY <2>2, <2>3, <1>0 DEF LossFollows
        <3>2. CASE \E u \in unsent : u[1] = "status"
            <4>1. \E u \in unsent' : u[1] = "status"
                BY <3>2, <2>1, <2>8
            <4> QED BY <4>1 DEF LossFollows
        <3>3. \A i \in 1 .. Len(jobs') : NoEarly(i) => NoEarly(i)'
            BY <2>5, <2>6 DEF NoEarly
        <3>4. CASE \E i \in 1 .. Len(jobs) : jobs[i] = "disconnected" /\ NoEarly(i)
            <4>1. \E i \in 1 .. Len(jobs') : jobs'[i] = "disconnected" /\ NoEarly(i)'
                BY <3>3, <3>4, <2>6
            <4> QED BY <4>1 DEF LossFollows, NoEarly
        <3>5. CASE Departing /\ NoEarly(1)
            <4>1. Departing' /\ NoEarly(1)'
                BY <3>3, <3>5, <2>2, <2>6 DEF Departing
            <4> QED BY <4>1 DEF LossFollows
        <3>6. CASE monitor = "remote" /\ pc \notin {"early", "local", "clear"} /\ NoEarly(1)
            <4>1. monitor' = "remote" /\ pc' \notin {"early", "local", "clear"} /\ NoEarly(1)'
                BY <3>3, <3>6, <2>2, <2>6
            <4> QED BY <4>1 DEF LossFollows
        <3> QED BY <3>1, <3>2, <3>4, <3>5, <3>6
    <2> QED BY <2>7, <2>8
<1>4. ASSUME Begin
      PROVE  LossFollows'
    <2> SUFFICES ASSUME setup' = "daemon", mode' = "link_state", ~active', ~faulty', ~ghost'
                 PROVE  LossFollows'
        BY DEF LossFollows
    <2>1. /\ pc = "idle" /\ jobs # <<>> /\ jobs' = Tail(jobs) /\ pc' = Head(jobs)
          /\ jobs \in Seq(Jobs)
          /\ UNCHANGED <<setup, mode, active, faulty, ghost, unsent, monitor>>
        BY <1>4, <1>0 DEF Begin, Unworked, fixed, logid, Types
    <2>2. /\ Len(jobs) \in Nat /\ Len(jobs) > 0
          /\ Head(jobs) = jobs[1] /\ Head(jobs) \in Jobs
          /\ Len(jobs') = Len(jobs) - 1
          /\ \A i \in 1 .. Len(jobs) - 1 : jobs'[i] = jobs[i + 1]
        BY <2>1, Queue
    <2>3. \/ \E u \in unsent : u[1] = "status"
          \/ \E i \in 1 .. Len(jobs) : jobs[i] = "disconnected" /\ NoEarly(i)
          \/ Departing /\ NoEarly(1)
          \/ monitor = "remote" /\ pc \notin {"early", "local", "clear"} /\ NoEarly(1)
        BY <2>1, <1>0 DEF LossFollows
    <2>4. CASE \E u \in unsent : u[1] = "status"
        BY <2>1, <2>4 DEF LossFollows
    <2>5. ASSUME NEW i \in 1 .. Len(jobs), i > 1, NoEarly(i)
          PROVE  i - 1 \in 1 .. Len(jobs') /\ NoEarly(i - 1)' /\ jobs'[i - 1] = jobs[i]
        BY <2>2, <2>5 DEF NoEarly
    <2>6. NoEarly(1) => NoEarly(1)' /\ jobs[1] # "early"
        BY <2>2 DEF NoEarly
    <2>7. CASE \E i \in 1 .. Len(jobs) : jobs[i] = "disconnected" /\ NoEarly(i)
        <3>1. PICK i \in 1 .. Len(jobs) : jobs[i] = "disconnected" /\ NoEarly(i)
            BY <2>7
        <3>2. CASE i = 1
            <4>1. pc' = "disconnected" /\ NoEarly(1)'
                BY <3>1, <3>2, <2>1, <2>2, <2>6
            <4> QED BY <4>1 DEF LossFollows, Departing
        <3>3. CASE i # 1
            <4>1. i - 1 \in 1 .. Len(jobs') /\ NoEarly(i - 1)' /\ jobs'[i - 1] = "disconnected"
                BY <3>1, <3>3, <2>5
            <4>2. \E k \in 1 .. Len(jobs') : jobs'[k] = "disconnected" /\ NoEarly(k)'
                BY <4>1
            <4> QED BY <4>2 DEF LossFollows, NoEarly
        <3> QED BY <3>2, <3>3
    <2>8. CASE monitor = "remote" /\ NoEarly(1)
        <3>1. monitor' = "remote" /\ NoEarly(1)' /\ pc' \notin {"early", "local", "clear"}
            BY <2>1, <2>2, <2>6, <2>8 DEF Jobs
        <3> QED BY <3>1 DEF LossFollows
    <2> QED BY <2>1, <2>3, <2>4, <2>7, <2>8 DEF Departing
<1>5. ASSUME Switched
      PROVE  LossFollows'
    BY <1>0, <1>5, FirstSteps DEF LossFollows, NoEarly, Departing, Steps, Types, TypeOK, Jobs, Switched, Departs, Goto, Done, Unworked, fixed, user, logid, worker, history
<1>6. ASSUME Disconnected
      PROVE  LossFollows'
    BY <1>0, <1>6, FirstSteps DEF LossFollows, NoEarly, Departing, Steps, Types, TypeOK, Jobs, Disconnected, Departs, Goto, Done, Unworked, fixed, user, logid, worker, history
<1>7. ASSUME Connected
      PROVE  LossFollows'
    BY <1>0, <1>7, FirstSteps DEF LossFollows, NoEarly, Departing, Steps, Types, TypeOK, Jobs, Connected, Returns, Goto, Done, Unworked, fixed, user, logid, worker, history
<1>8. ASSUME KeyboardHost
      PROVE  LossFollows'
    BY <1>0, <1>8, FirstSteps DEF LossFollows, NoEarly, Departing, Steps, Types, TypeOK, Jobs, KeyboardHost, Fails, Goto, Done, Unworked, fixed, user, logid, worker, history
<1>9. ASSUME Save
      PROVE  LossFollows'
    BY <1>0, <1>9, AfterIs DEF LossFollows, NoEarly, Departing, Steps, Types, TypeOK, Jobs, Save, Proceed, Goto, Done, Unworked, fixed, user, logid, worker, history
<1>10. ASSUME SendMouse
      PROVE  LossFollows'
    BY <1>0, <1>10, AfterIs DEF LossFollows, NoEarly, Departing, Steps, Types, TypeOK, Jobs, SendMouse, Proceed, Goto, Done, Unworked, fixed, user, logid, worker, history
<1>11. ASSUME SetInput
      PROVE  LossFollows'
    BY <1>0, <1>11, AfterIs DEF LossFollows, NoEarly, Departing, Steps, Types, TypeOK, Jobs, SetInput, Proceed, Fails, Goto, Done, Unworked, fixed, user, logid, worker, history
<1>12. ASSUME Tick
      PROVE  LossFollows'
    BY <1>0, <1>12 DEF LossFollows, NoEarly, Departing, Steps, Types, TypeOK, Jobs, Tick, Unworked, fixed, user, logid, worker, history
<1>13. ASSUME Kill
      PROVE  LossFollows'
    BY <1>0, <1>13 DEF LossFollows, NoEarly, Departing, Steps, Types, TypeOK, Jobs, Kill, Unworked, fixed, user, logid, worker, history
<1>14. ASSUME Restart
      PROVE  LossFollows'
    BY <1>0, <1>14 DEF LossFollows, NoEarly, Departing, Steps, Types, TypeOK, Jobs, Restart, Unworked, fixed, user, logid, worker, history
<1> QED BY <1>1, <1>2, <1>3, <1>4, <1>5, <1>6, <1>7, <1>8, <1>9, <1>10, <1>11, <1>12, <1>13, <1>14 DEF Next, Work

\* Every step keeps a switched host on its way to the monitor.
LEMMA SwitchFollowsNext ==
    ASSUME IInv, Next
    PROVE  SwitchFollows'
<1>0. Types /\ Steps /\ Persisted /\ HooksFollow /\ LossFollows /\ SwitchFollows
    BY DEF IInv
<1>1. ASSUME NEW place \in {"local", "remote", "off"}, Move(place)
      PROVE  SwitchFollows'
    <2> SUFFICES ASSUME mode = "host_event", ~faulty
                 PROVE  SwitchFollows'
        BY <1>1 DEF SwitchFollows, Move, fixed, history
    <2>1. /\ UNCHANGED <<mode, faulty, away, pc, monitor, jobs>>
          /\ setup = "daemon"
        BY <1>0, <1>1 DEF Move, fixed, history, worker, Types
    <2>2. CASE keyboard = "local" /\ place = "remote"
        <3>1. unsent' = unsent \cup {<<"switched", moves>>}
            BY <1>1, <2>1, <2>2 DEF Move
        <3>2. <<"switched", moves>> \in unsent' /\ <<"switched", moves>>[1] = "switched"
            BY <3>1
        <3>3. \E s \in unsent' : s[1] = "switched"
            BY <3>2
        <3> QED BY <3>3, <2>1, <1>0 DEF SwitchFollows
    <2>3. CASE ~(keyboard = "local" /\ place = "remote")
        <3>1. expected' = "local" \/ expected' = expected
            BY <1>1, <2>3 DEF Move
        <3>2. \A s \in unsent : s \in unsent'
            BY <1>1 DEF Move
        <3> QED BY <3>1, <3>2, <2>1, <1>0 DEF SwitchFollows
    <2> QED BY <2>2, <2>3
<1>2. ASSUME LinkNoticed
      PROVE  SwitchFollows'
    BY <1>0, <1>2 DEF SwitchFollows, Steps, Types, TypeOK, Jobs, LinkNoticed, Unworked, fixed, user, logid, worker, history
<1>3. ASSUME Emit
      PROVE  SwitchFollows'
    BY <1>0, <1>3 DEF SwitchFollows, Steps, Types, TypeOK, Jobs, Emit, Received, Unworked, fixed, user, logid, worker, history
<1>4. ASSUME Begin
      PROVE  SwitchFollows'
    BY <1>0, <1>4 DEF SwitchFollows, Steps, Types, TypeOK, Jobs, Begin, Unworked, fixed, user, logid, worker, history
<1>5. ASSUME Switched
      PROVE  SwitchFollows'
    BY <1>0, <1>5, FirstSteps DEF SwitchFollows, Steps, Types, TypeOK, Jobs, Switched, Departs, Goto, Done, Unworked, fixed, user, logid, worker, history
<1>6. ASSUME Disconnected
      PROVE  SwitchFollows'
    BY <1>0, <1>6, FirstSteps DEF SwitchFollows, Steps, Types, TypeOK, Jobs, Disconnected, Departs, Goto, Done, Unworked, fixed, user, logid, worker, history
<1>7. ASSUME Connected
      PROVE  SwitchFollows'
    BY <1>0, <1>7, FirstSteps DEF SwitchFollows, Steps, Types, TypeOK, Jobs, Connected, Returns, Goto, Done, Unworked, fixed, user, logid, worker, history
<1>8. ASSUME KeyboardHost
      PROVE  SwitchFollows'
    BY <1>0, <1>8, FirstSteps DEF SwitchFollows, Steps, Types, TypeOK, Jobs, KeyboardHost, Fails, Goto, Done, Unworked, fixed, user, logid, worker, history
<1>9. ASSUME Save
      PROVE  SwitchFollows'
    BY <1>0, <1>9, AfterIs DEF SwitchFollows, Steps, Types, TypeOK, Jobs, Save, Proceed, Goto, Done, Unworked, fixed, user, logid, worker, history
<1>10. ASSUME SendMouse
      PROVE  SwitchFollows'
    BY <1>0, <1>10, AfterIs DEF SwitchFollows, Steps, Types, TypeOK, Jobs, SendMouse, Proceed, Goto, Done, Unworked, fixed, user, logid, worker, history
<1>11. ASSUME SetInput
      PROVE  SwitchFollows'
    BY <1>0, <1>11, AfterIs DEF SwitchFollows, Steps, Types, TypeOK, Jobs, SetInput, Proceed, Fails, Goto, Done, Unworked, fixed, user, logid, worker, history
<1>12. ASSUME Tick
      PROVE  SwitchFollows'
    BY <1>0, <1>12 DEF SwitchFollows, Steps, Types, TypeOK, Jobs, Tick, Unworked, fixed, user, logid, worker, history
<1>13. ASSUME Kill
      PROVE  SwitchFollows'
    BY <1>0, <1>13 DEF SwitchFollows, Steps, Types, TypeOK, Jobs, Kill, Unworked, fixed, user, logid, worker, history
<1>14. ASSUME Restart
      PROVE  SwitchFollows'
    BY <1>0, <1>14 DEF SwitchFollows, Steps, Types, TypeOK, Jobs, Restart, Unworked, fixed, user, logid, worker, history
<1> QED BY <1>1, <1>2, <1>3, <1>4, <1>5, <1>6, <1>7, <1>8, <1>9, <1>10, <1>11, <1>12, <1>13, <1>14 DEF Next, Work

\* Every step keeps the invariant.
LEMMA NextIInv == IInv /\ [Next]_vars => IInv'
<1>1. ASSUME IInv, Next
      PROVE  IInv'
    BY <1>1, TypesNext, StepsNext, PersistedNext, HooksFollowNext, LossFollowsNext, SwitchFollowsNext
    DEF IInv
<1>2. ASSUME IInv, UNCHANGED vars
      PROVE  IInv'
    BY <1>2 DEF vars, fixed, user, logid, worker, history, IInv, Types, TypeOK, Modes, Jobs, Steps,
       Persisted, RemoteIsPersisted, HooksFollow, Departing, Returning, LossFollows, NoEarly, SwitchFollows
<1> QED BY <1>1, <1>2

\* IInv is an invariant of the switching of hosts.
THEOREM HostsInvariance == Spec => []IInv
BY InitIInv, NextIInv, PTL DEF Spec

\* What the script owes a switch away is kept (HostSwitch.tla), however often the
\* keyboard moves, requests fail and the daemon is killed.
THEOREM DeparturesAreKept == Spec => []DepartureIsKept
<1>1. IInv => DepartureIsKept
    BY DEF IInv, DepartureIsKept, Settled, Types, TypeOK, Persisted, RemoteIsPersisted, HooksFollow,
       LossFollows, SwitchFollows, Modes, Departing, Returning
<1> QED BY <1>1, HostsInvariance, PTL

(***************************************************************************)
(* Device nodes.                                                           *)
(***************************************************************************)

Shelves == {"receivers", "devices"}
Objects == Shelves \X Nat \X Nat
Stages == {"idle", "open", "probe", "make", "init", "insert", "remove"}
Known == {"make", "init", "insert"}

\* The types; a worker has opened a device from its first probe on, and has a
\* nickname while it makes an object.
PlugTypes ==
    /\ HotplugTypeOK
    /\ kind \in [1 .. MaxPlugs -> Kinds]
    /\ plugged # None => plugged = plugs /\ plugs > 0
    /\ tasks \in Seq({"add", "remove"})
    /\ dev \in [Workers -> 1 .. plugs \cup {None}]
    /\ role \in [Workers -> Kinds]
    /\ nick \in [Workers -> Nat \cup {None}]
    /\ \A w \in Workers :
          /\ stage[w] \in Known => dev[w] \in 1 .. plugs
          /\ nick[w] # None <=> stage[w] \in {"init", "insert"}
    /\ manager \in [Shelves -> Objects \cup {None}]
    /\ crossed \in BOOLEAN

\* udev's events alternate, up to what is plugged in.
Alternate ==
    \A i \in 1 .. Len(tasks) :
        tasks[i] = IF (Len(tasks) - i) % 2 = 0 <=> plugged = None THEN "remove" ELSE "add"

\* What was announced is what is mapped, each by its kind.
MappedIsAnnounced ==
    ~crossed =>
        /\ announced = {manager[s] : s \in Shelves} \ {None}
        /\ \A s \in Shelves : manager[s] # None =>
              /\ manager[s][2] \in 1 .. plugs
              /\ kind[manager[s][2]] # "ignored"
              /\ s = Shelf(kind[manager[s][2]])
        /\ \A w \in Workers : stage[w] \in Known =>
              role[w] = kind[dev[w]] /\ role[w] # "ignored"

\* The events and the tasks that will remove something.
Removing == {w \in Workers : stage[w] = "remove"}
Coming == IF plugged = None THEN (Len(tasks) + 1) \div 2 ELSE Len(tasks) \div 2
Removals == Cardinality(Removing) + Coming

\* The devices that are gone, and are mapped or about to be.
Mapped(d) == \E s \in Shelves : manager[s] # None /\ manager[s][2] = d
Inserting(d) == \E w \in Workers : stage[w] = "insert" /\ dev[w] = d
Stale == {d \in 1 .. plugs : d # plugged /\ (Mapped(d) \/ Inserting(d))}
StaleAreRemoved == ~crossed => Cardinality(Stale) <= Removals

\* The device that is there is mapped, or will be tried, or was given up.
Awaited ==
    \/ tasks # <<>> /\ tasks[Len(tasks)] = "add"
    \/ retries # {}
    \/ \E w \in Workers : \/ stage[w] \in {"open", "probe"}
                          \/ stage[w] \in Known /\ dev[w] = plugged
PluggedIsAwaited ==
    ~crossed /\ plugged # None /\ kind[plugged] # "ignored" =>
        Mapped(plugged) \/ plugged \in gaveUp \/ Awaited

HotplugInv ==
    /\ PlugTypes /\ Alternate /\ MappedIsAnnounced /\ StaleAreRemoved /\ PluggedIsAwaited
    /\ NicknamesAreOwn
-----------------------------------------------------------------------------

\* Every nonempty set of numbers has a least one.
LEMMA LeastNumber ==
    ASSUME NEW S \in SUBSET Nat, S # {}
    PROVE  Min(S) \in S
<1>1. PICK n \in S : \A m \in S : <<m, n>> \notin OpToRel(<, Nat)
    BY NatLessThanWellFounded, WFMin
<1>2. \A m \in S : ~(m < n)
    BY <1>1 DEF OpToRel
<1>3. \E x \in S : \A y \in S : x <= y
    BY <1>2
<1> QED BY <1>3 DEF Min

\* A finite set of numbers leaves out one.
LEMMA SomeNumberIsFree ==
    ASSUME NEW S, IsFiniteSet(S)
    PROVE  \E n \in Nat : n \notin S
<1> SUFFICES ASSUME Nat \subseteq S
             PROVE  FALSE
    OBVIOUS
<1>1. Cardinality(S) \in Nat
    BY FS_CardinalityType
<1> DEFINE c == Cardinality(S)
<1>2. Cardinality(0 .. c) = c + 1
    <2>1. 0 \in Int /\ c \in Int
        BY <1>1
    <2> HIDE DEF c
    <2>2. Cardinality(0 .. c) = IF 0 > c THEN 0 ELSE c - 0 + 1
        BY <2>1, FS_Interval
    <2> QED BY <2>2, <1>1 DEF c
<1>3. 0 .. c \in SUBSET S
    BY <1>1
<1>4. Cardinality(0 .. c) <= Cardinality(S)
    BY <1>3, FS_Subset
<1> QED BY <1>1, <1>2, <1>4

\* newDeviceNickname() returns a number that is not taken.
LEMMA NicknameIsFree ==
    ASSUME NEW S \in SUBSET Nat, IsFiniteSet(S)
    PROVE  NewNickname(S) \in Nat \ S
<1>1. CASE 0 \notin S
    BY <1>1 DEF NewNickname
<1>2. CASE 0 \in S
    <2> DEFINE free == Nat \ S
               last == {i \in S : i + 1 \notin S}
    <2>1. free \in SUBSET Nat /\ free # {}
        BY SomeNumberIsFree
    <2>2. \E n \in free : \A m \in free : n <= m
        <3>1. PICK n \in free : \A m \in free : <<m, n>> \notin OpToRel(<, Nat)
            BY <2>1, NatLessThanWellFounded, WFMin
        <3>2. \A m \in free : ~(m < n)
            BY <3>1 DEF OpToRel
        <3> QED BY <3>2
    <2>3. PICK n \in Nat \ S : \A m \in Nat \ S : n <= m
        BY <2>2
    <2>4. n - 1 \in S /\ n - 1 + 1 \notin S
        BY <2>3, <1>2
    <2>5. last # {} /\ last \in SUBSET Nat
        BY <2>4
    <2> HIDE DEF last
    <2>6. Min(last) \in last
        BY <2>5, LeastNumber
    <2>7. Min(last) \in Nat /\ Min(last) + 1 \notin S
        BY <2>6 DEF last
    <2>8. NewNickname(S) = Min(last) + 1
        BY <1>2 DEF NewNickname, last
    <2> QED BY <2>7, <2>8
<1> QED BY <1>1, <1>2

\* The nicknames in use are numbers, finitely many.
LEMMA NicknamesAreFinite ==
    ASSUME PlugTypes, NEW s \in Shelves
    PROVE  Nicknames(s) \in SUBSET Nat /\ IsFiniteSet(Nicknames(s))
<1> DEFINE making == {x \in Workers : nick[x] # None /\ Shelf(role[x]) = s}
           names == {nick[w] : w \in making}
           mapped == {o[3] : o \in {manager[s]} \ {None}}
           f == [w \in making |-> nick[w]]
<1>1. IsFiniteSet(making)
    <2>1. making \in SUBSET Workers /\ IsFiniteSet(Workers)
        BY HotplugAssumption
    <2> QED BY <2>1, FS_Subset
<1>2. f \in Surjection(making, names)
    BY DEF Surjection
<1>3. IsFiniteSet(names)
    BY <1>1, <1>2, FS_Surjection
<1>4. mapped \subseteq {manager[s][3]}
    OBVIOUS
<1>5. IsFiniteSet(names \cup {manager[s][3]})
    BY <1>3, FS_AddElement
<1>6. Nicknames(s) \in SUBSET (names \cup {manager[s][3]})
    BY <1>4 DEF Nicknames
<1>7. IsFiniteSet(Nicknames(s))
    BY <1>5, <1>6, FS_Subset
<1>8. names \subseteq Nat
    BY DEF PlugTypes
<1>9. mapped \subseteq Nat
    BY DEF PlugTypes, Objects
<1> QED BY <1>7, <1>8, <1>9 DEF Nicknames

-----------------------------------------------------------------------------

\* The invariant holds at first.
LEMMA InitPlug == HotplugInit => HotplugInv
<1> SUFFICES ASSUME HotplugInit
             PROVE  HotplugInv
    OBVIOUS
<1>0. /\ Main \in Workers /\ IsFiniteSet(Workers) /\ None \notin Nat /\ None \notin Objects
      /\ MaxTries \in Nat /\ MaxPlugs \in Nat \ {0}
    BY HotplugAssumption DEF Objects, Shelves
<1>1. tasks = <<>> \/ (tasks = <<"add">> /\ plugged # None)
    BY <1>0 DEF HotplugInit
<1>2. PlugTypes
    <2>1. tasks \in Seq({"add", "remove"})
        <3>1. <<>> \in Seq({"add", "remove"}) /\ <<"add">> \in Seq({"add", "remove"})
            OBVIOUS
        <3> QED BY <3>1, <1>1
    <2>2. HotplugTypeOK
        BY <1>0 DEF HotplugInit, HotplugTypeOK
    <2>3. /\ dev \in [Workers -> 1 .. plugs \cup {None}]
          /\ role \in [Workers -> Kinds] /\ nick \in [Workers -> Nat \cup {None}]
          /\ manager \in [Shelves -> Objects \cup {None}]
        BY DEF HotplugInit, Kinds, Shelves
    <2>4. \A w \in Workers :
              /\ stage[w] \in Known => dev[w] \in 1 .. plugs
              /\ nick[w] # None <=> stage[w] \in {"init", "insert"}
        BY DEF HotplugInit, Known
    <2>5. kind \in [1 .. MaxPlugs -> Kinds] /\ (plugged # None => plugged = plugs /\ plugs > 0)
        BY <1>0 DEF HotplugInit
    <2>6. crossed \in BOOLEAN
        BY DEF HotplugInit
    <2> QED BY <2>1, <2>2, <2>3, <2>4, <2>5, <2>6 DEF PlugTypes
<1>3. Alternate
    <2>1. CASE tasks = <<>>
        BY <2>1 DEF Alternate
    <2>2. CASE tasks = <<"add">> /\ plugged # None
        <3>1. Len(tasks) = 1 /\ tasks[1] = "add"
            BY <2>2
        <3> QED BY <3>1, <2>2 DEF Alternate
    <2> QED BY <1>1, <2>1, <2>2
<1>4. MappedIsAnnounced
    BY DEF HotplugInit, MappedIsAnnounced, Shelves, Known
<1>5. StaleAreRemoved
    <2>1. Stale = {}
        BY DEF HotplugInit, Stale, Mapped, Inserting, Shelves
    <2>2. Cardinality(Stale) = 0
        BY <2>1, FS_EmptySet
    <2>3. Removing \in SUBSET Workers
        BY DEF Removing
    <2>4. Cardinality(Removing) \in Nat
        BY <1>0, <2>3, FS_Subset, FS_CardinalityType
    <2>5. Coming \in Nat
        <3>1. Len(tasks) \in Nat
            BY <1>1
        <3> QED BY <3>1 DEF Coming
    <2> QED BY <2>2, <2>4, <2>5 DEF StaleAreRemoved, Removals
<1>6. PluggedIsAwaited
    BY <1>0 DEF HotplugInit, PluggedIsAwaited, Awaited
<1>7. NicknamesAreOwn
    BY DEF HotplugInit, NicknamesAreOwn, Shelves
<1> QED BY <1>2, <1>3, <1>4, <1>5, <1>6, <1>7 DEF HotplugInv

\* One that ends is idle, with nothing open.
LEMMA FinishIsTyped ==
    ASSUME PlugTypes, NEW w \in Workers, Finish(w),
           UNCHANGED <<plugged, kind, plugs, tasks, manager>>,
           retries' \subseteq 1 .. MaxTries, crossed' \in BOOLEAN
    PROVE  PlugTypes'
<1>1. MaxTries \in Nat
    BY HotplugAssumption
<1>2. /\ stage' \in [Workers -> Stages] /\ try' \in [Workers -> 0 .. MaxTries]
      /\ dev' \in [Workers -> 1 .. plugs' \cup {None}]
      /\ role' \in [Workers -> Kinds] /\ nick' \in [Workers -> Nat \cup {None}]
    BY <1>1 DEF PlugTypes, HotplugTypeOK, Stages, Kinds, Finish, Enter
<1>3. \A x \in Workers :
          /\ stage'[x] \in Known => dev'[x] \in 1 .. plugs'
          /\ nick'[x] # None <=> stage'[x] \in {"init", "insert"}
    BY DEF PlugTypes, HotplugTypeOK, Known, Finish, Enter
<1> QED BY <1>2, <1>3 DEF PlugTypes, HotplugTypeOK, Stages

\* One that backs off ends, or waits for its next try.
LEMMA BackOffIsTyped ==
    ASSUME PlugTypes, NEW w \in Workers, BackOff(w)
    PROVE  /\ Finish(w) /\ retries' \subseteq 1 .. MaxTries
           /\ retries' # {} \/ gaveUp' = gaveUp \cup {plugged}
           /\ gaveUp \subseteq gaveUp' /\ retries \subseteq retries'
<1>1. /\ MaxTries \in Nat /\ try[w] \in 0 .. MaxTries /\ retries \subseteq 1 .. MaxTries
    BY HotplugAssumption DEF PlugTypes, HotplugTypeOK
<1>2. CASE try[w] = MaxTries
    BY <1>1, <1>2 DEF BackOff, GiveUp, Fail
<1>3. CASE try[w] # MaxTries
    <2>1. try[w] + 1 \in 1 .. MaxTries
        BY <1>1, <1>3
    <2> QED BY <1>1, <1>3, <2>1 DEF BackOff
<1> QED BY <1>2, <1>3

\* Every step keeps the types.
LEMMA PlugTypesNext ==
    ASSUME HotplugInv, HotplugNext
    PROVE  PlugTypes'
<1>0. /\ Main \in Workers /\ IsFiniteSet(Workers) /\ None \notin Nat /\ None \notin Objects
      /\ MaxTries \in Nat /\ MaxPlugs \in Nat \ {0}
    BY HotplugAssumption DEF Objects, Shelves
<1>1. PlugTypes
    BY DEF HotplugInv
<1>2. CASE Plug
    <2>1. tasks' \in Seq({"add", "remove"})
        BY <1>1, <1>2, AppendProperties DEF Plug, PlugTypes
    <2> QED BY <2>1, <1>0, <1>1, <1>2 DEF Plug, PlugTypes, HotplugTypeOK, Known
<1>3. CASE Unplug
    <2>1. tasks' \in Seq({"add", "remove"})
        BY <1>1, <1>3, AppendProperties DEF Unplug, PlugTypes
    <2> QED BY <2>1, <1>0, <1>1, <1>3 DEF Unplug, PlugTypes, HotplugTypeOK, Known
<1>4. ASSUME NEW w \in Workers, BeginTask(w)
      PROVE  PlugTypes'
    <2>1. tasks' \in Seq({"add", "remove"}) /\ retries' \subseteq 1 .. MaxTries
        <3>1. tasks # <<>> => Tail(tasks) \in Seq({"add", "remove"})
            BY <1>1, HeadTailProperties DEF PlugTypes
        <3>2. (tasks # <<>> /\ tasks' = Tail(tasks)) \/ tasks' = tasks
            BY <1>4 DEF BeginTask
        <3>3. retries' \subseteq retries
            BY <1>4 DEF BeginTask
        <3> QED BY <3>1, <3>2, <3>3, <1>1 DEF PlugTypes, HotplugTypeOK
    <2>2. PICK step \in {"open", "remove"}, n \in 0 .. MaxTries :
              stage' = [stage EXCEPT ![w] = step] /\ try' = [try EXCEPT ![w] = n]
        <3>1. CASE tasks # <<>> /\ try' = [try EXCEPT ![w] = 0]
                   /\ stage' = [stage EXCEPT ![w] = IF Head(tasks) = "add" THEN "open" ELSE "remove"]
            <4>1. PICK step \in {"open", "remove"} :
                      step = IF Head(tasks) = "add" THEN "open" ELSE "remove"
                OBVIOUS
            <4>2. stage' = [stage EXCEPT ![w] = step] /\ 0 \in 0 .. MaxTries
                BY <1>0, <3>1, <4>1
            <4> QED BY <3>1, <4>2
        <3>2. CASE \E n \in retries : stage' = [stage EXCEPT ![w] = "open"]
                                      /\ try' = [try EXCEPT ![w] = n]
            <4>1. PICK n \in retries : /\ stage' = [stage EXCEPT ![w] = "open"]
                                       /\ try' = [try EXCEPT ![w] = n]
                BY <3>2
            <4>2. n \in 0 .. MaxTries
                BY <1>0, <1>1 DEF PlugTypes, HotplugTypeOK
            <4> QED BY <4>1, <4>2
        <3> QED BY <1>4, <3>1, <3>2 DEF BeginTask
    <2>4. /\ stage' \in [Workers -> Stages] /\ try' \in [Workers -> 0 .. MaxTries]
          /\ \A x \in Workers \ {w} : stage'[x] = stage[x]
          /\ stage[w] = "idle" /\ stage'[w] \in {"open", "remove"}
          /\ UNCHANGED <<plugged, kind, plugs, dev, role, nick, manager, crossed>>
        BY <1>1, <1>4, <2>2 DEF BeginTask, PlugTypes, HotplugTypeOK, Stages
    <2>3. \A x \in Workers :
              /\ stage'[x] \in Known => dev[x] \in 1 .. plugs
              /\ nick[x] # None <=> stage'[x] \in {"init", "insert"}
        BY <1>1, <2>4 DEF PlugTypes, Known
    <2> QED BY <1>1, <2>1, <2>4, <2>3 DEF PlugTypes, HotplugTypeOK, Stages
<1>5. ASSUME NEW w \in Workers, Open(w)
      PROVE  PlugTypes'
    <2>1. CASE plugged = None
        BY <1>1, <1>5, <2>1, FinishIsTyped DEF Open, PlugTypes, HotplugTypeOK
    <2>2. CASE plugged # None
        BY <1>0, <1>1, <1>5, <2>2 DEF Open, Enter, PlugTypes, HotplugTypeOK, Known, Kinds
    <2> QED BY <2>1, <2>2
<1>6. ASSUME NEW w \in Workers, Probe(w)
      PROVE  PlugTypes'
    <2>1. CASE Fail(w)
        BY <1>1, <1>6, <2>1, FinishIsTyped DEF Probe, Fail, PlugTypes, HotplugTypeOK
    <2>2. CASE BackOff(w)
        BY <1>1, <1>6, <2>2, FinishIsTyped, BackOffIsTyped DEF Probe, PlugTypes
    <2>3. CASE plugged # None /\ Enter(w, "make") /\ dev' = [dev EXCEPT ![w] = plugged]
               /\ role' = [role EXCEPT ![w] = kind[plugged]] /\ UNCHANGED <<retries, try, nick>>
        <3>1. plugged \in 1 .. plugs /\ kind[plugged] \in Kinds
            BY <1>0, <1>1, <2>3 DEF PlugTypes, HotplugTypeOK
        <3> QED BY <1>0, <1>1, <1>6, <2>3, <3>1 DEF Probe, Enter, PlugTypes, HotplugTypeOK, Known
    <2> QED BY <1>6, <2>1, <2>2, <2>3 DEF Probe
<1>7. ASSUME NEW w \in Workers, Make(w)
      PROVE  PlugTypes'
    <2>0. crossed' \in BOOLEAN /\ UNCHANGED <<plugged, kind, plugs, tasks, manager, announced>>
        BY <1>1, <1>7 DEF Make, PlugTypes
    <2>1. CASE Fail(w) \/ GiveUp(w)
        BY <1>1, <2>0, <2>1, FinishIsTyped DEF Fail, GiveUp, PlugTypes, HotplugTypeOK
    <2>2. CASE BackOff(w)
        BY <1>1, <2>0, <2>2, FinishIsTyped, BackOffIsTyped
    <2>3. CASE plugged # None /\ dev' = [dev EXCEPT ![w] = plugged]
               /\ nick' = [nick EXCEPT ![w] = NewNickname(Nicknames(Shelf(role[w])))]
               /\ Enter(w, "init") /\ UNCHANGED <<retries, try, role>>
        <3>1. plugged \in 1 .. plugs
            BY <1>0, <1>1, <2>3 DEF PlugTypes, HotplugTypeOK
        <3>2. PICK n : n = NewNickname(Nicknames(Shelf(role[w])))
            OBVIOUS
        <3>3. Shelf(role[w]) \in Shelves
            BY DEF Shelf, Shelves
        <3>4. n \in Nat
            BY <1>1, <3>2, <3>3, NicknamesAreFinite, NicknameIsFree
        <3>5. nick' = [nick EXCEPT ![w] = n] /\ n # None
            BY <1>0, <2>3, <3>2, <3>4
        <3> QED BY <1>0, <1>1, <2>0, <2>3, <3>1, <3>4, <3>5 DEF Enter, PlugTypes, HotplugTypeOK, Known
    <2> QED BY <1>7, <2>1, <2>2, <2>3 DEF Make, AnswerLost
<1>8. ASSUME NEW w \in Workers, InitDevice(w)
      PROVE  PlugTypes'
    <2>0. crossed' \in BOOLEAN /\ UNCHANGED <<plugged, kind, plugs, tasks, manager, announced>>
        BY <1>1, <1>8 DEF InitDevice, PlugTypes
    <2>1. CASE Fail(w) \/ GiveUp(w)
        BY <1>1, <2>0, <2>1, FinishIsTyped DEF Fail, GiveUp, PlugTypes, HotplugTypeOK
    <2>2. CASE BackOff(w)
        BY <1>1, <2>0, <2>2, FinishIsTyped, BackOffIsTyped
    <2>3. CASE Enter(w, "insert") /\ UNCHANGED <<retries, try, dev, role, nick>>
        BY <1>0, <1>1, <2>0, <2>3, <1>8 DEF InitDevice, Enter, PlugTypes, HotplugTypeOK, Known
    <2> QED BY <1>8, <2>1, <2>2, <2>3 DEF InitDevice, AnswerLost
<1>9. ASSUME NEW w \in Workers, Insert(w)
      PROVE  PlugTypes'
    <2>1. ObjectOf(w) \in Objects /\ ObjectOf(w)[1] \in Shelves
        BY <1>1, <1>9 DEF Insert, ObjectOf, PlugTypes, Known, Shelf, Shelves, Objects
    <2>2. manager' \in [Shelves -> Objects \cup {None}]
        <3>1. PICK s, o : /\ s = ObjectOf(w)[1] /\ o = ObjectOf(w)
                          /\ manager' = [manager EXCEPT ![s] = IF manager[s] = None THEN o ELSE manager[s]]
            BY <1>9 DEF Insert
        <3>2. s \in Shelves /\ o \in Objects
            BY <2>1, <3>1
        <3> QED BY <1>1, <3>1, <3>2 DEF PlugTypes
    <2>3. crossed' \in BOOLEAN /\ UNCHANGED <<plugged, kind, plugs, tasks, retries>> /\ Finish(w)
        BY <1>9 DEF Insert
    <2>4. /\ stage' \in [Workers -> Stages] /\ try' \in [Workers -> 0 .. MaxTries]
          /\ dev' \in [Workers -> 1 .. plugs' \cup {None}]
          /\ role' \in [Workers -> Kinds] /\ nick' \in [Workers -> Nat \cup {None}]
        BY <1>0, <1>1, <2>3 DEF PlugTypes, HotplugTypeOK, Stages, Kinds, Finish, Enter
    <2>5. \A x \in Workers :
              /\ stage'[x] \in Known => dev'[x] \in 1 .. plugs'
              /\ nick'[x] # None <=> stage'[x] \in {"init", "insert"}
        BY <1>1, <2>3 DEF PlugTypes, HotplugTypeOK, Known, Finish, Enter
    <2> QED BY <1>1, <2>2, <2>3, <2>4, <2>5 DEF PlugTypes, HotplugTypeOK, Stages
<1>10. ASSUME NEW w \in Workers, Remove(w)
      PROVE  PlugTypes'
    BY <1>0, <1>1, <1>10 DEF Remove, Removed, Enter, PlugTypes, HotplugTypeOK, Known, Shelves
<1> QED BY <1>2, <1>3, <1>4, <1>5, <1>6, <1>7, <1>8, <1>9, <1>10 DEF HotplugNext, Step

\* What the steps of a probing do to its worker, and to the others.
Others(w) ==
    \A x \in Workers \ {w} :
        /\ stage'[x] = stage[x] /\ dev'[x] = dev[x]
        /\ role'[x] = role[x] /\ nick'[x] = nick[x]
Ends(w) ==
    /\ stage'[w] = "idle" /\ nick'[w] = None
    /\ \/ plugged = None \/ kind[plugged] = "ignored"
       \/ retries' # {} \/ plugged \in gaveUp'
       \/ stage[w] = "init" /\ dev[w] # plugged
Opens(w) == stage[w] = "open" /\ stage'[w] = "probe" /\ nick'[w] = nick[w]
Probes(w) ==
    /\ stage[w] = "probe" /\ stage'[w] = "make" /\ nick'[w] = nick[w]
    /\ dev'[w] = plugged /\ role'[w] = kind[plugged] /\ kind[plugged] # "ignored"
Makes(w) ==
    /\ stage[w] = "make" /\ stage'[w] = "init"
    /\ crossed' \/ dev[w] = plugged
    /\ plugged # None /\ dev'[w] = plugged /\ role'[w] = role[w]
    /\ nick'[w] = NewNickname(Nicknames(Shelf(role[w])))
Inits(w) ==
    /\ stage[w] = "init" /\ stage'[w] = "insert"
    /\ dev[w] = plugged /\ dev'[w] = dev[w] /\ role'[w] = role[w] /\ nick'[w] = nick[w]

\* A worker that finishes is idle.
LEMMA FinishEnds ==
    ASSUME PlugTypes, NEW w \in Workers, Finish(w)
    PROVE  Others(w) /\ stage'[w] = "idle" /\ nick'[w] = None
BY DEF PlugTypes, HotplugTypeOK, Finish, Enter, Others

\* A step of the probing is one of these.
LEMMA ProbingSteps ==
    ASSUME PlugTypes, NEW w \in Workers, Open(w) \/ Probe(w) \/ Make(w) \/ InitDevice(w)
    PROVE  /\ UNCHANGED <<plugged, kind, plugs, tasks, manager, announced>>
           /\ retries \subseteq retries' /\ gaveUp \subseteq gaveUp'
           /\ crossed => crossed'
           /\ Others(w)
           /\ Ends(w) \/ Opens(w) \/ Probes(w) \/ Makes(w) \/ Inits(w)
           /\ stage[w] \in {"open", "probe", "make", "init"}
<1>1. CASE Open(w)
    <2>1. CASE plugged = None
        BY <1>1, <2>1, FinishEnds DEF Open, Ends
    <2>2. CASE plugged # None
        BY <1>1, <2>2 DEF Open, Enter, Opens, Others, PlugTypes, HotplugTypeOK
    <2> QED BY <1>1, <2>1, <2>2 DEF Open
<1>2. CASE Probe(w)
    <2>0. stage[w] = "probe" /\ UNCHANGED <<plugged, kind, plugs, tasks, manager, announced, crossed>>
        BY <1>2 DEF Probe
    <2>1. CASE (plugged = None \/ kind[plugged] = "ignored") /\ Fail(w) /\ UNCHANGED gaveUp
        BY <2>0, <2>1, FinishEnds DEF Fail, Ends
    <2>2. CASE BackOff(w)
        BY <2>0, <2>2, FinishEnds, BackOffIsTyped DEF Ends
    <2>3. CASE kind[plugged] # "ignored" /\ Enter(w, "make") /\ dev' = [dev EXCEPT ![w] = plugged]
               /\ role' = [role EXCEPT ![w] = kind[plugged]] /\ UNCHANGED <<retries, nick, gaveUp>>
        BY <2>0, <2>3 DEF Enter, Probes, Others, PlugTypes, HotplugTypeOK
    <2> QED BY <1>2, <2>1, <2>2, <2>3 DEF Probe
<1>3. CASE Make(w)
    <2>0. /\ stage[w] = "make" /\ UNCHANGED <<plugged, kind, plugs, tasks, manager, announced>>
          /\ crossed => crossed'
        BY <1>3 DEF Make
    <2>1. CASE plugged = None
        BY <1>3, <2>0, <2>1, FinishEnds DEF Make, Fail, Ends
    <2>2. CASE BackOff(w)
        BY <2>0, <2>2, FinishEnds, BackOffIsTyped DEF Ends
    <2>3. CASE GiveUp(w)
        BY <2>0, <2>3, FinishEnds DEF GiveUp, Fail, Ends
    <2>4. CASE plugged # None /\ dev' = [dev EXCEPT ![w] = plugged]
               /\ nick' = [nick EXCEPT ![w] = NewNickname(Nicknames(Shelf(role[w])))]
               /\ Enter(w, "init") /\ UNCHANGED <<retries, role, gaveUp>>
        <3>1. crossed' \/ dev[w] = plugged
            BY <1>3, <2>4 DEF Make
        <3>2. PICK n : n = NewNickname(Nicknames(Shelf(role[w])))
            OBVIOUS
        <3>3. nick' = [nick EXCEPT ![w] = n]
            BY <2>4, <3>2
        <3>4. Others(w) /\ nick'[w] = n /\ stage'[w] = "init" /\ dev'[w] = plugged
            BY <2>4, <3>3 DEF Enter, Others, PlugTypes, HotplugTypeOK
        <3> QED BY <2>0, <2>4, <3>1, <3>2, <3>4 DEF Makes
    <2> QED BY <1>3, <2>1, <2>2, <2>3, <2>4 DEF Make, AnswerLost
<1>4. CASE InitDevice(w)
    <2>0. stage[w] = "init" /\ UNCHANGED <<plugged, kind, plugs, tasks, manager, announced, crossed>>
        BY <1>4 DEF InitDevice
    <2>1. CASE dev[w] # plugged /\ Fail(w) /\ UNCHANGED gaveUp
        BY <2>0, <2>1, FinishEnds DEF Fail, Ends
    <2>2. CASE BackOff(w)
        BY <2>0, <2>2, FinishEnds, BackOffIsTyped DEF Ends
    <2>3. CASE GiveUp(w)
        BY <2>0, <2>3, FinishEnds DEF GiveUp, Fail, Ends
    <2>4. CASE dev[w] = plugged /\ Enter(w, "insert") /\ UNCHANGED <<retries, dev, role, nick, gaveUp>>
        BY <2>0, <2>4 DEF Enter, Inits, Others, PlugTypes, HotplugTypeOK
    <2> QED BY <1>4, <2>1, <2>2, <2>3, <2>4 DEF InitDevice, AnswerLost
<1> QED BY <1>1, <1>2, <1>3, <1>4

\* What the beginning of a task does.
LEMMA BeginSteps ==
    ASSUME PlugTypes, NEW w \in Workers, BeginTask(w)
    PROVE  /\ UNCHANGED <<plugged, kind, plugs, dev, role, nick, manager, announced, crossed, gaveUp>>
           /\ Others(w) /\ stage[w] = "idle" /\ nick[w] = None
           /\ \/ /\ tasks # <<>> /\ tasks' = Tail(tasks) /\ retries' = retries
                 /\ stage'[w] = IF Head(tasks) = "add" THEN "open" ELSE "remove"
              \/ /\ tasks' = tasks
                 /\ stage'[w] = "open"
<1>1. /\ UNCHANGED <<plugged, kind, plugs, dev, role, nick, manager, announced, crossed, gaveUp>>
      /\ stage[w] = "idle" /\ nick[w] = None
    BY DEF BeginTask, PlugTypes
<1>2. CASE tasks # <<>> /\ tasks' = Tail(tasks) /\ UNCHANGED retries
           /\ stage' = [stage EXCEPT ![w] = IF Head(tasks) = "add" THEN "open" ELSE "remove"]
    BY <1>1, <1>2 DEF Others, PlugTypes, HotplugTypeOK
<1>3. CASE stage' = [stage EXCEPT ![w] = "open"] /\ UNCHANGED tasks
    BY <1>1, <1>3 DEF Others, PlugTypes, HotplugTypeOK
<1> QED BY <1>2, <1>3 DEF BeginTask

\* What the insertion and the removal of an object do.
LEMMA InsertSteps ==
    ASSUME PlugTypes, NEW w \in Workers, Insert(w)
    PROVE  /\ UNCHANGED <<plugged, kind, plugs, tasks, retries, gaveUp>>
           /\ Others(w) /\ stage[w] = "insert" /\ stage'[w] = "idle" /\ nick'[w] = None
           /\ crossed => crossed'
           /\ ObjectOf(w) \in Objects /\ ObjectOf(w) # None
           /\ announced' = announced \cup {ObjectOf(w)}
           /\ \E s \in Shelves :
                 /\ s = Shelf(role[w])
                 /\ manager[s] = None \/ crossed'
                 /\ manager' = [manager EXCEPT ![s] = IF manager[s] = None THEN ObjectOf(w) ELSE manager[s]]
<1>1. ObjectOf(w) \in Objects /\ ObjectOf(w) # None /\ stage[w] = "insert"
    BY HotplugAssumption DEF PlugTypes, Insert, ObjectOf, Objects, Shelf, Shelves, Known
<1>2. Others(w) /\ stage'[w] = "idle" /\ nick'[w] = None
    BY FinishEnds DEF Insert
<1>3. ObjectOf(w)[1] = Shelf(role[w]) /\ Shelf(role[w]) \in Shelves
    BY DEF ObjectOf, Shelf, Shelves
<1> QED BY <1>1, <1>2, <1>3 DEF Insert

\* A removal takes what is mapped off its shelf.
LEMMA RemoveSteps ==
    ASSUME PlugTypes, NEW w \in Workers, Remove(w)
    PROVE  /\ UNCHANGED <<plugged, kind, plugs, tasks, retries, dev, role, nick, gaveUp>>
           /\ Others(w) /\ stage[w] = "remove" /\ stage'[w] = "idle" /\ nick[w] = None
           /\ crossed => crossed'
           /\ Removed \in Shelves /\ (manager[Removed] = None => \A s \in Shelves : manager[s] = None)
           /\ manager' = [manager EXCEPT ![Removed] = None]
           /\ announced' = announced \ {manager[Removed]}
           /\ ~crossed' =>
                 /\ \A x \in Workers : stage[x] = "insert" => dev[x] = plugged
                 /\ manager[Removed] # None => manager[Removed][2] # plugged
<1>1. Removed \in Shelves /\ (manager[Removed] = None => \A s \in Shelves : manager[s] = None)
    BY DEF Removed, Shelves
<1>2. Others(w) /\ stage'[w] = "idle" /\ nick[w] = None /\ stage[w] = "remove"
    BY DEF Remove, Enter, Others, PlugTypes, HotplugTypeOK
<1> QED BY <1>1, <1>2 DEF Remove

-----------------------------------------------------------------------------

\* What is left of the tasks when the first is taken.
LEMMA Tasks ==
    ASSUME PlugTypes, tasks # <<>>
    PROVE  /\ Len(tasks) \in Nat /\ Len(tasks) > 0
           /\ Head(tasks) = tasks[1] /\ Len(Tail(tasks)) = Len(tasks) - 1
           /\ \A i \in 1 .. Len(tasks) - 1 : Tail(tasks)[i] = tasks[i + 1]
<1>1. tasks \in Seq({"add", "remove"})
    BY DEF PlugTypes
<1>2. Len(tasks) \in Nat /\ Len(tasks) > 0
    BY <1>1, EmptySeq, LenProperties
<1>3. /\ Head(tasks) = tasks[1] /\ Len(Tail(tasks)) = Len(tasks) - 1
      /\ \A i \in 1 .. Len(Tail(tasks)) : Tail(tasks)[i] = tasks[i + 1]
    BY <1>1, HeadTailProperties
<1> QED BY <1>2, <1>3

\* What the tasks are when one is added.
LEMMA TaskAdded ==
    ASSUME PlugTypes, NEW e \in {"add", "remove"}, tasks' = Append(tasks, e)
    PROVE  /\ Len(tasks) \in Nat /\ Len(tasks') = Len(tasks) + 1
           /\ tasks'[Len(tasks) + 1] = e /\ tasks' # <<>>
           /\ \A i \in 1 .. Len(tasks) : tasks'[i] = tasks[i]
<1>1. tasks \in Seq({"add", "remove"})
    BY DEF PlugTypes
<1>2. Len(tasks) \in Nat
    BY <1>1, LenProperties
<1>3. /\ Len(tasks') = Len(tasks) + 1 /\ tasks'[Len(tasks) + 1] = e
      /\ \A i \in 1 .. Len(tasks) : tasks'[i] = tasks[i]
    BY <1>1, AppendProperties
<1>4. tasks' # <<>>
    BY <1>1
<1> QED BY <1>2, <1>3, <1>4

\* Every step keeps the events in turn.
LEMMA AlternateNext ==
    ASSUME HotplugInv, HotplugNext
    PROVE  Alternate'
<1>0. PlugTypes /\ Alternate /\ None \notin Nat
    BY HotplugAssumption DEF HotplugInv
<1>1. ASSUME NEW e \in {"add", "remove"}, tasks' = Append(tasks, e),
             (e = "remove") <=> plugged' = None, plugged' = None <=> plugged # None
      PROVE  Alternate'
    <2>1. /\ Len(tasks) \in Nat /\ Len(tasks') = Len(tasks) + 1
          /\ tasks'[Len(tasks) + 1] = e
          /\ \A i \in 1 .. Len(tasks) : tasks'[i] = tasks[i]
        BY <1>0, <1>1, TaskAdded
    <2> SUFFICES ASSUME NEW i \in 1 .. Len(tasks')
                 PROVE  tasks'[i] = IF (Len(tasks') - i) % 2 = 0 <=> plugged' = None THEN "remove" ELSE "add"
        BY DEF Alternate
    <2>2. CASE i = Len(tasks) + 1
        <3>1. (Len(tasks') - i) % 2 = 0
            BY <2>1, <2>2
        <3> QED BY <3>1, <2>1, <2>2, <1>1
    <2>3. CASE i # Len(tasks) + 1
        <3>1. i \in 1 .. Len(tasks)
            BY <2>1, <2>3
        <3>2. tasks'[i] = IF (Len(tasks) - i) % 2 = 0 <=> plugged = None THEN "remove" ELSE "add"
            BY <3>1, <2>1, <1>0 DEF Alternate
        <3>3. (Len(tasks') - i) % 2 = 0 <=> ~((Len(tasks) - i) % 2 = 0)
            BY <3>1, <2>1
        <3> QED BY <3>2, <3>3, <1>1
    <2> QED BY <2>2, <2>3
<1>2. CASE Plug
    BY <1>0, <1>1, <1>2 DEF Plug, PlugTypes, HotplugTypeOK
<1>3. CASE Unplug
    BY <1>0, <1>1, <1>3 DEF Unplug
<1>4. CASE UNCHANGED <<plugged, tasks>>
    BY <1>0, <1>4 DEF Alternate
<1>5. ASSUME NEW w \in Workers, BeginTask(w)
      PROVE  Alternate'
    <2>1. CASE tasks # <<>> /\ tasks' = Tail(tasks) /\ plugged' = plugged
        <3>1. /\ Len(tasks) \in Nat /\ Len(tasks) > 0
              /\ Len(tasks') = Len(tasks) - 1
              /\ \A i \in 1 .. Len(tasks) - 1 : tasks'[i] = tasks[i + 1]
            BY <2>1, <1>0, Tasks
        <3>2. ASSUME NEW i \in 1 .. Len(tasks')
              PROVE  tasks'[i] = IF (Len(tasks') - i) % 2 = 0 <=> plugged = None THEN "remove" ELSE "add"
            <4>1. i + 1 \in 1 .. Len(tasks) /\ tasks'[i] = tasks[i + 1] /\ Len(tasks') - i = Len(tasks) - (i + 1)
                BY <3>1
            <4> QED BY <4>1, <1>0 DEF Alternate
        <3> QED BY <3>2, <2>1 DEF Alternate
    <2> QED BY <2>1, <1>0, <1>4, <1>5, BeginSteps
<1>6. ASSUME NEW w \in Workers, Open(w) \/ Probe(w) \/ Make(w) \/ InitDevice(w)
      PROVE  Alternate'
    BY <1>0, <1>4, <1>6, ProbingSteps
<1>7. ASSUME NEW w \in Workers, Insert(w) \/ Remove(w)
      PROVE  Alternate'
    BY <1>0, <1>4, <1>7 DEF Insert, Remove
<1> QED BY <1>2, <1>3, <1>5, <1>6, <1>7 DEF HotplugNext, Step

\* Every step keeps what is announced to what is mapped.
LEMMA MappedIsAnnouncedNext ==
    ASSUME HotplugInv, HotplugNext
    PROVE  MappedIsAnnounced'
<1> SUFFICES ASSUME ~crossed'
             PROVE  MappedIsAnnounced'
    BY DEF MappedIsAnnounced
<1>0. PlugTypes /\ MappedIsAnnounced /\ None \notin Nat
    BY HotplugAssumption DEF HotplugInv
<1>1. CASE Plug
    BY <1>0, <1>1 DEF Plug, MappedIsAnnounced, PlugTypes, HotplugTypeOK
<1>2. CASE Unplug
    BY <1>0, <1>2 DEF Unplug, MappedIsAnnounced
<1>3. ASSUME NEW w \in Workers, BeginTask(w)
      PROVE  MappedIsAnnounced'
    <2>1. /\ UNCHANGED <<kind, plugs, dev, role, manager, announced, crossed>>
          /\ \A x \in Workers : stage'[x] \in Known => stage[x] \in Known
        BY <1>0, <1>3, BeginSteps DEF Others, Known
    <2> QED BY <2>1, <1>0 DEF MappedIsAnnounced
<1>4. ASSUME NEW w \in Workers, Open(w) \/ Probe(w) \/ Make(w) \/ InitDevice(w)
      PROVE  MappedIsAnnounced'
    <2>1. UNCHANGED <<kind, plugs, manager, announced>> /\ ~crossed /\ Others(w)
        BY <1>0, <1>4, ProbingSteps
    <2>2. stage'[w] \in Known => role'[w] = kind[dev'[w]] /\ role'[w] # "ignored"
        <3>1. Ends(w) \/ Opens(w) \/ Probes(w) \/ Makes(w) \/ Inits(w)
            BY <1>0, <1>4, ProbingSteps
        <3> QED BY <3>1, <2>1, <1>0 DEF Ends, Opens, Probes, Makes, Inits, MappedIsAnnounced, Known
    <2> QED BY <2>1, <2>2, <1>0 DEF MappedIsAnnounced, Others
<1>5. ASSUME NEW w \in Workers, Insert(w)
      PROVE  MappedIsAnnounced'
    <2>1. /\ UNCHANGED <<kind, plugs>> /\ Others(w) /\ stage[w] = "insert" /\ stage'[w] = "idle"
          /\ ~crossed /\ ObjectOf(w) # None /\ announced' = announced \cup {ObjectOf(w)}
        BY <1>0, <1>5, InsertSteps
    <2>2. PICK s \in Shelves :
              /\ s = Shelf(role[w]) /\ manager[s] = None
              /\ manager' = [manager EXCEPT ![s] = ObjectOf(w)]
        BY <1>0, <1>5, InsertSteps
    <2>3. ObjectOf(w)[2] = dev[w] /\ dev[w] \in 1 .. plugs /\ role[w] = kind[dev[w]] /\ role[w] # "ignored"
        BY <1>0, <2>1 DEF ObjectOf, PlugTypes, MappedIsAnnounced, Known
    <2>4. manager'[s] = ObjectOf(w) /\ \A t \in Shelves \ {s} : manager'[t] = manager[t]
        BY <1>0, <2>2 DEF PlugTypes
    <2>5. announced' = {manager'[t] : t \in Shelves} \ {None}
        <3>1. announced = {manager[t] : t \in Shelves} \ {None}
            BY <1>0, <2>1 DEF MappedIsAnnounced
        <3> QED BY <3>1, <2>1, <2>2, <2>4
    <2>6. \A t \in Shelves : manager'[t] # None =>
              /\ manager'[t][2] \in 1 .. plugs
              /\ kind[manager'[t][2]] # "ignored"
              /\ t = Shelf(kind[manager'[t][2]])
        BY <1>0, <2>1, <2>2, <2>3, <2>4 DEF MappedIsAnnounced
    <2>7. \A x \in Workers : stage'[x] \in Known => role'[x] = kind[dev'[x]] /\ role'[x] # "ignored"
        BY <1>0, <2>1 DEF MappedIsAnnounced, Others, Known
    <2> QED BY <2>1, <2>5, <2>6, <2>7 DEF MappedIsAnnounced
<1>6. ASSUME NEW w \in Workers, Remove(w)
      PROVE  MappedIsAnnounced'
    <2>1. /\ UNCHANGED <<kind, plugs, dev, role>> /\ Others(w) /\ stage'[w] = "idle" /\ ~crossed
          /\ Removed \in Shelves /\ manager' = [manager EXCEPT ![Removed] = None]
          /\ announced' = announced \ {manager[Removed]}
        BY <1>0, <1>6, RemoveSteps
    <2>2. PICK s \in Shelves : s = Removed
        BY <2>1
    <2>3. manager'[s] = None /\ \A t \in Shelves \ {s} : manager'[t] = manager[t]
        BY <1>0, <2>1, <2>2 DEF PlugTypes
    <2>4. \A t \in Shelves \ {s} : manager[t] # None => manager[t] # manager[s]
        BY <1>0, <2>1 DEF MappedIsAnnounced
    <2>5. announced' = {manager'[t] : t \in Shelves} \ {None}
        <3>1. announced = {manager[t] : t \in Shelves} \ {None}
            BY <1>0, <2>1 DEF MappedIsAnnounced
        <3> QED BY <3>1, <2>1, <2>2, <2>3, <2>4
    <2>6. \A t \in Shelves : manager'[t] # None =>
              /\ manager'[t][2] \in 1 .. plugs
              /\ kind[manager'[t][2]] # "ignored"
              /\ t = Shelf(kind[manager'[t][2]])
        <3>1. \A t \in Shelves : manager'[t] # None => manager'[t] = manager[t]
            BY <2>3
        <3>2. \A t \in Shelves : manager[t] # None =>
                  /\ manager[t][2] \in 1 .. plugs
                  /\ kind[manager[t][2]] # "ignored"
                  /\ t = Shelf(kind[manager[t][2]])
            BY <1>0, <2>1 DEF MappedIsAnnounced
        <3> QED BY <3>1, <3>2
    <2>7. \A x \in Workers : stage'[x] \in Known => role'[x] = kind[dev'[x]] /\ role'[x] # "ignored"
        BY <1>0, <2>1 DEF MappedIsAnnounced, Others, Known
    <2> QED BY <2>1, <2>5, <2>6, <2>7 DEF MappedIsAnnounced
<1> QED BY <1>1, <1>2, <1>3, <1>4, <1>5, <1>6 DEF HotplugNext, Step

-----------------------------------------------------------------------------

\* What is counted is finite.
LEMMA CountsAreFinite ==
    ASSUME PlugTypes
    PROVE  /\ IsFiniteSet(Stale) /\ Cardinality(Stale) \in Nat
           /\ IsFiniteSet(Removing) /\ Cardinality(Removing) \in Nat
           /\ Len(tasks) \in Nat /\ Coming \in Nat
<1>1. IsFiniteSet(Stale)
    <2>1. plugs \in Int /\ 1 \in Int
        BY HotplugAssumption DEF PlugTypes, HotplugTypeOK
    <2>2. IsFiniteSet(1 .. plugs)
        BY <2>1, FS_Interval
    <2>3. Stale \in SUBSET (1 .. plugs)
        BY DEF Stale
    <2> QED BY <2>2, <2>3, FS_Subset
<1>2. IsFiniteSet(Removing)
    <2>1. Removing \in SUBSET Workers /\ IsFiniteSet(Workers)
        BY HotplugAssumption DEF Removing
    <2> QED BY <2>1, FS_Subset
<1>3. Cardinality(Stale) \in Nat /\ Cardinality(Removing) \in Nat
    BY <1>1, <1>2, FS_CardinalityType
<1>4. Len(tasks) \in Nat
    BY LenProperties DEF PlugTypes
<1>5. Coming \in Nat
    BY <1>4 DEF Coming
<1> QED BY <1>1, <1>2, <1>3, <1>4, <1>5

\* Nothing new is stale, and nothing that removes is gone.
LEMMA NothingStale ==
    ASSUME PlugTypes, StaleAreRemoved, ~crossed, Stale' \subseteq Stale,
           Removing' = Removing, Coming' = Coming
    PROVE  StaleAreRemoved'
<1>1. Cardinality(Stale') <= Cardinality(Stale) /\ Cardinality(Stale') \in Nat
    <2>1. IsFiniteSet(Stale) /\ Stale' \in SUBSET Stale
        BY CountsAreFinite
    <2>2. IsFiniteSet(Stale') /\ Cardinality(Stale') <= Cardinality(Stale)
        BY <2>1, FS_Subset
    <2> QED BY <2>2, FS_CardinalityType
<1>2. Cardinality(Stale) <= Cardinality(Removing) + Coming
    BY DEF StaleAreRemoved, Removals
<1>3. Removals' = Cardinality(Removing) + Coming
    BY DEF Removals
<1>4. Cardinality(Removing) \in Nat /\ Coming \in Nat /\ Cardinality(Stale) \in Nat
    BY CountsAreFinite
<1> QED BY <1>1, <1>2, <1>3, <1>4 DEF StaleAreRemoved

\* Every step keeps a removal for every device that is gone.
LEMMA StaleAreRemovedNext ==
    ASSUME HotplugInv, HotplugNext
    PROVE  StaleAreRemoved'
<1> SUFFICES ASSUME ~crossed'
             PROVE  StaleAreRemoved'
    BY DEF StaleAreRemoved
<1>0. PlugTypes /\ Alternate /\ MappedIsAnnounced /\ StaleAreRemoved /\ None \notin Nat
    BY HotplugAssumption DEF HotplugInv
<1>c. /\ IsFiniteSet(Stale) /\ Cardinality(Stale) \in Nat
      /\ IsFiniteSet(Removing) /\ Cardinality(Removing) \in Nat
      /\ Len(tasks) \in Nat /\ Coming \in Nat
    BY <1>0, CountsAreFinite
<1>1. CASE Plug
    <2>1. ~crossed /\ Removing' = Removing
        BY <1>1 DEF Plug, Removing
    <2>2. Coming' = Coming
        <3>1. Len(tasks') = Len(tasks) + 1
            BY <1>0, <1>1, TaskAdded DEF Plug
        <3>2. plugged = None /\ plugged' # None
            BY <1>0, <1>1 DEF Plug, PlugTypes, HotplugTypeOK
        <3> QED BY <3>1, <3>2 DEF Coming
    <2>3. Stale' \subseteq Stale
        BY <1>0, <1>1 DEF Plug, Stale, Mapped, Inserting, PlugTypes, HotplugTypeOK
    <2> QED BY <2>1, <2>2, <2>3, <1>0, NothingStale
<1>2. CASE Unplug
    <2>1. ~crossed /\ Removing' = Removing
        BY <1>2 DEF Unplug, Removing
    <2>2. Coming' = Coming + 1
        <3>1. Len(tasks') = Len(tasks) + 1
            BY <1>0, <1>2, TaskAdded DEF Unplug
        <3>2. plugged # None /\ plugged' = None
            BY <1>2 DEF Unplug
        <3> QED BY <3>1, <3>2, <1>c DEF Coming
    <2>3. Stale' \in SUBSET (Stale \cup {plugged})
        BY <1>0, <1>2 DEF Unplug, Stale, Mapped, Inserting
    <2>4. /\ IsFiniteSet(Stale \cup {plugged})
          /\ Cardinality(Stale \cup {plugged}) = IF plugged \in Stale THEN Cardinality(Stale) ELSE Cardinality(Stale) + 1
        BY <1>c, FS_AddElement
    <2>5. Cardinality(Stale') <= Cardinality(Stale \cup {plugged})
        BY <2>3, <2>4, FS_Subset
    <2>6. Cardinality(Stale') \in Nat
        BY <2>3, <2>4, FS_Subset, FS_CardinalityType
    <2>7. Cardinality(Stale) <= Cardinality(Removing) + Coming
        BY <1>0, <2>1 DEF StaleAreRemoved, Removals
    <2>8. Removals' = Cardinality(Removing) + Coming + 1
        BY <2>1, <2>2, <1>c DEF Removals
    <2> QED BY <2>4, <2>5, <2>6, <2>7, <2>8, <1>c DEF StaleAreRemoved
<1>3. ASSUME NEW w \in Workers, BeginTask(w)
      PROVE  StaleAreRemoved'
    <2>1. /\ UNCHANGED <<plugged, kind, plugs, dev, manager, crossed>> /\ ~crossed
          /\ Others(w) /\ stage[w] = "idle"
        BY <1>0, <1>3, BeginSteps
    <2>2. stage'[w] # "insert"
        BY <1>0, <1>3, BeginSteps
    <2>3. Stale' \subseteq Stale
        BY <2>1, <2>2 DEF Stale, Mapped, Inserting, Others
    <2>4. CASE tasks' = tasks /\ stage'[w] = "open"
        <3>1. Removing' = Removing
            BY <2>1, <2>4 DEF Removing, Others
        <3>2. Coming' = Coming
            BY <2>1, <2>4 DEF Coming
        <3> QED BY <2>1, <2>3, <3>1, <3>2, <1>0, NothingStale
    <2>5. CASE /\ tasks # <<>> /\ tasks' = Tail(tasks)
               /\ stage'[w] = IF Head(tasks) = "add" THEN "open" ELSE "remove"
        <3>1. Len(tasks) > 0 /\ Head(tasks) = tasks[1] /\ Len(tasks') = Len(tasks) - 1
            BY <2>5, <1>0, Tasks
        <3>2. Head(tasks) = IF (Len(tasks) - 1) % 2 = 0 <=> plugged = None THEN "remove" ELSE "add"
            BY <3>1, <1>0, <1>c DEF Alternate
        <3>3. CASE Head(tasks) = "add"
            <4>1. Removing' = Removing
                BY <2>1, <2>5, <3>3 DEF Removing, Others
            <4>2. ~((Len(tasks) - 1) % 2 = 0 <=> plugged = None)
                BY <3>2, <3>3
            <4>3. Coming' = Coming
                BY <2>1, <3>1, <4>2, <1>c DEF Coming
            <4> QED BY <2>1, <2>3, <4>1, <4>3, <1>0, NothingStale
        <3>4. CASE Head(tasks) = "remove"
            <4>1. Removing' = Removing \cup {w} /\ w \notin Removing
                BY <2>1, <2>5, <3>4 DEF Removing, Others
            <4>2. (Len(tasks) - 1) % 2 = 0 <=> plugged = None
                BY <3>2, <3>4
            <4>3. Coming' = Coming - 1
                BY <2>1, <3>1, <4>2, <1>c DEF Coming
            <4>4. Cardinality(Removing') = Cardinality(Removing) + 1
                BY <4>1, <1>c, FS_AddElement
            <4>5. Cardinality(Stale') <= Cardinality(Stale)
                BY <2>3, <1>c, FS_Subset
            <4>6. Cardinality(Stale) <= Cardinality(Removing) + Coming
                BY <1>0, <2>1 DEF StaleAreRemoved, Removals
            <4>7. Cardinality(Stale') \in Nat
                BY <2>3, <1>c, FS_Subset, FS_CardinalityType
            <4> QED BY <4>3, <4>4, <4>5, <4>6, <4>7, <1>c DEF StaleAreRemoved, Removals
        <3> QED BY <3>2, <3>3, <3>4
    <2> QED BY <2>4, <2>5, <1>0, <1>3, BeginSteps
<1>4. ASSUME NEW w \in Workers, Open(w) \/ Probe(w) \/ Make(w) \/ InitDevice(w)
      PROVE  StaleAreRemoved'
    <2>1. UNCHANGED <<plugged, plugs, tasks, manager>> /\ ~crossed /\ Others(w)
        BY <1>0, <1>4, ProbingSteps
    <2>2. stage[w] \notin {"remove", "insert"} /\ stage'[w] # "remove" /\ (stage'[w] = "insert" => dev'[w] = plugged)
        <3>1. /\ Ends(w) \/ Opens(w) \/ Probes(w) \/ Makes(w) \/ Inits(w)
              /\ stage[w] \in {"open", "probe", "make", "init"}
            BY <1>0, <1>4, ProbingSteps
        <3> QED BY <3>1 DEF Ends, Opens, Probes, Makes, Inits
    <2>3. Stale' \subseteq Stale
        BY <2>1, <2>2 DEF Stale, Mapped, Inserting, Others
    <2>4. Removing' = Removing
        BY <2>1, <2>2 DEF Removing, Others
    <2>5. Coming' = Coming
        BY <2>1 DEF Coming
    <2> QED BY <2>1, <2>3, <2>4, <2>5, <1>0, NothingStale
<1>5. ASSUME NEW w \in Workers, Insert(w)
      PROVE  StaleAreRemoved'
    <2>1. /\ UNCHANGED <<plugged, plugs, tasks>> /\ Others(w) /\ stage[w] = "insert" /\ stage'[w] = "idle"
          /\ ~crossed /\ ObjectOf(w)[2] = dev[w]
        BY <1>0, <1>5, InsertSteps DEF ObjectOf
    <2>2. PICK s \in Shelves : manager' = [manager EXCEPT ![s] = ObjectOf(w)]
        BY <1>0, <1>5, InsertSteps
    <2>3. \A d : Mapped(d)' => Mapped(d) \/ d = dev[w]
        BY <1>0, <2>1, <2>2 DEF Mapped, PlugTypes
    <2>4. \A d : Inserting(d)' => Inserting(d)
        BY <2>1 DEF Inserting, Others
    <2>5. Inserting(dev[w])
        BY <2>1 DEF Inserting
    <2>6. Stale' \subseteq Stale
        BY <2>1, <2>3, <2>4, <2>5 DEF Stale
    <2>7. Removing' = Removing
        BY <2>1 DEF Removing, Others
    <2>8. Coming' = Coming
        BY <2>1 DEF Coming
    <2> QED BY <2>1, <2>6, <2>7, <2>8, <1>0, NothingStale
<1>6. ASSUME NEW w \in Workers, Remove(w)
      PROVE  StaleAreRemoved'
    <2>1. /\ UNCHANGED <<plugged, kind, plugs, tasks, dev>> /\ Others(w)
          /\ stage[w] = "remove" /\ stage'[w] = "idle" /\ ~crossed
          /\ Removed \in Shelves /\ manager' = [manager EXCEPT ![Removed] = None]
          /\ manager[Removed] = None => \A s \in Shelves : manager[s] = None
          /\ \A x \in Workers : stage[x] = "insert" => dev[x] = plugged
          /\ manager[Removed] # None => manager[Removed][2] # plugged
        BY <1>0, <1>6, RemoveSteps
    <2>2. PICK s \in Shelves : s = Removed
        BY <2>1
    <2>3. manager'[s] = None /\ \A t \in Shelves \ {s} : manager'[t] = manager[t]
        BY <1>0, <2>1, <2>2 DEF PlugTypes
    <2>4. \A d : Inserting(d)' => d = plugged
        BY <2>1 DEF Inserting, Others
    <2>5. Removing' = Removing \ {w} /\ w \in Removing /\ Coming' = Coming
        BY <2>1 DEF Removing, Others, Coming
    <2>6. Cardinality(Removing') = Cardinality(Removing) - 1
        BY <2>5, <1>c, FS_RemoveElement
    <2>7. Removals' = Cardinality(Removing) - 1 + Coming
        BY <2>5, <2>6 DEF Removals
    <2>8. Cardinality(Stale) <= Cardinality(Removing) + Coming
        BY <1>0, <2>1 DEF StaleAreRemoved, Removals
    <2>9. CASE manager[s] = None
        <3>1. Stale' = {}
            BY <2>1, <2>2, <2>3, <2>4, <2>9 DEF Stale, Mapped
        <3>2. Cardinality(Stale') = 0
            BY <3>1, FS_EmptySet
        <3>3. Cardinality(Removing') \in Nat
            BY <2>5, <1>c, FS_RemoveElement, FS_CardinalityType
        <3> QED BY <3>2, <3>3, <2>6, <2>7, <1>c DEF StaleAreRemoved
    <2>10. CASE manager[s] # None
        <3>1. PICK d : d = manager[s][2]
            OBVIOUS
        <3>2. d \in Stale
            BY <1>0, <2>1, <2>2, <2>10, <3>1 DEF Stale, Mapped, MappedIsAnnounced
        <3>3. \A t \in Shelves \ {s} : manager[t] # None => manager[t][2] # d
            BY <1>0, <2>1, <2>10, <3>1 DEF MappedIsAnnounced
        <3>4. Stale' \in SUBSET (Stale \ {d})
            BY <2>1, <2>3, <2>4, <3>3 DEF Stale, Mapped
        <3>5. IsFiniteSet(Stale \ {d}) /\ Cardinality(Stale \ {d}) = Cardinality(Stale) - 1
            BY <3>2, <1>c, FS_RemoveElement
        <3>6. Cardinality(Stale') <= Cardinality(Stale) - 1 /\ Cardinality(Stale') \in Nat
            BY <3>4, <3>5, FS_Subset, FS_CardinalityType
        <3> QED BY <3>6, <2>7, <2>8, <1>c DEF StaleAreRemoved
    <2> QED BY <2>9, <2>10
<1> QED BY <1>1, <1>2, <1>3, <1>4, <1>5, <1>6 DEF HotplugNext, Step

\* Every step keeps the device that is there awaited, mapped or given up.
LEMMA PluggedIsAwaitedNext ==
    ASSUME HotplugInv, HotplugNext
    PROVE  PluggedIsAwaited'
<1> SUFFICES ASSUME ~crossed', plugged' # None, kind'[plugged'] # "ignored"
             PROVE  Mapped(plugged)' \/ plugged' \in gaveUp' \/ Awaited'
    BY DEF PluggedIsAwaited
<1>0. PlugTypes /\ PluggedIsAwaited /\ MappedIsAnnounced /\ None \notin Nat
    BY HotplugAssumption DEF HotplugInv
<1>1. CASE Plug
    <2>1. tasks' # <<>> /\ tasks'[Len(tasks) + 1] = "add" /\ Len(tasks') = Len(tasks) + 1
        BY <1>0, <1>1, TaskAdded DEF Plug
    <2> QED BY <2>1 DEF Awaited
<1>2. CASE Unplug
    BY <1>2 DEF Unplug
<1>3. ASSUME NEW w \in Workers, BeginTask(w)
      PROVE  Mapped(plugged)' \/ plugged' \in gaveUp' \/ Awaited'
    <2>1. /\ UNCHANGED <<plugged, kind, dev, manager, crossed, gaveUp>>
          /\ Others(w) /\ stage[w] = "idle"
        BY <1>0, <1>3, BeginSteps
    <2>2. Mapped(plugged) \/ plugged \in gaveUp \/ Awaited
        BY <1>0, <2>1 DEF PluggedIsAwaited
    <2>3. Mapped(plugged) => Mapped(plugged)'
        BY <2>1 DEF Mapped
    <2>4. CASE stage'[w] = "open"
        BY <2>4 DEF Awaited
    <2>5. CASE /\ tasks # <<>> /\ tasks' = Tail(tasks) /\ retries' = retries
               /\ Head(tasks) # "add" /\ stage'[w] = "remove"
        <3>1. /\ Len(tasks) \in Nat /\ Len(tasks) > 0
              /\ Head(tasks) = tasks[1] /\ Len(tasks') = Len(tasks) - 1
              /\ \A i \in 1 .. Len(tasks) - 1 : tasks'[i] = tasks[i + 1]
            BY <2>5, <1>0, Tasks
        <3>2. CASE tasks[Len(tasks)] = "add"
            <4>1. Len(tasks) > 1
                BY <3>1, <3>2, <2>5
            <4>2. tasks'[Len(tasks')] = "add" /\ Len(tasks') > 0
                BY <3>1, <3>2, <4>1
            <4>3. tasks' # <<>>
                BY <4>2
            <4> QED BY <4>2, <4>3 DEF Awaited
        <3>3. CASE retries # {}
            BY <3>3, <2>5 DEF Awaited
        <3>4. ASSUME NEW x \in Workers, stage[x] \in {"open", "probe"} \/ (stage[x] \in Known /\ dev[x] = plugged)
              PROVE  Awaited'
            <4>1. x # w
                BY <2>1, <3>4 DEF Known
            <4>2. stage'[x] = stage[x] /\ dev'[x] = dev[x]
                BY <2>1, <4>1 DEF Others
            <4> QED BY <3>4, <4>2, <2>1 DEF Awaited
        <3> QED BY <2>1, <2>2, <2>3, <3>2, <3>3, <3>4 DEF Awaited
    <2> QED BY <2>4, <2>5, <1>0, <1>3, BeginSteps
<1>4. ASSUME NEW w \in Workers, Open(w) \/ Probe(w) \/ Make(w) \/ InitDevice(w)
      PROVE  Mapped(plugged)' \/ plugged' \in gaveUp' \/ Awaited'
    <2>1. /\ UNCHANGED <<plugged, kind, tasks, manager>> /\ ~crossed /\ Others(w)
          /\ retries \subseteq retries' /\ gaveUp \subseteq gaveUp'
        BY <1>0, <1>4, ProbingSteps
    <2>2. Mapped(plugged) \/ plugged \in gaveUp \/ Awaited
        BY <1>0, <2>1 DEF PluggedIsAwaited
    <2>3. Mapped(plugged) => Mapped(plugged)'
        BY <2>1 DEF Mapped
    <2>4. CASE (tasks # <<>> /\ tasks[Len(tasks)] = "add") \/ retries # {}
        BY <2>1, <2>4 DEF Awaited
    <2>5. ASSUME NEW x \in Workers, stage[x] \in {"open", "probe"} \/ (stage[x] \in Known /\ dev[x] = plugged)
          PROVE  plugged' \in gaveUp' \/ Awaited'
        <3>1. CASE x # w
            <4>1. stage'[x] = stage[x] /\ dev'[x] = dev[x]
                BY <2>1, <3>1 DEF Others
            <4> QED BY <2>5, <4>1, <2>1 DEF Awaited
        <3>2. CASE x = w
            <4>1. Ends(w) \/ Opens(w) \/ Probes(w) \/ Makes(w) \/ Inits(w)
                BY <1>0, <1>4, ProbingSteps
            <4>2. CASE Ends(w)
                BY <2>1, <2>5, <3>2, <4>2 DEF Ends, Awaited
            <4>3. CASE Opens(w) \/ Probes(w) \/ Makes(w) \/ Inits(w)
                <5>1. stage'[w] \in {"open", "probe"} \/ (stage'[w] \in Known /\ dev'[w] = plugged')
                    BY <2>1, <4>3 DEF Opens, Probes, Makes, Inits, Known
                <5> QED BY <5>1 DEF Awaited
            <4> QED BY <4>1, <4>2, <4>3
        <3> QED BY <3>1, <3>2
    <2> QED BY <2>1, <2>2, <2>3, <2>4, <2>5 DEF Awaited
<1>5. ASSUME NEW w \in Workers, Insert(w)
      PROVE  Mapped(plugged)' \/ plugged' \in gaveUp' \/ Awaited'
    <2>1. /\ UNCHANGED <<plugged, tasks, retries, gaveUp>> /\ kind' = kind
          /\ Others(w) /\ stage[w] = "insert" /\ stage'[w] = "idle"
          /\ ~crossed /\ ObjectOf(w) # None /\ ObjectOf(w)[2] = dev[w]
        BY <1>0, <1>5, InsertSteps DEF ObjectOf, Insert
    <2>2. PICK s \in Shelves : manager[s] = None /\ manager' = [manager EXCEPT ![s] = ObjectOf(w)]
        BY <1>0, <1>5, InsertSteps
    <2>3. Mapped(plugged) \/ plugged \in gaveUp \/ Awaited
        BY <1>0, <2>1 DEF PluggedIsAwaited
    <2>4. manager'[s] = ObjectOf(w) /\ \A t \in Shelves \ {s} : manager'[t] = manager[t]
        BY <1>0, <2>2 DEF PlugTypes
    <2>5. Mapped(plugged) => Mapped(plugged)'
        BY <2>1, <2>2, <2>4 DEF Mapped
    <2>6. dev[w] = plugged => Mapped(plugged)'
        BY <2>1, <2>4 DEF Mapped
    <2>7. CASE (tasks # <<>> /\ tasks[Len(tasks)] = "add") \/ retries # {}
        BY <2>1, <2>7 DEF Awaited
    <2>8. ASSUME NEW x \in Workers, stage[x] \in {"open", "probe"} \/ (stage[x] \in Known /\ dev[x] = plugged)
          PROVE  Mapped(plugged)' \/ Awaited'
        <3>1. CASE x # w
            <4>1. stage'[x] = stage[x] /\ dev'[x] = dev[x]
                BY <2>1, <3>1 DEF Others
            <4> QED BY <2>8, <4>1, <2>1 DEF Awaited
        <3>2. CASE x = w
            BY <2>1, <2>6, <2>8, <3>2
        <3> QED BY <3>1, <3>2
    <2> QED BY <2>1, <2>3, <2>5, <2>7, <2>8 DEF Awaited
<1>6. ASSUME NEW w \in Workers, Remove(w)
      PROVE  Mapped(plugged)' \/ plugged' \in gaveUp' \/ Awaited'
    <2>1. /\ UNCHANGED <<plugged, tasks, retries, dev, gaveUp>> /\ kind' = kind
          /\ Others(w) /\ stage[w] = "remove" /\ ~crossed
          /\ Removed \in Shelves /\ manager' = [manager EXCEPT ![Removed] = None]
          /\ manager[Removed] # None => manager[Removed][2] # plugged
        BY <1>0, <1>6, RemoveSteps
    <2>2. PICK s \in Shelves : s = Removed
        BY <2>1
    <2>3. \A t \in Shelves \ {s} : manager'[t] = manager[t]
        BY <1>0, <2>1, <2>2 DEF PlugTypes
    <2>4. Mapped(plugged) => Mapped(plugged)'
        BY <2>1, <2>2, <2>3 DEF Mapped
    <2>5. Mapped(plugged) \/ plugged \in gaveUp \/ Awaited
        BY <1>0, <2>1 DEF PluggedIsAwaited
    <2>6. Awaited => Awaited'
        BY <2>1 DEF Awaited, Others, Known
    <2> QED BY <2>1, <2>4, <2>5, <2>6
<1> QED BY <1>1, <1>2, <1>3, <1>4, <1>5, <1>6 DEF HotplugNext, Step

\* Every step keeps the nicknames apart.
LEMMA NicknamesAreOwnNext ==
    ASSUME HotplugInv, HotplugNext
    PROVE  NicknamesAreOwn'
<1>0. PlugTypes /\ NicknamesAreOwn /\ None \notin Nat /\ DOMAIN manager = Shelves
    BY HotplugAssumption DEF HotplugInv, PlugTypes
<1>1. ASSUME UNCHANGED <<role, nick, manager>>
      PROVE  NicknamesAreOwn'
    BY <1>0, <1>1 DEF NicknamesAreOwn
<1>2. CASE Plug \/ Unplug
    BY <1>1, <1>2 DEF Plug, Unplug
<1>3. ASSUME NEW w \in Workers, BeginTask(w)
      PROVE  NicknamesAreOwn'
    BY <1>1, <1>3 DEF BeginTask
<1>4. ASSUME NEW w \in Workers, UNCHANGED manager, Others(w), nick'[w] = None \/ Makes(w) \/ (nick'[w] = nick[w] /\ role'[w] = role[w])
      PROVE  NicknamesAreOwn'
    <2>1. CASE nick'[w] = None \/ (nick'[w] = nick[w] /\ role'[w] = role[w])
        <3>1. \A x \in Workers : nick'[x] # None => nick'[x] = nick[x] /\ role'[x] = role[x]
            BY <1>4, <2>1 DEF Others
        <3> QED BY <3>1, <1>0, <1>4 DEF NicknamesAreOwn
    <2>2. CASE Makes(w)
        <3>1. PICK n, k : n = nick'[w] /\ k = Shelf(role[w])
            OBVIOUS
        <3>2. k \in Shelves
            BY <3>1 DEF Shelf, Shelves
        <3>3. n \notin Nicknames(k)
            BY <2>2, <3>1, <3>2, <1>0, NicknamesAreFinite, NicknameIsFree DEF Makes
        <3>4. \A x \in Workers : nick[x] # None /\ Shelf(role[x]) = k => nick[x] # n
            BY <3>3 DEF Nicknames
        <3>5. manager[k] # None => manager[k][3] # n
            BY <3>3 DEF Nicknames
        <3>6. role'[w] = role[w] /\ manager' = manager
            BY <1>4, <2>2 DEF Makes
        <3>7. \A x \in Workers \ {w} : nick'[x] = nick[x] /\ role'[x] = role[x]
            BY <1>4 DEF Others
        <3>8. \A s \in Shelves :
                  /\ \A v, x \in Workers : (nick'[v] # None /\ Shelf(role'[v]) = s /\ nick'[x] # None
                        /\ Shelf(role'[x]) = s /\ nick'[v] = nick'[x]) => v = x
                  /\ \A x \in Workers : (nick'[x] # None /\ Shelf(role'[x]) = s) =>
                        (manager[s] # None => manager[s][3] # nick'[x])
            BY <1>0, <3>1, <3>4, <3>5, <3>6, <3>7 DEF NicknamesAreOwn
        <3> QED BY <1>0, <3>6, <3>8 DEF NicknamesAreOwn
    <2> QED BY <1>4, <2>1, <2>2
<1>5. ASSUME NEW w \in Workers, Open(w) \/ Probe(w) \/ Make(w) \/ InitDevice(w)
      PROVE  NicknamesAreOwn'
    <2>1. UNCHANGED manager /\ Others(w) /\ (Ends(w) \/ Opens(w) \/ Probes(w) \/ Makes(w) \/ Inits(w))
        BY <1>0, <1>5, ProbingSteps
    <2>2. Opens(w) \/ Probes(w) => nick'[w] = None
        BY <1>0 DEF Opens, Probes, PlugTypes
    <2> QED BY <2>1, <2>2, <1>4 DEF Ends, Inits
<1>6. ASSUME NEW w \in Workers, Insert(w)
      PROVE  NicknamesAreOwn'
    <2>1. /\ Others(w) /\ stage[w] = "insert" /\ nick'[w] = None /\ ObjectOf(w)[3] = nick[w]
          /\ ObjectOf(w) # None
        BY <1>0, <1>6, InsertSteps DEF ObjectOf
    <2>2. PICK k \in Shelves :
              /\ k = Shelf(role[w])
              /\ manager' = [manager EXCEPT ![k] = IF manager[k] = None THEN ObjectOf(w) ELSE manager[k]]
        BY <1>0, <1>6, InsertSteps
    <2>3. nick[w] # None
        BY <1>0, <2>1 DEF PlugTypes
    <2>4. manager'[k] \in {manager[k], ObjectOf(w)} /\ \A t \in Shelves \ {k} : manager'[t] = manager[t]
        BY <1>0, <2>2 DEF PlugTypes
    <2>5. DOMAIN manager' = Shelves
        BY <1>0, <2>2
    <2>6. \A x \in Workers : nick'[x] # None => x # w /\ nick'[x] = nick[x] /\ role'[x] = role[x]
        BY <2>1 DEF Others
    <2>7. \A s \in Shelves :
              /\ \A v, x \in Workers : (nick'[v] # None /\ Shelf(role'[v]) = s /\ nick'[x] # None
                    /\ Shelf(role'[x]) = s /\ nick'[v] = nick'[x]) => v = x
              /\ \A x \in Workers : (nick'[x] # None /\ Shelf(role'[x]) = s) =>
                    (manager'[s] # None => manager'[s][3] # nick'[x])
        BY <1>0, <2>1, <2>2, <2>3, <2>4, <2>6 DEF NicknamesAreOwn
    <2> QED BY <2>5, <2>7 DEF NicknamesAreOwn
<1>7. ASSUME NEW w \in Workers, Remove(w)
      PROVE  NicknamesAreOwn'
    <2>1. UNCHANGED <<role, nick>> /\ Removed \in Shelves /\ manager' = [manager EXCEPT ![Removed] = None]
        BY <1>0, <1>7, RemoveSteps
    <2>2. DOMAIN manager' = Shelves /\ \A s \in Shelves : manager'[s] # None => manager'[s] = manager[s]
        BY <2>1, <1>0
    <2> QED BY <1>0, <2>1, <2>2 DEF NicknamesAreOwn
<1> QED BY <1>2, <1>3, <1>5, <1>6, <1>7 DEF HotplugNext, Step

-----------------------------------------------------------------------------

\* Every step keeps the invariant.
LEMMA NextPlug == HotplugInv /\ [HotplugNext]_hotplugVars => HotplugInv'
<1>1. ASSUME HotplugInv, HotplugNext
      PROVE  HotplugInv'
    BY <1>1, PlugTypesNext, AlternateNext, MappedIsAnnouncedNext, StaleAreRemovedNext,
       PluggedIsAwaitedNext, NicknamesAreOwnNext DEF HotplugInv
<1>2. ASSUME HotplugInv, UNCHANGED hotplugVars
      PROVE  HotplugInv'
    BY <1>2 DEF hotplugVars, HotplugInv, PlugTypes, HotplugTypeOK, Alternate, MappedIsAnnounced,
       StaleAreRemoved, Removals, Coming, Removing, Stale, Mapped, Inserting, PluggedIsAwaited,
       Awaited, NicknamesAreOwn
<1> QED BY <1>1, <1>2

\* When the invariant holds, what is mapped when nothing is left to do is the
\* device that is plugged in.
LEMMA QuietIsExact ==
    ASSUME HotplugInv
    PROVE  ManagerIsExact
<1> SUFFICES ASSUME Quiet, ~crossed
             PROVE  LET mapped == {o \in {manager["receivers"], manager["devices"]} : o # None}
                        here == {o[2] : o \in mapped}
                    IN  /\ announced = mapped
                        /\ \/ here = {d \in {plugged} \ {None} : kind[d] # "ignored"}
                           \/ here = {} /\ plugged \in gaveUp
    BY DEF ManagerIsExact
<1> DEFINE mapped == {o \in {manager["receivers"], manager["devices"]} : o # None}
           here == {o[2] : o \in mapped}
<1>0. PlugTypes /\ MappedIsAnnounced /\ StaleAreRemoved /\ PluggedIsAwaited
    BY DEF HotplugInv
<1>1. announced = mapped
    BY <1>0 DEF MappedIsAnnounced, Shelves
<1>2. Stale = {}
    <2>1. Removing = {} /\ Len(tasks) = 0
        BY DEF Quiet, Removing
    <2>2. Cardinality(Removing) = 0 /\ Coming = 0
        <3>1. Cardinality(Removing) = 0
            BY <2>1, FS_EmptySet
        <3> QED BY <3>1, <2>1 DEF Coming
    <2>3. Cardinality(Stale) \in Nat /\ IsFiniteSet(Stale)
        BY <1>0, CountsAreFinite
    <2>4. Cardinality(Stale) = 0
        BY <1>0, <2>2, <2>3 DEF StaleAreRemoved, Removals
    <2> QED BY <2>3, <2>4, FS_EmptySet
<1>3. \A d \in here : d = plugged /\ kind[d] # "ignored" /\ d \in Nat
    <2> SUFFICES ASSUME NEW s \in Shelves, manager[s] # None
                 PROVE  manager[s][2] = plugged /\ kind[manager[s][2]] # "ignored" /\ manager[s][2] \in Nat
        BY DEF Shelves
    <2>1. manager[s][2] \in 1 .. plugs /\ kind[manager[s][2]] # "ignored" /\ Mapped(manager[s][2])
        BY <1>0 DEF MappedIsAnnounced, Mapped
    <2>2. manager[s][2] \in Nat
        BY <1>0 DEF PlugTypes, Objects
    <2> QED BY <2>1, <2>2, <1>2 DEF Stale
<1>4. None \notin Nat
    BY HotplugAssumption
<1>5. CASE plugged # None /\ kind[plugged] # "ignored"
    <2>1. ~Awaited
        BY DEF Quiet, Awaited, Known
    <2>2. Mapped(plugged) \/ plugged \in gaveUp
        BY <1>0, <1>5, <2>1 DEF PluggedIsAwaited
    <2>3. CASE plugged \in here
        <3>1. here = {plugged}
            BY <1>3, <2>3
        <3> QED BY <1>1, <1>5, <3>1
    <2>4. CASE plugged \notin here
        <3>1. here = {}
            BY <1>3, <2>4
        <3>2. ~Mapped(plugged)
            BY <2>4 DEF Mapped, Shelves
        <3> QED BY <1>1, <2>2, <3>1, <3>2
    <2> QED BY <2>3, <2>4
<1>6. CASE ~(plugged # None /\ kind[plugged] # "ignored")
    <2>1. here = {}
        BY <1>3, <1>4, <1>6
    <2> QED BY <1>1, <1>6, <2>1
<1> QED BY <1>5, <1>6

\* HotplugInv is an invariant of the coming and going of a device.
THEOREM HotplugInvariance == HotplugSpec => []HotplugInv
BY InitPlug, NextPlug, PTL DEF HotplugSpec

\* The manager has what is plugged in when nothing is left to do, and two live
\* objects of a kind never have one nickname.
THEOREM ManagerIsRight == HotplugSpec => []ManagerAgrees
<1>1. HotplugInv => ManagerAgrees
    BY QuietIsExact DEF HotplugInv, PlugTypes, ManagerAgrees
<1> QED BY <1>1, HotplugInvariance, PTL
=============================================================================
