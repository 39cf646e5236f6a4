------------------------------ MODULE Settings ------------------------------
(***************************************************************************)
(* The profiles of a device and the features that send their settings to   *)
(* it: DPI, HiresScroll, SmartShift and ThumbWheel (features/*.cpp), with  *)
(* Device::setProfile, clearProfile, removeProfile, reconfigure (Device.cpp*)
(* 243-369), the IPC setters of the features and the actions that change a *)
(* setting behind the configuration's back.                                *)
(*                                                                         *)
(* Three threads work at once: the wakeup task, the IPC thread ("user")    *)
(* and a task a button queued ("press").  A thread has a list of jobs; a   *)
(* job is one request or two, and a request may fail (TimeoutError), which *)
(* drops the jobs that are left.  A feature's _config_mutex is held for a  *)
(* whole job; only HiresScroll's jobs take two steps, so only there does   *)
(* the lock show.  Strings and gestures are left out: a profile is a name  *)
(* and a value, or Unset, for every field.                                 *)
(***************************************************************************)
EXTENDS Integers, Sequences, Functions

CONSTANTS
    Profiles,           \* the names of profiles
    Default,            \* Config::default_profile
    None,               \* no thread
    Unset,              \* std::nullopt
    MinDPI, MaxDPI, StepDPI,   \* the range the sensor supports
    Wants,              \* the DPIs a configuration may ask for
    Equipped,           \* the features of each device that is explored
    MaxCalls, MaxFaults, MaxCycles  \* bounds: calls, failing requests, power cycles

VARIABLES
    have,        \* the features the device supports
    resets,      \* whether it has the Reset feature
    config,      \* profile |-> feature |-> field |-> value or Unset
    profile,     \* Device::_profile
    ref,         \* feature |-> the profile its _config refers to
    made,        \* HiresScroll::_mode under _mask
    device,      \* feature |-> field |-> what the device has
    jobs,        \* thread |-> what it still has to do
    read,        \* thread |-> the mode it has read, or Unset
    owner,       \* the thread that holds _profile_mutex
    due,         \* a wakeup is queued
    spoiled,     \* the settings a failure or an action left different
    torn,        \* a setProfile() failed half way
    budget       \* what is left of the bounds

vars == <<have, resets, config, profile, ref, made, device, jobs, read, owner,
          due, spoiled, torn, budget>>

Threads == {"wake", "user", "press"}
Order == <<"dpi", "hiresscroll", "smartshift", "thumbwheel">>
Features == Range(Order)
Fields == [dpi |-> {"dpi"}, hiresscroll |-> {"hires", "invert"},
           smartshift |-> {"on", "threshold"}, thumbwheel |-> {"divert", "invert"}]
Settings == UNION {{f} \X Fields[f] : f \in Features}

SettingsAssumption ==
    /\ Default \in Profiles /\ None \notin Threads
    /\ Equipped \subseteq SUBSET Features
    /\ {MinDPI, MaxDPI, StepDPI} \cup Wants \subseteq Nat /\ Unset \notin Int \cup BOOLEAN
    /\ StepDPI > 0 /\ (MaxDPI - MinDPI) % StepDPI = 0   \* cf. DPI.cpp:41

Blank == [f \in Features |-> [x \in Fields[f] |-> Unset]]
PowerOn == [dpi |-> [dpi |-> MinDPI],
            hiresscroll |-> [hires |-> FALSE, invert |-> FALSE],
            smartshift |-> [on |-> FALSE, threshold |-> 9],
            thumbwheel |-> [divert |-> FALSE, invert |-> FALSE]]

Overlay(above, below) ==
    [x \in DOMAIN below |-> IF above[x] = Unset THEN below[x] ELSE above[x]]

Supported == {MinDPI + StepDPI * k : k \in 0 .. (MaxDPI - MinDPI) \div StepDPI}
Abs(n) == IF n < 0 THEN -n ELSE n

\* getClosestDPI() of a range: the ends beyond the ends, else rounded to a step.
ClosestDPI(dpi) ==
    IF dpi > MaxDPI THEN MaxDPI
    ELSE IF dpi < MinDPI THEN MinDPI
    ELSE MinDPI + ((2 * (dpi - MinDPI) + StepDPI) \div (2 * StepDPI)) * StepDPI

\* What configure() sends for a feature whose configuration is c.
SentDPI(c) == [c EXCEPT !.dpi = IF @ \in {Unset, 0} THEN Unset ELSE ClosestDPI(@)]
SentStatus(c) == [c EXCEPT !.threshold = IF @ = 0 THEN Unset ELSE @]
SentThumb(c) == IF \A x \in DOMAIN c : c[x] = Unset THEN c
                ELSE [x \in DOMAIN c |-> c[x] = TRUE]
Sent(f, c) == CASE f = "dpi" -> SentDPI(c)
                [] f = "smartshift" -> SentStatus(c)
                [] f = "thumbwheel" -> SentThumb(c)

Configs == [dpi : [dpi : {Unset} \cup Wants],
            hiresscroll : {[hires |-> Unset, invert |-> TRUE], [hires |-> TRUE, invert |-> FALSE]},
            smartshift : {[on |-> TRUE, threshold |-> Unset], [on |-> Unset, threshold |-> 0]},
            thumbwheel : {[divert |-> TRUE, invert |-> Unset], Blank.thumbwheel}]

\* What the other profiles say at first.
Other == [Blank EXCEPT !.dpi.dpi = MaxDPI, !.hiresscroll.hires = TRUE,
                       !.smartshift.on = TRUE, !.thumbwheel.invert = TRUE]

\* Device::_init has run: the features are made and configured, hence `due'.
Init ==
    /\ have \in Equipped
    /\ resets \in BOOLEAN
    /\ \E c \in {[f \in Features |-> IF f \in have THEN d[f] ELSE Blank[f]] : d \in Configs} :
        /\ config = [p \in Profiles |-> IF p # Default THEN Other
                      ELSE [c EXCEPT !.smartshift.threshold = IF @ = 0 THEN 1 ELSE @]]
        /\ made = c.hiresscroll
    /\ profile = Default /\ ref = [f \in Features |-> Default]
    /\ device = PowerOn
    /\ jobs = [t \in Threads |-> <<>>] /\ read = [t \in Threads |-> Unset]
    /\ owner = None /\ due = TRUE /\ spoiled = {} /\ torn = FALSE
    /\ budget = [calls |-> MaxCalls, faults |-> MaxFaults, cycles |-> MaxCycles]

-----------------------------------------------------------------------------
\* What the threads are to do

\* The features of the device, in the order in which they are registered.
Adds(s, f) == IF f \in have THEN Append(s, f) ELSE s
Mine == Adds(Adds(Adds(Adds(<<>>, "dpi"), "hiresscroll"), "smartshift"), "thumbwheel")
Each(kind) == [i \in DOMAIN Mine |-> <<kind, Mine[i]>>]
Reconfigure == (IF resets THEN <<<<"reset", "">>>> ELSE <<>>) \o Each("configure")
Idle(t) == jobs[t] = <<>>
AdoptOnly == Each("adopt")     \* a mutant
ProfileJobs == Each("adopt") \o Reconfigure

Use(what) == budget[what] > 0 /\ budget' = [budget EXCEPT ![what] = @ - 1]

\* The device was switched off and on: it has forgotten everything.
PowerCycle ==
    /\ Use("cycles") /\ device' = PowerOn /\ due' = TRUE
    /\ UNCHANGED <<have, resets, config, profile, ref, made, jobs, read, owner, spoiled, torn>>

Wakeup ==
    /\ due /\ Idle("wake")
    /\ due' = FALSE /\ jobs' = [jobs EXCEPT !["wake"] = Reconfigure]
    /\ UNCHANGED <<have, resets, config, profile, ref, made, device, read, owner, spoiled, torn, budget>>

\* From the IPC interface, or from ChangeProfile in a task of its own.
SetProfile(t, p) ==
    /\ t # "wake" /\ Idle(t) /\ owner = None /\ Use("calls")
    /\ profile' = p /\ owner' = t
    /\ config' = [q \in DOMAIN config \cup {p} |->
                      IF q \in DOMAIN config THEN config[q] ELSE Blank]
    /\ jobs' = [jobs EXCEPT ![t] = ProfileJobs]
    /\ UNCHANGED <<have, resets, ref, made, device, read, due, spoiled, torn>>

ClearProfile(p) ==
    /\ Idle("user") /\ owner = None /\ Use("calls") /\ p \in DOMAIN config
    /\ config' = [config EXCEPT ![p] = Blank]
    /\ IF p = profile
       THEN owner' = "user" /\ jobs' = [jobs EXCEPT !["user"] = ProfileJobs]
       ELSE UNCHANGED <<owner, jobs>>
    /\ UNCHANGED <<have, resets, profile, ref, made, device, read, due, spoiled, torn>>

RemovableAlways(p) == p # Default     \* a mutant
Removable(p) == p # profile /\ p # Default

RemoveProfile(p) ==
    /\ Idle("user") /\ owner = None /\ Use("calls") /\ Removable(p) /\ p \in DOMAIN config
    /\ config' = Restrict(config, DOMAIN config \ {p})
    /\ UNCHANGED <<have, resets, profile, ref, made, device, jobs, read, owner, due, spoiled, torn>>

-----------------------------------------------------------------------------
\* The jobs

Job(t, kind, f) == ~Idle(t) /\ Head(jobs[t]) = <<kind, f>>
\* A thread in the middle of a job of HiresScroll holds its lock.
Holds(t, kinds) == read[t] # Unset /\ ~Idle(t) /\ Head(jobs[t])[1] \in kinds
MayShare == \A t \in Threads : ~Holds(t, {"set"})
MayChange == \A t \in Threads : ~Holds(t, {"set", "configure"})

Finish(t) ==
    /\ jobs' = [jobs EXCEPT ![t] = Tail(@)]
    /\ owner' = IF owner = t /\ Len(jobs[t]) = 1 THEN None ELSE owner

\* TimeoutError leaves the loop: nothing that was still to be done is done.
Fail(t) ==
    /\ ~Idle(t) /\ Use("faults")
    /\ Head(jobs[t]) \notin {<<"adopt", f>> : f \in Features \ {"hiresscroll"}}
    /\ Head(jobs[t])[1] # "set" \/ read[t] # Unset \/ Head(jobs[t])[2] # "hiresscroll"
    /\ torn' = (torn \/ Head(jobs[t])[1] = "adopt")
    /\ IF Head(jobs[t])[1] = "adopt"     \* _fixGesture, after the assignment
       THEN MayChange /\ ref' = [ref EXCEPT !["hiresscroll"] = profile]
            /\ made' = config[profile].hiresscroll
       ELSE UNCHANGED <<ref, made>>
    /\ spoiled' = spoiled \cup {s \in Settings : \E i \in DOMAIN jobs[t] :
                    jobs[t][i][2] = s[1] /\ jobs[t][i][1] # "adopt"}
    /\ jobs' = [jobs EXCEPT ![t] = <<>>] /\ read' = [read EXCEPT ![t] = Unset]
    /\ owner' = IF owner = t THEN None ELSE owner
    /\ UNCHANGED <<have, resets, config, profile, device, due>>

Reset(t) ==
    /\ Job(t, "reset", "") /\ device' = PowerOn /\ Finish(t)
    /\ UNCHANGED <<have, resets, config, profile, ref, made, read, due, spoiled, torn, budget>>

\* DeviceFeature::setProfile, with HiresScroll::_makeConfig
Adopt(t, f) ==
    /\ Job(t, "adopt", f) /\ (f = "hiresscroll" => MayChange)
    /\ ref' = [ref EXCEPT ![f] = profile]
    /\ made' = IF f = "hiresscroll" THEN config[profile][f] ELSE made
    /\ torn' = (torn /\ Mine[Len(Mine)] # f)
    /\ Finish(t)
    /\ UNCHANGED <<have, resets, config, profile, device, read, due, spoiled, budget>>

Write(f, settings) == device' = [device EXCEPT ![f] = Overlay(settings, @)]

Configure(t, f) ==
    /\ Job(t, "configure", f) /\ f # "hiresscroll" /\ ref[f] \in DOMAIN config
    /\ Write(f, Sent(f, config[ref[f]][f]))
    /\ spoiled' = {s \in spoiled : s[1] # f}
    /\ Finish(t)
    /\ UNCHANGED <<have, resets, config, profile, ref, made, read, due, torn, budget>>

\* HiresScroll::_configure reads the mode, then writes it with the bits of the
\* mask replaced.  ToggleHiresScroll does the same without the lock.
GetMode(t) ==
    /\ read[t] = Unset /\ ~Idle(t) /\ Head(jobs[t])[2] = "hiresscroll"
    /\ \/ Head(jobs[t])[1] = "configure" /\ MayShare
       \/ Head(jobs[t])[1] = "toggle"
    /\ read' = [read EXCEPT ![t] = device.hiresscroll]
    /\ UNCHANGED <<have, resets, config, profile, ref, made, device, jobs, owner, due, spoiled, torn, budget>>

SetMode(t) ==
    /\ read[t] # Unset /\ ~Idle(t) /\ Head(jobs[t]) \in {<<k, "hiresscroll">> : k \in {"configure", "set"}}
    /\ device' = [device EXCEPT !.hiresscroll = Overlay(made, read[t])]
    /\ spoiled' = {s \in spoiled : s[1] # "hiresscroll"}
    /\ read' = [read EXCEPT ![t] = Unset] /\ Finish(t)
    /\ UNCHANGED <<have, resets, config, profile, ref, made, due, torn, budget>>

-----------------------------------------------------------------------------
\* The IPC setters: the configuration first, then the device, under the lock

SetHires(x, b) ==
    /\ Idle("user") /\ "hiresscroll" \in have /\ MayChange /\ Use("calls")
    /\ ref["hiresscroll"] \in DOMAIN config
    /\ config' = [config EXCEPT ![ref["hiresscroll"]].hiresscroll[x] = b]
    /\ made' = [made EXCEPT ![x] = b]
    /\ jobs' = [jobs EXCEPT !["user"] = <<<<"set", "hiresscroll">>>>]
    /\ read' = [read EXCEPT !["user"] = device.hiresscroll]
    /\ UNCHANGED <<have, resets, profile, ref, device, owner, due, spoiled, torn>>

\* The value and what is sent for it: a clear of `active' sends nothing, one of
\* the threshold sends the device's default.
Setters ==
    {<<"thumbwheel", x, b, b>> : x \in Fields.thumbwheel, b \in BOOLEAN}
    \cup {<<"smartshift", "on", b, b>> : b \in BOOLEAN}
    \cup {<<"smartshift", "on", Unset, Unset>>, <<"smartshift", "threshold", 1, 1>>,
          <<"smartshift", "threshold", Unset, PowerOn.smartshift.threshold>>}
    \cup {<<"dpi", "dpi", d, IF d = 0 THEN Unset ELSE ClosestDPI(d)>> : d \in Wants}

SetField(s) ==
    LET f == s[1]  now == [config[ref[f]][f] EXCEPT ![s[2]] = s[3]]
    IN  /\ Idle("user") /\ f \in have /\ ref[f] \in DOMAIN config /\ Use("calls")
        /\ config' = [config EXCEPT ![ref[f]][f] = now]
        /\ \/ Write(f, IF f = "thumbwheel" THEN SentThumb(now)
                       ELSE [Blank[f] EXCEPT ![s[2]] = s[4]])
              /\ UNCHANGED spoiled
           \/ UNCHANGED device /\ spoiled' = spoiled \cup {<<f, x>> : x \in Fields[f]}
        /\ UNCHANGED <<have, resets, profile, ref, made, jobs, read, owner, due, torn>>

-----------------------------------------------------------------------------
\* The actions: read, change, write, without a lock or the configuration

\* CycleDPI::press does nothing for a list that is not empty (CycleDPI.cpp:68).
Press(f) ==
    /\ Idle("press") /\ f \in have \ {"thumbwheel"} /\ Use("calls")
    /\ jobs' = [jobs EXCEPT !["press"] = <<<<"toggle", f>>>>]
    /\ UNCHANGED <<have, resets, config, profile, ref, made, device, read, owner, due, spoiled, torn>>

GetStatus(f) ==
    /\ Job("press", "toggle", f) /\ read["press"] = Unset /\ f # "hiresscroll"
    /\ read' = [read EXCEPT !["press"] = device[f]]
    /\ UNCHANGED <<have, resets, config, profile, ref, made, device, jobs, owner, due, spoiled, torn, budget>>

Changed(f, was) ==
    CASE f = "hiresscroll" -> [was EXCEPT !.hires = ~@]
      [] f = "smartshift" -> [on |-> ~was.on, threshold |-> Unset]
      [] f = "dpi" -> [dpi |-> ClosestDPI(was.dpi + StepDPI)]

SetStatus(f) ==
    /\ Job("press", "toggle", f) /\ read["press"] # Unset
    /\ Write(f, Changed(f, read["press"]))
    /\ spoiled' = spoiled \cup {<<f, x>> : x \in {y \in Fields[f] : device'[f][y] # device[f][y]}}
    /\ read' = [read EXCEPT !["press"] = Unset] /\ Finish("press")
    /\ UNCHANGED <<have, resets, config, profile, ref, made, due, torn, budget>>

-----------------------------------------------------------------------------
Next ==
    \/ PowerCycle
    \/ Wakeup
    \/ \E t \in Threads : Fail(t) \/ Reset(t) \/ GetMode(t) \/ SetMode(t)
    \/ \E t \in Threads, f \in Features : Adopt(t, f) \/ Configure(t, f)
    \/ \E t \in Threads, p \in Profiles : SetProfile(t, p)
    \/ \E p \in Profiles : ClearProfile(p) \/ RemoveProfile(p)
    \/ \E x \in Fields.hiresscroll, b \in BOOLEAN : SetHires(x, b)
    \/ \E s \in Setters : SetField(s)
    \/ \E f \in Features : Press(f) \/ GetStatus(f) \/ SetStatus(f)

Spec == Init /\ [][Next]_vars

-----------------------------------------------------------------------------
Quiet == ~due /\ \A t \in Threads : Idle(t)

\* Whether the device has what configuration c asks of a field.
Obeys(f, x, c) ==
    LET want == c[f][x]  has == device[f][x]
    IN  CASE f = "dpi" ->
              want \in {Unset, 0} \/ \A d \in Supported : Abs(has - want) <= Abs(d - want)
          [] f = "thumbwheel" -> c[f] = Blank[f] \/ has = (want = TRUE)
          [] x = "threshold" -> want \in {Unset, 0, has}
          [] OTHER -> want \in {Unset, has}

\* Whatever mix of wakeups, profile changes, IPC calls and actions has run, once
\* all are over the device has every setting the active profile names, except
\* those a failed request or a button's action left different since.
SettingsApplied ==
    Quiet /\ ~torn =>
        \A f \in have : \A x \in Fields[f] :
            <<f, x>> \in spoiled \/ Obeys(f, x, config[profile])

\* No feature refers to a profile that was erased (the reference_wrapper of
\* DeviceFeature::setProfile), unless a setProfile() was cut short.
ProfilesAreAlive == torn \/ \A f \in have : ref[f] \in DOMAIN config
=============================================================================
