------------------------------- MODULE Actions -------------------------------
(***************************************************************************)
(* A button's action that leaves its work to a task or to a process        *)
(* (actions/Action.cpp, ChangeHostAction.cpp, CycleDPI.cpp,                *)
(* ChangeProfile.cpp, CommandAction.cpp), while the IPC interface changes  *)
(* what the action does, or replaces it (RemapButton.cpp 323-340), and a   *)
(* change of profile replaces it too (293-298).                            *)
(*                                                                         *)
(* An action has a reference to its part of the profile, which its setters *)
(* change.  Its tasks have a weak pointer to it.  Buttons.tla has the      *)
(* locks of this and the diversion that goes with it.                      *)
(***************************************************************************)
EXTENDS Integers, Sequences

CONSTANTS
    Unset, None,
    Count,              \* hosts of the device
    Profiles,           \* the names of profiles at the start
    MaxReports, MaxSets, MaxFailures

VARIABLES
    config,         \* profile -> the type and the value of the button's action
    active,         \* Device::_profile_name
    action,         \* Button::_action: its identity and _pressed, or None
    made,           \* actions made so far
    held, known,    \* the button is down; it is in _pressed_buttons
    tasks,          \* those of the worker pool
    here, at,       \* this computer's host; where the device is
    asked,          \* release or press -> what was asked for by it (history)
    by,             \* the action that was pressed (history)
    late,           \* tasks whose action was replaced before they began (history)
    done,           \* for each, what was done (history)
    spare

vars == <<config, active, action, made, held, known, tasks, here, at, asked,
          by, late, done, spare>>
buttonVars == <<config, active, action, made>>

Is(type, value) == [type |-> type, value |-> value]
Default == Is("Default", Unset)
Number == [d \in {"0", "1", "3", "4"} |-> CASE d = "0" -> 0 [] d = "1" -> 1 [] d = "3" -> 3 [] OTHER -> 4]
\* Values of the types; those of the setters.
Values == [ChangeHost |-> {"next", "prev", "other"} \cup DOMAIN Number, CycleDPI |-> {"empty", "some"},
           ChangeProfile |-> Profiles, Command |-> {"run"}, None |-> {}]
Settable == [Values EXCEPT !.ChangeHost = @ \ {"other"}, !.ChangeProfile = @ \cup {""},
                           !.Command = @ \cup {Unset}]
Types == DOMAIN Values
ActionsAssumption ==
    /\ Count \in 1..255 /\ MaxReports \in Nat
    /\ \A t \in Types : Unset \notin Values[t]
Configs == {Default} \cup UNION {{Is(t, v) : v \in Values[t] \cup {Unset}} : t \in Types}

\* makeAction() of configuration c.  The constructor of ChangeHost asks the device.
Fresh(c) == IF c = Default \/ (c.type = "ChangeHost" /\ at # here) THEN None
            ELSE [id |-> made, pressed |-> FALSE]

Init ==
    /\ here \in {0, Count - 1} /\ at = here
    /\ active \in Profiles
    /\ \E c \in Configs, d \in {Default, Is("ChangeHost", "next")} :
          config = [p \in Profiles |-> IF p = active THEN c ELSE d]
    /\ made = 1 /\ action = IF config[active] = Default THEN None ELSE [id |-> 0, pressed |-> FALSE]
    /\ held = FALSE /\ known = FALSE /\ tasks = {}
    /\ asked = <<>> /\ by = None /\ late = {} /\ done = <<>>
    /\ spare = [reports |-> MaxReports, sets |-> MaxSets, failures |-> MaxFailures]

Spends(what) == spare[what] > 0 /\ spare' = [spare EXCEPT ![what] = @ - 1]
Type == config[active].type
Value == config[active].value

Does(n, what) ==
    done' = [m \in DOMAIN done \cup {n} |->
                IF m # n THEN done[m]
                ELSE Append(IF n \in DOMAIN done THEN done[n] ELSE <<>>, what)]

\* run_task() of what this report asks for.
Now == spare.reports
Asks ==
    asked' = [m \in DOMAIN asked \cup {Now} |->
                 IF m # Now THEN asked[m]
                 ELSE [type |-> Type, value |-> Value, id |-> action.id, by |-> by]]
Queue(v) ==
    /\ tasks' = tasks \cup {[n |-> Now, id |-> action.id, type |-> Type, value |-> v, begun |-> FALSE]}
    /\ Asks

-----------------------------------------------------------------------------
(* The I/O thread *)

\* CycleDPI::press() acts only on a list without a DPI (line 68), and then reads
\* behind its end.  ChangeHost and ChangeProfile do nothing yet.
Press ==
    /\ ~held /\ held' = TRUE /\ known' = TRUE /\ Spends("reports")
    /\ IF known \/ action = None THEN UNCHANGED <<action, tasks, asked, by>>
       ELSE /\ action' = [action EXCEPT !.pressed = Type \in {"Command", "CycleDPI", "None"}]
            /\ by' = action.id
            /\ IF Type = "CycleDPI" /\ Value = "empty" THEN \E dpi \in {"0", "400"} : Queue(dpi)
               ELSE UNCHANGED <<tasks, asked>>
    /\ UNCHANGED <<config, active, made, here, at, late, done>>

\* CommandAction::release
Executes == action.pressed /\ Value # Unset

\* posix_spawnp(), and a thread that waits for the process.
Execute ==
    \/ Does(Now, Value) /\ Asks
    \/ UNCHANGED <<done, asked>>                \* it cannot be spawned

Release ==
    /\ held /\ held' = FALSE /\ known' = FALSE /\ Spends("reports")
    /\ action' = IF action # None /\ Type \in {"Command", "CycleDPI", "None"}
                 THEN [action EXCEPT !.pressed = FALSE] ELSE action
    /\ IF action # None /\ Type = "Command" /\ Executes THEN Execute /\ UNCHANGED tasks
       ELSE /\ UNCHANGED done
            /\ IF action # None /\ Type \in {"ChangeHost", "ChangeProfile"} /\ Value # Unset
               THEN Queue(Value) ELSE UNCHANGED <<tasks, asked>>
    /\ UNCHANGED <<config, active, made, here, at, by, late>>

\* No thread can be made to wait for it: the exception leaves _pressed and
\* _pressed_buttons as they are.
ReleaseThrows ==
    /\ held /\ held' = FALSE /\ spare.reports > 0 /\ spare.failures > 0
    /\ spare' = [spare EXCEPT !.reports = @ - 1, !.failures = @ - 1]
    /\ action # None /\ Type = "Command" /\ Executes /\ Asks
    /\ Does(Now, Value)
    /\ UNCHANGED <<buttonVars, known, tasks, here, at, by, late>>

-----------------------------------------------------------------------------
(* The worker threads *)

Drop(t) == tasks' = tasks \ {t}

\* A mutant of Locked: the task owns the action, or has a plain pointer to it.
Unowned(t) == TRUE
\* self_weak.lock(); setProfileDelayed() has the Device.
Locked(t) == t.type = "ChangeProfile" \/ (action # None /\ action.id = t.id)

Begin(t) ==
    /\ ~t.begun
    /\ tasks' = (tasks \ {t}) \cup (IF Locked(t) THEN {[t EXCEPT !.begun = TRUE]} ELSE {})
    /\ UNCHANGED <<buttonVars, held, known, here, at, asked, by, late, done, spare>>

\* % of C++, and the conversion to uint8_t
Remainder(n) == IF n < 0 THEN -((-n) % Count) ELSE n % Count
NextHost(v) == CASE v = "next" -> here + 1 [] v = "prev" -> here - 1 [] v = "other" -> here
                 [] OTHER -> Number[v] - 1
\* ChangeHostAction::release, the task.  What it is told is this computer's host,
\* since it is told by a device that is here; setHost() refuses a host there is not.
ChangeHost(t) ==
    /\ t.begun /\ t.type = "ChangeHost" /\ Drop(t)
    /\ LET next_host == Remainder(NextHost(t.value))
       IN  IF at = here /\ next_host # here /\ next_host % 256 < Count
           THEN at' = next_host /\ Does(t.n, next_host)
           ELSE UNCHANGED <<at, done>>
    /\ UNCHANGED <<buttonVars, held, known, here, asked, by, late, spare>>

\* DPI::setDPI ignores 0.
CycleDPI(t) ==
    /\ t.begun /\ t.type = "CycleDPI" /\ Drop(t)
    /\ IF t.value = "0" THEN UNCHANGED done ELSE Does(t.n, t.value)
    /\ UNCHANGED <<buttonVars, held, known, here, at, asked, by, late, spare>>

\* The action goes, with its _pressed; its tasks that have not begun do nothing.
Replaces(c) ==
    /\ action' = Fresh(c) /\ made' = made + 1
    /\ late' = late \cup {t.n : t \in {u \in tasks : ~u.begun /\ u.type # "ChangeProfile"
                                                     /\ action # None /\ u.id = action.id}}

\* Device::setProfile, of which the button's part is shown.
ChangeProfile(t) ==
    /\ t.begun /\ t.type = "ChangeProfile" /\ Drop(t)
    /\ active' = t.value
    /\ config' = [p \in DOMAIN config \cup {t.value} |->
                      IF p \in DOMAIN config THEN config[p] ELSE Default]
    /\ Replaces(config'[t.value])
    /\ Does(t.n, t.value)
    /\ UNCHANGED <<held, known, here, at, asked, by, spare>>

-----------------------------------------------------------------------------
(* The IPC thread *)

\* setAction(): a type of its own, "Default", or one there is not, which leaves the
\* configuration with an action that the button no longer has.
SetAction(type) ==
    /\ Spends("sets")
    /\ IF type = "Bogus" THEN Replaces(Default) /\ UNCHANGED config
       ELSE config' = [config EXCEPT ![active] = Is(type, Unset)] /\ Replaces(config'[active])
    /\ UNCHANGED <<active, held, known, tasks, here, at, asked, by, done>>

\* setHost, setDPIs, setProfile, setCommand.  "" empties a name that is there,
\* which is one; where there is none it writes to storage that is no name, of which
\* the outcome that changes nothing is shown.
SetValue(v) ==
    /\ Spends("sets") /\ action # None /\ v \in Settable[Type]
    /\ config' = IF v = "" /\ Value = Unset THEN config ELSE [config EXCEPT ![active].value = v]
    /\ UNCHANGED <<active, action, made, held, known, tasks, here, at, asked, by, late, done>>

-----------------------------------------------------------------------------
DeviceReturns ==
    /\ at # here /\ at' = here
    /\ UNCHANGED <<buttonVars, held, known, tasks, here, asked, by, late, done, spare>>

Next ==
    \/ Press \/ Release \/ ReleaseThrows \/ DeviceReturns
    \/ \E t \in tasks : Begin(t) \/ ChangeHost(t) \/ CycleDPI(t) \/ ChangeProfile(t)
    \/ \E type \in Types \cup {"Default", "Bogus"} : SetAction(type)
    \/ \E v \in UNION {Settable[t] : t \in Types} : SetValue(v)

Spec == Init /\ [][Next]_vars

-----------------------------------------------------------------------------
\* Where the device should go: round, but from the first host not back to the last.
Meant(v) == CASE v = "next" -> (here + 1) % Count [] v = "prev" -> here - 1
              [] OTHER -> (Number[v] - 1) % Count

\* What a press or a release asks for is done once at most, and as the action was
\* set at that moment, whatever was set, replaced or done meanwhile; nothing is
\* done for an action that was replaced first, but a change of profile; a
\* command is run only by the action that was pressed.  (CyclesItsList asks what a
\* press of CycleDPI does.)
ActsAsAsked ==
    \A n \in DOMAIN done :
        LET q == asked[n]  did == Head(done[n])
        IN  /\ Len(done[n]) = 1 /\ n \notin late /\ q.value # Unset
            /\ q.type = "ChangeHost" => did = Meant(q.value)
            /\ q.type = "ChangeProfile" => did = q.value
            /\ q.type = "Command" => did = q.value /\ q.by = q.id

\* A CycleDPI with a list of DPIs, as in logid.example.cfg 48-49 ("type:
\* "CycleDPI"; dpis: [400, 600, ..."), asks for one of them whenever its button is
\* pressed, on a device with the DPI feature.
CyclesItsList ==
    [][(Press /\ ~known /\ action # None /\ Type = "CycleDPI" /\ Value = "some")
           => asked' # asked]_vars
=============================================================================
