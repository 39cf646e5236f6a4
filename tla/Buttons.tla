------------------------------- MODULE Buttons -------------------------------
(***************************************************************************)
(* The buttons of a device: which of them are diverted to logid, which     *)
(* logid believes to be pressed, what their actions hold down in the       *)
(* virtual keyboard and touchpad (features/RemapButton.cpp, the actions    *)
(* Keypress and TouchpadGesture, InputDevice.cpp, TouchpadDevice.cpp), and *)
(* what Device.cpp does to them: sleep, wakeup, change of profile.         *)
(*                                                                         *)
(* The I/O thread handles reports; a worker runs sleep() and wakeup(), in  *)
(* the order of the link notifications (DeviceLink tells when that may     *)
(* fail); the IPC thread changes profiles and actions.  A request is one   *)
(* step; it is answered or times out.  It must time out when the caller is *)
(* the I/O thread, which delivers the replies, or holds a lock that the    *)
(* I/O thread waits for.                                                   *)
(*                                                                         *)
(* An action is the key it presses, Touch (a TouchpadGesture without a     *)
(* click), Host (ChangeHost: its constructor makes a request, and it holds *)
(* nothing down) or None (no action: the button is not diverted).          *)
(***************************************************************************)
EXTENDS Integers, Sequences

CONSTANTS
    Cids,       \* control IDs, in the order of the map of buttons
    Keys,       \* Keypress actions, each of one key
    Touch, Host, None,
    Profiles,   \* the profiles: actions of the buttons
    First,      \* the default profile
    Worker, Ipc, IO,
    Nobody,     \* the owner of a free mutex
    MaxReports, \* bound of the model on presses and releases
    MaxLosses,  \* bound of the model on losses of the link
    MaxDrops,   \* bound of the model on replies lost while the link is up
    MaxCalls    \* bound of the model on IPC calls

Actions == Keys \cup {Touch, Host, None}
Threads == {Worker, Ipc, IO}

Fingers == "fingers"

ASSUME ButtonsAssumption ==
    /\ Cids \subseteq Nat /\ Cids # {}
    /\ {Touch, Host, None, Fingers} \cap Keys = {}
    /\ Profiles \subseteq [Cids -> Actions]
    /\ First \in Profiles
    /\ Worker # Ipc /\ Worker # IO /\ Ipc # IO /\ Nobody \notin Threads
    /\ {MaxReports, MaxLosses, MaxDrops, MaxCalls} \subseteq Nat

VARIABLES
    held,       \* buttons the user holds down
    diverted,   \* buttons whose temporary diversion is set in the device
    link,       \* the device can be reached
    reports,    \* what the device and its receiver sent, oldest first
    pressed,    \* _pressed_buttons
    action,     \* Button::_action
    active,     \* Action::_pressed (TouchpadGestureAction::_touchpad_active)
    down,       \* keys that are down in the virtual keyboard
    fingers,    \* fingers are down on the virtual touchpad
    profile,    \* the active profile
    awake,      \* Device::_awake
    due,        \* calls of sleep() and wakeup() not yet begun
    pc,         \* where each thread is
    todo,       \* buttons its loop has not come to
    lock,       \* owner of _button_lock
    alive,      \* the Device holds the feature
    count,      \* how often the bounded things have happened
    missed,     \* buttons whose last setControlReporting() failed (history)
    blind,      \* buttons undiverted while down, until a report (history)
    orphans     \* what is down for an action that was replaced (history)

deviceVars == <<held, diverted, link, reports>>
outVars == <<down, fingers, orphans>>
buttonVars == <<pressed, action, active>>
threadVars == <<pc, todo, lock>>
vars == <<deviceVars, buttonVars, outVars, profile, awake, due, threadVars,
          alive, count, missed, blind>>

\* A report of the diverted buttons that are down, or a link notification.
Buttons(s) == [kind |-> "buttons", set |-> s]
LinkIs(s) == [kind |-> s, set |-> {}]

TypeOK ==
    /\ held \subseteq Cids
    /\ diverted \subseteq Cids
    /\ link \in BOOLEAN
    /\ reports \in Seq([kind : {"buttons", "sleep", "wakeup"}, set : SUBSET Cids])
    /\ pressed \subseteq Cids
    /\ action \in [Cids -> Actions]
    /\ active \subseteq Cids
    /\ down \subseteq Keys
    /\ fingers \in BOOLEAN
    /\ profile \in Profiles
    /\ awake \in BOOLEAN
    /\ due \in Seq({"sleep", "wakeup"})
    /\ pc \in [Threads -> {"idle", "event", "release", "lock", "make", "reset",
                           "configure", "destroy"}]
    /\ todo \in [Threads -> SUBSET Cids]
    /\ \A t \in Threads :
          todo[t] # {} <=> pc[t] \in {"make", "configure", "destroy"}
    /\ lock = IF pc[Ipc] = "make" THEN Ipc ELSE Nobody
    /\ alive \in BOOLEAN
    /\ count \in [reports : 0..MaxReports, losses : 0..MaxLosses,
                  drops : 0..MaxDrops, calls : 0..MaxCalls]
    /\ missed \subseteq Cids
    /\ blind \subseteq Cids
    /\ orphans \subseteq Keys \cup {Fingers}

\* TemporaryDiverted of Action::reprogFlags(); without an action it is reset.
Diverts(a) == a # None

\* The device has been configured, and nothing has happened yet.
Init ==
    /\ held = {}
    /\ diverted = {c \in Cids : Diverts(First[c])}
    /\ link = TRUE
    /\ reports = <<>>
    /\ pressed = {}
    /\ action = First
    /\ active = {}
    /\ down = {}
    /\ fingers = FALSE
    /\ profile = First
    /\ awake = TRUE
    /\ due = <<>>
    /\ pc = [t \in Threads |-> "idle"]
    /\ todo = [t \in Threads |-> {}]
    /\ lock = Nobody
    /\ alive = TRUE
    /\ count = [reports |-> 0, losses |-> 0, drops |-> 0, calls |-> 0]
    /\ missed = {}
    /\ blind = {}
    /\ orphans = {}

(***************************************************************************)
(* The device.                                                             *)
(***************************************************************************)

\* The user presses or releases a button.  The device reports it when it is
\* diverted and the link is up; the report says of every button what is so.
Move(c) ==
    /\ count.reports < MaxReports
    /\ count' = [count EXCEPT !.reports = @ + 1]
    /\ held' = IF c \in held THEN held \ {c} ELSE held \cup {c}
    /\ IF c \in diverted /\ link
       THEN /\ reports' = Append(reports, Buttons(held' \cap diverted))
            /\ blind' = {}
       ELSE UNCHANGED <<reports, blind>>
    /\ UNCHANGED <<diverted, link, buttonVars, outVars, profile, awake, due,
                   threadVars, alive, missed>>

LinkLost ==
    /\ link
    /\ count.losses < MaxLosses
    /\ count' = [count EXCEPT !.losses = @ + 1]
    /\ link' = FALSE
    /\ reports' = Append(reports, LinkIs("sleep"))
    /\ UNCHANGED <<held, diverted, buttonVars, outVars, profile, awake, due,
                   threadVars, alive, missed, blind>>

\* The device may have lost its diversions in between.
Divert(s) ==
    /\ diverted' = s
    /\ blind' = blind \cup (held \cap (diverted \ s))

LinkReturns ==
    /\ ~link
    /\ link' = TRUE
    /\ reports' = Append(reports, LinkIs("wakeup"))
    /\ Divert(diverted) \/ Divert({})
    /\ UNCHANGED <<held, buttonVars, outVars, profile, awake, due, threadVars,
                   alive, count, missed>>

(***************************************************************************)
(* Actions: what pressing and releasing buttons does to the virtual        *)
(* devices.  endGesture() ends whatever gesture there is.                  *)
(***************************************************************************)

KeysOf(s) == {action[c] : c \in s} \cap Keys
Touches(s) == {c \in s : action[c] = Touch}

\* The buttons of s are pressed, then those of r are released.
PressThenRelease(s, r) ==
    /\ active' = (active \cup s) \ r
    /\ down' = (down \cup KeysOf(s)) \ KeysOf(r)
    /\ fingers' = /\ fingers \/ Touches(s) # {}
                  /\ Touches(r) \cap active = {}
    /\ orphans' = (orphans \ (KeysOf(s) \cup KeysOf(r)))
                    \ (IF fingers' /\ Touches(s) = {} THEN {} ELSE {Fingers})
    /\ UNCHANGED action

\* Button c gets another action; the old one is dropped, as it is.
Replace(c, a) ==
    /\ action' = [action EXCEPT ![c] = a]
    /\ active' = active \ {c}
    /\ orphans' = orphans \cup (KeysOf({c} \cap active) \cap down)
                          \cup (IF Touches({c}) \cap active # {} /\ fingers
                                THEN {Fingers} ELSE {})
    /\ UNCHANGED <<pressed, down, fingers>>

(***************************************************************************)
(* The I/O thread.                                                         *)
(***************************************************************************)

Go(t, s, d) ==
    /\ pc' = [pc EXCEPT ![t] = s]
    /\ todo' = [todo EXCEPT ![t] = d]

\* Link notifications become tasks; a report is handled if the feature is
\* still there, and the handler holds on to it.
ReadReport ==
    /\ pc[IO] = "idle"
    /\ reports # <<>>
    /\ IF Head(reports).kind # "buttons"
       THEN /\ reports' = Tail(reports)
            /\ due' = IF alive THEN Append(due, Head(reports).kind) ELSE due
            /\ UNCHANGED <<pc, todo>>
       ELSE IF alive
       THEN Go(IO, "event", {}) /\ UNCHANGED <<reports, due>>
       ELSE reports' = Tail(reports) /\ UNCHANGED <<pc, todo, due>>
    /\ UNCHANGED <<held, diverted, link, buttonVars, outVars, profile, awake,
                   lock, alive, count, missed, blind>>

Released(new) == pressed' = new

\* _buttonEvent(), under _button_lock.
ButtonEvent ==
    /\ pc[IO] = "event"
    /\ lock = Nobody
    /\ LET new == Head(reports).set
       IN PressThenRelease(new \ pressed, pressed \ new) /\ Released(new)
    /\ reports' = Tail(reports)
    /\ Go(IO, "release", {})
    /\ UNCHANGED <<held, diverted, link, profile, awake, due, lock, alive,
                   count, missed, blind>>

\* The handler lets go of the feature, and destroys it when it was the last.
EventEnds ==
    /\ pc[IO] = "release"
    /\ IF alive THEN Go(IO, "idle", {}) ELSE Go(IO, "destroy", Cids)
    /\ UNCHANGED <<deviceVars, buttonVars, outVars, profile, awake, due, lock,
                   alive, count, missed, blind>>

(***************************************************************************)
(* sleep() and wakeup().                                                   *)
(***************************************************************************)

BeginDue ==
    /\ alive
    /\ pc[Worker] = "idle"
    /\ due # <<>>
    /\ due' = Tail(due)
    /\ awake' = (Head(due) = "wakeup")
    /\ IF Head(due) = "wakeup"
       THEN Go(Worker, "reset", {})
       ELSE IF awake THEN Go(Worker, "release", {}) ELSE UNCHANGED <<pc, todo>>
    /\ UNCHANGED <<deviceVars, buttonVars, outVars, profile, lock, alive,
                   count, missed, blind>>

\* Mutant of ReleaseAll: the set is cleared, and nothing is released.
ForgetAll == UNCHANGED <<action, active, outVars>>
ReleaseAll == PressThenRelease({}, pressed)

\* onSleep(), under _button_lock.
OnSleep ==
    /\ pc[Worker] = "release"
    /\ lock = Nobody
    /\ ReleaseAll
    /\ pressed' = {}
    /\ Go(Worker, "idle", {})
    /\ UNCHANGED <<deviceVars, profile, awake, due, lock, alive, count,
                   missed, blind>>

(***************************************************************************)
(* Requests.                                                               *)
(***************************************************************************)

\* Somebody delivers the reply to thread t.
CanAnswer(t) ==
    /\ link
    /\ pc[IO] # "destroy"
    /\ ~(pc[IO] = "event" /\ lock = t)

Answered(t) == CanAnswer(t) /\ UNCHANGED count

TimesOut(t) ==
    IF CanAnswer(t)
    THEN count.drops < MaxDrops /\ count' = [count EXCEPT !.drops = @ + 1]
    ELSE UNCHANGED count

Next1(s) == CHOOSE c \in s : \A d \in s : c <= d

\* Where a loop is when it is done with button c.
Advance(t, c, s) ==
    IF todo[t] = {c} THEN Go(t, "idle", {}) ELSE Go(t, s, todo[t] \ {c})

(***************************************************************************)
(* reconfigure(): reset() and, button by button, configure().              *)
(***************************************************************************)

\* A request of thread t that times out may have reached the device.
Unanswered(t, Effect) ==
    /\ TimesOut(t)
    /\ (link /\ Effect) \/ UNCHANGED <<diverted, blind>>

\* A device without the reset feature has no _reset_mechanism.
Reset(t) ==
    /\ pc[t] = "reset"
    /\ \/ /\ Answered(t)
          /\ Divert({})
          /\ Go(t, "configure", Cids)
          /\ UNCHANGED missed
       \/ /\ Unanswered(t, Divert({}))
          /\ Go(t, "idle", {})
          /\ missed' = Cids
       \/ /\ Go(t, "configure", Cids)
          /\ UNCHANGED <<diverted, blind, missed, count>>
    /\ UNCHANGED <<held, link, reports, buttonVars, outVars, profile, awake,
                   due, lock, alive>>

SetReporting(c) ==
    Divert(IF Diverts(action[c]) THEN diverted \cup {c} ELSE diverted \ {c})

\* A failure ends the loop: the buttons it has not come to are not configured.
Configure(t) ==
    /\ pc[t] = "configure"
    /\ LET c == Next1(todo[t])
       IN \/ /\ Answered(t)
             /\ SetReporting(c)
             /\ missed' = missed \ {c}
             /\ Advance(t, c, "configure")
          \/ /\ Unanswered(t, SetReporting(c))
             /\ missed' = missed \cup todo[t]
             /\ Go(t, "idle", {})
    /\ UNCHANGED <<held, link, reports, buttonVars, outVars, profile, awake,
                   due, lock, alive>>

(***************************************************************************)
(* IPC: Device::setProfile() and Button::IPC::setAction().                 *)
(***************************************************************************)

Call ==
    /\ alive
    /\ pc[Ipc] = "idle"
    /\ count.calls < MaxCalls
    /\ count' = [count EXCEPT !.calls = @ + 1]

SetProfile(p) ==
    /\ Call
    /\ profile' = p
    /\ Go(Ipc, "lock", {})
    /\ UNCHANGED <<deviceVars, buttonVars, outVars, awake, due, lock, alive,
                   missed, blind>>

LockButtons ==
    /\ pc[Ipc] = "lock"
    /\ lock = Nobody
    /\ lock' = Ipc
    /\ Go(Ipc, "make", Cids)
    /\ UNCHANGED <<deviceVars, buttonVars, outVars, profile, awake, due, alive,
                   count, missed, blind>>

Unlock == lock' = Nobody

\* RemapButton::setProfile(): the actions are made under _button_lock, and
\* one that cannot be made is left out.
MakeAction ==
    /\ pc[Ipc] = "make"
    /\ LET c == Next1(todo[Ipc])
       IN /\ IF profile[c] = Host
             THEN \/ Answered(Ipc) /\ Replace(c, Host)
                  \/ TimesOut(Ipc) /\ Replace(c, None)
             ELSE Replace(c, profile[c]) /\ UNCHANGED count
          /\ IF todo[Ipc] = {c}
             THEN Unlock /\ Go(Ipc, "reset", {})
             ELSE UNCHANGED lock /\ Go(Ipc, "make", todo[Ipc] \ {c})
    /\ UNCHANGED <<deviceVars, profile, awake, due, alive, missed, blind>>

\* Mutant of ThenConfigure: the new action is not configured.
ThenNothing(c) == UNCHANGED <<pc, todo>>
ThenConfigure(c) == Go(Ipc, "configure", {c})

\* A button's action is set to one that holds no key, or to none.
SetAction(c, a) ==
    /\ Call
    /\ Replace(c, a)
    /\ ThenConfigure(c)
    /\ UNCHANGED <<deviceVars, profile, awake, due, lock, alive, missed, blind>>

(***************************************************************************)
(* The end of the Device: ~RemapButton() clears the diversions.            *)
(***************************************************************************)

\* The Device is dropped by the last of the threads that work with it.  A
\* handler that is running keeps the feature, and then destroys it.
DropDevice ==
    /\ alive
    /\ pc[Worker] = "idle"
    /\ pc[Ipc] = "idle"
    /\ alive' = FALSE
    /\ due' = <<>>
    /\ IF pc[IO] = "idle" THEN Go(Worker, "destroy", Cids) ELSE UNCHANGED <<pc, todo>>
    /\ UNCHANGED <<deviceVars, buttonVars, outVars, profile, awake, lock, count,
                   missed, blind>>

AfterFailure(t, c) == Advance(t, c, "destroy")

\* A failure is logged, and the loop goes on.
ClearDivert(t) ==
    /\ pc[t] = "destroy"
    /\ LET c == Next1(todo[t])
       IN \/ /\ t # IO
             /\ Answered(t)
             /\ Divert(diverted \ {c})
             /\ missed' = missed \ {c}
             /\ Advance(t, c, "destroy")
          \/ /\ Unanswered(t, Divert(diverted \ {c}))
             /\ missed' = missed \cup {c}
             /\ AfterFailure(t, c)
    /\ UNCHANGED <<held, link, reports, buttonVars, outVars, profile, awake,
                   due, lock, alive>>

Next ==
    \/ \E c \in Cids : Move(c)
    \/ LinkLost
    \/ LinkReturns
    \/ ReadReport
    \/ ButtonEvent
    \/ EventEnds
    \/ BeginDue
    \/ OnSleep
    \/ \E t \in Threads : Reset(t) \/ Configure(t) \/ ClearDivert(t)
    \/ \E p \in Profiles : SetProfile(p)
    \/ LockButtons
    \/ MakeAction
    \/ \E c \in Cids, a \in {Touch, None} : SetAction(c, a)
    \/ DropDevice

Spec == Init /\ [][Next]_vars

(***************************************************************************)
(* Properties.                                                             *)
(***************************************************************************)

Quiet ==
    /\ \A t \in Threads : pc[t] = "idle"
    /\ due = <<>>
    /\ reports = <<>>

\* What is down in the virtual devices is down for a button that logid takes
\* for pressed, through every loss of the link (_buttonEvent(), onSleep());
\* the exception is what was down for an action that has been replaced.
DownIsHeld ==
    /\ \A k \in down : k \in orphans \/ \E c \in pressed : action[c] = k
    /\ fingers => Fingers \in orphans \/ Touches(pressed \cap active) # {}

\* When everything has been handled, logid takes no button for pressed that
\* the user has released, even if it was released while the link was down
\* (onSleep()); the exception is a button whose diversion was taken away
\* while it was down, until the next report.
KnownPressed ==
    Quiet /\ alive /\ link => pressed \subseteq held \cup blind

\* When everything has been handled, a button is diverted if and only if it
\* has an action, whatever mixture of wakeups, changes of profile and changes
\* of actions there was (Device::reconfigure()), except where the last attempt
\* to tell the device failed.
DivertsFollowActions ==
    Quiet /\ alive /\ link =>
        \A c \in Cids \ missed : c \in diverted <=> Diverts(action[c])

\* A feature that has been destroyed leaves no button diverted, except those
\* whose request failed: one failure does not keep the others diverted
\* (_clearTemporaryDiverts()).
DivertsCleared ==
    ~alive /\ (\A t \in Threads : pc[t] = "idle") => diverted \subseteq missed

\* Device, logid and virtual devices agree on what is held, through every loss
\* of the link ...
HeldIsKnown == TypeOK /\ DownIsHeld /\ KnownPressed

\* ... and on what is diverted, for as long as the feature lives and after.
DivertsAreKnown == DivertsFollowActions /\ DivertsCleared
=============================================================================
