--------------------------- MODULE VirtualKeyboard ---------------------------
(***************************************************************************)
(* The virtual input device that all actions share (InputDevice.cpp) and   *)
(* the actions that write to it: Keypress (actions/KeypressAction.cpp) and *)
(* the axis of an Axis gesture (actions/gesture/AxisGesture.cpp).          *)
(*                                                                         *)
(* A code that was not declared when the device was made is dropped by the *)
(* kernel.  Declaring one more destroys the device and makes another, and  *)
(* the kernel lets go of the keys of a device that is destroyed.           *)
(*                                                                         *)
(* The I/O thread presses, releases and moves; the IPC thread gives a      *)
(* running action other keys or another axis; a worker makes the actions   *)
(* of a new device.  A thread's job is a sequence of calls of InputDevice. *)
(***************************************************************************)
EXTENDS Integers, Sequences

CONSTANTS
    Common,         \* codes every keyboard has, declared from the start
    Rare,           \* the other codes
    Wheel,          \* the Axis gesture; the other actions are Keypress
    Presses, New,   \* Keypress actions that are there; one that a worker makes
    Unknown,        \* a name that is no key
    MaxReports, MaxSets, MaxFailures

Acts == Presses \cup {New, Wheel}
Codes == Common \cup Rare
Threads == {"io", "ipc", "worker"}

VARIABLES
    registered,     \* registered_keys, registered_axis
    enabled,        \* the codes of device (libevdev)
    kernel,         \* the codes of ui_device; {} when it could not be made
    down,           \* keys that are down in the kernel
    keys,           \* _keys; the _input_axis of Wheel
    pressed,        \* actions whose _pressed is set
    job,            \* calls a thread has to make, the first one next
    busy,           \* the action whose _config_mutex the thread holds
    sent,           \* keys the action pressed and has not released (history)
    undone,         \* of these, those that others let go of (history)
    dropped,        \* codes that were sent and not declared (history)
    spare           \* what is left of the bounds

vars == <<registered, enabled, kernel, down, keys, pressed, job, busy, sent,
          undone, dropped, spare>>

Free == "free"

Init ==
    /\ registered = Common /\ enabled = Common /\ kernel = Common
    /\ down = {} /\ pressed = {} /\ undone = {} /\ dropped = {}
    /\ \E k \in [Presses -> Common] :
          keys = [a \in Acts |-> IF a \in Presses THEN <<k[a]>> ELSE <<>>]
    /\ job = [t \in Threads |-> <<>>] /\ busy = [t \in Threads |-> Free]
    /\ sent = [a \in Acts |-> {}]
    /\ spare = [reports |-> MaxReports, sets |-> MaxSets, failures |-> MaxFailures]

Use(what) == spare[what] > 0 /\ spare' = [spare EXCEPT ![what] = @ - 1]

\* press() and release() share _config_mutex, setKeys() and setAxis() own it.
Locks(t, a) ==
    /\ job[t] = <<>>
    /\ \A u \in Threads : busy[u] # a
    /\ busy' = [busy EXCEPT ![t] = a]

Calls(what, a, codes) == [i \in DOMAIN codes |-> [call |-> what, act |-> a, code |-> codes[i]]]
Begin(t, calls) == job' = [job EXCEPT ![t] = calls \o <<[call |-> "return"]>>]

Press(a) ==
    /\ Locks("io", a) /\ Use("reports") /\ keys[a] # <<>> /\ a \notin pressed
    /\ pressed' = pressed \cup {a}
    /\ Begin("io", Calls("press", a, keys[a]))
    /\ UNCHANGED <<registered, enabled, kernel, down, keys, sent, undone, dropped>>

Release(a) ==
    /\ Locks("io", a) /\ Use("reports") /\ a \in pressed
    /\ pressed' = pressed \ {a}
    /\ Begin("io", Calls("release", a, keys[a]))
    /\ UNCHANGED <<registered, enabled, kernel, down, keys, sent, undone, dropped>>

Move ==
    /\ Locks("io", Wheel) /\ Use("reports") /\ keys[Wheel] # <<>>
    /\ Begin("io", Calls("move", Wheel, keys[Wheel]))
    /\ UNCHANGED <<registered, enabled, kernel, down, keys, pressed, sent, undone, dropped>>

LetGo(a) == IF a \in pressed THEN Calls("release", a, keys[a]) ELSE <<>>

\* KeypressAction::setKeys and _setConfig: names of keys.
Configure(a, names) == <<[call |-> "clear", act |-> a]>> \o Calls("register", a, names)
SetKeys(a, names) ==
    /\ Locks("ipc", a) /\ Use("sets") /\ a # Wheel
    /\ Begin("ipc", LetGo(a) \o Configure(a, names))
    /\ UNCHANGED <<registered, enabled, kernel, down, keys, pressed, sent, undone, dropped>>

\* setAxis: _input_axis is set before it is registered, under the mutex.
SetAxis(axis) ==
    /\ Locks("ipc", Wheel) /\ Use("sets")
    /\ keys' = [keys EXCEPT ![Wheel] = <<>>]
    /\ Begin("ipc", Calls("register", Wheel, <<axis>>))
    /\ UNCHANGED <<registered, enabled, kernel, down, pressed, sent, undone, dropped>>

Make(names) ==
    /\ Locks("worker", New) /\ keys[New] = <<>> /\ Use("sets")
    /\ Begin("worker", Configure(New, names))
    /\ UNCHANGED <<registered, enabled, kernel, down, keys, pressed, sent, undone, dropped>>

-----------------------------------------------------------------------------
Does(t, what) == job[t] # <<>> /\ Head(job[t]).call = what
Then(t, calls) == job' = [job EXCEPT ![t] = calls \o Tail(@)]
Ends(t) == Then(t, <<>>)

\* libevdev_uinput_write_event() needs a ui_device (_input_mutex is held).
SendKey(t) ==
    /\ Does(t, "press") /\ kernel # {}
    /\ LET c == Head(job[t])
       IN  /\ down' = down \cup ({c.code} \cap kernel)
           /\ dropped' = dropped \cup ({c.code} \ kernel)
           /\ sent' = [sent EXCEPT ![c.act] = @ \cup {c.code}]
           /\ undone' = undone \ {c.code}
    /\ Ends(t)
    /\ UNCHANGED <<registered, enabled, kernel, keys, pressed, busy, spare>>

LetKeyGo(t) ==
    /\ Does(t, "release") /\ kernel # {}
    /\ LET c == Head(job[t])
       IN  /\ down' = down \ {c.code}
           /\ sent' = [sent EXCEPT ![c.act] = @ \ {c.code}]
           /\ undone' = undone \cup {c.code}
    /\ Ends(t)
    /\ UNCHANGED <<registered, enabled, kernel, keys, pressed, busy, dropped, spare>>

MoveAxis(t) ==
    /\ Does(t, "move") /\ kernel # {}
    /\ dropped' = dropped \cup ({Head(job[t]).code} \ kernel)
    /\ Ends(t)
    /\ UNCHANGED <<registered, enabled, kernel, down, keys, pressed, busy, sent, undone, spare>>

Clear(t) ==
    /\ Does(t, "clear")
    /\ keys' = [keys EXCEPT ![Head(job[t]).act] = <<>>]
    /\ Ends(t)
    /\ UNCHANGED <<registered, enabled, kernel, down, pressed, busy, sent, undone, dropped, spare>>

As(c, what) == [c EXCEPT !.call = what]

\* A mutant of Steps: the code is noted before it is declared.
NotedFirst(c) == <<As(c, "note"), As(c, "enable"), As(c, "use")>>
Steps(c) == <<As(c, "enable"), As(c, "note"), As(c, "use")>>

\* registerKey(), registerAxis(): the test is made without a lock.  An unknown name
\* is skipped.
Register(t) ==
    /\ Does(t, "register")
    /\ LET c == Head(job[t])
       IN  Then(t, IF c.code = Unknown THEN <<>>
                   ELSE IF c.code \in registered THEN <<As(c, "use")>> ELSE Steps(c))
    /\ UNCHANGED <<registered, enabled, kernel, down, keys, pressed, busy, sent, undone, dropped, spare>>

\* _enableEvent(), under _input_mutex: another device with one more code ...
Enable(t) ==
    /\ Does(t, "enable") /\ kernel # {}
    /\ enabled' = enabled \cup {Head(job[t]).code}
    /\ kernel' = enabled'
    /\ down' = {} /\ undone' = undone \cup down
    /\ Ends(t)
    /\ UNCHANGED <<registered, keys, pressed, busy, sent, dropped, spare>>

\* ... or none: libevdev is freed, and the next call of it ends the program.
EnableFails(t) ==
    /\ Does(t, "enable") /\ kernel # {} /\ Use("failures")
    /\ kernel' = {} /\ down' = {} /\ undone' = undone \cup down
    /\ job' = [job EXCEPT ![t] = <<>>] /\ busy' = [busy EXCEPT ![t] = Free]
    /\ UNCHANGED <<registered, enabled, keys, pressed, sent, dropped>>

Note(t) ==
    /\ Does(t, "note")
    /\ registered' = registered \cup {Head(job[t]).code}
    /\ Ends(t)
    /\ UNCHANGED <<enabled, kernel, down, keys, pressed, busy, sent, undone, dropped, spare>>

UseCode(t) ==
    /\ Does(t, "use")
    /\ keys' = [keys EXCEPT ![Head(job[t]).act] = Append(@, Head(job[t]).code)]
    /\ Ends(t)
    /\ UNCHANGED <<registered, enabled, kernel, down, pressed, busy, sent, undone, dropped, spare>>

Return(t) ==
    /\ Does(t, "return")
    /\ Ends(t) /\ busy' = [busy EXCEPT ![t] = Free]
    /\ UNCHANGED <<registered, enabled, kernel, down, keys, pressed, sent, undone, dropped, spare>>

Names == {<<c>> : c \in Codes} \cup {<<Unknown, c>> : c \in Rare}

Next ==
    \/ \E a \in Presses \cup {New} : Press(a) \/ Release(a)
    \/ Move
    \/ \E n \in Names : Make(n) \/ (\E a \in Presses : SetKeys(a, n))
    \/ \E c \in Rare : SetAxis(c)
    \/ \E t \in Threads :
          \/ SendKey(t) \/ LetKeyGo(t) \/ MoveAxis(t) \/ Clear(t) \/ Register(t)
          \/ Enable(t) \/ EnableFails(t) \/ Note(t) \/ UseCode(t) \/ Return(t)

Spec == Init /\ [][Next]_vars

-----------------------------------------------------------------------------
\* No key or axis event is lost because the device was made without its code: not
\* even one of a code that another thread is just declaring.  And when no call is
\* under way exactly the keys of the pressed actions are down, but for those that
\* a new device or the release of a key they share let go of.
KernelAgrees ==
    /\ dropped = {}
    /\ (\A t \in Threads : job[t] = <<>>) =>
          LET wanted == UNION {sent[a] : a \in pressed}
          IN  down \subseteq wanted /\ wanted \subseteq down \cup undone
=============================================================================
