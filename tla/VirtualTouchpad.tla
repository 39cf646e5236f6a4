--------------------------- MODULE VirtualTouchpad ---------------------------
(***************************************************************************)
(* The virtual touchpad that all devices share (TouchpadDevice.cpp): what  *)
(* the kernel is told of contacts, tool and touch when several buttons     *)
(* with a TouchpadGesture are pressed, moved and released, and when        *)
(* fingers are set over IPC (actions/TouchpadGestureAction.cpp).  How a    *)
(* gesture follows the motion and when it is a click is in Gestures.tla;   *)
(* here a press begins the gesture or leaves it for a motion to begin.     *)
(***************************************************************************)
EXTENDS Integers, FiniteSets

CONSTANTS
    Buttons,        \* buttons with a TouchpadGesture
    None,           \* no tracking id
    Wanted,         \* numbers of fingers a user may ask for
    MaxReports, MaxSets

VirtualTouchpadAssumption == None \notin Int /\ Wanted \subseteq Int

min_fingers == 3            \* also the fewest contacts
max_fingers == 4            \* _max_contacts too

VARIABLES
    active, fingers,    \* TouchpadDevice::_active, _fingers
    contacts,           \* _contacts: tracking ids
    next,               \* _next_tracking_id
    tracked,            \* the tracking id of each slot in the kernel
    tools, touch,       \* tools and BTN_TOUCH that are down in the kernel
    config,             \* _config.fingers of each button
    pressed, gesture,   \* buttons: _pressed, _touchpad_active
    ended,              \* gestures ended by the press or release of another (history)
    spare

vars == <<active, fingers, contacts, next, tracked, tools, touch, config, pressed,
          gesture, ended, spare>>
kernelVars == <<tracked, tools, touch>>
padVars == <<active, fingers, contacts, next>>

Slots == 0..max_fingers-1
ToolCode(n) == CASE n = 3 -> "TRIPLETAP" [] n = 4 -> "QUADTAP" [] OTHER -> "FINGER"
Clamp(n) == IF n < min_fingers THEN min_fingers ELSE IF n > max_fingers THEN max_fingers ELSE n

Init ==
    /\ active = FALSE /\ fingers = 0 /\ next = 1
    /\ contacts = [i \in Slots |-> 0]
    /\ tracked = [i \in Slots |-> None] /\ tools = {} /\ touch = FALSE
    /\ config \in [Buttons -> Wanted]
    /\ pressed = {} /\ gesture = {} /\ ended = {}
    /\ spare = [reports |-> MaxReports, sets |-> MaxSets]

Use(what) == spare[what] > 0 /\ spare' = [spare EXCEPT ![what] = @ - 1]

\* What the kernel is told, up to the last SYN_REPORT of the call.
Lifted(n, t) == [i \in Slots |-> IF i < n THEN None ELSE t[i]]
Written(n, c, t) == [i \in Slots |-> IF i < n THEN c[i] ELSE t[i]]

\* beginGesture: _endGestureUnlocked() of the gesture under way.
Cleared ==
    IF active THEN [tracked |-> Lifted(fingers, tracked), tools |-> tools \ {ToolCode(fingers)}]
    ELSE [tracked |-> tracked, tools |-> tools]

BeginGesture(wanted) ==
    LET n == Clamp(wanted)
        c == [i \in Slots |-> IF i < n THEN next + i ELSE contacts[i]]
    IN  /\ active' = TRUE /\ fingers' = n /\ contacts' = c /\ next' = next + n
        /\ tracked' = Written(n, c, Cleared.tracked)
        /\ tools' = Cleared.tools \cup {ToolCode(n)}
        /\ touch' = TRUE

EndGesture ==
    IF ~active THEN UNCHANGED <<padVars, kernelVars>>
    ELSE /\ active' = FALSE /\ fingers' = 0
         /\ tracked' = Lifted(fingers, tracked)
         /\ tools' = tools \ {ToolCode(fingers)} /\ touch' = FALSE
         /\ UNCHANGED <<contacts, next>>

\* moveGesture() writes the contacts again, with their tracking ids.
MoveGesture ==
    /\ tracked' = IF active THEN Written(fingers, contacts, tracked) ELSE tracked
    /\ UNCHANGED <<padVars, tools, touch>>

\* A press begins the gesture, or, with a click configured, leaves it to a motion.
Press(b, click) ==
    /\ b \notin pressed /\ Use("reports")
    /\ pressed' = pressed \cup {b}
    /\ IF click THEN UNCHANGED <<padVars, kernelVars, gesture, ended>>
       ELSE /\ BeginGesture(config[b])
            /\ gesture' = gesture \cup {b}
            /\ ended' = (ended \cup gesture) \ {b}
    /\ UNCHANGED config

\* A motion beyond the click threshold begins a gesture that was not begun.
Move(b) ==
    /\ b \in pressed /\ Use("reports")
    /\ IF b \in gesture THEN MoveGesture /\ UNCHANGED <<gesture, ended>>
       ELSE /\ BeginGesture(config[b])
            /\ gesture' = gesture \cup {b}
            /\ ended' = (ended \cup gesture) \ {b}
    /\ UNCHANGED <<config, pressed>>

\* endGesture() ends whatever gesture is under way, also another button's.
Release(b) ==
    /\ b \in pressed /\ Use("reports")
    /\ pressed' = pressed \ {b}
    /\ gesture' = gesture \ {b}
    /\ IF b \in gesture THEN EndGesture /\ ended' = (ended \cup gesture) \ {b}
       ELSE UNCHANGED <<padVars, kernelVars, ended>>
    /\ UNCHANGED config

SetFingers(b, n) ==
    /\ Use("sets")
    /\ config' = [config EXCEPT ![b] = Clamp(n)]
    /\ UNCHANGED <<padVars, kernelVars, pressed, gesture, ended>>

Next ==
    \E b \in Buttons :
        \/ \E click \in BOOLEAN : Press(b, click)
        \/ Move(b) \/ Release(b)
        \/ \E n \in Wanted : SetFingers(b, n)

Spec == Init /\ [][Next]_vars

-----------------------------------------------------------------------------
\* The kernel always sees one well-formed gesture or none: as many contacts as the
\* tool says, in the first slots, each with an id of its own that no former contact had; a gesture
\* lasts while a button that began it is pressed, unless another one ended it.
TouchpadAgrees ==
    LET live == {i \in Slots : tracked[i] # None}
    IN  /\ live = 0 .. Cardinality(live) - 1
        /\ Cardinality(live) \in {0, 3, 4}
        /\ tools = (IF live = {} THEN {} ELSE {ToolCode(Cardinality(live))})
        /\ touch = (live # {})
        /\ {tracked[i] : i \in live} = next - Cardinality(live) .. next - 1
        /\ live # {} => gesture # {}
        /\ gesture \ ended # {} => live # {}
=============================================================================
