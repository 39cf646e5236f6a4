------------------------------ MODULE Gestures ------------------------------
(***************************************************************************)
(* Gestures (actions/gesture) and what moves them: a gesture button        *)
(* (actions/GestureAction.cpp), the wheel (features/HiresScroll.cpp), the  *)
(* thumb wheel (features/ThumbWheel.cpp), and the touchpad gesture of a    *)
(* button (actions/TouchpadGestureAction.cpp, TouchpadDevice.cpp).         *)
(*                                                                         *)
(* A behaviour has one of these hosts.  Its events are handled on the I/O  *)
(* thread under _config_mutex, which setters and profile changes take too: *)
(* an event is a step.  Distances are small whole numbers; multipliers are *)
(* whole, so that an axis has no remainder.                                *)
(***************************************************************************)
EXTENDS Integers, Sequences, Functions

CONSTANTS
    Hosts,          \* which of "button", "wheel", "thumb", "touchpad" to explore
    Kinds,          \* kinds of gestures that are configured
    Threshold,      \* the gestures' threshold (50 if not configured)
    Interval,       \* of an interval gesture
    Multiplier,     \* of an axis
    HiRes,          \* the wheel's multiplier
    ClickThreshold, \* of the touchpad gesture
    Width,          \* room of a virtual finger on either side
    MaxDelta,       \* the longest distance an event reports
    Half,           \* 2^15: int16_t is -Half..Half-1
    MaxSteps        \* bound of the model on events and calls

ASSUME GesturesAssumption ==
    /\ Kinds \subseteq {"axis", "interval", "release", "threshold", "null"}
    /\ Interval \in Nat \ {0} /\ Multiplier \in Int /\ HiRes \in Nat
    /\ {Threshold, ClickThreshold, Width, MaxDelta, Half, MaxSteps} \subseteq Nat
    /\ MaxDelta < Half
    /\ ClickThreshold + MaxDelta <= Width

VARIABLES
    host,
    steps,
    gs,         \* the gesture of each direction, or Absent
    x, y,       \* _x, _y of a button: the motion while it is pressed
    pressed,    \* the button is pressed; the thumb wheel is touched
    last,       \* _last_direction of the wheel
    replaced,   \* directions whose gesture was replaced in this press (history)
    run,        \* travel of the wheel since it last started afresh (history)
    before,     \* actions before that (history)
    held,       \* the action of a thumb wheel touch that is down (history)
    action,     \* _touch_action: its number
    movement, pending, active,  \* of the touchpad gesture
    finger,     \* where the virtual fingers are, from where they began
    clicks      \* clicks in this press (history)

vars == <<host, steps, gs, x, y, pressed, last, replaced, run, before, held, action,
          movement, pending, active, finger, clicks>>
wheelVars == <<last, run, before>>
thumbVars == <<held, action>>
padVars == <<movement, pending, active, finger, clicks>>

Deltas == -MaxDelta..MaxDelta \ {0}
Directions == <<"up", "down", "left", "right">>     \* in the order of the map
All == {"none"} \cup Range(Directions)
Bigger(m, n) == IF m > n THEN m ELSE n
Smaller(m, n) == IF m < n THEN m ELSE n
Abs(n) == Bigger(n, -n)

\* (int16_t) n
Narrow(n) == ((n + Half) % (2 * Half)) - Half

(***************************************************************************)
(* Gestures.  fires and out are histories: the actions of the gesture, and *)
(* what it moved its axis by.                                              *)
(***************************************************************************)

Gesture(kind, threshold, mult) ==
    [kind |-> kind, threshold |-> threshold, mult |-> mult, axis |-> 0,
     done |-> FALSE, passes |-> 0, fires |-> 0, out |-> 0]
Absent == Gesture("absent", 0, 1)

Met(g) == g.kind # "absent" /\ g.axis >= g.threshold


Press(g, init) ==
    [g EXCEPT !.axis = IF init THEN g.threshold ELSE 0, !.done = FALSE, !.passes = 0]

Release(g, primary) ==
    CASE g.kind = "release" -> [g EXCEPT !.fires = @ + IF Met(g) /\ primary THEN 1 ELSE 0]
      [] g.kind = "threshold" -> [g EXCEPT !.done = FALSE]
      [] OTHER -> g

MoveAxis(g, d) ==
    LET beyond == IF g.axis < g.threshold THEN g.axis + d - g.threshold ELSE d
    IN [g EXCEPT !.axis = @ + d,
                 !.out = @ + IF g.axis + d > g.threshold
                             THEN beyond * Multiplier * g.mult ELSE 0]

MoveInterval(g, d) ==
    LET count == (g.axis + d - g.threshold) \div Interval
    IN IF g.axis + d < g.threshold
       THEN [g EXCEPT !.axis = @ + d]
       ELSE [g EXCEPT !.axis = @ + d, !.passes = count,
                      !.fires = @ + IF count > g.passes THEN 1 ELSE 0]

MoveThreshold(g, d) ==
    IF ~g.done /\ g.axis + d >= g.threshold
    THEN [g EXCEPT !.axis = @ + d, !.done = TRUE, !.fires = @ + 1]
    ELSE [g EXCEPT !.axis = @ + d]

Move(g, d) ==
    CASE g.kind = "absent" -> g
      [] g.kind = "axis" -> MoveAxis(g, d)
      [] g.kind = "interval" -> MoveInterval(g, d)
      [] g.kind = "threshold" -> MoveThreshold(g, d)
      [] OTHER -> [g EXCEPT !.axis = @ + d]

\* Gesture::wheelCompatibility()
WheelCompatible(kind) == kind \in {"axis", "interval", "null"}

(***************************************************************************)
(* Each host begins with the gestures its configuration gives it.          *)
(***************************************************************************)

\* A gesture of a profile: the wheel sets up those it makes, with the        *
\* wheel's multiplier; the thumb wheel only those of its constructor.
Configured(h, d, kind, fixed) ==
    IF kind = "absent" THEN Absent
    ELSE IF h = "button" THEN Gesture(kind, IF d = "none" THEN 0 ELSE Threshold, 1)
    ELSE IF fixed THEN Press(Gesture(kind, Threshold, HiRes), TRUE)
    ELSE Gesture(kind, Threshold, 1)

DirectionsOf(h) ==
    CASE h = "button" -> All
      [] h = "wheel" -> {"up", "down"}
      [] h = "thumb" -> {"left", "right"}
      [] OTHER -> {}

\* The thumb wheel refuses incompatible gestures; the wheel takes them.
KindsOf(h) == {k \in Kinds : h = "thumb" => WheelCompatible(k)}

GesturesOf(h, fixed) ==
    {[d \in All |-> IF d \in DirectionsOf(h)
                    THEN Configured(h, d, IF d = "none" THEN k2 ELSE k1, fixed)
                    ELSE Absent] : k1 \in KindsOf(h), k2 \in {"absent", "release"}}

Init ==
    /\ host \in Hosts
    /\ gs \in GesturesOf(host, TRUE)
    /\ steps = 0 /\ x = 0 /\ y = 0 /\ pressed = FALSE /\ last = 0 /\ replaced = {}
    /\ run = 0 /\ before = [d \in All |-> 0] /\ held = 0 /\ action = 1
    /\ movement = 0 /\ pending = 0 /\ active = FALSE /\ finger = 0 /\ clicks = 0

Step(h) == host = h /\ steps < MaxSteps /\ steps' = steps + 1 /\ UNCHANGED host

(***************************************************************************)
(* The gesture button.                                                     *)
(***************************************************************************)

\* GestureAction::toDirection(x, y)
ToDirection(a, b) ==
    CASE a >= 0 /\ b >= 0 -> IF a >= b THEN "right" ELSE "down"
      [] a < 0 /\ b >= 0 -> IF -a <= b THEN "down" ELSE "left"
      [] a <= 0 /\ b < 0 -> IF a <= b THEN "left" ELSE "up"
      [] OTHER -> IF a <= -b THEN "up" ELSE "right"

PressButton ==
    /\ Step("button")
    /\ ~pressed
    /\ pressed' = TRUE
    /\ x' = 0 /\ y' = 0
    /\ gs' = [d \in All |-> [Press(gs[d], FALSE) EXCEPT !.fires = 0]]
    /\ replaced' = {}
    /\ UNCHANGED <<wheelVars, thumbVars, padVars>>

\* One axis of GestureAction::move(): the motion so far is n, d is added, and
\* a gesture is moved for each of the two directions as the code does.
\* Mutant of CrossMinus: the way back to the origin is not taken back.
CrossMinusForgets(n, d) == 0
CrossMinus(n, d) == Narrow(n)

\* What the gesture of the negative direction, and of the positive one, is
\* moved by in x.
MinusX(n, d) ==
    CASE n < 0 /\ n + d >= 0 -> CrossMinus(n, d)
      [] n > 0 /\ n + d < 0 -> Narrow(-(n + d))
      [] n <= 0 /\ n + d < 0 -> Narrow(-d)
      [] OTHER -> 0
PlusX(n, d) ==
    CASE n < 0 /\ n + d > 0 -> Narrow(n + d)
      [] n > 0 /\ n + d <= 0 -> Narrow(-n)
      [] n >= 0 /\ n + d > 0 -> d
      [] OTHER -> 0

\* ... and in y, where "up" is the negative direction, and the code that
\* crosses the origin takes it for the positive one.
UpY(n, d) ==
    CASE n > 0 /\ n + d <= 0 -> Narrow(n)
      [] n < 0 /\ n + d > 0 -> Narrow(-(n + d))
      [] n <= 0 /\ n + d < 0 -> Narrow(-d)
      [] OTHER -> 0
DownY(n, d) ==
    CASE n > 0 /\ n + d < 0 -> Narrow(n + d)
      [] n < 0 /\ n + d >= 0 -> Narrow(-n)
      [] n >= 0 /\ n + d > 0 -> d
      [] OTHER -> 0

Moved(g, d) == IF d = 0 THEN g ELSE Move(g, d)

MoveButton(dx, dy) ==
    /\ Step("button")
    /\ pressed
    /\ gs' = [gs EXCEPT !["left"] = Moved(@, MinusX(x, dx)),
                        !["right"] = Moved(@, PlusX(x, dx)),
                        !["up"] = Moved(@, UpY(y, dy)),
                        !["down"] = Moved(@, DownY(y, dy))]
    /\ x' = x + dx
    /\ y' = y + dy
    /\ UNCHANGED <<pressed, replaced, wheelVars, thumbVars, padVars>>

\* Mutant of NoneFires: the gesture without a direction always fires.
NoneAlwaysFires(threshold_met) == TRUE
NoneFires(threshold_met) == ~threshold_met

\* The primary gesture is that of the direction of the motion.  If it did not
\* meet its threshold, the first other one that did takes its place.
ReleaseButton ==
    LET p == ToDirection(x, y)
        met == {d \in Range(Directions) \ {p} : Met(gs[d])}
        Place(d) == CHOOSE n \in 1..4 : Directions[n] = d
        IsFirst(d) == d \in met /\ \A e \in met : Place(d) <= Place(e)
        After(d) == \E e \in met : Place(e) < Place(d)
    IN /\ Step("button")
       /\ pressed
       /\ pressed' = FALSE
       /\ gs' = [d \in All |->
              CASE d = p -> Release(gs[d], TRUE)
                [] d = "none" -> Release(gs[d], NoneFires(Met(gs[p]) \/ met # {}))
                [] OTHER -> IF Met(gs[p]) \/ After(d) THEN Release(gs[d], FALSE)
                            ELSE IF IsFirst(d) THEN Release(gs[d], TRUE) ELSE gs[d]]
       /\ UNCHANGED <<x, y, replaced, wheelVars, thumbVars, padVars>>

\* GestureAction::setGesture(): the old gesture is released if the button is
\* pressed, and the new one has not been pressed.
SetButtonGesture(d, kind) ==
    LET old == IF pressed /\ gs[d].kind # "absent"
               THEN Release(gs[d], ToDirection(x, y) = d) ELSE gs[d]
    IN /\ Step("button")
       /\ gs' = [gs EXCEPT ![d] = [Configured("button", d, kind, FALSE)
                                       EXCEPT !.fires = old.fires]]
       /\ replaced' = replaced \cup {d}
       /\ UNCHANGED <<x, y, pressed, wheelVars, thumbVars, padVars>>

(***************************************************************************)
(* The wheel.                                                              *)
(***************************************************************************)

\* release(false) and press(true)
Afresh(g) == Press(Release(g, FALSE), TRUE)

\* Mutant of Turned: a change of direction is not noticed.
TurnedNever(d) == FALSE
Turned(d) == last = -d

\* HiresScroll::_handleScroll(), after a pause of a second or not.
Scroll(delta, pause) ==
    LET d == IF delta > 0 THEN 1 ELSE -1
        this == IF d = 1 THEN "up" ELSE "down"
        other == IF d = 1 THEN "down" ELSE "up"
        rested == [e \in All |-> IF pause THEN Afresh(gs[e]) ELSE gs[e]]
        turned == IF ~pause /\ Turned(d) THEN [rested EXCEPT ![other] = Afresh(@)] ELSE rested
    IN /\ Step("wheel")
       /\ gs' = [turned EXCEPT ![this] = Move(@, Abs(delta))]
       /\ last' = d
       /\ IF pause \/ last # d
          THEN run' = Abs(delta) /\ before' = [e \in All |-> gs[e].fires]
          ELSE run' = run + Abs(delta) /\ UNCHANGED before
       /\ UNCHANGED <<x, y, pressed, replaced, thumbVars, padVars>>

\* setUp(), setDown(): an incompatible gesture is refused, but stays.
SetWheelGesture(d, kind) ==
    /\ Step("wheel")
    /\ gs' = [gs EXCEPT ![d] = Configured("wheel", d, kind, WheelCompatible(kind))]
    /\ run' = IF last = IF d = "up" THEN 1 ELSE -1 THEN 0 ELSE run
    /\ before' = [before EXCEPT ![d] = 0]
    /\ UNCHANGED <<x, y, pressed, last, replaced, thumbVars, padVars>>

(***************************************************************************)
(* The thumb wheel.                                                        *)
(***************************************************************************)

\* ThumbWheel::_handleEvent(), the rotation; every event that turns the wheel
\* has its gesture pressed anew.
Rotate(delta) ==
    LET d == IF delta > 0 THEN "right" ELSE "left"
    IN /\ Step("thumb")
       /\ gs' = [gs EXCEPT ![d] = Move(Press(@, TRUE), Narrow(Abs(delta)))]
       /\ UNCHANGED <<x, y, pressed, replaced, wheelVars, thumbVars, padVars>>

\* ... and the flag that tells whether it is touched.
Touch ==
    /\ Step("thumb")
    /\ pressed' = ~pressed
    /\ held' = IF ~pressed THEN action ELSE IF held = action THEN 0 ELSE held
    /\ UNCHANGED <<gs, x, y, replaced, wheelVars, action, padVars>>

\* ThumbWheel::setProfile(): new gestures, which are not set up, and actions.
ThumbProfile ==
    /\ Step("thumb")
    /\ gs' \in GesturesOf("thumb", FALSE)
    /\ action' = action + 1
    /\ UNCHANGED <<x, y, pressed, replaced, wheelVars, held, padVars>>

(***************************************************************************)
(* The touchpad gesture, with a click action; motion along one axis.       *)
(***************************************************************************)

PressPad ==
    /\ Step("touchpad")
    /\ ~pressed
    /\ pressed' = TRUE
    /\ x' = 0
    /\ movement' = 0 /\ pending' = 0 /\ active' = FALSE /\ finger' = 0 /\ clicks' = 0
    /\ UNCHANGED <<gs, y, replaced, wheelVars, thumbVars>>

FirstMotion(d) == pending + d

\* moveGesture(): the fingers stop at the margins.
Clamp(n) == Smaller(Bigger(n, -Width), Width)

MovePad(d) ==
    /\ Step("touchpad")
    /\ pressed
    /\ x' = Clamp(x + d)
    /\ movement' = movement + Abs(d)
    /\ IF active
       THEN finger' = Clamp(finger + d) /\ UNCHANGED <<pending, active>>
       ELSE IF movement' <= ClickThreshold
       THEN pending' = pending + d /\ UNCHANGED <<active, finger>>
       ELSE active' = TRUE /\ finger' = Clamp(FirstMotion(d)) /\ pending' = 0
    /\ UNCHANGED <<gs, y, pressed, replaced, wheelVars, thumbVars, clicks>>

ReleasePad ==
    /\ Step("touchpad")
    /\ pressed
    /\ clicks' = clicks + IF ~active /\ movement <= ClickThreshold THEN 1 ELSE 0
    /\ pressed' = FALSE
    /\ active' = FALSE
    /\ UNCHANGED <<gs, x, y, replaced, wheelVars, thumbVars, movement, pending, finger>>

Next ==
    \/ PressButton \/ ReleaseButton
    \/ \E dx, dy \in Deltas \cup {0} : MoveButton(dx, dy)
    \/ \E d \in All, k \in Kinds : SetButtonGesture(d, k)
    \/ \E delta \in Deltas, pause \in BOOLEAN : Scroll(delta, pause)
    \/ \E d \in {"up", "down"}, k \in Kinds : SetWheelGesture(d, k)
    \/ \E delta \in Deltas : Rotate(delta)
    \/ Touch \/ ThumbProfile
    \/ PressPad \/ ReleasePad
    \/ \E d \in Deltas : MovePad(d)

Spec == Init /\ [][Next]_vars

(***************************************************************************)
(* Properties.                                                             *)
(***************************************************************************)

\* However a pressed button moves back and forth, the gesture of a horizontal
\* direction has travelled exactly as far as the button is from where it was
\* pressed on that side (GestureAction.cpp:156-184), unless it was replaced.
HorizontalFollowsMotion ==
    host = "button" /\ pressed =>
        \A d \in {"left", "right"} \ replaced :
            gs[d].kind \notin {"absent"} =>
                gs[d].axis = Bigger(0, IF d = "left" THEN -x ELSE x)

\* ... and likewise that of a vertical direction: "Origin/Up to Up", "Up ->
\* Origin/Down" (GestureAction.cpp:186-214).
VerticalFollowsMotion ==
    host = "button" /\ pressed =>
        \A d \in {"up", "down"} \ replaced :
            gs[d].kind \notin {"absent"} =>
                gs[d].axis = Bigger(0, IF d = "up" THEN -y ELSE y)

\* A press ends in at most one OnRelease gesture, and in that without a
\* direction only if no other gesture met its threshold
\* (GestureAction.cpp:117-149).
OneGestureFires ==
    [][host = "button" /\ pressed /\ ~pressed' =>
        LET fired == {d \in All : gs[d].kind = "release" /\ gs'[d].fires > gs[d].fires}
        IN /\ \A d, e \in fired : d = e
           /\ fired = {"none"} => \A d \in All \ {"none"} : ~Met(gs[d])]_vars

\* Between a pause or a turn and the next, an interval gesture of the wheel
\* runs its action once for every interval the wheel has turned, if no event
\* is longer than one (IntervalGesture.cpp:62-81, HiresScroll.cpp:154-193).
WheelCounts ==
    host = "wheel" /\ last # 0 /\ MaxDelta <= Interval =>
        LET d == IF last = 1 THEN "up" ELSE "down"
        IN gs[d].kind = "interval" => gs[d].fires - before[d] = run \div Interval

\* Once the fingers are down they are where the motion since the press,
\* including that before they were, has led them; a press that clicks has
\* put no finger down (TouchpadGestureAction.cpp:90-119, 77-88).
FingersFollowMotion ==
    /\ host = "touchpad" /\ active => finger = x
    /\ host = "touchpad" /\ clicks > 0 => finger = 0 /\ movement <= ClickThreshold

\* What the wheel is turned and a finger is moved is counted, once.
MotionIsCounted == WheelCounts /\ FingersFollowMotion
=============================================================================
