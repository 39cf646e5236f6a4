--------------------------- MODULE FeaturesProofs ---------------------------
(***************************************************************************)
(* Proofs about the features of a device, each a part of MCComponents:     *)
(* gestures (Gestures.tla), the settings of the features (Settings.tla) and*)
(* the actions of a button (Actions.tla).                                  *)
(***************************************************************************)
EXTENDS MCComponents, TLAPS

(***************************************************************************)
(* Gestures.                                                               *)
(***************************************************************************)

\* The directions, and all there are with the gesture that has none.
LEMMA Places ==
    /\ Range(Directions) = {"up", "down", "left", "right"}
    /\ All = {"none", "up", "down", "left", "right"}
<1>1. Range(Directions) = {"up", "down", "left", "right"}
    <2>1. DOMAIN Directions = 1..4
        BY DEF Directions
    <2> QED BY <2>1 DEF Range, Directions
<1> QED BY <1>1 DEF All

AnyKind == {"absent", "axis", "interval", "release", "threshold", "null"}
GestureSet ==
    [kind : AnyKind, threshold : Nat, mult : Nat, axis : Int,
     done : BOOLEAN, passes : Int, fires : Nat, out : Int]

\* A gesture stays one when a field of it changes.
LEMMA FieldTypes ==
    /\ \A g \in GestureSet, n \in Int : [g EXCEPT !.axis = n] \in GestureSet
    /\ \A g \in GestureSet, n \in Int : [g EXCEPT !.passes = n] \in GestureSet
    /\ \A g \in GestureSet, n \in Int : [g EXCEPT !.out = n] \in GestureSet
    /\ \A g \in GestureSet, n \in Nat : [g EXCEPT !.fires = n] \in GestureSet
    /\ \A g \in GestureSet, b \in BOOLEAN : [g EXCEPT !.done = b] \in GestureSet
<1>1. \A g \in GestureSet, n \in Int : [g EXCEPT !.axis = n] \in GestureSet
    BY DEF GestureSet
<1>2. \A g \in GestureSet, n \in Int : [g EXCEPT !.passes = n] \in GestureSet
    BY DEF GestureSet
<1>3. \A g \in GestureSet, n \in Int : [g EXCEPT !.out = n] \in GestureSet
    BY DEF GestureSet
<1>4. \A g \in GestureSet, n \in Nat : [g EXCEPT !.fires = n] \in GestureSet
    BY DEF GestureSet
<1>5. \A g \in GestureSet, b \in BOOLEAN : [g EXCEPT !.done = b] \in GestureSet
    BY DEF GestureSet
<1> QED BY <1>1, <1>2, <1>3, <1>4, <1>5

\* What press() leaves of a gesture.
LEMMA PressTypes ==
    ASSUME NEW g \in GestureSet, NEW init \in BOOLEAN
    PROVE  /\ Press(g, init) \in GestureSet
           /\ Press(g, init).axis = IF init THEN g.threshold ELSE 0
           /\ Press(g, init).passes = 0 /\ Press(g, init).kind = g.kind
           /\ Press(g, init).threshold = g.threshold /\ Press(g, init).fires = g.fires
<1> DEFINE a == IF init THEN g.threshold ELSE 0
           ga == [g EXCEPT !.axis = a]
           gb == [ga EXCEPT !.done = FALSE]
<1>1. a \in Int
    BY DEF GestureSet
<1>2. Press(g, init) = [gb EXCEPT !.passes = 0]
    BY DEF Press
<1> HIDE DEF a
<1>3. ga \in GestureSet /\ ga.axis = a /\ ga.kind = g.kind /\ ga.threshold = g.threshold
      /\ ga.fires = g.fires
    BY <1>1, FieldTypes DEF GestureSet
<1> HIDE DEF ga
<1>4. gb \in GestureSet /\ gb.axis = a /\ gb.kind = g.kind /\ gb.threshold = g.threshold
      /\ gb.fires = g.fires
    BY <1>3, FieldTypes DEF GestureSet
<1> HIDE DEF gb
<1>5. Press(g, init) \in GestureSet
    BY <1>2, <1>4, FieldTypes
<1>6. /\ Press(g, init).axis = a /\ Press(g, init).passes = 0 /\ Press(g, init).kind = g.kind
      /\ Press(g, init).threshold = g.threshold /\ Press(g, init).fires = g.fires
    BY <1>2, <1>4 DEF GestureSet
<1> QED BY <1>5, <1>6 DEF a

\* What release() leaves of a gesture.
LEMMA ReleaseTypes ==
    ASSUME NEW g \in GestureSet, NEW primary \in BOOLEAN
    PROVE  /\ Release(g, primary) \in GestureSet
           /\ Release(g, primary).axis = g.axis /\ Release(g, primary).kind = g.kind
           /\ Release(g, primary).threshold = g.threshold
           /\ Release(g, primary).passes = g.passes
           /\ g.kind # "release" => Release(g, primary).fires = g.fires
           /\ Release(g, primary).fires > g.fires => primary /\ Met(g)
<1>1. CASE g.kind = "release"
    <2> DEFINE n == IF Met(g) /\ primary THEN 1 ELSE 0
               r == [g EXCEPT !.fires = g.fires + n]
    <2>1. n \in Nat /\ (n > 0 => primary /\ Met(g)) /\ g.fires \in Nat
        BY DEF GestureSet
    <2>2. Release(g, primary) = r
        BY <1>1 DEF Release
    <2> HIDE DEF n
    <2>3. r \in GestureSet
        BY <2>1, FieldTypes
    <2>4. /\ r.axis = g.axis /\ r.kind = g.kind /\ r.threshold = g.threshold
          /\ r.passes = g.passes /\ r.fires = g.fires + n
        BY DEF GestureSet
    <2> HIDE DEF r
    <2> QED BY <1>1, <2>1, <2>2, <2>3, <2>4
<1>2. CASE g.kind = "threshold"
    <2> DEFINE r == [g EXCEPT !.done = FALSE]
    <2>1. Release(g, primary) = r
        BY <1>2 DEF Release
    <2>2. r \in GestureSet
        BY FieldTypes
    <2>3. /\ r.axis = g.axis /\ r.kind = g.kind /\ r.threshold = g.threshold
          /\ r.passes = g.passes /\ r.fires = g.fires /\ g.fires \in Nat
        BY DEF GestureSet
    <2> HIDE DEF r
    <2> QED BY <1>2, <2>1, <2>2, <2>3
<1>3. CASE g.kind \notin {"release", "threshold"}
    <2>1. Release(g, primary) = g /\ g.fires \in Nat
        BY <1>3 DEF Release, GestureSet
    <2> QED BY <1>3, <2>1
<1> QED BY <1>1, <1>2, <1>3

\* What move() leaves of a gesture.
LEMMA MoveTypes ==
    ASSUME NEW g \in GestureSet, NEW d \in Int
    PROVE  /\ Move(g, d) \in GestureSet
           /\ Move(g, d).kind = g.kind /\ Move(g, d).threshold = g.threshold
           /\ g.kind # "absent" => Move(g, d).axis = g.axis + d
<1> USE GesturesAssumption
<1> DEFINE h == [g EXCEPT !.axis = g.axis + d]
<1>0. g.axis \in Int /\ g.threshold \in Nat /\ g.out \in Int /\ g.fires \in Nat /\ g.mult \in Nat
      /\ g.passes \in Int
    BY DEF GestureSet
<1>5. h \in GestureSet /\ h.axis = g.axis + d /\ h.kind = g.kind /\ h.threshold = g.threshold
    BY <1>0, FieldTypes DEF GestureSet
<1> HIDE DEF h
<1>1. CASE g.kind = "axis"
    <2> DEFINE beyond == IF g.axis < g.threshold THEN g.axis + d - g.threshold ELSE d
               extra == IF g.axis + d > g.threshold THEN beyond * Multiplier * g.mult ELSE 0
    <2>1. extra \in Int
        <3>1. beyond \in Int
            BY <1>0
        <3>2. beyond * Multiplier \in Int
            BY <3>1
        <3> HIDE DEF beyond
        <3>3. beyond * Multiplier * g.mult \in Int
            BY <3>2, <1>0
        <3> QED BY <3>3
    <2>2. Move(g, d) = [h EXCEPT !.out = g.out + extra]
        BY <1>1 DEF Move, MoveAxis, h
    <2> HIDE DEF extra
    <2> QED BY <1>0, <1>1, <1>5, <2>1, <2>2, FieldTypes DEF GestureSet
<1>2. CASE g.kind = "interval"
    <2> DEFINE counted == (g.axis + d - g.threshold) \div Interval
               more == IF counted > g.passes THEN 1 ELSE 0
               k == [h EXCEPT !.passes = counted]
    <2>1. counted \in Int /\ more \in Nat
        BY <1>0
    <2>2. Move(g, d) = h \/ Move(g, d) = [k EXCEPT !.fires = g.fires + more]
        BY <1>2 DEF Move, MoveInterval, h
    <2> HIDE DEF counted, more
    <2>3. k \in GestureSet /\ k.axis = h.axis /\ k.kind = h.kind /\ k.threshold = h.threshold
        BY <1>5, <2>1, FieldTypes DEF GestureSet
    <2> HIDE DEF k
    <2> QED BY <1>0, <1>2, <1>5, <2>1, <2>2, <2>3, FieldTypes DEF GestureSet
<1>3. CASE g.kind = "threshold"
    <2> DEFINE k == [h EXCEPT !.done = TRUE]
    <2>1. k \in GestureSet /\ k.axis = h.axis /\ k.kind = h.kind /\ k.threshold = h.threshold
        BY <1>5, FieldTypes DEF GestureSet
    <2>2. Move(g, d) = h \/ Move(g, d) = [k EXCEPT !.fires = g.fires + 1]
        BY <1>3 DEF Move, MoveThreshold, h
    <2> HIDE DEF k
    <2> QED BY <1>0, <1>3, <1>5, <2>1, <2>2, FieldTypes DEF GestureSet
<1>4. CASE g.kind \notin {"axis", "interval", "threshold"}
    BY <1>4, <1>5 DEF Move, h
<1> QED BY <1>1, <1>2, <1>3, <1>4

\* A gesture that is made is one, and has counted nothing.
LEMMA ConfiguredTypes ==
    ASSUME NEW h, NEW d, NEW kind \in AnyKind, NEW fixed \in BOOLEAN
    PROVE  /\ Configured(h, d, kind, fixed) \in GestureSet
           /\ Configured(h, d, kind, fixed).kind = kind
           /\ Configured(h, d, kind, fixed).passes = 0
           /\ Configured(h, d, kind, fixed).fires = 0
           /\ kind # "absent" /\ h # "button" /\ fixed =>
                Configured(h, d, kind, fixed).axis = Configured(h, d, kind, fixed).threshold
<1>1. ASSUME NEW t \in Nat, NEW m \in Nat
      PROVE  /\ Gesture(kind, t, m) \in GestureSet /\ Gesture(kind, t, m).kind = kind
             /\ Gesture(kind, t, m).axis = 0 /\ Gesture(kind, t, m).passes = 0
             /\ Gesture(kind, t, m).fires = 0 /\ Gesture(kind, t, m).threshold = t
    BY DEF Gesture, GestureSet, AnyKind
<1>2. Threshold \in Nat /\ HiRes \in Nat
    BY GesturesAssumption
<1>3. CASE kind = "absent"
    BY <1>1, <1>3 DEF Configured, Absent
<1>4. CASE kind # "absent" /\ h = "button"
    <2>1. Configured(h, d, kind, fixed) = Gesture(kind, IF d = "none" THEN 0 ELSE Threshold, 1)
        BY <1>4 DEF Configured
    <2>2. (IF d = "none" THEN 0 ELSE Threshold) \in Nat
        BY <1>2
    <2> QED BY <1>1, <1>4, <2>1, <2>2
<1>5. CASE kind # "absent" /\ h # "button" /\ fixed
    <2> DEFINE g == Gesture(kind, Threshold, HiRes)
    <2>1. Configured(h, d, kind, fixed) = Press(g, TRUE)
        BY <1>5 DEF Configured
    <2>2. g \in GestureSet /\ g.kind = kind /\ g.fires = 0
        BY <1>1, <1>2
    <2> HIDE DEF g
    <2>3. /\ Press(g, TRUE) \in GestureSet /\ Press(g, TRUE).passes = 0
          /\ Press(g, TRUE).axis = IF TRUE THEN g.threshold ELSE 0
          /\ Press(g, TRUE).kind = g.kind /\ Press(g, TRUE).fires = g.fires
          /\ Press(g, TRUE).threshold = g.threshold
        BY <2>2, PressTypes, Zenon
    <2> QED BY <1>5, <2>1, <2>2, <2>3
<1>6. CASE kind # "absent" /\ h # "button" /\ ~fixed
    <2>1. Configured(h, d, kind, fixed) = Gesture(kind, Threshold, 1)
        BY <1>6 DEF Configured
    <2> QED BY <1>1, <1>2, <1>6, <2>1
<1> QED BY <1>3, <1>4, <1>5, <1>6

\* So are those that a configuration makes.
LEMMA GesturesOfTypes ==
    ASSUME NEW h, NEW fixed \in BOOLEAN, NEW f \in GesturesOf(h, fixed)
    PROVE  /\ f \in [All -> GestureSet]
           /\ \A d \in All : f[d].kind # "absent" => f[d].passes = 0
           /\ \A d \in All :
                f[d].kind # "absent" /\ h # "button" /\ fixed => f[d].axis = f[d].threshold
<1>1. PICK k1 \in KindsOf(h), k2 \in {"absent", "release"} :
         f = [d \in All |-> IF d \in DirectionsOf(h)
                            THEN Configured(h, d, IF d = "none" THEN k2 ELSE k1, fixed)
                            ELSE Absent]
    BY DEF GesturesOf
<1>2. Absent \in GestureSet /\ Absent.kind = "absent"
    BY DEF Absent, Gesture, GestureSet, AnyKind
<1>3. k1 \in AnyKind /\ k2 \in AnyKind
    BY GesturesAssumption DEF KindsOf, AnyKind
<1> HIDE DEF AnyKind
<1>4. ASSUME NEW d \in All
      PROVE  /\ f[d] \in GestureSet
             /\ f[d].kind # "absent" => f[d].passes = 0
             /\ f[d].kind # "absent" /\ h # "button" /\ fixed => f[d].axis = f[d].threshold
    <2>1. CASE d \notin DirectionsOf(h)
        BY <1>1, <1>2, <2>1
    <2>2. CASE d \in DirectionsOf(h)
        <3>1. PICK k \in AnyKind : f[d] = Configured(h, d, k, fixed)
            BY <1>1, <1>3, <2>2
        <3> QED BY <3>1, ConfiguredTypes
    <2> QED BY <2>1, <2>2
<1> QED BY <1>1, <1>4

GestureTypes ==
    /\ gs \in [All -> GestureSet]
    /\ x \in Int
    /\ y \in Int
    /\ pressed \in BOOLEAN

\* A distance that fits into 16 bits is kept as it is.
LEMMA NarrowSmall ==
    ASSUME NEW n \in Int, -Half <= n, n < Half
    PROVE  Narrow(n) = n
<1>1. Half \in Nat
    BY GesturesAssumption
<1>2. \A a, b \in Int : 0 <= a /\ a < b => a % b = a
    OBVIOUS
<1>3. (n + Half) % (2 * Half) = n + Half
    BY <1>1, <1>2
<1> QED BY <1>1, <1>3 DEF Narrow

\* What left and right are told adds up to the distance on their side.
LEMMA MinusFollows ==
    ASSUME NEW n \in Int, NEW d \in Deltas \cup {0}
    PROVE  /\ MinusX(n, d) \in Int /\ PlusX(n, d) \in Int
           /\ Bigger(0, -n) + MinusX(n, d) = Bigger(0, -(n + d))
           /\ Bigger(0, n) + PlusX(n, d) = Bigger(0, n + d)
<1>1. d \in Int /\ -Half < d /\ d < Half /\ Half \in Nat
    BY GesturesAssumption DEF Deltas
<1>2. CASE n < 0 /\ n + d >= 0
    <2>1. Narrow(n) = n /\ Narrow(n + d) = n + d
        BY <1>1, <1>2, NarrowSmall
    <2> QED BY <1>1, <1>2, <2>1 DEF MinusX, PlusX, CrossMinus, Bigger
<1>3. CASE n > 0 /\ n + d <= 0
    <2>1. Narrow(-(n + d)) = -(n + d) /\ Narrow(-n) = -n
        BY <1>1, <1>3, NarrowSmall
    <2> QED BY <1>1, <1>3, <2>1 DEF MinusX, PlusX, CrossMinus, Bigger
<1>4. CASE n <= 0 /\ n + d < 0
    <2>1. Narrow(-d) = -d
        BY <1>1, NarrowSmall
    <2> QED BY <1>1, <1>4, <2>1 DEF MinusX, PlusX, CrossMinus, Bigger
<1>5. CASE n >= 0 /\ n + d > 0
    BY <1>1, <1>5 DEF MinusX, PlusX, CrossMinus, Bigger
<1>6. CASE n = 0 /\ d = 0
    <2>1. MinusX(0, 0) = 0 /\ PlusX(0, 0) = 0
        BY DEF MinusX, PlusX
    <2> QED BY <1>6, <2>1 DEF Bigger
<1> QED BY <1>1, <1>2, <1>3, <1>4, <1>5, <1>6

\* What up and down are told are numbers.
LEMMA UpIsWhole ==
    ASSUME NEW n \in Int, NEW d \in Deltas \cup {0}
    PROVE  UpY(n, d) \in Int /\ DownY(n, d) \in Int
<1>1. d \in Int /\ Half \in Nat /\ Half > 0
    BY GesturesAssumption DEF Deltas
<1>2. \A k \in Int : Narrow(k) \in Int
    BY <1>1 DEF Narrow
<1>3. -(n + d) \in Int /\ n + d \in Int /\ -n \in Int /\ -d \in Int
    BY <1>1
<1> QED BY <1>1, <1>2, <1>3 DEF UpY, DownY

\* The types hold at first.
LEMMA InitGestures == ASSUME Init PROVE GestureTypes
<1>1. gs \in GesturesOf(host, TRUE) /\ x = 0 /\ y = 0 /\ pressed = FALSE
    BY DEF Init
<1>2. gs \in [All -> GestureSet]
    BY <1>1, GesturesOfTypes, Zenon
<1>3. x \in Int /\ y \in Int
    BY <1>1
<1>4. pressed \in BOOLEAN
    BY <1>1, Zenon
<1> QED BY <1>2, <1>3, <1>4 DEF GestureTypes

\* A gesture that is told of a distance has it added, unless it is 0.
LEMMA MovedTypes ==
    ASSUME NEW g \in GestureSet, NEW d \in Int
    PROVE  /\ Moved(g, d) \in GestureSet /\ Moved(g, d).kind = g.kind
           /\ g.kind # "absent" => Moved(g, d).axis = g.axis + d
<1>1. g.axis \in Int
    BY DEF GestureSet
<1>2. CASE d = 0
    BY <1>1, <1>2 DEF Moved
<1>3. CASE d # 0
    <2>1. Moved(g, d) = Move(g, d)
        BY <1>3 DEF Moved
    <2> QED BY <2>1, MoveTypes
<1> QED BY <1>2, <1>3

\* A movement of the mouse tells left and right their side of it.
LEMMA ButtonMoves ==
    ASSUME GestureTypes, NEW dx \in Deltas \cup {0}, NEW dy \in Deltas \cup {0}, MoveButton(dx, dy)
    PROVE  /\ GestureTypes'
           /\ gs'["left"] = Moved(gs["left"], MinusX(x, dx))
           /\ gs'["right"] = Moved(gs["right"], PlusX(x, dx))
<1>1. dx \in Int /\ dy \in Int
    BY GesturesAssumption DEF Deltas
<1>2. MinusX(x, dx) \in Int /\ PlusX(x, dx) \in Int /\ UpY(y, dy) \in Int /\ DownY(y, dy) \in Int
    BY MinusFollows, UpIsWhole DEF GestureTypes
<1>3. /\ gs'["left"] = Moved(gs["left"], MinusX(x, dx))
      /\ gs'["right"] = Moved(gs["right"], PlusX(x, dx))
      /\ gs'["up"] = Moved(gs["up"], UpY(y, dy))
      /\ gs'["down"] = Moved(gs["down"], DownY(y, dy))
      /\ gs'["none"] = gs["none"]
      /\ gs' = [d \in All |-> gs'[d]]
    BY Places DEF MoveButton, GestureTypes
<1>4. \A d \in All : gs[d] \in GestureSet
    BY DEF GestureTypes
<1>5. \A d \in All : gs'[d] \in GestureSet
    <2>1. \A g \in GestureSet, n \in Int : Moved(g, n) \in GestureSet
        BY MovedTypes, Zenon
    <2>2. /\ gs["none"] \in GestureSet /\ gs["left"] \in GestureSet
          /\ gs["right"] \in GestureSet /\ gs["up"] \in GestureSet
          /\ gs["down"] \in GestureSet
        BY <1>4, Places
    <2>3. /\ gs'["none"] \in GestureSet /\ gs'["left"] \in GestureSet
          /\ gs'["right"] \in GestureSet /\ gs'["up"] \in GestureSet
          /\ gs'["down"] \in GestureSet
        BY <1>2, <1>3, <2>1, <2>2, Zenon
    <2> QED BY <2>3, Places
<1>6. gs' \in [All -> GestureSet]
    BY <1>3, <1>5, Zenon
<1>7. x' \in Int /\ y' \in Int /\ pressed' \in BOOLEAN
    BY <1>1 DEF MoveButton, GestureTypes
<1> QED BY <1>3, <1>6, <1>7 DEF GestureTypes

\* The release of the button keeps the types.
LEMMA ButtonReleases ==
    ASSUME GestureTypes, ReleaseButton
    PROVE  /\ GestureTypes'
           /\ ~pressed'
<1> DEFINE p == ToDirection(x, y)
           met == {d \in Range(Directions) \ {p} : Met(gs[d])}
<1>1. \A d \in All : \/ gs'[d] = gs[d]
                     \/ \E b \in BOOLEAN : gs'[d] = Release(gs[d], b)
    <2> TAKE d \in All
    <2>1. NoneFires(Met(gs[p]) \/ met # {}) \in BOOLEAN
        BY DEF NoneFires
    <2>2. \/ gs'[d] = gs[d]
          \/ gs'[d] = Release(gs[d], TRUE)
          \/ gs'[d] = Release(gs[d], FALSE)
          \/ gs'[d] = Release(gs[d], NoneFires(Met(gs[p]) \/ met # {}))
        <3> DEFINE Place(e) == CHOOSE n \in 1..4 : Directions[n] = e
                   IsFirst(e) == e \in met /\ \A f \in met : Place(e) <= Place(f)
                   After(e) == \E f \in met : Place(f) < Place(e)
        <3>1. gs'[d] = CASE d = p -> Release(gs[d], TRUE)
                [] d = "none" -> Release(gs[d], NoneFires(Met(gs[p]) \/ met # {}))
                [] OTHER -> IF Met(gs[p]) \/ After(d) THEN Release(gs[d], FALSE)
                            ELSE IF IsFirst(d) THEN Release(gs[d], TRUE) ELSE gs[d]
            BY DEF ReleaseButton
        <3>2. p # "none"
            BY DEF ToDirection
        <3> HIDE DEF p, met, IsFirst, After
        <3> QED BY <3>1, <3>2
    <2> QED BY <2>1, <2>2, Zenon
<1>2. gs' = [d \in All |-> gs'[d]]
    BY DEF ReleaseButton
<1>3. \A d \in All : gs'[d] \in GestureSet
    BY <1>1, ReleaseTypes DEF GestureTypes
<1>4. gs' \in [All -> GestureSet]
    BY <1>2, <1>3, Zenon
<1>5. pressed' = FALSE /\ UNCHANGED <<x, y>>
    BY DEF ReleaseButton
<1> QED BY <1>4, <1>5, Zenon DEF GestureTypes

\* The press of the button sets every distance to 0.
LEMMA ButtonIsPressed ==
    ASSUME GestureTypes, PressButton
    PROVE  /\ GestureTypes'
           /\ x' = 0 /\ y' = 0
           /\ \A d \in All : gs'[d].axis = 0
<1>1. ASSUME NEW d \in All
      PROVE  gs'[d] \in GestureSet /\ gs'[d].axis = 0
    <2> DEFINE h == Press(gs[d], FALSE)
    <2>1. gs'[d] = [h EXCEPT !.fires = 0]
        BY DEF PressButton
    <2>2. h \in GestureSet /\ h.axis = IF FALSE THEN gs[d].threshold ELSE 0
        BY PressTypes, Zenon DEF GestureTypes
    <2> HIDE DEF h
    <2>3. h.axis = 0
        BY <2>2
    <2> QED BY <2>1, <2>2, <2>3, FieldTypes DEF GestureSet
<1>2. gs' = [d \in All |-> gs'[d]]
    BY DEF PressButton
<1>3. gs' \in [All -> GestureSet]
    BY <1>1, <1>2, Zenon
<1>4. pressed' = TRUE /\ x' = 0 /\ y' = 0
    BY DEF PressButton
<1>5. x' \in Int /\ y' \in Int
    BY <1>4
<1>6. pressed' \in BOOLEAN
    BY <1>4, Zenon
<1> QED BY <1>1, <1>3, <1>4, <1>5, <1>6 DEF GestureTypes

\* A gesture that is replaced leaves the others alone.
LEMMA GestureIsSet ==
    ASSUME GestureTypes, NEW d \in All, NEW kind \in Kinds, SetButtonGesture(d, kind)
    PROVE  /\ GestureTypes'
           /\ \A e \in All \ {d} : gs'[e] = gs[e]
<1> DEFINE old == IF pressed /\ gs[d].kind # "absent"
                  THEN Release(gs[d], ToDirection(x, y) = d) ELSE gs[d]
           new == Configured("button", d, kind, FALSE)
           this == [new EXCEPT !.fires = old.fires]
<1>1. old \in GestureSet
    <2>1. (ToDirection(x, y) = d) \in BOOLEAN
        OBVIOUS
    <2>2. Release(gs[d], ToDirection(x, y) = d) \in GestureSet
        BY <2>1, ReleaseTypes, Zenon DEF GestureTypes
    <2> QED BY <2>2 DEF GestureTypes
<1>2. kind \in AnyKind
    BY GesturesAssumption DEF AnyKind
<1>3. new \in GestureSet
    BY <1>2, ConfiguredTypes, Zenon
<1>4. gs' = [gs EXCEPT ![d] = this]
    BY Zenon DEF SetButtonGesture
<1> HIDE DEF old, new
<1>5. old.fires \in Nat
    BY <1>1 DEF GestureSet
<1>6. this \in GestureSet
    BY <1>3, <1>5, FieldTypes
<1> HIDE DEF this
<1>7. gs' \in [All -> GestureSet] /\ \A e \in All \ {d} : gs'[e] = gs[e]
    BY <1>4, <1>6 DEF GestureTypes
<1>8. UNCHANGED <<x, y, pressed>>
    BY DEF SetButtonGesture
<1> QED BY <1>7, <1>8 DEF GestureTypes

\* A pause starts a gesture afresh, at its threshold.
LEMMA AfreshTypes ==
    ASSUME NEW g \in GestureSet
    PROVE  /\ Afresh(g) \in GestureSet /\ Afresh(g).kind = g.kind
           /\ Afresh(g).threshold = g.threshold
           /\ Afresh(g).axis = g.threshold /\ Afresh(g).passes = 0
           /\ g.kind # "release" => Afresh(g).fires = g.fires
<1> DEFINE r == Release(g, FALSE)
<1>1. /\ r \in GestureSet /\ r.kind = g.kind /\ r.threshold = g.threshold
      /\ g.kind # "release" => r.fires = g.fires
    BY ReleaseTypes, Zenon
<1>2. Afresh(g) = Press(r, TRUE)
    BY DEF Afresh
<1> HIDE DEF r
<1>3. /\ Press(r, TRUE) \in GestureSet /\ Press(r, TRUE).axis = IF TRUE THEN r.threshold ELSE 0
      /\ Press(r, TRUE).passes = 0 /\ Press(r, TRUE).kind = r.kind
      /\ Press(r, TRUE).threshold = r.threshold /\ Press(r, TRUE).fires = r.fires
    BY <1>1, PressTypes, Zenon
<1> QED BY <1>1, <1>2, <1>3

\* The wheel tells its direction what it turned, and starts the other afresh.
LEMMA WheelScrolls ==
    ASSUME GestureTypes, NEW delta \in Deltas, NEW pause \in BOOLEAN, Scroll(delta, pause)
    PROVE  LET d == IF delta > 0 THEN 1 ELSE -1
               this == IF d = 1 THEN "up" ELSE "down"
               other == IF d = 1 THEN "down" ELSE "up"
           IN  /\ GestureTypes'
               /\ \A e \in All \ {"up", "down"} :
                    gs'[e] = IF pause THEN Afresh(gs[e]) ELSE gs[e]
               /\ gs'[this] = Move(IF pause THEN Afresh(gs[this]) ELSE gs[this], Abs(delta))
               /\ gs'[other] = IF pause \/ last = -d THEN Afresh(gs[other]) ELSE gs[other]
<1> DEFINE d == IF delta > 0 THEN 1 ELSE -1
           this == IF d = 1 THEN "up" ELSE "down"
           other == IF d = 1 THEN "down" ELSE "up"
           rested == [e \in All |-> IF pause THEN Afresh(gs[e]) ELSE gs[e]]
           turned == IF ~pause /\ Turned(d) THEN [rested EXCEPT ![other] = Afresh(@)] ELSE rested
<1>1. this \in All /\ other \in All /\ this # other /\ {this, other} = {"up", "down"}
    BY Places
<1>2. Abs(delta) \in Int
    BY GesturesAssumption DEF Deltas, Abs, Bigger
<1>3. gs' = [turned EXCEPT ![this] = Move(turned[this], Abs(delta))]
    BY <1>1 DEF Scroll
<1>4. UNCHANGED <<x, y, pressed>>
    BY DEF Scroll
<1> HIDE DEF this, other
<1>5. \A e \in All : gs[e] \in GestureSet /\ Afresh(gs[e]) \in GestureSet
    BY AfreshTypes DEF GestureTypes
<1>6. rested \in [All -> GestureSet]
    BY <1>5
<1>7. turned \in [All -> GestureSet]
    BY <1>1, <1>6, AfreshTypes
<1>8. \A e \in All \ {other} : turned[e] = IF pause THEN Afresh(gs[e]) ELSE gs[e]
    BY <1>1
<1>9. turned[other] = IF pause \/ last = -d THEN Afresh(gs[other]) ELSE gs[other]
    BY <1>1 DEF Turned
<1> HIDE DEF turned, rested
<1>10. gs' \in [All -> GestureSet]
    BY <1>1, <1>2, <1>3, <1>7, MoveTypes
<1>11. GestureTypes'
    BY <1>4, <1>10 DEF GestureTypes
<1>12. /\ \A e \in All \ {"up", "down"} :
            gs'[e] = IF pause THEN Afresh(gs[e]) ELSE gs[e]
       /\ gs'[this] = Move(IF pause THEN Afresh(gs[this]) ELSE gs[this], Abs(delta))
       /\ gs'[other] = IF pause \/ last = -d THEN Afresh(gs[other]) ELSE gs[other]
    BY <1>1, <1>3, <1>7, <1>8, <1>9
<1> QED BY <1>11, <1>12 DEF this, other

\* A factor can be cancelled.
LEMMA MulLess ==
    ASSUME NEW b \in Nat \ {0}, NEW m \in Int, NEW n \in Int, b * m < b * n
    PROVE  m < n
<1>1. ASSUME NEW k \in Nat PROVE b * k >= 0
    OBVIOUS
<1>2. CASE m >= n
    <2>1. m - n \in Nat /\ b * (m - n) = b * m - b * n
        BY <1>2
    <2>2. b * (m - n) >= 0
        BY <2>1, <1>1
    <2>3. b * m \in Int /\ b * n \in Int
        OBVIOUS
    <2> QED BY <2>1, <2>2, <2>3
<1> QED BY <1>2

\* A quotient by its bounds.
LEMMA DivBounds ==
    ASSUME NEW a \in Nat, NEW b \in Nat \ {0}
    PROVE  a \div b \in Nat /\ b * (a \div b) <= a /\ a < b * (a \div b + 1)
OBVIOUS

\* A step of at most an interval raises the quotient by one at most.
LEMMA DivSteps ==
    ASSUME NEW a \in Nat, NEW k \in Nat, NEW b \in Nat \ {0}, k <= b
    PROVE  (a + k) \div b \in {a \div b, a \div b + 1}
<1> DEFINE q == a \div b
           r == (a + k) \div b
<1>1. q \in Nat /\ b * q <= a /\ a < b * (q + 1)
    BY DivBounds
<1>2. r \in Nat /\ b * r <= a + k /\ a + k < b * (r + 1)
    BY DivBounds
<1> HIDE DEF q, r
<1>3. b * q \in Int /\ b * r \in Int /\ b * (q + 1) = b * q + b /\ b * (r + 1) = b * r + b
      /\ b * (q + 2) = b * q + b + b
    BY <1>1, <1>2
<1>4. b * q < b * (r + 1) /\ b * r < b * (q + 2)
    BY <1>1, <1>2, <1>3
<1>5. q < r + 1 /\ r < q + 2
    BY <1>1, <1>2, <1>4, MulLess
<1> QED BY <1>1, <1>2, <1>5 DEF q, r

\* An interval gesture of a wheel has passed as many intervals as it turned.
LEMMA IntervalTurns ==
    ASSUME NEW g \in GestureSet, g.kind = "interval", NEW n \in Nat, NEW k \in Nat,
           g.axis = g.threshold + n
    PROVE  /\ Move(g, k) \in GestureSet /\ Move(g, k).kind = "interval"
           /\ Move(g, k).threshold = g.threshold
           /\ Move(g, k).axis = g.threshold + n + k
           /\ k <= Interval /\ g.passes = n \div Interval =>
                /\ Move(g, k).passes = (n + k) \div Interval
                /\ Move(g, k).fires - g.fires = (n + k) \div Interval - n \div Interval
<1> USE GesturesAssumption
<1>0. g.axis \in Int /\ g.threshold \in Nat /\ g.fires \in Nat /\ g.passes \in Int
    BY DEF GestureSet
<1>1. /\ Move(g, k) \in GestureSet /\ Move(g, k).kind = "interval"
      /\ Move(g, k).threshold = g.threshold
      /\ Move(g, k).axis = g.axis + k
    <2>1. k \in Int /\ g.kind # "absent"
        OBVIOUS
    <2> QED BY <2>1, MoveTypes, Zenon
<1>2. ASSUME k <= Interval, g.passes = n \div Interval
      PROVE  /\ Move(g, k).passes = (n + k) \div Interval
             /\ Move(g, k).fires - g.fires = (n + k) \div Interval - n \div Interval
    <2> DEFINE counted == (g.axis + k - g.threshold) \div Interval
               more == IF counted > g.passes THEN 1 ELSE 0
               h == [g EXCEPT !.axis = g.axis + k]
               m == [h EXCEPT !.passes = counted]
               f == [m EXCEPT !.fires = g.fires + more]
    <2>1. g.axis + k - g.threshold = n + k /\ ~(g.axis + k < g.threshold)
        BY <1>0
    <2>2. counted = (n + k) \div Interval /\ counted \in Int
        BY <2>1
    <2>3. counted \in {n \div Interval, n \div Interval + 1} /\ n \div Interval \in Int
        <3>1. (n + k) \div Interval \in {n \div Interval, n \div Interval + 1}
            BY <1>2, DivSteps
        <3>2. n \div Interval \in Int
            OBVIOUS
        <3> QED BY <2>2, <3>1, <3>2
    <2>4. more = counted - n \div Interval
        BY <1>2, <2>3
    <2>5. Move(g, k) = f
        BY <2>1 DEF Move, MoveInterval
    <2> HIDE DEF counted, more
    <2>6. h \in GestureSet
        BY <1>0, FieldTypes
    <2> HIDE DEF h
    <2>7. m \in GestureSet /\ m.passes = counted
        BY <2>2, <2>6, FieldTypes DEF GestureSet
    <2> HIDE DEF m
    <2>8. f.passes = counted /\ f.fires = g.fires + more
        BY <2>7 DEF GestureSet
    <2> HIDE DEF f
    <2> QED BY <1>0, <2>2, <2>3, <2>4, <2>5, <2>8
<1> QED BY <1>0, <1>1, <1>2

Sign(d) == IF d = "up" THEN 1 ELSE -1

WheelTurns ==
    host = "wheel" =>
        /\ last \in {-1, 0, 1} /\ run \in Nat /\ before \in [All -> Nat]
        /\ \A d \in {"up", "down"} : gs[d].kind = "interval" =>
              IF last = Sign(d)
              THEN /\ gs[d].axis = gs[d].threshold + run
                   /\ MaxDelta <= Interval =>
                        /\ gs[d].passes = run \div Interval
                        /\ gs[d].fires - before[d] = run \div Interval
              ELSE gs[d].axis = gs[d].threshold /\ gs[d].passes = 0

\* A turn of the wheel keeps the count of what each direction passed.
LEMMA ScrollTurns ==
    ASSUME GestureTypes, WheelTurns, NEW delta \in Deltas, NEW pause \in BOOLEAN,
           Scroll(delta, pause)
    PROVE  WheelTurns'
<1> DEFINE d == IF delta > 0 THEN 1 ELSE -1
           this == IF d = 1 THEN "up" ELSE "down"
           other == IF d = 1 THEN "down" ELSE "up"
           g == IF pause THEN Afresh(gs[this]) ELSE gs[this]
           k == Abs(delta)
<1>0. Interval \in Nat \ {0} /\ MaxDelta \in Nat
    BY GesturesAssumption
<1>1. host = "wheel" /\ host' = host /\ last' = d
    BY DEF Scroll, Step
<1>2. /\ this \in All /\ other \in All /\ {this, other} = {"up", "down"} /\ this # other
      /\ Sign(this) = d /\ Sign(other) = -d /\ d \in {-1, 1}
    BY Places DEF Sign
<1>3. k \in Nat /\ k <= MaxDelta
    BY <1>0 DEF Deltas, Abs, Bigger
<1>4. /\ gs'[this] = Move(g, k)
      /\ gs'[other] = IF pause \/ last = -d THEN Afresh(gs[other]) ELSE gs[other]
    BY WheelScrolls
<1>5. IF pause \/ last # d
      THEN run' = k /\ before' = [e \in All |-> gs[e].fires]
      ELSE run' = run + k /\ before' = before
    BY DEF Scroll
<1> HIDE DEF d, this, other
<1>6. gs[this] \in GestureSet /\ gs[other] \in GestureSet
    BY <1>2 DEF GestureTypes
<1>7. run' \in Nat /\ before' \in [All -> Nat]
    <2>1. \A e \in All : gs[e].fires \in Nat
        BY DEF GestureTypes, GestureSet
    <2> QED BY <1>1, <1>3, <1>5, <2>1 DEF WheelTurns
<1>8. g \in GestureSet /\ g.kind = gs[this].kind
    BY <1>6, AfreshTypes
<1>9. gs'[other].kind = "interval" => gs'[other].axis = gs'[other].threshold /\ gs'[other].passes = 0
    <2>1. CASE pause \/ last = -d
        BY <1>4, <1>6, <2>1, AfreshTypes
    <2>2. CASE ~(pause \/ last = -d)
        BY <1>1, <1>2, <1>4, <2>2 DEF WheelTurns
    <2> QED BY <2>1, <2>2
<1>10. ASSUME gs'[this].kind = "interval"
       PROVE  /\ gs'[this].axis = gs'[this].threshold + run'
              /\ MaxDelta <= Interval =>
                    /\ gs'[this].passes = run' \div Interval
                    /\ gs'[this].fires - before'[this] = run' \div Interval
    <2>1. g.kind = "interval"
        <3> HIDE DEF g, k
        <3>1. k \in Int
            BY <1>3
        <3>2. Move(g, k).kind = g.kind
            BY <1>8, <3>1, MoveTypes, Zenon
        <3> QED BY <1>4, <1>10, <3>2
    <2>2. g.threshold \in Nat /\ g.fires \in Nat /\ g.axis \in Int
        BY <1>8 DEF GestureSet
    <2>3. CASE pause \/ last # d
        <3>1. g.axis = g.threshold /\ g.passes = 0 /\ g.fires = gs[this].fires
            <4>1. CASE pause
                BY <1>6, <1>8, <2>1, <4>1, AfreshTypes
            <4>2. CASE ~pause
                BY <1>1, <1>2, <2>1, <2>3, <4>2 DEF WheelTurns
            <4> QED BY <4>1, <4>2
        <3>2. 0 \div Interval = 0 /\ g.axis = g.threshold + 0
            BY <1>0, <2>2, <3>1
        <3>3. /\ gs'[this].threshold = g.threshold
              /\ gs'[this].axis = g.threshold + 0 + k
              /\ k <= Interval =>
                   /\ gs'[this].passes = (0 + k) \div Interval
                   /\ gs'[this].fires - g.fires = (0 + k) \div Interval - 0
            <4> HIDE DEF g, k
            <4>1. 0 \in Nat /\ g.passes = 0 \div Interval
                BY <3>1, <3>2
            <4>2. k \in Nat
                BY <1>3
            <4>3. /\ Move(g, k).threshold = g.threshold
                  /\ Move(g, k).axis = g.threshold + 0 + k
                  /\ k <= Interval /\ g.passes = 0 \div Interval =>
                       /\ Move(g, k).passes = (0 + k) \div Interval
                       /\ Move(g, k).fires - g.fires = (0 + k) \div Interval - 0 \div Interval
                BY <1>8, <2>1, <3>2, <4>1, <4>2, IntervalTurns
            <4> QED BY <1>4, <3>2, <4>1, <4>3, Zenon
        <3>4. run' = k /\ before'[this] = g.fires
            BY <1>2, <1>5, <2>3, <3>1
        <3>5. 0 + k = k /\ k \div Interval \in Int
            BY <1>0, <1>3
        <3> HIDE DEF k, g
        <3> QED BY <1>0, <1>3, <2>2, <3>3, <3>4, <3>5
    <2>4. CASE ~(pause \/ last # d)
        <3>1. g = gs[this] /\ last = Sign(this)
            BY <1>2, <2>4
        <3>2. /\ g.axis = g.threshold + run
              /\ MaxDelta <= Interval =>
                    /\ g.passes = run \div Interval
                    /\ g.fires - before[this] = run \div Interval
              /\ run \in Nat /\ before[this] \in Nat
            BY <1>1, <1>2, <2>1, <3>1 DEF WheelTurns
        <3>3. /\ gs'[this] \in GestureSet
              /\ gs'[this].threshold = g.threshold
              /\ gs'[this].axis = g.threshold + run + k
              /\ MaxDelta <= Interval =>
                   /\ gs'[this].passes = (run + k) \div Interval
                   /\ gs'[this].fires - g.fires = (run + k) \div Interval - run \div Interval
            <4> HIDE DEF g, k
            <4>1. MaxDelta <= Interval => k <= Interval
                BY <1>0, <1>3
            <4>2. k \in Nat /\ run \in Nat /\ g.axis = g.threshold + run
                  /\ (MaxDelta <= Interval => g.passes = run \div Interval)
                BY <1>3, <3>2
            <4>3. /\ Move(g, k) \in GestureSet
                  /\ Move(g, k).threshold = g.threshold
                  /\ Move(g, k).axis = g.threshold + run + k
                  /\ k <= Interval /\ g.passes = run \div Interval =>
                       /\ Move(g, k).passes = (run + k) \div Interval
                       /\ Move(g, k).fires - g.fires = (run + k) \div Interval - run \div Interval
                <5>1. g \in GestureSet /\ g.kind = "interval"
                    BY <1>8, <2>1
                <5>2. k \in Nat /\ run \in Nat /\ g.axis = g.threshold + run
                    BY <4>2
                <5> QED BY <5>1, <5>2, IntervalTurns, Zenon
            <4> QED BY <1>4, <4>1, <4>2, <4>3, Zenon
        <3>4. run' = run + k /\ before'[this] = before[this]
            BY <1>5, <2>4
        <3>5. (run + k) \div Interval \in Int /\ run \div Interval \in Int
              /\ gs'[this].fires \in Nat
            BY <1>0, <1>3, <3>2, <3>3 DEF GestureSet
        <3> HIDE DEF k, g
        <3> QED BY <1>0, <1>3, <2>2, <3>2, <3>3, <3>4, <3>5
    <2> QED BY <2>3, <2>4
<1> HIDE DEF g, k
<1>11. ASSUME NEW e \in {"up", "down"}, gs'[e].kind = "interval"
       PROVE  IF last' = Sign(e)
              THEN /\ gs'[e].axis = gs'[e].threshold + run'
                   /\ MaxDelta <= Interval =>
                        /\ gs'[e].passes = run' \div Interval
                        /\ gs'[e].fires - before'[e] = run' \div Interval
              ELSE gs'[e].axis = gs'[e].threshold /\ gs'[e].passes = 0
    <2>1. CASE e = this
        BY <1>1, <1>2, <1>10, <1>11, <2>1
    <2>2. CASE e = other
        BY <1>1, <1>2, <1>9, <1>11, <2>2
    <2> QED BY <1>2, <2>1, <2>2
<1> QED BY <1>1, <1>2, <1>7, <1>11 DEF WheelTurns

\* A gesture that is set for the wheel starts its count.
LEMMA WheelGestureIsSet ==
    ASSUME GestureTypes, WheelTurns, NEW d \in {"up", "down"}, NEW kind \in Kinds,
           SetWheelGesture(d, kind)
    PROVE  GestureTypes' /\ WheelTurns'
<1> DEFINE h == "wheel"
           new == Configured(h, d, kind, WheelCompatible(kind))
<1>0. Interval \in Nat \ {0} /\ 0 \div Interval = 0
    BY GesturesAssumption
<1>1. d \in All /\ kind \in AnyKind /\ WheelCompatible(kind) \in BOOLEAN /\ h # "button"
    BY Places, GesturesAssumption DEF AnyKind, WheelCompatible
<1>4. gs' = [gs EXCEPT ![d] = new]
    BY DEF SetWheelGesture
<1> HIDE DEF h
<1>2. /\ new \in GestureSet /\ new.kind = kind /\ new.passes = 0 /\ new.fires = 0
      /\ kind # "absent" /\ h # "button" /\ WheelCompatible(kind) => new.axis = new.threshold
    <2>1. kind \in AnyKind /\ WheelCompatible(kind) \in BOOLEAN
        BY <1>1
    <2>2. ASSUME NEW b \in BOOLEAN
          PROVE  /\ Configured(h, d, kind, b) \in GestureSet
                 /\ Configured(h, d, kind, b).kind = kind
                 /\ Configured(h, d, kind, b).passes = 0
                 /\ Configured(h, d, kind, b).fires = 0
                 /\ kind # "absent" /\ h # "button" /\ b =>
                      Configured(h, d, kind, b).axis = Configured(h, d, kind, b).threshold
        BY <2>1, ConfiguredTypes
    <2> QED BY <2>1, <2>2, Zenon
<1>3. kind = "interval" => new.axis = new.threshold
    BY <1>1, <1>2 DEF WheelCompatible
<1> HIDE DEF new
<1>5. gs' \in [All -> GestureSet] /\ gs'[d] = new /\ \A e \in All \ {d} : gs'[e] = gs[e]
    BY <1>1, <1>2, <1>4 DEF GestureTypes
<1>6. GestureTypes'
    BY <1>5 DEF GestureTypes, SetWheelGesture
<1>7. /\ host = "wheel" /\ host' = host /\ last' = last
      /\ before' = [before EXCEPT ![d] = 0]
      /\ run' = IF last = Sign(d) THEN 0 ELSE run
    <2>1. (last = IF d = "up" THEN 1 ELSE -1) = (last = Sign(d))
        BY DEF Sign
    <2>2. run' = IF last = Sign(d) THEN 0 ELSE run
        BY <2>1 DEF SetWheelGesture, Sign
    <2> QED BY <2>2 DEF SetWheelGesture, Step
<1>8. run' \in Nat /\ before' \in [All -> Nat] /\ before'[d] = 0
      /\ \A e \in All \ {d} : before'[e] = before[e]
    BY <1>1, <1>7 DEF WheelTurns
<1>9. ASSUME NEW e \in {"up", "down"}, gs'[e].kind = "interval"
      PROVE  IF last' = Sign(e)
             THEN /\ gs'[e].axis = gs'[e].threshold + run'
                  /\ MaxDelta <= Interval =>
                       /\ gs'[e].passes = run' \div Interval
                       /\ gs'[e].fires - before'[e] = run' \div Interval
             ELSE gs'[e].axis = gs'[e].threshold /\ gs'[e].passes = 0
    <2>1. CASE e = d
        <3>1. /\ gs'[e].axis = new.threshold /\ gs'[e].threshold = new.threshold
              /\ gs'[e].passes = 0 /\ gs'[e].fires = 0 /\ before'[e] = 0
              /\ new.threshold \in Nat
            BY <1>2, <1>3, <1>5, <1>8, <1>9, <2>1 DEF GestureSet
        <3>2. last' = Sign(e) => run' = 0
            BY <1>7, <2>1
        <3> QED BY <1>0, <3>1, <3>2
    <2>2. CASE e # d
        <3>1. e \in All /\ Sign(e) # Sign(d)
            BY <2>2, Places DEF Sign
        <3>2. gs'[e] = gs[e] /\ before'[e] = before[e]
            BY <1>5, <1>8, <2>2, <3>1
        <3>3. last = Sign(e) => run' = run
            BY <1>7, <3>1
        <3> QED BY <1>7, <1>9, <3>2, <3>3 DEF WheelTurns
    <2> QED BY <2>1, <2>2
<1>10. WheelTurns'
    BY <1>7, <1>8, <1>9 DEF WheelTurns
<1> QED BY <1>6, <1>10

\* The steps of the thumb wheel keep the types.
LEMMA ThumbKeepsTypes ==
    ASSUME GestureTypes,
           \/ \E delta \in Deltas : Rotate(delta)
           \/ Touch
           \/ ThumbProfile
    PROVE  GestureTypes'
<1>1. ASSUME NEW delta \in Deltas, Rotate(delta) PROVE GestureTypes'
    <2> DEFINE d == IF delta > 0 THEN "right" ELSE "left"
               n == Narrow(Abs(delta))
    <2>1. d \in All /\ n \in Int
        <3>1. delta \in Int /\ Half \in Nat /\ Half > 0
            BY GesturesAssumption DEF Deltas
        <3> QED BY <3>1, Places DEF Narrow, Abs, Bigger
    <2>2. gs' = [gs EXCEPT ![d] = Move(Press(gs[d], TRUE), n)]
        BY <1>1 DEF Rotate
    <2> HIDE DEF d, n
    <2>3. gs[d] \in GestureSet
        BY <2>1 DEF GestureTypes
    <2>4. Press(gs[d], TRUE) \in GestureSet
        BY <2>3, PressTypes, Zenon
    <2>5. Move(Press(gs[d], TRUE), n) \in GestureSet
        BY <2>1, <2>4, MoveTypes, Zenon
    <2>6. gs' \in [All -> GestureSet]
        BY <2>1, <2>2, <2>5 DEF GestureTypes
    <2> QED BY <1>1, <2>6 DEF GestureTypes, Rotate
<1>2. CASE Touch
    <2>1. pressed' \in BOOLEAN /\ UNCHANGED <<gs, x, y>>
        BY <1>2 DEF Touch, GestureTypes
    <2> QED BY <2>1 DEF GestureTypes
<1>3. CASE ThumbProfile
    <2>1. gs' \in [All -> GestureSet]
        <3>1. gs' \in GesturesOf("thumb", FALSE)
            BY <1>3 DEF ThumbProfile
        <3> QED BY <3>1, GesturesOfTypes, Zenon
    <2> QED BY <1>3, <2>1 DEF GestureTypes, ThumbProfile
<1> QED BY <1>1, <1>2, <1>3

PadFollows ==
    host = "touchpad" =>
        /\ movement \in Nat /\ pending \in Int /\ finger \in Int /\ clicks \in Nat
        /\ active \in BOOLEAN
        /\ active => pressed /\ finger = x
        /\ clicks > 0 => ~pressed /\ finger = 0 /\ movement <= ClickThreshold
        /\ pressed /\ ~active =>
              /\ finger = 0 /\ pending = x
              /\ Abs(x) <= movement /\ movement <= ClickThreshold

\* The position of the touchpad's finger is a number.
LEMMA ClampIsInt ==
    ASSUME NEW n \in Int
    PROVE  /\ Clamp(n) \in Int
           /\ Abs(n) <= ClickThreshold => Clamp(n) = n
<1>1. Width \in Nat /\ ClickThreshold \in Nat /\ MaxDelta \in Nat /\ ClickThreshold <= Width
    BY GesturesAssumption
<1> QED BY <1>1 DEF Clamp, Bigger, Smaller, Abs

\* The steps of the touchpad keep its position.
LEMMA PadKeepsPosition ==
    ASSUME GestureTypes, PadFollows, PressPad \/ ReleasePad \/ \E d \in Deltas : MovePad(d)
    PROVE  GestureTypes' /\ PadFollows'
<1>0. ClickThreshold \in Nat
    BY GesturesAssumption
<1>1. CASE PressPad
    <2>1. GestureTypes'
        <3>1. x' = 0 /\ pressed' = TRUE /\ UNCHANGED <<gs, y>>
            BY <1>1 DEF PressPad
        <3> QED BY <3>1 DEF GestureTypes
    <2>2. /\ x' = 0 /\ movement' = 0 /\ pending' = 0 /\ active' = FALSE
          /\ finger' = 0 /\ clicks' = 0
        BY <1>1 DEF PressPad
    <2>3. Abs(x') = 0 /\ Abs(x') <= movement' /\ movement' <= ClickThreshold
        <3>1. Abs(0) = 0
            <4>1. \A n \in Int : Abs(n) = IF n >= 0 THEN n ELSE -n
                BY DEF Abs, Bigger
            <4> QED BY <4>1
        <3> QED BY <1>0, <2>2, <3>1
    <2>4. active' \in BOOLEAN /\ ~active'
        BY <2>2, Zenon
    <2> QED BY <2>1, <2>2, <2>3, <2>4 DEF PadFollows
<1>2. CASE ReleasePad
    <2>1. GestureTypes'
        BY <1>2 DEF ReleasePad, GestureTypes
    <2>2. /\ host = "touchpad" /\ pressed /\ pressed' = FALSE /\ active' = FALSE
          /\ movement' = movement /\ pending' = pending /\ finger' = finger
          /\ clicks' = clicks + IF ~active /\ movement <= ClickThreshold THEN 1 ELSE 0
        BY <1>2 DEF ReleasePad, Step
    <2>3. ~(clicks > 0) /\ clicks \in Nat
        BY <2>2 DEF PadFollows
    <2>4. clicks' \in Nat /\ (clicks' > 0 => ~active /\ movement <= ClickThreshold)
        BY <2>2, <2>3
    <2> QED BY <2>1, <2>2, <2>4 DEF PadFollows
<1>3. ASSUME NEW d \in Deltas, MovePad(d) PROVE GestureTypes' /\ PadFollows'
    <2>1. d \in Int /\ Abs(d) \in Nat /\ x \in Int
        BY GesturesAssumption DEF Deltas, Abs, Bigger, GestureTypes
    <2>2. /\ host = "touchpad" /\ pressed /\ pressed' = pressed /\ clicks' = clicks
          /\ x' = Clamp(x + d) /\ movement' = movement + Abs(d)
        BY <1>3 DEF MovePad, Step, padVars
    <2>3. x' \in Int
        BY <2>1, <2>2, ClampIsInt
    <2>4. GestureTypes'
        BY <1>3, <2>3 DEF MovePad, GestureTypes
    <2>5. movement \in Nat /\ movement' \in Nat /\ clicks = 0
        BY <2>1, <2>2 DEF PadFollows
    <2>6. CASE active
        <3>1. finger' = Clamp(finger + d) /\ finger = x /\ pending' = pending /\ active' = active
            BY <1>3, <2>2, <2>6 DEF MovePad, PadFollows
        <3>2. finger' = x' /\ pending' \in Int
            BY <2>2, <3>1 DEF PadFollows
        <3> QED BY <2>2, <2>3, <2>4, <2>5, <2>6, <3>1, <3>2 DEF PadFollows
    <2>7. CASE ~active /\ movement' <= ClickThreshold
        <3>1. pending' = pending + d /\ active' = active /\ finger' = finger
            BY <1>3, <2>7 DEF MovePad
        <3>2. finger = 0 /\ pending = x /\ Abs(x) <= movement
            BY <2>2, <2>7 DEF PadFollows
        <3>3. Abs(x + d) <= movement'
            BY <2>1, <2>2, <2>5, <3>2 DEF Abs, Bigger
        <3>4. x + d \in Int /\ Abs(x + d) <= ClickThreshold
            BY <1>0, <2>1, <2>5, <2>7, <3>3 DEF Abs, Bigger
        <3>5. x' = x + d
            BY <2>2, <3>4, ClampIsInt
        <3> QED BY <2>2, <2>4, <2>5, <2>7, <3>1, <3>2, <3>3, <3>4, <3>5 DEF PadFollows
    <2>8. CASE ~active /\ ~(movement' <= ClickThreshold)
        <3>1. active' = TRUE /\ finger' = Clamp(FirstMotion(d)) /\ pending' = 0
            BY <1>3, <2>8 DEF MovePad
        <3>2. pending = x
            BY <2>2, <2>8 DEF PadFollows
        <3>3. finger' = x'
            BY <2>2, <3>1, <3>2 DEF FirstMotion
        <3> QED BY <2>2, <2>3, <2>4, <2>5, <3>1, <3>3 DEF PadFollows
    <2> QED BY <2>6, <2>7, <2>8
<1> QED BY <1>1, <1>2, <1>3

ThumbSteps == (\E delta \in Deltas : Rotate(delta)) \/ Touch \/ ThumbProfile
PadSteps == PressPad \/ ReleasePad \/ \E d \in Deltas : MovePad(d)
WheelSteps ==
    \/ \E delta \in Deltas, pause \in BOOLEAN : Scroll(delta, pause)
    \/ \E d \in {"up", "down"}, k \in Kinds : SetWheelGesture(d, k)
ButtonSteps ==
    \/ PressButton \/ ReleaseButton
    \/ \E dx, dy \in Deltas \cup {0} : MoveButton(dx, dy)
    \/ \E d \in All, k \in Kinds : SetButtonGesture(d, k)

\* A step is one of the host's own.
LEMMA HostSteps ==
    ASSUME Next
    PROVE  /\ host' = host
           /\ \/ host = "button" /\ ButtonSteps
              \/ host = "wheel" /\ WheelSteps
              \/ host = "thumb" /\ ThumbSteps
              \/ host = "touchpad" /\ PadSteps
<1>1. CASE ButtonSteps
    BY <1>1 DEF ButtonSteps, PressButton, ReleaseButton, MoveButton, SetButtonGesture, Step
<1>2. CASE WheelSteps
    BY <1>2 DEF WheelSteps, Scroll, SetWheelGesture, Step
<1>3. CASE ThumbSteps
    BY <1>3 DEF ThumbSteps, Rotate, Touch, ThumbProfile, Step
<1>4. CASE PadSteps
    BY <1>4 DEF PadSteps, PressPad, ReleasePad, MovePad, Step
<1> QED BY <1>1, <1>2, <1>3, <1>4 DEF Next, ButtonSteps, WheelSteps, ThumbSteps, PadSteps

GesturesInv == GestureTypes /\ WheelTurns /\ PadFollows /\ HorizontalFollowsMotion

\* The steps of the gesture button keep the invariant.
LEMMA ButtonStepsKeep ==
    ASSUME GestureTypes, HorizontalFollowsMotion, host = "button", ButtonSteps
    PROVE  GestureTypes' /\ HorizontalFollowsMotion'
<1>1. CASE PressButton
    <2>1. GestureTypes' /\ x' = 0 /\ \A d \in All : gs'[d].axis = 0
        BY <1>1, ButtonIsPressed
    <2>2. \A d \in {"left", "right"} : gs'[d].axis = Bigger(0, IF d = "left" THEN -x' ELSE x')
        <3>1. \A n \in Int : n <= 0 /\ 0 <= n => Bigger(0, n) = 0 /\ Bigger(0, -n) = 0
            BY DEF Bigger
        <3>2. Bigger(0, x') = 0 /\ Bigger(0, -x') = 0
            BY <2>1, <3>1
        <3> QED BY <2>1, <3>2, Places
    <2> QED BY <2>1, <2>2 DEF HorizontalFollowsMotion
<1>2. CASE ReleaseButton
    BY <1>2, ButtonReleases DEF HorizontalFollowsMotion
<1>3. ASSUME NEW dx \in Deltas \cup {0}, NEW dy \in Deltas \cup {0}, MoveButton(dx, dy)
      PROVE  GestureTypes' /\ HorizontalFollowsMotion'
    <2>1. /\ GestureTypes'
          /\ gs'["left"] = Moved(gs["left"], MinusX(x, dx))
          /\ gs'["right"] = Moved(gs["right"], PlusX(x, dx))
        BY <1>3, ButtonMoves
    <2>2. pressed /\ x' = x + dx /\ replaced' = replaced
        BY <1>3 DEF MoveButton
    <2>3. /\ MinusX(x, dx) \in Int /\ PlusX(x, dx) \in Int
          /\ Bigger(0, -x) + MinusX(x, dx) = Bigger(0, -(x + dx))
          /\ Bigger(0, x) + PlusX(x, dx) = Bigger(0, x + dx)
        BY MinusFollows DEF GestureTypes
    <2>4. gs["left"] \in GestureSet /\ gs["right"] \in GestureSet
        BY Places DEF GestureTypes
    <2>0. \A g \in GestureSet, n \in Int :
             /\ Moved(g, n).kind = g.kind
             /\ g.kind # "absent" => Moved(g, n).axis = g.axis + n
        BY MovedTypes, Zenon
    <2>5. /\ gs'["left"].kind = gs["left"].kind
          /\ gs["left"].kind # "absent" =>
                gs'["left"].axis = gs["left"].axis + MinusX(x, dx)
        BY <2>0, <2>1, <2>3, <2>4
    <2>6. /\ gs'["right"].kind = gs["right"].kind
          /\ gs["right"].kind # "absent" =>
                gs'["right"].axis = gs["right"].axis + PlusX(x, dx)
        BY <2>0, <2>1, <2>3, <2>4
    <2>7. "left" \notin replaced' /\ gs'["left"].kind # "absent" =>
                gs'["left"].axis = Bigger(0, -x')
        BY <2>2, <2>3, <2>5 DEF HorizontalFollowsMotion
    <2>8. "right" \notin replaced' /\ gs'["right"].kind # "absent" =>
                gs'["right"].axis = Bigger(0, x')
        BY <2>2, <2>3, <2>6 DEF HorizontalFollowsMotion
    <2> QED BY <2>1, <2>7, <2>8 DEF HorizontalFollowsMotion
<1>4. ASSUME NEW d \in All, NEW k \in Kinds, SetButtonGesture(d, k)
      PROVE  GestureTypes' /\ HorizontalFollowsMotion'
    <2>1. GestureTypes' /\ \A e \in All \ {d} : gs'[e] = gs[e]
        BY <1>4, GestureIsSet
    <2>2. replaced' = replaced \cup {d} /\ x' = x /\ pressed' = pressed
        BY <1>4 DEF SetButtonGesture
    <2> QED BY <2>1, <2>2, Places DEF HorizontalFollowsMotion
<1> QED BY <1>1, <1>2, <1>3, <1>4 DEF ButtonSteps

\* The invariant holds at first.
LEMMA InitGesturesInv == Init => GesturesInv
<1> SUFFICES ASSUME Init PROVE GesturesInv
    OBVIOUS
<1>1. GestureTypes
    BY InitGestures
<1>2. WheelTurns
    <2>1. /\ gs \in GesturesOf(host, TRUE)
          /\ last = 0 /\ run = 0 /\ before = [d \in All |-> 0]
        BY DEF Init
    <2>2. /\ \A d \in All : gs[d].kind # "absent" => gs[d].passes = 0
          /\ \A d \in All :
                gs[d].kind # "absent" /\ host # "button" /\ TRUE => gs[d].axis = gs[d].threshold
        BY <2>1, GesturesOfTypes, Zenon
    <2>3. last # Sign("up") /\ last # Sign("down")
        BY <2>1 DEF Sign
    <2> QED BY <2>1, <2>2, <2>3, Places DEF WheelTurns
<1>3. PadFollows
    <2>1. /\ movement = 0 /\ pending = 0 /\ finger = 0 /\ clicks = 0
          /\ active = FALSE /\ pressed = FALSE
        BY DEF Init
    <2>2. active \in BOOLEAN /\ ~active /\ ~pressed
        BY <2>1, Zenon
    <2> QED BY <2>1, <2>2 DEF PadFollows
<1>4. HorizontalFollowsMotion
    BY DEF Init, HorizontalFollowsMotion
<1> QED BY <1>1, <1>2, <1>3, <1>4 DEF GesturesInv

\* Every step keeps it.
LEMMA NextGesturesInv == GesturesInv /\ [Next]_vars => GesturesInv'
<1> SUFFICES ASSUME GesturesInv, [Next]_vars PROVE GesturesInv'
    OBVIOUS
<1>1. CASE UNCHANGED vars
    <2>1. UNCHANGED <<host, gs, x, y, pressed, last, replaced, run, before, movement, pending,
                      active, finger, clicks>>
        BY <1>1 DEF vars
    <2>2. GestureTypes' /\ WheelTurns'
        BY <2>1 DEF GesturesInv, GestureTypes, WheelTurns
    <2>3. PadFollows' /\ HorizontalFollowsMotion'
        BY <2>1 DEF GesturesInv, PadFollows, HorizontalFollowsMotion
    <2> QED BY <2>2, <2>3 DEF GesturesInv
<1>2. CASE Next /\ host = "button"
    <2>1. ButtonSteps /\ host' = "button"
        BY <1>2, HostSteps
    <2>2. GestureTypes' /\ HorizontalFollowsMotion'
        BY <1>2, <2>1, ButtonStepsKeep DEF GesturesInv
    <2> QED BY <2>1, <2>2 DEF GesturesInv, WheelTurns, PadFollows
<1>3. CASE Next /\ host = "wheel"
    <2>1. WheelSteps /\ host' = "wheel"
        BY <1>3, HostSteps
    <2>2. GestureTypes' /\ WheelTurns'
        <3>1. ASSUME NEW delta \in Deltas, NEW pause \in BOOLEAN, Scroll(delta, pause)
              PROVE  GestureTypes' /\ WheelTurns'
            BY <3>1, WheelScrolls, ScrollTurns DEF GesturesInv
        <3>2. ASSUME NEW d \in {"up", "down"}, NEW k \in Kinds, SetWheelGesture(d, k)
              PROVE  GestureTypes' /\ WheelTurns'
            BY <3>2, WheelGestureIsSet DEF GesturesInv
        <3> QED BY <2>1, <3>1, <3>2 DEF WheelSteps
    <2> QED BY <2>1, <2>2 DEF GesturesInv, HorizontalFollowsMotion, PadFollows
<1>4. CASE Next /\ host = "thumb"
    <2>1. ThumbSteps /\ host' = "thumb"
        BY <1>4, HostSteps
    <2>2. GestureTypes'
        BY <2>1, ThumbKeepsTypes DEF GesturesInv, ThumbSteps
    <2> QED BY <2>1, <2>2 DEF GesturesInv, HorizontalFollowsMotion, PadFollows, WheelTurns
<1>5. CASE Next /\ host = "touchpad"
    <2>1. PadSteps /\ host' = "touchpad"
        BY <1>5, HostSteps
    <2>2. GestureTypes' /\ PadFollows'
        BY <2>1, PadKeepsPosition DEF GesturesInv, PadSteps
    <2> QED BY <2>1, <2>2 DEF GesturesInv, HorizontalFollowsMotion, WheelTurns
<1> QED BY <1>1, <1>2, <1>3, <1>4, <1>5, HostSteps

\* GesturesInv is an invariant of the gestures of every host.
THEOREM GesturesInvariance == Spec => []GesturesInv
    BY InitGesturesInv, NextGesturesInv, PTL DEF Spec

\* The distances of left and right follow the mouse (Gestures.tla), whatever the
\* width of the numbers, the thresholds and the movements.
THEOREM MotionIsFollowed == Spec => []HorizontalFollowsMotion
<1>1. GesturesInv => HorizontalFollowsMotion
    BY DEF GesturesInv
<1> QED BY <1>1, GesturesInvariance, PTL

\* What the wheel is turned and a finger is moved is counted once (Gestures.tla), for
\* every interval, click threshold and movement.
THEOREM MotionCounts == Spec => []MotionIsCounted
<1>1. GesturesInv => MotionIsCounted
    <2> SUFFICES ASSUME GesturesInv PROVE MotionIsCounted
        OBVIOUS
    <2>1. WheelCounts
        BY DEF GesturesInv, WheelCounts, WheelTurns, Sign
    <2>2. FingersFollowMotion
        BY DEF GesturesInv, FingersFollowMotion, PadFollows
    <2> QED BY <2>1, <2>2 DEF MotionIsCounted
<1> QED BY <1>1, GesturesInvariance, PTL

\* Two directions have two places.
LEMMA PlacesDiffer ==
    ASSUME NEW d \in Range(Directions), NEW e \in Range(Directions),
           (CHOOSE n \in 1..4 : Directions[n] = d) = (CHOOSE n \in 1..4 : Directions[n] = e)
    PROVE  d = e
<1>1. \A c \in Range(Directions) : \E n \in 1..4 : Directions[n] = c
    BY DEF Range, Directions
<1>2. Directions[CHOOSE n \in 1..4 : Directions[n] = d] = d
    BY <1>1
<1>3. Directions[CHOOSE n \in 1..4 : Directions[n] = e] = e
    BY <1>1
<1> QED BY <1>2, <1>3

\* A release fires one gesture: that of the direction, or one in its stead.
LEMMA ReleaseFiresOne ==
    ASSUME GestureTypes, ReleaseButton
    PROVE  LET fired == {d \in All : gs[d].kind = "release" /\ gs'[d].fires > gs[d].fires}
           IN /\ \A d, e \in fired : d = e
              /\ fired = {"none"} => \A d \in All \ {"none"} : ~Met(gs[d])
<1> DEFINE p == ToDirection(x, y)
           met == {d \in Range(Directions) \ {p} : Met(gs[d])}
           Place(d) == CHOOSE n \in 1..4 : Directions[n] = d
           IsFirst(d) == d \in met /\ \A e \in met : Place(d) <= Place(e)
           After(d) == \E e \in met : Place(e) < Place(d)
           fired == {d \in All : gs[d].kind = "release" /\ gs'[d].fires > gs[d].fires}
<1>1. p \in Range(Directions)
    BY Places DEF ToDirection
<1>2. \A d \in Range(Directions) : Place(d) \in 1..4
    <2>1. \A c \in Range(Directions) : \E n \in 1..4 : Directions[n] = c
        BY DEF Range, Directions
    <2> QED BY <2>1
<1>3. \A d \in All : gs'[d] =
         CASE d = p -> Release(gs[d], TRUE)
           [] d = "none" -> Release(gs[d], NoneFires(Met(gs[p]) \/ met # {}))
           [] OTHER -> IF Met(gs[p]) \/ After(d) THEN Release(gs[d], FALSE)
                       ELSE IF IsFirst(d) THEN Release(gs[d], TRUE) ELSE gs[d]
    BY DEF ReleaseButton
<1>4. \A d \in All, b \in BOOLEAN : Release(gs[d], b).fires > gs[d].fires => b /\ Met(gs[d])
    BY ReleaseTypes, Zenon DEF GestureTypes
<1>5. \A d \in All : ~(gs[d].fires > gs[d].fires)
    BY DEF GestureTypes, GestureSet
<1> HIDE DEF p, met, Place, IsFirst, After
<1>6. ASSUME NEW d \in fired
      PROVE  \/ d = p /\ Met(gs[p])
             \/ d = "none" /\ d # p /\ ~Met(gs[p]) /\ met = {}
             \/ d # p /\ ~Met(gs[p]) /\ IsFirst(d)
    <2>1. d \in All /\ gs'[d].fires > gs[d].fires
        OBVIOUS
    <2>2. CASE d = p
        <3>1. gs'[d] = Release(gs[d], TRUE)
            BY <1>1, <1>3, <2>1, <2>2, Places
        <3>2. Met(gs[d])
            BY <1>4, <2>1, <3>1, Zenon
        <3> QED BY <2>2, <3>2
    <2>3. CASE d # p /\ d = "none"
        <3>1. gs'[d] = Release(gs[d], NoneFires(Met(gs[p]) \/ met # {}))
            BY <1>3, <2>1, <2>3
        <3>2. NoneFires(Met(gs[p]) \/ met # {}) \in BOOLEAN
            BY DEF NoneFires
        <3>3. NoneFires(Met(gs[p]) \/ met # {})
            BY <1>4, <2>1, <3>1, <3>2, Zenon
        <3> QED BY <2>3, <3>3 DEF NoneFires
    <2>4. CASE d # p /\ d # "none"
        <3>1. gs'[d] = IF Met(gs[p]) \/ After(d) THEN Release(gs[d], FALSE)
                       ELSE IF IsFirst(d) THEN Release(gs[d], TRUE) ELSE gs[d]
            BY <1>3, <2>1, <2>4
        <3>2. ~(Release(gs[d], FALSE).fires > gs[d].fires)
            BY <1>4, <2>1, Zenon
        <3> QED BY <1>5, <2>1, <2>4, <3>1, <3>2
    <2> QED BY <2>2, <2>3, <2>4
<1> HIDE DEF fired
<1>7. ASSUME NEW d \in fired, NEW e \in fired
      PROVE  d = e
    <2>1. CASE IsFirst(d) /\ IsFirst(e)
        <3>1. d \in Range(Directions) /\ e \in Range(Directions)
            BY <2>1 DEF IsFirst, met
        <3>2. Place(d) <= Place(e) /\ Place(e) <= Place(d)
            BY <2>1 DEF IsFirst
        <3>3. Place(d) = Place(e)
            BY <1>2, <3>1, <3>2
        <3> QED BY <3>1, <3>3, PlacesDiffer DEF Place
    <2>2. \A c \in fired : IsFirst(c) => met # {}
        BY DEF IsFirst
    <2> QED BY <1>6, <2>1, <2>2
<1>8. ASSUME fired = {"none"}
      PROVE  \A d \in All \ {"none"} : ~Met(gs[d])
    <2>1. "none" \notin Range(Directions)
        BY Places
    <2>2. ~Met(gs[p]) /\ met = {}
        BY <1>1, <1>6, <1>8, <2>1 DEF IsFirst, met
    <2> QED BY <2>2, Places DEF met
<1> QED BY <1>7, <1>8 DEF fired

\* A release of the button fires no more than one gesture, and the gesture without
\* a direction only when no threshold was met.
THEOREM OneFires == Spec => OneGestureFires
<1>1. GesturesInv /\ [Next]_vars =>
        [host = "button" /\ pressed /\ ~pressed' =>
            LET fired == {d \in All : gs[d].kind = "release" /\ gs'[d].fires > gs[d].fires}
            IN /\ \A d, e \in fired : d = e
               /\ fired = {"none"} => \A d \in All \ {"none"} : ~Met(gs[d])]_vars
    <2> SUFFICES ASSUME GesturesInv, Next, host = "button", pressed, ~pressed'
                 PROVE  LET fired == {d \in All : gs[d].kind = "release" /\ gs'[d].fires > gs[d].fires}
                        IN /\ \A d, e \in fired : d = e
                           /\ fired = {"none"} => \A d \in All \ {"none"} : ~Met(gs[d])
        BY DEF vars
    <2>1. ReleaseButton
        BY HostSteps DEF ButtonSteps, PressButton, MoveButton, SetButtonGesture
    <2> QED BY <2>1, ReleaseFiresOne DEF GesturesInv
<1> QED BY <1>1, GesturesInvariance, PTL DEF Spec, OneGestureFires

(***************************************************************************)
(* Settings.                                                               *)
(***************************************************************************)

\* While the part is explored, its steps are those of Settings.
LEMMA SettingsMove ==
    ASSUME MCNext, part = "settings"
    PROVE  part' = part /\ (Setting!Next \/ UNCHANGED settingVars)
BY DEF MCNext, Rest, Setting!vars, settingVars

\* The place of a feature in the order of registration.
Rank(f) == CASE f = "dpi" -> 1 [] f = "hiresscroll" -> 2 [] f = "smartshift" -> 3
             [] f = "thumbwheel" -> 4 [] OTHER -> 5

\* s lists the elements of S, which are features, in their order.
Lists(s, S) ==
    /\ s \in Seq(Setting!Features)
    /\ \A i \in DOMAIN s : s[i] \in S
    /\ \A f \in S : \E i \in DOMAIN s : s[i] = f
    /\ \A i, j \in DOMAIN s : i < j => Rank(s[i]) < Rank(s[j])

\* The features there are.
LEMMA TheFeatures ==
    Setting!Features = {"dpi", "hiresscroll", "smartshift", "thumbwheel"}
<1>1. DOMAIN Setting!Order = 1..4
    BY DEF Setting!Order
<1> QED BY <1>1 DEF Setting!Features, Setting!Order, Setting!Range

\* A list of features stays one when the next is added.
LEMMA ListsAppend ==
    ASSUME NEW s, NEW S, Lists(s, S), NEW f \in Setting!Features,
           \A e \in S : Rank(e) < Rank(f)
    PROVE  Lists(Append(s, f), S \cup {f})
<1> DEFINE t == Append(s, f)
<1>1. /\ s \in Seq(Setting!Features) /\ t \in Seq(Setting!Features)
      /\ DOMAIN s = 1..Len(s) /\ DOMAIN t = 1..(Len(s) + 1) /\ Len(s) \in Nat
      /\ \A i \in DOMAIN s : t[i] = s[i]
      /\ t[Len(s) + 1] = f
    BY DEF Lists
<1> HIDE DEF t
<1>2. \A i \in DOMAIN t : t[i] \in S \cup {f}
    BY <1>1 DEF Lists
<1>3. \A e \in S \cup {f} : \E i \in DOMAIN t : t[i] = e
    <2>1. ASSUME NEW e \in S PROVE \E i \in DOMAIN t : t[i] = e
        <3>1. PICK i \in DOMAIN s : s[i] = e
            BY DEF Lists
        <3> QED BY <1>1, <3>1
    <2>2. \E i \in DOMAIN t : t[i] = f
        BY <1>1
    <2> QED BY <2>1, <2>2
<1>4. ASSUME NEW i \in DOMAIN t, NEW j \in DOMAIN t, i < j
      PROVE  Rank(t[i]) < Rank(t[j])
    <2>1. i \in DOMAIN s
        BY <1>1, <1>4
    <2>2. CASE j = Len(s) + 1
        <3>1. s[i] \in S
            BY <2>1 DEF Lists
        <3> QED BY <1>1, <2>1, <2>2, <3>1
    <2>3. CASE j \in DOMAIN s
        BY <1>1, <1>4, <2>1, <2>3 DEF Lists
    <2> QED BY <1>1, <2>2, <2>3
<1> QED BY <1>1, <1>2, <1>3, <1>4 DEF Lists, t

\* Mine has the features of the device, in order.
LEMMA MineLists ==
    ASSUME have \subseteq Setting!Features
    PROVE  Lists(Setting!Mine, have)
<1> DEFINE a == Setting!Adds(<<>>, "dpi")
           b == Setting!Adds(a, "hiresscroll")
           c == Setting!Adds(b, "smartshift")
           d == Setting!Adds(c, "thumbwheel")
<1>0. Rank("dpi") = 1 /\ Rank("hiresscroll") = 2 /\ Rank("smartshift") = 3 /\ Rank("thumbwheel") = 4
    BY DEF Rank
<1>1. ASSUME NEW s, NEW S, Lists(s, S), NEW f \in Setting!Features,
             \A e \in S : Rank(e) < Rank(f)
      PROVE  Lists(Setting!Adds(s, f), S \cup ({f} \cap have))
    <2>1. CASE f \in have
        <3>1. Setting!Adds(s, f) = Append(s, f) /\ S \cup ({f} \cap have) = S \cup {f}
            BY <2>1 DEF Setting!Adds
        <3> QED BY <1>1, <3>1, ListsAppend
    <2>2. CASE f \notin have
        <3>1. Setting!Adds(s, f) = s /\ S \cup ({f} \cap have) = S
            BY <2>2 DEF Setting!Adds
        <3> QED BY <1>1, <3>1
    <2> QED BY <2>1, <2>2
<1>2. Lists(<<>>, {})
    BY DEF Lists
<1>3. Lists(a, {"dpi"} \cap have)
    <2>1. {} \cup ({"dpi"} \cap have) = {"dpi"} \cap have
        OBVIOUS
    <2>2. "dpi" \in Setting!Features /\ \A e \in {} : Rank(e) < Rank("dpi")
        BY TheFeatures
    <2>3. Lists(a, {} \cup ({"dpi"} \cap have))
        BY <1>1, <1>2, <2>2, Zenon
    <2> QED BY <2>1, <2>3
<1> HIDE DEF a
<1>4. Lists(b, {"dpi", "hiresscroll"} \cap have)
    <2>1. {"dpi", "hiresscroll"} \cap have = ({"dpi"} \cap have) \cup ({"hiresscroll"} \cap have)
        OBVIOUS
    <2>2. /\ "hiresscroll" \in Setting!Features
          /\ \A e \in {"dpi"} \cap have : Rank(e) < Rank("hiresscroll")
        BY <1>0, TheFeatures
    <2>3. Lists(b, ({"dpi"} \cap have) \cup ({"hiresscroll"} \cap have))
        BY <1>1, <1>3, <2>2, Zenon
    <2> QED BY <2>1, <2>3
<1> HIDE DEF b
<1>5. Lists(c, {"dpi", "hiresscroll", "smartshift"} \cap have)
    <2>1. {"dpi", "hiresscroll", "smartshift"} \cap have
            = ({"dpi", "hiresscroll"} \cap have) \cup ({"smartshift"} \cap have)
        OBVIOUS
    <2>2. /\ "smartshift" \in Setting!Features
          /\ \A e \in {"dpi", "hiresscroll"} \cap have : Rank(e) < Rank("smartshift")
        BY <1>0, TheFeatures
    <2>3. Lists(c, ({"dpi", "hiresscroll"} \cap have) \cup ({"smartshift"} \cap have))
        BY <1>1, <1>4, <2>2, Zenon
    <2> QED BY <2>1, <2>3
<1> HIDE DEF c
<1>6. Lists(d, {"dpi", "hiresscroll", "smartshift", "thumbwheel"} \cap have)
    <2>1. {"dpi", "hiresscroll", "smartshift", "thumbwheel"} \cap have
            = ({"dpi", "hiresscroll", "smartshift"} \cap have) \cup ({"thumbwheel"} \cap have)
        OBVIOUS
    <2>2. /\ "thumbwheel" \in Setting!Features
          /\ \A e \in {"dpi", "hiresscroll", "smartshift"} \cap have : Rank(e) < Rank("thumbwheel")
        BY <1>0, TheFeatures
    <2>3. Lists(d, ({"dpi", "hiresscroll", "smartshift"} \cap have) \cup ({"thumbwheel"} \cap have))
        BY <1>1, <1>5, <2>2, Zenon
    <2> QED BY <2>1, <2>3
<1>7. have = {"dpi", "hiresscroll", "smartshift", "thumbwheel"} \cap have
    BY TheFeatures
<1>8. Setting!Mine = d
    BY DEF Setting!Mine, a, b, c
<1> QED BY <1>6, <1>7, <1>8

JobSet == {"adopt", "reset", "configure", "set", "toggle"} \X (Setting!Features \cup {""})

\* Thread t has still to let feature f adopt the profile.
Adopts(t, f) == \E i \in DOMAIN jobs[t] : jobs[t][i] = <<"adopt", f>>

SettingTypes ==
    /\ have \subseteq Setting!Features
    /\ jobs \in [Setting!Threads -> Seq(JobSet)]
    /\ ref \in [Setting!Features -> Profiles]
    /\ profile \in DOMAIN config /\ profile \in Profiles
    /\ torn \in BOOLEAN

\* The profile is adopted first, feature by feature.
AdoptsFirst(s) ==
    \A i, j \in DOMAIN s : i < j /\ s[j][1] = "adopt" =>
        s[i][1] = "adopt" /\ Rank(s[i][2]) < Rank(s[j][2])

\* The adopts that wait are those of the thread that changes the profile.
AdoptsAreOwned ==
    \A t \in Setting!Threads :
        /\ AdoptsFirst(jobs[t])
        /\ \A i \in DOMAIN jobs[t] : jobs[t][i][1] = "adopt" => owner = t /\ jobs[t][i][2] \in have

\* A feature has adopted the profile or will.
Adopted ==
    /\ owner \in Setting!Threads =>
          \A f \in have : ref[f] = profile \/ Adopts(owner, f)
    /\ owner \notin Setting!Threads /\ ~torn => \A f \in have : ref[f] = profile
    /\ ~torn => \A f \in have : ref[f] \in DOMAIN config

AliveInv == SettingTypes /\ AdoptsAreOwned /\ Adopted

\* No thread is None.
LEMMA NoThread == None \notin Setting!Threads
BY ComponentsAssumption DEF Setting!SettingsAssumption

\* What is left of a queue when its first element is taken.
LEMMA TailFacts ==
    ASSUME NEW S, NEW s \in Seq(S), s # <<>>
    PROVE  /\ Len(s) \in Nat \ {0} /\ Head(s) = s[1] /\ s[1] \in S /\ 1 \in DOMAIN s
           /\ Tail(s) \in Seq(S) /\ Len(Tail(s)) = Len(s) - 1
           /\ \A i \in DOMAIN Tail(s) :
                 i \in Nat /\ i + 1 \in DOMAIN s /\ Tail(s)[i] = s[i + 1]
           /\ \A i \in DOMAIN s : i # 1 => i - 1 \in DOMAIN Tail(s) /\ Tail(s)[i - 1] = s[i]
OBVIOUS

\* What Reconfigure and ProfileJobs have a thread do.
LEMMA OneIs ==
    ASSUME NEW S, NEW e \in S
    PROVE  /\ <<>> \in Seq(S) /\ DOMAIN <<>> = {}
           /\ <<e>> \in Seq(S) /\ DOMAIN <<e>> = {1} /\ <<e>>[1] = e
OBVIOUS

\* A function on 1..n is a sequence.
LEMMA FunctionIsSeq ==
    ASSUME NEW S, NEW n \in Nat, NEW f \in [1..n -> S]
    PROVE  f \in Seq(S)
OBVIOUS

\* What there is to do for each feature.
LEMMA EachIs ==
    ASSUME have \subseteq Setting!Features,
           NEW kind \in {"adopt", "configure"}
    PROVE  /\ Setting!Each(kind) \in Seq(JobSet)
           /\ DOMAIN Setting!Each(kind) = DOMAIN Setting!Mine
           /\ \A i \in DOMAIN Setting!Mine :
                Setting!Each(kind)[i] = <<kind, Setting!Mine[i]>>
<1>1. Setting!Mine \in Seq(Setting!Features)
    BY MineLists DEF Lists
<1>2. Setting!Each(kind) = [i \in 1..Len(Setting!Mine) |-> <<kind, Setting!Mine[i]>>]
    BY <1>1 DEF Setting!Each
<1>3. \A i \in 1..Len(Setting!Mine) : <<kind, Setting!Mine[i]>> \in JobSet
    <2>1. \A f \in Setting!Features : <<kind, f>> \in JobSet
        BY DEF JobSet
    <2>2. \A i \in 1..Len(Setting!Mine) : Setting!Mine[i] \in Setting!Features
        BY <1>1
    <2> QED BY <2>1, <2>2
<1>4. DOMAIN Setting!Mine = 1..Len(Setting!Mine) /\ Len(Setting!Mine) \in Nat
    BY <1>1
<1>5. Setting!Each(kind) \in [1..Len(Setting!Mine) -> JobSet]
    BY <1>2, <1>3
<1>6. Setting!Each(kind) \in Seq(JobSet)
    BY <1>4, <1>5, FunctionIsSeq
<1> QED BY <1>2, <1>4, <1>6

\* What a wakeup has to do adopts nothing.
LEMMA ReconfigureIs ==
    ASSUME have \subseteq Setting!Features
    PROVE  /\ Setting!Reconfigure \in Seq(JobSet)
           /\ \A i \in DOMAIN Setting!Reconfigure :
                Setting!Reconfigure[i][1] \in {"reset", "configure"}
<1> DEFINE a == IF resets THEN <<<<"reset", "">>>> ELSE <<>>
           b == Setting!Each("configure")
<1>1. a \in Seq(JobSet) /\ \A i \in DOMAIN a : a[i][1] = "reset"
    <2>1. <<"reset", "">> \in JobSet
        BY DEF JobSet
    <2> DEFINE r == <<"reset", "">>
    <2>2. r[1] = "reset"
        OBVIOUS
    <2> HIDE DEF r
    <2>3. /\ <<>> \in Seq(JobSet) /\ DOMAIN <<>> = {}
          /\ <<r>> \in Seq(JobSet) /\ DOMAIN <<r>> = {1} /\ <<r>>[1] = r
        BY <2>1, OneIs DEF r
    <2>4. a = IF resets THEN <<r>> ELSE <<>>
        BY DEF r
    <2> HIDE DEF a
    <2> QED BY <2>2, <2>3, <2>4
<1>2. b \in Seq(JobSet) /\ \A i \in DOMAIN b : b[i][1] = "configure"
    BY EachIs
<1>3. Setting!Reconfigure = a \o b
    BY DEF Setting!Reconfigure
<1> HIDE DEF a, b
<1>4. a \o b \in Seq(JobSet) /\ \A i \in DOMAIN (a \o b) : (a \o b)[i][1] \in {"reset", "configure"}
    <2>1. /\ a \o b \in Seq(JobSet) /\ DOMAIN (a \o b) = 1..(Len(a) + Len(b))
          /\ \A i \in 1..(Len(a) + Len(b)) :
                (a \o b)[i] = IF i <= Len(a) THEN a[i] ELSE b[i - Len(a)]
        BY <1>1, <1>2
    <2>2. \A i \in 1..(Len(a) + Len(b)) :
             \/ i <= Len(a) /\ i \in DOMAIN a
             \/ ~(i <= Len(a)) /\ i - Len(a) \in DOMAIN b
        BY <1>1, <1>2
    <2> QED BY <1>1, <1>2, <2>1, <2>2
<1> QED BY <1>3, <1>4

\* What a change of the profile has to do begins with the adoptions.
LEMMA ProfileJobsAre ==
    ASSUME have \subseteq Setting!Features
    PROVE  /\ Setting!ProfileJobs \in Seq(JobSet)
           /\ AdoptsFirst(Setting!ProfileJobs)
           /\ \A i \in DOMAIN Setting!ProfileJobs :
                Setting!ProfileJobs[i][1] = "adopt" => Setting!ProfileJobs[i][2] \in have
           /\ \A f \in have : \E i \in DOMAIN Setting!ProfileJobs :
                Setting!ProfileJobs[i] = <<"adopt", f>>
<1> DEFINE a == Setting!Each("adopt")
           b == Setting!Reconfigure
           p == Setting!ProfileJobs
           m == Setting!Mine
<1>1. /\ Lists(m, have) /\ a \in Seq(JobSet) /\ DOMAIN a = DOMAIN m
      /\ \A i \in DOMAIN m : a[i] = <<"adopt", m[i]>>
    BY MineLists, EachIs
<1>2. b \in Seq(JobSet) /\ \A i \in DOMAIN b : b[i][1] # "adopt"
    BY ReconfigureIs
<1>3. p = a \o b
    BY DEF Setting!ProfileJobs
<1> HIDE DEF a, b, p, m
<1>4. /\ p \in Seq(JobSet) /\ DOMAIN p = 1..(Len(a) + Len(b))
      /\ \A i \in 1..(Len(a) + Len(b)) :
            p[i] = IF i <= Len(a) THEN a[i] ELSE b[i - Len(a)]
    BY <1>1, <1>2, <1>3
<1>5. \A i \in DOMAIN p :
         \/ i <= Len(a) /\ i \in DOMAIN m /\ p[i] = <<"adopt", m[i]>>
         \/ ~(i <= Len(a)) /\ p[i][1] # "adopt"
    <2> TAKE i \in DOMAIN p
    <2>1. CASE i <= Len(a)
        <3>1. i \in DOMAIN a
            BY <1>1, <1>4, <2>1
        <3> QED BY <1>1, <1>4, <2>1, <3>1
    <2>2. CASE ~(i <= Len(a))
        <3>1. i - Len(a) \in DOMAIN b
            BY <1>1, <1>2, <1>4, <2>2
        <3> QED BY <1>2, <1>4, <2>2, <3>1
    <2> QED BY <2>1, <2>2
<1>6. AdoptsFirst(p)
    <2> SUFFICES ASSUME NEW i \in DOMAIN p, NEW j \in DOMAIN p, i < j, p[j][1] = "adopt"
                 PROVE  p[i][1] = "adopt" /\ Rank(p[i][2]) < Rank(p[j][2])
        BY DEF AdoptsFirst
    <2>1. j <= Len(a) /\ j \in DOMAIN m /\ p[j] = <<"adopt", m[j]>>
        BY <1>5
    <2>2. i <= Len(a)
        BY <1>1, <1>4, <2>1
    <2>3. i \in DOMAIN m /\ p[i] = <<"adopt", m[i]>>
        BY <1>5, <2>2
    <2>4. Rank(m[i]) < Rank(m[j])
        BY <1>1, <2>1, <2>3 DEF Lists
    <2> QED BY <2>1, <2>3, <2>4
<1>7. \A i \in DOMAIN p : p[i][1] = "adopt" => p[i][2] \in have
    BY <1>1, <1>5 DEF Lists
<1>8. \A f \in have : \E i \in DOMAIN p : p[i] = <<"adopt", f>>
    <2> TAKE f \in have
    <2>1. PICK i \in DOMAIN m : m[i] = f
        BY <1>1 DEF Lists
    <2>2. i \in DOMAIN p /\ i <= Len(a)
        BY <1>1, <1>2, <1>4, <2>1
    <2> QED BY <1>5, <2>1, <2>2
<1> QED BY <1>4, <1>6, <1>7, <1>8 DEF p

\* The invariant holds at first.
LEMMA InitAlive == ASSUME Setting!Init PROVE AliveInv
<1>1. have \subseteq Setting!Features /\ FirstProfile \in Profiles
    BY ComponentsAssumption DEF Setting!SettingsAssumption, Setting!Init
<1>2. /\ jobs = [t \in Setting!Threads |-> <<>>]
      /\ ref = [f \in Setting!Features |-> FirstProfile]
      /\ profile = FirstProfile /\ DOMAIN config = Profiles /\ torn = FALSE /\ owner = None
    BY DEF Setting!Init
<1>3. torn \in BOOLEAN /\ ~torn
    BY <1>2, Zenon
<1>4. SettingTypes
    BY <1>1, <1>2, <1>3 DEF SettingTypes
<1>5. AdoptsAreOwned
    BY <1>2 DEF AdoptsAreOwned, AdoptsFirst
<1>6. Adopted
    BY <1>1, <1>2, <1>3, NoThread DEF Adopted
<1> QED BY <1>4, <1>5, <1>6 DEF AliveInv

\* A thread whose next job is no adopt has none left.
LEMMA NoAdoptsLeft ==
    ASSUME AliveInv, NEW t \in Setting!Threads, jobs[t] # <<>>, Head(jobs[t])[1] # "adopt"
    PROVE  \A i \in DOMAIN jobs[t] : jobs[t][i][1] # "adopt"
<1>1. jobs[t] \in Seq(JobSet)
    BY DEF AliveInv, SettingTypes
<1>2. Head(jobs[t]) = jobs[t][1] /\ 1 \in DOMAIN jobs[t] /\ DOMAIN jobs[t] \subseteq Nat
      /\ \A i \in DOMAIN jobs[t] : i # 1 => 1 < i
    BY <1>1
<1> QED BY <1>2 DEF AliveInv, AdoptsAreOwned, AdoptsFirst

\* What other jobs do leaves the adopts alone.
LEMMA OtherJobs ==
    ASSUME AliveInv, NEW t \in Setting!Threads, NEW q \in Seq(JobSet),
           jobs' = [jobs EXCEPT ![t] = q],
           \A i \in DOMAIN q : q[i][1] # "adopt",
           \A i \in DOMAIN jobs[t] : jobs[t][i][1] # "adopt",
           owner' = owner \/ (owner = t /\ owner' = None),
           DOMAIN config' = DOMAIN config,
           UNCHANGED <<have, profile, ref, torn>>
    PROVE  AliveInv'
<1>1. /\ jobs'[t] = q /\ jobs' \in [Setting!Threads -> Seq(JobSet)]
      /\ \A u \in Setting!Threads \ {t} : jobs'[u] = jobs[u]
    BY DEF AliveInv, SettingTypes
<1>2. SettingTypes'
    BY <1>1 DEF AliveInv, SettingTypes
<1>3. AdoptsAreOwned'
    <2>1. ASSUME NEW u \in Setting!Threads
          PROVE  /\ AdoptsFirst(jobs'[u])
                 /\ \A i \in DOMAIN jobs'[u] :
                        jobs'[u][i][1] = "adopt" => owner' = u /\ jobs'[u][i][2] \in have'
        <3>1. CASE u = t
            BY <1>1, <3>1 DEF AdoptsFirst
        <3>2. CASE u # t
            <4>1. jobs'[u] = jobs[u] /\ (owner = u => owner' = u) /\ have' = have
                BY <1>1, <3>2
            <4> QED BY <4>1 DEF AliveInv, AdoptsAreOwned
        <3> QED BY <3>1, <3>2
    <2> QED BY <2>1 DEF AdoptsAreOwned, AdoptsFirst
<1>4. Adopted'
    <2>1. owner = t => \A f \in have : ref[f] = profile
        <3>1. ASSUME NEW f, Adopts(t, f) PROVE FALSE
            BY <3>1 DEF Adopts
        <3> QED BY <3>1 DEF AliveInv, Adopted
    <2>2. \A u \in Setting!Threads \ {t} : \A f : Adopts(u, f) => Adopts(u, f)'
        BY <1>1 DEF Adopts
    <2>3. CASE owner' = owner
        BY <2>1, <2>2, <2>3 DEF AliveInv, Adopted
    <2>4. CASE owner = t /\ owner' = None
        BY <2>1, <2>4, NoThread DEF AliveInv, Adopted
    <2> QED BY <2>3, <2>4
<1> QED BY <1>2, <1>3, <1>4 DEF AliveInv

\* ... as does what has no job.
LEMMA NoJob ==
    ASSUME AliveInv, DOMAIN config' = DOMAIN config,
           UNCHANGED <<have, profile, ref, jobs, owner, torn>>
    PROVE  AliveInv'
<1>1. SettingTypes' /\ AdoptsAreOwned'
    BY DEF AliveInv, SettingTypes, AdoptsAreOwned, AdoptsFirst
<1>2. Adopted'
    BY DEF AliveInv, Adopted, Adopts
<1> QED BY <1>1, <1>2 DEF AliveInv

\* A job that ends and adopts nothing keeps it.
LEMMA FinishAlive ==
    ASSUME AliveInv, NEW t \in Setting!Threads, jobs[t] # <<>>, Head(jobs[t])[1] # "adopt",
           Setting!Finish(t), UNCHANGED <<have, config, profile, ref, torn>>
    PROVE  AliveInv'
<1>1. jobs[t] \in Seq(JobSet)
    BY DEF AliveInv, SettingTypes
<1>2. \A i \in DOMAIN jobs[t] : jobs[t][i][1] # "adopt"
    BY NoAdoptsLeft
<1>3. Tail(jobs[t]) \in Seq(JobSet) /\ \A i \in DOMAIN Tail(jobs[t]) : Tail(jobs[t])[i][1] # "adopt"
    BY <1>1, <1>2, TailFacts
<1>4. /\ jobs' = [jobs EXCEPT ![t] = Tail(jobs[t])]
      /\ owner' = owner \/ (owner = t /\ owner' = None)
    BY DEF Setting!Finish
<1> QED BY <1>2, <1>3, <1>4, OtherJobs

\* An adoption keeps it.
LEMMA AdoptAlive ==
    ASSUME AliveInv, NEW t \in Setting!Threads, NEW f \in Setting!Features, Setting!Adopt(t, f)
    PROVE  AliveInv'
<1> DEFINE q == jobs[t]
           r == Tail(q)
<1>1. /\ q # <<>> /\ Head(q) = <<"adopt", f>>
      /\ ref' = [ref EXCEPT ![f] = profile]
      /\ torn' = (torn /\ Setting!Mine[Len(Setting!Mine)] # f)
      /\ jobs' = [jobs EXCEPT ![t] = r]
      /\ owner' = IF owner = t /\ Len(q) = 1 THEN None ELSE owner
      /\ UNCHANGED <<have, config, profile>>
    BY DEF Setting!Adopt, Setting!Job, Setting!Idle, Setting!Finish
<1>2. q \in Seq(JobSet)
    BY DEF AliveInv, SettingTypes
<1>3. /\ Len(q) \in Nat \ {0} /\ Head(q) = q[1] /\ 1 \in DOMAIN q /\ r \in Seq(JobSet)
      /\ Len(r) = Len(q) - 1 /\ DOMAIN q \subseteq Nat
      /\ \A i \in DOMAIN r : i \in Nat /\ i + 1 \in DOMAIN q /\ r[i] = q[i + 1]
      /\ \A i \in DOMAIN q : i # 1 => i - 1 \in DOMAIN r /\ r[i - 1] = q[i]
    <2>1. DOMAIN q \subseteq Nat
        BY <1>2
    <2> QED BY <1>1, <1>2, <2>1, TailFacts
<1>4. owner = t /\ f \in have
    BY <1>1, <1>3 DEF AliveInv, AdoptsAreOwned
<1>5. /\ AdoptsFirst(q)
      /\ \A i \in DOMAIN q : q[i][1] = "adopt" => q[i][2] \in have
    BY DEF AliveInv, AdoptsAreOwned
<1> HIDE DEF q, r
<1>6. AdoptsFirst(r)
    BY <1>3, <1>5 DEF AdoptsFirst
<1>7. \A i \in DOMAIN r : r[i][1] = "adopt" => r[i][2] \in have /\ owner' = t
    <2>1. r # <<>> => Len(q) # 1
        BY <1>3
    <2> QED BY <1>1, <1>3, <1>4, <1>5, <2>1
<1>8. /\ jobs'[t] = r /\ \A u \in Setting!Threads \ {t} : jobs'[u] = jobs[u]
      /\ jobs' \in [Setting!Threads -> Seq(JobSet)]
    BY <1>1, <1>3 DEF AliveInv, SettingTypes
<1>9. /\ ref' \in [Setting!Features -> Profiles] /\ ref'[f] = profile
      /\ \A g \in Setting!Features \ {f} : ref'[g] = ref[g]
    BY <1>1 DEF AliveInv, SettingTypes
<1>10. SettingTypes'
    <2>1. torn' \in BOOLEAN
        BY <1>1
    <2> QED BY <1>1, <1>8, <1>9, <2>1 DEF AliveInv, SettingTypes
<1>11. AdoptsAreOwned'
    <2>1. ASSUME NEW u \in Setting!Threads \ {t}, NEW i \in DOMAIN jobs[u]
          PROVE  jobs[u][i][1] # "adopt"
        BY <1>4 DEF AliveInv, AdoptsAreOwned
    <2>2. ASSUME NEW u \in Setting!Threads
          PROVE  /\ AdoptsFirst(jobs'[u])
                 /\ \A i \in DOMAIN jobs'[u] :
                        jobs'[u][i][1] = "adopt" => owner' = u /\ jobs'[u][i][2] \in have'
        <3>1. CASE u = t
            BY <1>1, <1>6, <1>7, <1>8, <3>1
        <3>2. CASE u # t
            BY <1>8, <2>1, <3>2 DEF AliveInv, AdoptsAreOwned
        <3> QED BY <3>1, <3>2
    <2> QED BY <2>2 DEF AdoptsAreOwned, AdoptsFirst
<1>12. \A g \in have : ref'[g] = profile \/ \E i \in DOMAIN q : i # 1 /\ q[i] = <<"adopt", g>>
    <2> TAKE g \in have
    <2>1. ref[g] = profile \/ Adopts(t, g)
        BY <1>4 DEF AliveInv, Adopted
    <2>2. g \in Setting!Features
        BY DEF AliveInv, SettingTypes
    <2>3. CASE g = f
        BY <1>9, <2>3
    <2>4. CASE g # f
        <3>1. \A i \in DOMAIN q : q[i] = <<"adopt", g>> => i # 1
            BY <1>1, <1>3, <2>4
        <3> QED BY <1>9, <2>1, <2>2, <2>4, <3>1 DEF Adopts, q
    <2> QED BY <2>3, <2>4
<1>13. Setting!Mine[Len(Setting!Mine)] = f => \A g \in have : ref'[g] = profile
    <2> SUFFICES ASSUME Setting!Mine[Len(Setting!Mine)] = f, NEW g \in have,
                        NEW i \in DOMAIN q, i # 1, q[i] = <<"adopt", g>>
                 PROVE  FALSE
        BY <1>12
    <2>1. Rank(f) < Rank(g)
        <3>1. 1 < i /\ q[1] = <<"adopt", f>>
            BY <1>1, <1>3
        <3> QED BY <1>3, <1>5, <3>1 DEF AdoptsFirst
    <2>2. Lists(Setting!Mine, have)
        BY MineLists DEF AliveInv, SettingTypes
    <2>3. PICK k \in DOMAIN Setting!Mine : Setting!Mine[k] = g
        BY <2>2 DEF Lists
    <2>4. k \in Nat /\ k <= Len(Setting!Mine) /\ Len(Setting!Mine) \in DOMAIN Setting!Mine
        BY <2>2 DEF Lists
    <2>5. k = Len(Setting!Mine) \/ Rank(g) < Rank(f)
        BY <2>2, <2>3, <2>4 DEF Lists
    <2>6. f \in Setting!Features /\ g \in Setting!Features
        BY DEF AliveInv, SettingTypes
    <2>7. Rank(f) \in Nat /\ Rank(g) \in Nat
        BY <2>6, TheFeatures DEF Rank
    <2> QED BY <2>1, <2>3, <2>5, <2>7
<1>14. Adopted'
    <2>1. \A g \in have : ref'[g] = profile \/ Adopts(t, g)'
        <3>1. ASSUME NEW g \in have, NEW i \in DOMAIN q, i # 1, q[i] = <<"adopt", g>>
              PROVE  Adopts(t, g)'
            <4>1. i - 1 \in DOMAIN r /\ r[i - 1] = <<"adopt", g>>
                BY <1>3, <3>1
            <4> QED BY <1>8, <4>1 DEF Adopts
        <3> QED BY <1>12, <3>1
    <2>2. CASE owner' = t
        <3>1. ~torn' => \A g \in have : ref'[g] \in DOMAIN config
            <4>1. CASE ~torn
                <5>1. \A g \in have : ref[g] \in DOMAIN config /\ g \in Setting!Features
                    BY <4>1 DEF AliveInv, Adopted, SettingTypes
                <5> QED BY <1>9, <5>1 DEF AliveInv, SettingTypes
            <4>2. CASE Setting!Mine[Len(Setting!Mine)] = f
                BY <1>13, <4>2 DEF AliveInv, SettingTypes
            <4> QED BY <1>1, <4>1, <4>2
        <3> QED BY <1>1, <2>1, <2>2, <3>1 DEF Adopted
    <2>3. CASE owner' = None
        <3>1. Len(q) = 1 \/ owner = None
            BY <1>1, <2>3
        <3>2. Len(q) = 1
            BY <1>4, <3>1, NoThread
        <3>3. \A i \in DOMAIN q : i = 1
            BY <1>2, <3>2
        <3>4. \A g \in have : ref'[g] = profile
            BY <1>12, <3>3
        <3> QED BY <1>1, <2>3, <3>4, NoThread DEF Adopted, AliveInv, SettingTypes
    <2> QED BY <1>1, <1>4, <2>2, <2>3
<1> QED BY <1>10, <1>11, <1>14 DEF AliveInv

\* A failure keeps it.
LEMMA FailAlive ==
    ASSUME AliveInv, NEW t \in Setting!Threads, Setting!Fail(t)
    PROVE  AliveInv'
<1>1. /\ jobs[t] # <<>> /\ jobs' = [jobs EXCEPT ![t] = <<>>]
      /\ torn' = (torn \/ Head(jobs[t])[1] = "adopt")
      /\ owner' = IF owner = t THEN None ELSE owner
      /\ UNCHANGED <<have, config, profile>>
    BY DEF Setting!Fail, Setting!Idle
<1>2. jobs[t] \in Seq(JobSet) /\ <<>> \in Seq(JobSet)
    BY DEF AliveInv, SettingTypes
<1>3. CASE Head(jobs[t])[1] # "adopt"
    <2>1. ref' = ref /\ torn' = torn
        <3>1. ref' = ref
            BY <1>3 DEF Setting!Fail
        <3>2. torn \in BOOLEAN
            BY DEF AliveInv, SettingTypes
        <3> QED BY <1>1, <1>3, <3>1, <3>2
    <2>2. \A i \in DOMAIN jobs[t] : jobs[t][i][1] # "adopt"
        BY <1>1, <1>3, NoAdoptsLeft
    <2>3. \A i \in DOMAIN <<>> : <<>>[i][1] # "adopt"
        OBVIOUS
    <2> QED BY <1>1, <1>2, <2>1, <2>2, <2>3, OtherJobs
<1>4. CASE Head(jobs[t])[1] = "adopt"
    <2>1. owner = t
        <3>1. Head(jobs[t]) = jobs[t][1] /\ 1 \in DOMAIN jobs[t]
            BY <1>1, <1>2, TailFacts
        <3> QED BY <1>4, <3>1 DEF AliveInv, AdoptsAreOwned
    <2>2. torn' \in BOOLEAN /\ torn'
        BY <1>1, <1>4
    <2>3. ref' = [ref EXCEPT !["hiresscroll"] = profile]
        BY <1>4 DEF Setting!Fail
    <2>4. /\ jobs'[t] = <<>> /\ \A u \in Setting!Threads \ {t} : jobs'[u] = jobs[u]
          /\ jobs' \in [Setting!Threads -> Seq(JobSet)]
        BY <1>1, <1>2 DEF AliveInv, SettingTypes
    <2>5. SettingTypes'
        BY <1>1, <2>2, <2>3, <2>4 DEF AliveInv, SettingTypes
    <2>6. \A u \in Setting!Threads : \A i \in DOMAIN jobs'[u] : jobs'[u][i][1] # "adopt"
        BY <2>1, <2>4 DEF AliveInv, AdoptsAreOwned
    <2>7. AdoptsAreOwned'
        BY <2>6 DEF AdoptsAreOwned, AdoptsFirst
    <2>8. Adopted'
        BY <1>1, <2>1, <2>2, NoThread DEF Adopted
    <2> QED BY <2>5, <2>7, <2>8 DEF AliveInv
<1> QED BY <1>3, <1>4

\* A profile is chosen, or cleared while it is active.
LEMMA ProfileAlive ==
    ASSUME AliveInv, NEW t \in Setting!Threads, owner = None, owner' = t,
           jobs' = [jobs EXCEPT ![t] = Setting!ProfileJobs],
           DOMAIN config \subseteq DOMAIN config', profile' \in Profiles, profile' \in DOMAIN config',
           UNCHANGED <<have, ref, torn>>
    PROVE  AliveInv'
<1> DEFINE q == Setting!ProfileJobs
<1>1. /\ q \in Seq(JobSet) /\ AdoptsFirst(q)
      /\ \A i \in DOMAIN q : q[i][1] = "adopt" => q[i][2] \in have
      /\ \A f \in have : \E i \in DOMAIN q : q[i] = <<"adopt", f>>
    BY ProfileJobsAre DEF AliveInv, SettingTypes
<1> HIDE DEF q
<1>2. /\ jobs'[t] = q /\ \A u \in Setting!Threads \ {t} : jobs'[u] = jobs[u]
      /\ jobs' \in [Setting!Threads -> Seq(JobSet)]
    BY <1>1 DEF AliveInv, SettingTypes, q
<1>3. SettingTypes'
    BY <1>2 DEF AliveInv, SettingTypes
<1>4. \A u \in Setting!Threads : \A i \in DOMAIN jobs[u] : jobs[u][i][1] # "adopt"
    BY NoThread DEF AliveInv, AdoptsAreOwned
<1>5. AdoptsAreOwned'
    <2>1. ASSUME NEW u \in Setting!Threads
          PROVE  /\ AdoptsFirst(jobs'[u])
                 /\ \A i \in DOMAIN jobs'[u] :
                        jobs'[u][i][1] = "adopt" => owner' = u /\ jobs'[u][i][2] \in have'
        <3>1. CASE u = t
            BY <1>1, <1>2, <3>1
        <3>2. CASE u # t
            BY <1>2, <1>4, <3>2 DEF AliveInv, AdoptsAreOwned
        <3> QED BY <3>1, <3>2
    <2> QED BY <2>1 DEF AdoptsAreOwned, AdoptsFirst
<1>6. \A f \in have : Adopts(t, f)'
    BY <1>1, <1>2 DEF Adopts
<1>7. Adopted'
    BY <1>6, NoThread DEF AliveInv, Adopted
<1> QED BY <1>3, <1>5, <1>7 DEF AliveInv

\* Every step keeps it.
LEMMA NextAlive ==
    ASSUME AliveInv, Setting!Next
    PROVE  AliveInv'
<1>1. CASE Setting!PowerCycle
    BY <1>1, NoJob DEF Setting!PowerCycle
<1>2. CASE Setting!Wakeup
    <2>1. /\ "wake" \in Setting!Threads /\ jobs["wake"] = <<>>
          /\ jobs' = [jobs EXCEPT !["wake"] = Setting!Reconfigure]
          /\ UNCHANGED <<have, config, profile, ref, owner, torn>>
        BY <1>2 DEF Setting!Wakeup, Setting!Threads, Setting!Idle
    <2>2. /\ Setting!Reconfigure \in Seq(JobSet)
          /\ \A i \in DOMAIN Setting!Reconfigure : Setting!Reconfigure[i][1] # "adopt"
        BY ReconfigureIs DEF AliveInv, SettingTypes
    <2>3. \A i \in DOMAIN jobs["wake"] : jobs["wake"][i][1] # "adopt"
        BY <2>1
    <2> QED BY <2>1, <2>2, <2>3, OtherJobs
<1>3. ASSUME NEW t \in Setting!Threads,
             Setting!Fail(t) \/ Setting!Reset(t) \/ Setting!GetMode(t) \/ Setting!SetMode(t)
      PROVE  AliveInv'
    <2>1. CASE Setting!Fail(t)
        BY <2>1, FailAlive
    <2>2. CASE Setting!Reset(t)
        <3>1. jobs[t] # <<>> /\ Head(jobs[t])[1] # "adopt"
            <4>1. jobs[t] # <<>> /\ Head(jobs[t]) = <<"reset", "">>
                BY <2>2 DEF Setting!Reset, Setting!Job, Setting!Idle
            <4>2. <<"reset", "">>[1] = "reset"
                OBVIOUS
            <4> QED BY <4>1, <4>2
        <3> QED BY <2>2, <3>1, FinishAlive DEF Setting!Reset
    <2>3. CASE Setting!GetMode(t)
        BY <2>3, NoJob DEF Setting!GetMode
    <2>4. CASE Setting!SetMode(t)
        <3>1. jobs[t] # <<>> /\ Head(jobs[t])[1] # "adopt"
            BY <2>4 DEF Setting!SetMode, Setting!Idle
        <3> QED BY <2>4, <3>1, FinishAlive DEF Setting!SetMode
    <2> QED BY <1>3, <2>1, <2>2, <2>3, <2>4
<1>4. ASSUME NEW t \in Setting!Threads, NEW f \in Setting!Features,
             Setting!Adopt(t, f) \/ Setting!Configure(t, f)
      PROVE  AliveInv'
    <2>1. CASE Setting!Adopt(t, f)
        BY <2>1, AdoptAlive
    <2>2. CASE Setting!Configure(t, f)
        <3>1. jobs[t] # <<>> /\ Head(jobs[t])[1] # "adopt"
            BY <2>2 DEF Setting!Configure, Setting!Job, Setting!Idle
        <3> QED BY <2>2, <3>1, FinishAlive DEF Setting!Configure
    <2> QED BY <1>4, <2>1, <2>2
<1>5. ASSUME NEW t \in Setting!Threads, NEW p \in Profiles, Setting!SetProfile(t, p)
      PROVE  AliveInv'
    <2>1. /\ owner = None /\ owner' = t /\ profile' = p
          /\ jobs' = [jobs EXCEPT ![t] = Setting!ProfileJobs]
          /\ DOMAIN config' = DOMAIN config \cup {p}
          /\ UNCHANGED <<have, ref, torn>>
        BY <1>5 DEF Setting!SetProfile
    <2> QED BY <2>1, ProfileAlive
<1>6. ASSUME NEW p \in Profiles, Setting!ClearProfile(p)
      PROVE  AliveInv'
    <2>1. /\ owner = None /\ "user" \in Setting!Threads
          /\ DOMAIN config' = DOMAIN config
          /\ UNCHANGED <<have, profile, ref, torn>>
        BY <1>6 DEF Setting!ClearProfile, Setting!Threads
    <2>2. CASE p = profile
        <3>1. owner' = "user" /\ jobs' = [jobs EXCEPT !["user"] = Setting!ProfileJobs]
            BY <1>6, <2>2 DEF Setting!ClearProfile
        <3>2. profile' \in Profiles /\ profile' \in DOMAIN config'
            BY <2>1 DEF AliveInv, SettingTypes
        <3> QED BY <2>1, <3>1, <3>2, ProfileAlive
    <2>3. CASE p # profile
        <3>1. owner' = owner /\ jobs' = jobs
            BY <1>6, <2>3 DEF Setting!ClearProfile
        <3> QED BY <2>1, <3>1, NoJob
    <2> QED BY <2>2, <2>3
<1>7. ASSUME NEW p \in Profiles, Setting!RemoveProfile(p)
      PROVE  AliveInv'
    <2>1. /\ owner = None /\ p # profile
          /\ DOMAIN config' = DOMAIN config \ {p}
          /\ UNCHANGED <<have, profile, ref, jobs, owner, torn>>
        BY <1>7 DEF Setting!RemoveProfile, Setting!Removable, Setting!Restrict
    <2>2. SettingTypes' /\ AdoptsAreOwned'
        BY <2>1 DEF AliveInv, SettingTypes, AdoptsAreOwned, AdoptsFirst
    <2>3. Adopted'
        BY <2>1, NoThread DEF AliveInv, Adopted, SettingTypes
    <2> QED BY <2>2, <2>3 DEF AliveInv
<1>8. ASSUME NEW e \in Setting!Fields.hiresscroll, NEW b \in BOOLEAN, Setting!SetHires(e, b)
      PROVE  AliveInv'
    <2> DEFINE q == <<<<"set", "hiresscroll">>>>
    <2>1. /\ "user" \in Setting!Threads /\ jobs["user"] = <<>>
          /\ jobs' = [jobs EXCEPT !["user"] = q]
          /\ DOMAIN config' = DOMAIN config
          /\ UNCHANGED <<have, profile, ref, owner, torn>>
        BY <1>8 DEF Setting!SetHires, Setting!Threads, Setting!Idle
    <2>2. q \in Seq(JobSet) /\ \A i \in DOMAIN q : q[i][1] # "adopt"
        <3>1. <<"set", "hiresscroll">> \in JobSet /\ <<"set", "hiresscroll">>[1] # "adopt"
            BY TheFeatures DEF JobSet
        <3> QED BY <3>1, OneIs
    <2>3. \A i \in DOMAIN jobs["user"] : jobs["user"][i][1] # "adopt"
        BY <2>1
    <2> HIDE DEF q
    <2> QED BY <2>1, <2>2, <2>3, OtherJobs
<1>9. ASSUME NEW s \in Setting!Setters, Setting!SetField(s)
      PROVE  AliveInv'
    <2>1. DOMAIN config' = DOMAIN config /\ UNCHANGED <<have, profile, ref, jobs, owner, torn>>
        BY <1>9 DEF Setting!SetField
    <2> QED BY <2>1, NoJob
<1>10. ASSUME NEW f \in Setting!Features,
              Setting!Press(f) \/ Setting!GetStatus(f) \/ Setting!SetStatus(f)
       PROVE  AliveInv'
    <2>1. CASE Setting!Press(f)
        <3> DEFINE q == <<<<"toggle", f>>>>
        <3>1. /\ "press" \in Setting!Threads /\ jobs["press"] = <<>>
              /\ jobs' = [jobs EXCEPT !["press"] = q]
              /\ UNCHANGED <<have, config, profile, ref, owner, torn>>
            BY <2>1 DEF Setting!Press, Setting!Threads, Setting!Idle
        <3>2. q \in Seq(JobSet) /\ \A i \in DOMAIN q : q[i][1] # "adopt"
            <4>1. <<"toggle", f>> \in JobSet /\ <<"toggle", f>>[1] # "adopt"
                BY DEF JobSet
            <4> QED BY <4>1, OneIs
        <3>3. \A i \in DOMAIN jobs["press"] : jobs["press"][i][1] # "adopt"
            BY <3>1
        <3> HIDE DEF q
        <3> QED BY <3>1, <3>2, <3>3, OtherJobs
    <2>2. CASE Setting!GetStatus(f)
        BY <2>2, NoJob DEF Setting!GetStatus
    <2>3. CASE Setting!SetStatus(f)
        <3>1. "press" \in Setting!Threads /\ jobs["press"] # <<>> /\ Head(jobs["press"])[1] # "adopt"
            BY <2>3 DEF Setting!SetStatus, Setting!Job, Setting!Idle, Setting!Threads
        <3> QED BY <2>3, <3>1, FinishAlive DEF Setting!SetStatus
    <2> QED BY <1>10, <2>1, <2>2, <2>3
<1> QED BY <1>1, <1>2, <1>3, <1>4, <1>5, <1>6, <1>7, <1>8, <1>9, <1>10 DEF Setting!Next

\* AliveInv is an invariant of the settings.
THEOREM SettingsInvariance == MCSpec => [](part = "settings" => AliveInv)
<1>1. MCInit => (part = "settings" => AliveInv)
    BY InitAlive DEF MCInit
<1>2. (part = "settings" => AliveInv) /\ [MCNext]_allVars => (part = "settings" => AliveInv)'
    <2> SUFFICES ASSUME part = "settings" => AliveInv, [MCNext]_allVars, part' = "settings"
                 PROVE  AliveInv'
        OBVIOUS
    <2>1. CASE UNCHANGED allVars
        <3>1. part = "settings" /\ UNCHANGED settingVars
            BY <2>1 DEF allVars
        <3>2. DOMAIN config' = DOMAIN config /\ UNCHANGED <<have, profile, ref, jobs, owner, torn>>
            BY <3>1 DEF settingVars
        <3> QED BY <3>1, <3>2, NoJob
    <2>2. CASE MCNext
        <3>1. part = "settings"
            BY <2>2 DEF MCNext, Rest
        <3>2. Setting!Next \/ UNCHANGED settingVars
            BY <2>2, <3>1, SettingsMove
        <3>3. CASE UNCHANGED settingVars
            <4>1. DOMAIN config' = DOMAIN config /\ UNCHANGED <<have, profile, ref, jobs, owner, torn>>
                BY <3>3 DEF settingVars
            <4> QED BY <3>1, <4>1, NoJob
        <3> QED BY <3>1, <3>2, <3>3, NextAlive
    <2> QED BY <2>1, <2>2
<1> QED BY <1>1, <1>2, PTL DEF MCSpec

\* No feature refers to an erased profile (Settings.tla), for every set of profiles,
\* of devices and of bounds.
THEOREM NoDeadProfile == MCSpec => []ProfilesAreAlive
<1>1. (part = "settings" => AliveInv) => ProfilesAreAlive
    BY DEF ProfilesAreAlive, Setting!ProfilesAreAlive, AliveInv, Adopted
<1> QED BY <1>1, SettingsInvariance, PTL

-----------------------------------------------------------------------------

\* No supported DPI is nearer to n than h is.
Nearest(n, h) ==
    \A d \in Setting!Supported : Setting!Abs(h - n) <= Setting!Abs(d - n)

\* Value h of field e is what configuration c of feature f asks for.
Fits(f, e, c, h) ==
    \/ f = "dpi" /\ c.dpi \in {Unset, 0}
    \/ f = "dpi" /\ c.dpi \notin {Unset, 0} /\ Nearest(c.dpi, h)
    \/ f = "thumbwheel" /\ c = Setting!Blank.thumbwheel
    \/ f = "thumbwheel" /\ (c[e] = TRUE => h = TRUE) /\ (c[e] # TRUE => h = FALSE)
    \/ f = "smartshift" /\ e = "threshold" /\ c.threshold \in {Unset, 0, h}
    \/ f = "smartshift" /\ e = "on" /\ c.on \in {Unset, h}
    \/ f = "hiresscroll" /\ c[e] \in {Unset, h}

\* A configuration of feature f has a value for every field, the DPI a number if any.
IsSetting(f, g) ==
    /\ g = [e \in Setting!Fields[f] |-> g[e]]
    /\ f = "dpi" => g.dpi \in {Unset} \cup Nat

\* A profile has a value for every field, the DPI a number if any.
IsProfile(c) ==
    /\ c = [f \in Setting!Features |-> c[f]]
    /\ \A f \in Setting!Features : c[f] = [e \in Setting!Fields[f] |-> c[f][e]]
    /\ c.dpi.dpi \in {Unset} \cup Nat

\* Profile d is c with configuration g for feature f.
Replaces(c, f, g, d) == d = [c EXCEPT ![f] = g]

\* The profiles are now those of old, but p, which is c.
Puts(old, p, c, now) == now = [old EXCEPT ![p] = c]

\* The profiles are now those of old, but feature f of p, which is g.
Rewritten(old, now, p, f, g) ==
    /\ DOMAIN now = DOMAIN old
    /\ now = [q \in DOMAIN now |-> now[q]]
    /\ \A q \in DOMAIN now : IsProfile(now[q])
    /\ now[p][f] = g
    /\ \A q \in DOMAIN old, k \in Setting!Features : k # f => now[q][k] = old[q][k]

SettingValues ==
    /\ config = [p \in DOMAIN config |-> config[p]]
    /\ \A p \in DOMAIN config : IsProfile(config[p])
    /\ made = [e \in Setting!Fields["hiresscroll"] |-> made[e]]
    /\ device = [f \in Setting!Features |-> device[f]]
    /\ \A f \in Setting!Features : DOMAIN device[f] = Setting!Fields[f]

\* What a thread has read is the mode, unless an action read it.
ReadOfMode ==
    /\ read = [t \in Setting!Threads |-> read[t]]
    /\ \A t \in Setting!Threads : read[t] # Unset =>
         /\ jobs[t] # <<>>
         /\ \/ Head(jobs[t])[1] = "toggle"
            \/ Head(jobs[t]) \in {<<"configure", "hiresscroll">>, <<"set", "hiresscroll">>}
         /\ Head(jobs[t])[2] = "hiresscroll" => DOMAIN read[t] = Setting!Fields["hiresscroll"]

\* After an adoption and after a reset every feature of H is configured.
ConfiguresLast(q, H) ==
    \A i \in DOMAIN q : q[i][1] \in {"adopt", "reset"} =>
        \A f \in H : \E j \in DOMAIN q : i < j /\ q[j] = <<"configure", f>>

\* Jobs q send the configuration of feature f; some thread, or a wakeup, will.
Sends(q, f) == \E i \in DOMAIN q : q[i] \in {<<"configure", f>>, <<"set", f>>}
Pends(f) == due \/ \E t \in Setting!Threads : Sends(jobs[t], f)

\* The mode to be written is that of the profile, or will be.
ModeIsAdopted ==
    "hiresscroll" \in have =>
        \/ owner \in Setting!Threads /\ Adopts(owner, "hiresscroll")
        \/ ref["hiresscroll"] = profile /\ made = config[profile]["hiresscroll"]

\* What the device has is what is configured, or will be, or was spoiled.
Follows(f) ==
    ref[f] \in DOMAIN config => \A e \in Setting!Fields[f] :
        Pends(f) \/ <<f, e>> \in spoiled \/ Fits(f, e, config[ref[f]][f], device[f][e])
SettingsFollow == \A f \in have : Follows(f)

QueuesAreRight == \A t \in Setting!Threads : ConfiguresLast(jobs[t], have)
AppliedInv ==
    AliveInv /\ SettingValues /\ ReadOfMode /\ QueuesAreRight /\ ModeIsAdopted /\ SettingsFollow

-----------------------------------------------------------------------------

\* What is known of the constants.
LEMMA DPIsAre ==
    /\ Unset \notin Int /\ Unset \notin BOOLEAN
    /\ MinDPI \in Nat /\ MaxDPI \in Nat /\ StepDPI \in Nat /\ StepDPI > 0
    /\ Wants \subseteq Nat
    /\ (MaxDPI - MinDPI) % StepDPI = 0
BY ComponentsAssumption DEF Setting!SettingsAssumption

\* The fields of each feature.
LEMMA TheFields ==
    /\ Setting!Fields["dpi"] = {"dpi"}
    /\ Setting!Fields["hiresscroll"] = {"hires", "invert"}
    /\ Setting!Fields["smartshift"] = {"on", "threshold"}
    /\ Setting!Fields["thumbwheel"] = {"divert", "invert"}
BY DEF Setting!Fields

\* A multiple of a positive number grows with what it is a multiple of.
LEMMA Multiples ==
    ASSUME NEW s \in Nat, s > 0, NEW k \in Int, NEW r \in Int, k > r
    PROVE  s * k >= s * r + s
<1> DEFINE m == k - r - 1
<1>1. m \in Nat /\ k = r + 1 + m
    OBVIOUS
<1> HIDE DEF m
<1>2. s * m \in Nat
    BY <1>1
<1>3. s * k = s * r + s + s * m
    BY <1>1
<1>4. s * k \in Int /\ s * r \in Int
    BY <1>1
<1> QED BY <1>2, <1>3, <1>4

\* A number is a multiple of a positive one, and a remainder.
LEMMA Division ==
    ASSUME NEW b \in Int, NEW d \in Nat, d > 0
    PROVE  /\ b \div d \in Int /\ b % d \in Int /\ d * (b \div d) \in Int
           /\ b = d * (b \div d) + (b % d)
           /\ 0 <= b % d /\ b % d <= d - 1
OBVIOUS

\* getClosestDPI() returns a DPI that no supported one is nearer than.
LEMMA ClosestIsNearest ==
    ASSUME NEW n \in Nat
    PROVE  Nearest(n, Setting!ClosestDPI(n)) /\ Setting!ClosestDPI(n) \in Int
<1> DEFINE a == MinDPI
           s == StepDPI
           top == (MaxDPI - MinDPI) \div StepDPI
           r == (2 * (n - a) + s) \div (2 * s)
<1>1. a \in Nat /\ MaxDPI \in Nat /\ s \in Nat /\ s > 0
    BY DPIsAre
<1>2. top \in Int /\ MaxDPI = a + s * top
    <2>1. /\ (MaxDPI - a) \div s \in Int
          /\ MaxDPI - a = s * ((MaxDPI - a) \div s) + ((MaxDPI - a) % s)
        BY <1>1, Division
    <2> QED BY <1>1, <2>1, DPIsAre
<1>3. \A d \in Setting!Supported : \E k \in 0 .. top : d = a + s * k
    BY DEF Setting!Supported
<1>4. ASSUME NEW k \in 0 .. top
      PROVE  s * k \in Int /\ a <= a + s * k /\ a + s * k <= MaxDPI
    <2>1. k \in Int /\ s * k \in Nat
        BY <1>1, <1>4
    <2>2. k = top \/ top > k
        BY <1>2, <1>4
    <2>3. top > k => s * top >= s * k + s
        BY <1>1, <1>2, <2>1, Multiples
    <2>4. s * top \in Int
        BY <1>1, <1>2
    <2> HIDE DEF a, s, top
    <2> QED BY <1>1, <1>2, <2>1, <2>2, <2>3, <2>4
<1>5. /\ r \in Int
      /\ s * r \in Int
      /\ 2 * (n - a) - s <= 2 * (s * r) /\ 2 * (s * r) <= 2 * (n - a) + s
    <2> DEFINE b == 2 * (n - a) + s
               d == 2 * s
    <2>1. b \in Int /\ d \in Nat /\ d > 0
        BY <1>1
    <2>2. /\ r \in Int /\ b % d \in Int /\ d * r \in Int
          /\ b = d * r + (b % d) /\ 0 <= b % d /\ b % d <= d - 1
        BY <2>1, Division
    <2>3. d * r = 2 * (s * r) /\ s * r \in Int
        BY <1>1, <2>2
    <2>4. b = 2 * (n - a) + s /\ d - 1 = 2 * s - 1
        OBVIOUS
    <2> HIDE DEF a, s, r, b, d
    <2> QED BY <1>1, <2>2, <2>3, <2>4
<1>6. Setting!ClosestDPI(n) = IF n > MaxDPI THEN MaxDPI ELSE IF n < a THEN a ELSE a + r * s
    BY DEF Setting!ClosestDPI
<1>7. r * s = s * r
    BY <1>1, <1>5
<1>8. \A i \in Int : Setting!Abs(i) = IF i < 0 THEN 0 - i ELSE i
    BY DEF Setting!Abs
<1> HIDE DEF a, s, top, r
<1>9. ASSUME NEW k \in 0 .. top
      PROVE  Setting!Abs(Setting!ClosestDPI(n) - n) <= Setting!Abs((a + s * k) - n)
    <2>1. s * k \in Int /\ a <= a + s * k /\ a + s * k <= MaxDPI
        BY <1>4
    <2>2. CASE n > MaxDPI
        BY <1>1, <1>6, <1>8, <2>1, <2>2
    <2>3. CASE ~(n > MaxDPI) /\ n < a
        BY <1>1, <1>6, <1>8, <2>1, <2>3
    <2>4. CASE ~(n > MaxDPI) /\ ~(n < a)
        <3>1. k \in Int
            BY <1>9
        <3>2. k > r => s * k >= s * r + s
            BY <1>1, <1>5, <3>1, Multiples
        <3>3. r > k => s * r >= s * k + s
            BY <1>1, <1>5, <3>1, Multiples
        <3>4. k = r \/ k > r \/ r > k
            BY <1>5, <3>1
        <3>5. Setting!ClosestDPI(n) = a + s * r
            BY <1>6, <1>7, <2>4
        <3> QED BY <1>1, <1>5, <1>8, <2>1, <3>2, <3>3, <3>4, <3>5
    <2> QED BY <2>2, <2>3, <2>4
<1>10. Setting!ClosestDPI(n) \in Int
    BY <1>1, <1>5, <1>6, <1>7
<1> QED BY <1>3, <1>9, <1>10 DEF Nearest

\* What fits is obeyed.
LEMMA FitsIsObeyed ==
    ASSUME NEW f \in Setting!Features, NEW c, NEW e \in Setting!Fields[f],
           Fits(f, e, c[f], device[f][e])
    PROVE  Setting!Obeys(f, e, c)
<1>1. CASE f = "dpi"
    <2>1. e = "dpi"
        BY <1>1, TheFields
    <2> QED BY <1>1, <2>1 DEF Fits, Nearest, Setting!Obeys
<1>2. CASE f = "hiresscroll"
    <2>1. e # "threshold"
        BY <1>2, TheFields
    <2> QED BY <1>2, <2>1 DEF Fits, Setting!Obeys
<1>3. CASE f = "smartshift"
    <2>1. e \in {"on", "threshold"}
        BY <1>3, TheFields
    <2> QED BY <1>3, <2>1 DEF Fits, Setting!Obeys
<1>4. CASE f = "thumbwheel"
    <2>1. e # "threshold"
        BY <1>4, TheFields
    <2>2. \/ c[f] = Setting!Blank[f]
          \/ (c[f][e] = TRUE => device[f][e] = TRUE) /\ (c[f][e] # TRUE => device[f][e] = FALSE)
        BY <1>4 DEF Fits
    <2>3. CASE c[f] = Setting!Blank[f]
        BY <1>4, <2>1, <2>3 DEF Setting!Obeys
    <2>4. CASE (c[f][e] = TRUE => device[f][e] = TRUE) /\ (c[f][e] # TRUE => device[f][e] = FALSE)
        <3>1. device[f][e] = (c[f][e] = TRUE)
            BY <2>4, Zenon
        <3> QED BY <1>4, <2>1, <3>1 DEF Setting!Obeys
    <2> QED BY <2>2, <2>3, <2>4
<1> QED BY <1>1, <1>2, <1>3, <1>4, TheFeatures

-----------------------------------------------------------------------------

\* The queue of a thread, and what is left of it.
LEMMA QueueIs ==
    ASSUME AliveInv, NEW t \in Setting!Threads
    PROVE  /\ jobs[t] \in Seq(JobSet) /\ DOMAIN jobs[t] \subseteq Nat
           /\ jobs[t] # <<>> =>
                /\ Head(jobs[t]) = jobs[t][1] /\ 1 \in DOMAIN jobs[t]
                /\ \A i \in DOMAIN jobs[t] : i # 1 => 1 < i
           /\ jobs[t] = <<>> => DOMAIN jobs[t] = {}
BY DEF AliveInv, SettingTypes

\* What is left after a job that is done.
LEMMA TailSends ==
    ASSUME NEW q \in Seq(JobSet), q # <<>>
    PROVE  /\ ConfiguresLast(q, have) => ConfiguresLast(Tail(q), have)
           /\ \A f : Sends(q, f) => \/ Sends(Tail(q), f)
                                    \/ Head(q) \in {<<"configure", f>>, <<"set", f>>}
           /\ ConfiguresLast(q, have) /\ Head(q)[1] \in {"adopt", "reset"} =>
                \A f \in have : Sends(Tail(q), f)
<1> DEFINE r == Tail(q)
<1>1. /\ Head(q) = q[1] /\ 1 \in DOMAIN q /\ DOMAIN q \subseteq Nat /\ DOMAIN r \subseteq Nat
      /\ \A i \in DOMAIN r : i + 1 \in DOMAIN q /\ r[i] = q[i + 1]
      /\ \A i \in DOMAIN q : i # 1 => i - 1 \in DOMAIN r /\ r[i - 1] = q[i]
    <2>1. DOMAIN q \subseteq Nat
        OBVIOUS
    <2>2. DOMAIN r \subseteq Nat
        BY TailFacts
    <2> QED BY <2>1, <2>2, TailFacts
<1> HIDE DEF r
<1>2. ASSUME ConfiguresLast(q, have)
      PROVE  ConfiguresLast(r, have)
    <2> SUFFICES ASSUME NEW i \in DOMAIN r, r[i][1] \in {"adopt", "reset"}, NEW f \in have
                 PROVE  \E j \in DOMAIN r : i < j /\ r[j] = <<"configure", f>>
        BY DEF ConfiguresLast
    <2>1. i + 1 \in DOMAIN q /\ q[i + 1][1] \in {"adopt", "reset"}
        BY <1>1
    <2>2. PICK j \in DOMAIN q : i + 1 < j /\ q[j] = <<"configure", f>>
        BY <1>2, <2>1 DEF ConfiguresLast
    <2>3. i \in Nat /\ j \in Nat
        BY <1>1
    <2>4. j # 1 /\ i < j - 1
        BY <2>2, <2>3
    <2> QED BY <1>1, <2>2, <2>4
<1>3. ASSUME NEW f, Sends(q, f)
      PROVE  Sends(r, f) \/ Head(q) \in {<<"configure", f>>, <<"set", f>>}
    <2>1. PICK i \in DOMAIN q : q[i] \in {<<"configure", f>>, <<"set", f>>}
        BY <1>3 DEF Sends
    <2>2. CASE i = 1
        BY <1>1, <2>1, <2>2
    <2>3. CASE i # 1
        BY <1>1, <2>1, <2>3 DEF Sends
    <2> QED BY <2>2, <2>3
<1>4. ASSUME ConfiguresLast(q, have), Head(q)[1] \in {"adopt", "reset"}, NEW f \in have
      PROVE  Sends(r, f)
    <2>1. PICK j \in DOMAIN q : 1 < j /\ q[j] = <<"configure", f>>
        BY <1>1, <1>4 DEF ConfiguresLast
    <2>2. j - 1 \in DOMAIN r /\ r[j - 1] = <<"configure", f>>
        BY <1>1, <2>1
    <2> QED BY <2>2 DEF Sends
<1> QED BY <1>2, <1>3, <1>4 DEF r

\* A thread is done with a job.
LEMMA FinishMoves ==
    ASSUME AliveInv, QueuesAreRight, NEW t \in Setting!Threads, jobs[t] # <<>>,
           Setting!Finish(t), UNCHANGED have
    PROVE  /\ QueuesAreRight'
           /\ jobs'[t] = Tail(jobs[t]) /\ \A u \in Setting!Threads \ {t} : jobs'[u] = jobs[u]
           /\ owner # t => owner' = owner
           /\ due' = due => \A f : Pends(f) =>
                 Pends(f)' \/ Head(jobs[t]) \in {<<"configure", f>>, <<"set", f>>}
           /\ Head(jobs[t])[1] \in {"adopt", "reset"} => \A f \in have : Pends(f)'
<1>1. /\ jobs'[t] = Tail(jobs[t]) /\ \A u \in Setting!Threads \ {t} : jobs'[u] = jobs[u]
      /\ owner # t => owner' = owner
    BY DEF Setting!Finish, AliveInv, SettingTypes
<1>2. /\ ConfiguresLast(jobs[t], have) /\ ConfiguresLast(Tail(jobs[t]), have)
      /\ \A f : Sends(jobs[t], f) =>
            Sends(Tail(jobs[t]), f) \/ Head(jobs[t]) \in {<<"configure", f>>, <<"set", f>>}
      /\ Head(jobs[t])[1] \in {"adopt", "reset"} => \A f \in have : Sends(Tail(jobs[t]), f)
    BY TailSends, QueueIs DEF QueuesAreRight
<1>3. QueuesAreRight'
    <2>1. ASSUME NEW u \in Setting!Threads PROVE ConfiguresLast(jobs'[u], have')
        <3>1. CASE u = t
            BY <1>1, <1>2, <3>1
        <3>2. CASE u # t
            BY <1>1, <3>2 DEF QueuesAreRight
        <3> QED BY <3>1, <3>2
    <2> QED BY <2>1 DEF QueuesAreRight
<1>4. ASSUME due' = due, NEW f, Pends(f)
      PROVE  Pends(f)' \/ Head(jobs[t]) \in {<<"configure", f>>, <<"set", f>>}
    <2>1. CASE due
        BY <1>4, <2>1 DEF Pends
    <2>2. ASSUME NEW u \in Setting!Threads, Sends(jobs[u], f)
          PROVE  Sends(jobs[u], f)' \/ Head(jobs[t]) \in {<<"configure", f>>, <<"set", f>>}
        <3>1. CASE u = t
            BY <1>1, <1>2, <2>2, <3>1 DEF Sends
        <3>2. CASE u # t
            BY <1>1, <2>2, <3>2 DEF Sends
        <3> QED BY <3>1, <3>2
    <2> QED BY <1>4, <2>1, <2>2 DEF Pends
<1>5. ASSUME Head(jobs[t])[1] \in {"adopt", "reset"}, NEW f \in have
      PROVE  Pends(f)'
    BY <1>1, <1>2, <1>5 DEF Pends, Sends
<1> QED BY <1>1, <1>3, <1>4, <1>5

\* A thread without jobs gets some.
LEMMA NewJobs ==
    ASSUME AliveInv, QueuesAreRight, NEW t \in Setting!Threads, jobs[t] = <<>>,
           NEW q \in Seq(JobSet), ConfiguresLast(q, have), jobs' = [jobs EXCEPT ![t] = q],
           UNCHANGED have
    PROVE  /\ QueuesAreRight'
           /\ jobs'[t] = q /\ \A u \in Setting!Threads \ {t} : jobs'[u] = jobs[u]
           /\ due' = due => \A f : Pends(f) => Pends(f)'
           /\ \A f : Sends(q, f) => Pends(f)'
           /\ \A i \in DOMAIN jobs[t] : jobs[t][i][1] # "adopt"
<1>1. jobs'[t] = q /\ \A u \in Setting!Threads \ {t} : jobs'[u] = jobs[u]
    BY DEF AliveInv, SettingTypes
<1>2. QueuesAreRight'
    <2>1. ASSUME NEW u \in Setting!Threads PROVE ConfiguresLast(jobs'[u], have')
        <3>1. CASE u = t
            BY <1>1, <3>1
        <3>2. CASE u # t
            BY <1>1, <3>2 DEF QueuesAreRight
        <3> QED BY <3>1, <3>2
    <2> QED BY <2>1 DEF QueuesAreRight
<1>3. DOMAIN jobs[t] = {}
    OBVIOUS
<1>4. ASSUME due' = due, NEW f, Pends(f)
      PROVE  Pends(f)'
    <2>1. CASE due
        BY <1>4, <2>1 DEF Pends
    <2>2. ASSUME NEW u \in Setting!Threads, Sends(jobs[u], f)
          PROVE  Sends(jobs[u], f)'
        <3>1. u # t
            BY <1>3, <2>2 DEF Sends
        <3> QED BY <1>1, <2>2, <3>1 DEF Sends
    <2> QED BY <1>4, <2>1, <2>2 DEF Pends
<1>5. ASSUME NEW f, Sends(q, f)
      PROVE  Pends(f)'
    BY <1>1, <1>5 DEF Pends, Sends
<1> QED BY <1>1, <1>2, <1>3, <1>4, <1>5

\* A thread that does not adopt leaves the mode to be written as it is.
LEMMA ModeStays ==
    ASSUME ModeIsAdopted, NEW t \in Setting!Threads,
           \A i \in DOMAIN jobs[t] : jobs[t][i][1] # "adopt",
           \A u \in Setting!Threads \ {t} : jobs'[u] = jobs[u],
           owner # t => owner' = owner,
           UNCHANGED <<have, ref, profile, made, config>>
    PROVE  ModeIsAdopted'
<1>1. owner \in Setting!Threads /\ Adopts(owner, "hiresscroll") => owner # t
    BY DEF Adopts
<1>2. owner \in Setting!Threads /\ Adopts(owner, "hiresscroll") =>
         owner' \in Setting!Threads /\ Adopts(owner, "hiresscroll")'
    BY <1>1 DEF Adopts
<1> QED BY <1>2 DEF ModeIsAdopted

\* What a wakeup and a change of the profile do ends with the configuration.
LEMMA Configuring ==
    ASSUME have \subseteq Setting!Features
    PROVE  /\ ConfiguresLast(Setting!Reconfigure, have) /\ ConfiguresLast(Setting!ProfileJobs, have)
           /\ \A f \in have : Sends(Setting!Reconfigure, f) /\ Sends(Setting!ProfileJobs, f)
<1> DEFINE a == IF resets THEN <<<<"reset", "">>>> ELSE <<>>
           c == Setting!Each("configure")
           d == Setting!Each("adopt")
           b == Setting!Reconfigure
           p == Setting!ProfileJobs
           m == Setting!Mine
<1>1. a \in Seq(JobSet)
    <2>1. <<"reset", "">> \in JobSet
        BY DEF JobSet
    <2>2. <<>> \in Seq(JobSet) /\ <<<<"reset", "">>>> \in Seq(JobSet)
        BY <2>1, OneIs
    <2> QED BY <2>2
<1>2. /\ c \in Seq(JobSet) /\ d \in Seq(JobSet) /\ DOMAIN c = DOMAIN m
      /\ \A i \in DOMAIN m : c[i] = <<"configure", m[i]>>
    BY EachIs
<1>3. \A f \in have : \E i \in DOMAIN c : c[i] = <<"configure", f>>
    BY <1>2, MineLists DEF Lists
<1>4. b = a \o c /\ p = d \o b /\ b \in Seq(JobSet) /\ p \in Seq(JobSet)
    BY ReconfigureIs, ProfileJobsAre DEF Setting!Reconfigure, Setting!ProfileJobs
<1>5. \A i \in DOMAIN c : c[i][1] = "configure"
    BY <1>2
<1> HIDE DEF a, b, c, d, p, m
<1>6. /\ DOMAIN b = 1..(Len(a) + Len(c)) /\ Len(a) \in Nat /\ Len(c) \in Nat
      /\ \A i \in DOMAIN b : b[i] = IF i <= Len(a) THEN a[i] ELSE c[i - Len(a)]
      /\ DOMAIN c = 1..Len(c) /\ Len(b) = Len(a) + Len(c)
    BY <1>1, <1>2, <1>4
<1>7. ASSUME NEW f \in have
      PROVE  \E j \in DOMAIN b : Len(a) < j /\ b[j] = <<"configure", f>>
    <2>1. PICK i \in DOMAIN c : c[i] = <<"configure", f>>
        BY <1>3
    <2>2. i + Len(a) \in DOMAIN b /\ Len(a) < i + Len(a) /\ (i + Len(a)) - Len(a) = i
        BY <1>6
    <2>3. b[i + Len(a)] = c[i]
        BY <1>6, <2>2
    <2> QED BY <2>1, <2>2, <2>3
<1>8. \A i \in DOMAIN b : b[i][1] # "configure" => i <= Len(a)
    <2> TAKE i \in DOMAIN b
    <2>1. ~(i <= Len(a)) => i - Len(a) \in DOMAIN c
        BY <1>6
    <2> QED BY <1>5, <1>6, <2>1
<1>9. ConfiguresLast(b, have) /\ \A f \in have : Sends(b, f)
    <2>1. \A i \in DOMAIN b : i \in Nat
        BY <1>6
    <2>2. \A i \in DOMAIN b : b[i][1] \in {"adopt", "reset"} => i <= Len(a)
        BY <1>8
    <2>3. ConfiguresLast(b, have)
        <3> SUFFICES ASSUME NEW i \in DOMAIN b, b[i][1] \in {"adopt", "reset"}, NEW f \in have
                     PROVE  \E j \in DOMAIN b : i < j /\ b[j] = <<"configure", f>>
            BY DEF ConfiguresLast
        <3>1. i \in Nat /\ i <= Len(a)
            BY <2>1, <2>2
        <3>2. PICK j \in DOMAIN b : Len(a) < j /\ b[j] = <<"configure", f>>
            BY <1>7
        <3>3. j \in Nat
            BY <2>1
        <3> QED BY <1>6, <3>1, <3>2, <3>3
    <2>4. \A f \in have : Sends(b, f)
        BY <1>7 DEF Sends
    <2> QED BY <2>3, <2>4
<1>10. /\ DOMAIN p = 1..(Len(d) + Len(b)) /\ Len(d) \in Nat /\ Len(b) \in Nat
       /\ \A i \in DOMAIN p : p[i] = IF i <= Len(d) THEN d[i] ELSE b[i - Len(d)]
       /\ DOMAIN b = 1..Len(b)
    BY <1>2, <1>4
<1>11. ASSUME NEW f \in have, NEW k \in Nat, k <= Len(a)
       PROVE  \E j \in DOMAIN p : Len(d) + k < j /\ p[j] = <<"configure", f>>
    <2>1. PICK i \in DOMAIN b : Len(a) < i /\ b[i] = <<"configure", f>>
        BY <1>7
    <2>2. /\ i + Len(d) \in DOMAIN p /\ Len(d) + k < i + Len(d)
          /\ (i + Len(d)) - Len(d) = i /\ ~(i + Len(d) <= Len(d))
        BY <1>6, <1>10, <1>11, <2>1
    <2>3. p[i + Len(d)] = b[i]
        BY <1>10, <2>2
    <2> QED BY <2>1, <2>2, <2>3
<1>12. ConfiguresLast(p, have)
    <2> SUFFICES ASSUME NEW i \in DOMAIN p, p[i][1] \in {"adopt", "reset"}, NEW f \in have
                 PROVE  \E j \in DOMAIN p : i < j /\ p[j] = <<"configure", f>>
        BY DEF ConfiguresLast
    <2>1. i \in Nat
        BY <1>10
    <2>2. CASE i <= Len(d)
        <3>1. PICK j \in DOMAIN p : Len(d) + 0 < j /\ p[j] = <<"configure", f>>
            BY <1>6, <1>11
        <3>2. j \in Nat
            BY <1>10
        <3> QED BY <1>10, <2>1, <2>2, <3>1, <3>2
    <2>3. CASE ~(i <= Len(d))
        <3>1. i - Len(d) \in DOMAIN b /\ p[i] = b[i - Len(d)] /\ i - Len(d) \in Nat
            BY <1>10, <2>3
        <3>2. i - Len(d) <= Len(a)
            BY <1>8, <3>1
        <3>3. PICK j \in DOMAIN p : Len(d) + (i - Len(d)) < j /\ p[j] = <<"configure", f>>
            BY <1>11, <3>1, <3>2
        <3>4. Len(d) + (i - Len(d)) = i
            BY <1>10, <2>1
        <3> QED BY <3>3, <3>4
    <2> QED BY <2>2, <2>3
<1>13. \A f \in have : Sends(p, f)
    BY <1>6, <1>11 DEF Sends
<1> QED BY <1>9, <1>12, <1>13 DEF b, p

-----------------------------------------------------------------------------

\* The features are four.
LEMMA FeatureNames ==
    /\ "dpi" \in Setting!Features /\ "hiresscroll" \in Setting!Features
    /\ "smartshift" \in Setting!Features /\ "thumbwheel" \in Setting!Features
BY TheFeatures

\* A profile that says nothing is one, and is obeyed.
LEMMA BlankIs ==
    /\ IsProfile(Setting!Blank)
    /\ \A f \in Setting!Features : \A e \in Setting!Fields[f] : Setting!Blank[f][e] = Unset
BY FeatureNames, TheFields DEF IsProfile, Setting!Blank

\* What a profile that says nothing asks for is met.
LEMMA BlankFits ==
    ASSUME NEW f \in Setting!Features, NEW e \in Setting!Fields[f], NEW h
    PROVE  Fits(f, e, Setting!Blank[f], h)
<1>1. Setting!Blank[f][e] = Unset
    BY BlankIs
<1> QED BY <1>1, TheFeatures, TheFields DEF Fits

\* A device that was switched on has a value for every field.
LEMMA PowerOnIs ==
    /\ Setting!PowerOn = [f \in Setting!Features |-> Setting!PowerOn[f]]
    /\ \A f \in Setting!Features : DOMAIN Setting!PowerOn[f] = Setting!Fields[f]
BY TheFeatures, TheFields DEF Setting!PowerOn

\* A profile of which one feature is changed is one.
LEMMA ProfileExcept ==
    ASSUME NEW c, IsProfile(c), NEW f \in Setting!Features, NEW g, IsSetting(f, g),
           NEW d, Replaces(c, f, g, d)
    PROVE  IsProfile(d) /\ d[f] = g /\ \A k \in Setting!Features \ {f} : d[k] = c[k]
<1>1. DOMAIN c = Setting!Features
    BY DEF IsProfile
<1>2. d = [k \in Setting!Features |-> IF k = f THEN g ELSE c[k]]
    BY <1>1 DEF Replaces
<1>3. d[f] = g /\ \A k \in Setting!Features \ {f} : d[k] = c[k]
    BY <1>2
<1>4. d = [k \in Setting!Features |-> d[k]]
    BY <1>2
<1>5. \A k \in Setting!Features : d[k] = [e \in Setting!Fields[k] |-> d[k][e]]
    <2> TAKE k \in Setting!Features
    <2>1. CASE k = f
        BY <1>3, <2>1 DEF IsSetting
    <2>2. CASE k # f
        BY <1>3, <2>2 DEF IsProfile
    <2> QED BY <2>1, <2>2
<1>6. d.dpi.dpi \in {Unset} \cup Nat
    BY <1>3, FeatureNames DEF IsProfile, IsSetting
<1>7. IsProfile(d)
    BY <1>4, <1>5, <1>6 DEF IsProfile
<1> QED BY <1>3, <1>7

\* What configure() sends is what the configuration asks for.
LEMMA SentFits ==
    ASSUME NEW f \in Setting!Features \ {"hiresscroll"}, NEW c, IsProfile(c),
           NEW e \in Setting!Fields[f], NEW h, NEW v,
           v = IF Setting!Sent(f, c[f])[e] = Unset THEN h ELSE Setting!Sent(f, c[f])[e]
    PROVE  Fits(f, e, c[f], v)
<1> DEFINE g == c[f]
           s == Setting!Sent(f, g)[e]
<1> SUFFICES Fits(f, e, g, v)
    OBVIOUS
<1>0. v = IF s = Unset THEN h ELSE s
    OBVIOUS
<1>1. g = [k \in Setting!Fields[f] |-> g[k]]
    BY DEF IsProfile
<1>2. CASE f = "dpi"
    <2>1. g.dpi \in {Unset} \cup Nat /\ e = "dpi"
        BY <1>2, TheFields DEF IsProfile
    <2>2. Setting!Sent(f, g) = Setting!SentDPI(g)
        BY <1>2 DEF Setting!Sent
    <2> HIDE DEF g
    <2>3. s = IF g.dpi \in {Unset, 0} THEN Unset ELSE Setting!ClosestDPI(g.dpi)
        BY <1>1, <1>2, <2>1, <2>2, TheFields DEF Setting!SentDPI
    <2>4. CASE g.dpi \in {Unset, 0}
        BY <1>2, <2>4 DEF Fits
    <2>5. CASE g.dpi \notin {Unset, 0}
        <3>1. g.dpi \in Nat
            BY <2>1, <2>5
        <3>2. Nearest(g.dpi, Setting!ClosestDPI(g.dpi)) /\ Setting!ClosestDPI(g.dpi) \in Int
            BY <3>1, ClosestIsNearest
        <3>3. v = Setting!ClosestDPI(g.dpi)
            BY <1>0, <2>3, <2>5, <3>2, DPIsAre
        <3> HIDE DEF s
        <3> QED BY <1>2, <2>5, <3>2, <3>3 DEF Fits
    <2> QED BY <2>4, <2>5
<1>3. CASE f = "smartshift"
    <2>1. Setting!Sent(f, g) = Setting!SentStatus(g)
        BY <1>3 DEF Setting!Sent
    <2> HIDE DEF g
    <2>2. /\ e = "on" => s = g.on
          /\ e = "threshold" => s = IF g.threshold = 0 THEN Unset ELSE g.threshold
        BY <1>1, <1>3, <2>1, TheFields DEF Setting!SentStatus
    <2>3. e \in {"on", "threshold"}
        BY <1>3, TheFields
    <2>4. CASE e = "on"
        BY <1>0, <1>3, <2>2, <2>4 DEF Fits
    <2>5. CASE e = "threshold"
        BY <1>0, <1>3, <2>2, <2>5 DEF Fits
    <2> QED BY <2>3, <2>4, <2>5
<1>4. CASE f = "thumbwheel"
    <2>1. Setting!Sent(f, g) = Setting!SentThumb(g)
        BY <1>4 DEF Setting!Sent
    <2>2. CASE \A k \in DOMAIN g : g[k] = Unset
        <3>1. DOMAIN g = Setting!Fields[f]
            BY <1>1
        <3> HIDE DEF g, s
        <3>2. g = [k \in Setting!Fields[f] |-> Unset]
            BY <1>1, <2>2, <3>1
        <3>3. g = Setting!Blank.thumbwheel
            BY <1>4, <3>2, FeatureNames DEF Setting!Blank
        <3> QED BY <1>4, <3>3 DEF Fits
    <2>3. CASE ~(\A k \in DOMAIN g : g[k] = Unset)
        <3> HIDE DEF g
        <3>1. Setting!SentThumb(g) = [k \in DOMAIN g |-> g[k] = TRUE]
            BY <2>3 DEF Setting!SentThumb
        <3>2. e \in DOMAIN g
            BY <1>1
        <3>3. s = (g[e] = TRUE)
            BY <2>1, <3>1, <3>2
        <3>4. s \in BOOLEAN /\ (g[e] = TRUE => s = TRUE) /\ (g[e] # TRUE => s = FALSE)
            BY <3>3, Zenon
        <3>5. v = s
            BY <1>0, <3>4, DPIsAre
        <3>6. (g[e] = TRUE => v = TRUE) /\ (g[e] # TRUE => v = FALSE)
            BY <3>4, <3>5, Zenon
        <3> QED BY <1>4, <3>6 DEF Fits
    <2> QED BY <2>2, <2>3
<1> QED BY <1>2, <1>3, <1>4, TheFeatures

\* What is written over what there was.
LEMMA OverlayIs ==
    ASSUME NEW s, NEW b, NEW o, o = Setting!Overlay(s, b)
    PROVE  /\ DOMAIN o = DOMAIN b
           /\ \A e \in DOMAIN b : o[e] = IF s[e] = Unset THEN b[e] ELSE s[e]
BY DEF Setting!Overlay

\* The settings of one feature are replaced.
LEMMA Written ==
    ASSUME SettingValues, NEW f \in Setting!Features, NEW o,
           DOMAIN o = Setting!Fields[f], device' = [device EXCEPT ![f] = o]
    PROVE  /\ device' = [k \in Setting!Features |-> device'[k]]
           /\ \A k \in Setting!Features : DOMAIN device'[k] = Setting!Fields[k]
           /\ \A k \in Setting!Features \ {f} : device'[k] = device[k]
           /\ device'[f] = o
<1>1. DOMAIN device = Setting!Features
    BY DEF SettingValues
<1>2. device' = [k \in Setting!Features |-> IF k = f THEN o ELSE device[k]]
    BY <1>1
<1>3. device'[f] = o /\ \A k \in Setting!Features \ {f} : device'[k] = device[k]
    BY <1>2
<1>4. device' = [k \in Setting!Features |-> device'[k]]
    BY <1>2
<1>5. \A k \in Setting!Features : DOMAIN device'[k] = Setting!Fields[k]
    BY <1>3 DEF SettingValues
<1> QED BY <1>3, <1>4, <1>5

-----------------------------------------------------------------------------

\* A feature that will be configured follows.
LEMMA PendingFollows ==
    ASSUME NEW f, Pends(f)'
    PROVE  Follows(f)'
BY DEF Follows

\* A feature that nothing is done to follows still.
LEMMA FollowsStill ==
    ASSUME NEW f, Follows(f), ref'[f] = ref[f], device'[f] = device[f],
           ref[f] \in DOMAIN config' =>
               ref[f] \in DOMAIN config /\ config'[ref[f]][f] = config[ref[f]][f],
           \A e \in Setting!Fields[f] : <<f, e>> \in spoiled => <<f, e>> \in spoiled',
           Pends(f) => Pends(f)' \/ \A e \in Setting!Fields[f] : <<f, e>> \in spoiled'
    PROVE  Follows(f)'
<1> SUFFICES ASSUME ref'[f] \in DOMAIN config', NEW e \in Setting!Fields[f],
                    ~Pends(f)', <<f, e>> \notin spoiled'
             PROVE  Fits(f, e, config'[ref'[f]][f], device'[f][e])
    BY DEF Follows
<1>1. Fits(f, e, config[ref[f]][f], device[f][e])
    BY DEF Follows
<1>2. config'[ref'[f]][f] = config[ref[f]][f] /\ device'[f][e] = device[f][e]
    OBVIOUS
<1> QED BY <1>1, <1>2

\* What a thread has read stays what it is while others work, and when it is used.
LEMMA ReadStays ==
    ASSUME ReadOfMode, NEW t \in Setting!Threads,
           read' = read \/ read' = [read EXCEPT ![t] = Unset],
           read'[t] = Unset,
           \A u \in Setting!Threads \ {t} : jobs'[u] = jobs[u]
    PROVE  ReadOfMode'
<1>1. /\ DOMAIN read = Setting!Threads
      /\ \A u \in Setting!Threads \ {t} : read'[u] = read[u]
      /\ read' = [u \in Setting!Threads |-> read'[u]]
    BY DEF ReadOfMode
<1> QED BY <1>1 DEF ReadOfMode

\* A thread that has not begun a job has read nothing.
LEMMA NothingRead ==
    ASSUME ReadOfMode, NEW t \in Setting!Threads,
           jobs[t] = <<>> \/ \/ Head(jobs[t])[1] \in {"adopt", "reset"}
                             \/ /\ Head(jobs[t])[1] = "configure"
                                /\ Head(jobs[t])[2] # "hiresscroll"
    PROVE  read[t] = Unset
<1> SUFFICES ASSUME read[t] # Unset
             PROVE  FALSE
    OBVIOUS
<1>1. /\ jobs[t] # <<>>
      /\ \/ Head(jobs[t])[1] = "toggle"
         \/ Head(jobs[t]) \in {<<"configure", "hiresscroll">>, <<"set", "hiresscroll">>}
    BY DEF ReadOfMode
<1> QED BY <1>1

\* What has nothing to do with jobs leaves them and the mode as they are.
LEMMA NoJobMoves ==
    ASSUME UNCHANGED <<have, jobs, owner>>
    PROVE  /\ QueuesAreRight => QueuesAreRight'
           /\ due' = due => \A f : Pends(f) => Pends(f)'
           /\ ReadOfMode /\ read' = read => ReadOfMode'
           /\ ModeIsAdopted /\ UNCHANGED <<ref, profile, made, config>> => ModeIsAdopted'
<1>1. QueuesAreRight => QueuesAreRight'
    BY DEF QueuesAreRight
<1>2. due' = due => \A f : Pends(f) => Pends(f)'
    BY DEF Pends
<1>3. ReadOfMode /\ read' = read => ReadOfMode'
    BY DEF ReadOfMode
<1>4. ModeIsAdopted /\ UNCHANGED <<ref, profile, made, config>> => ModeIsAdopted'
    BY DEF ModeIsAdopted, Adopts
<1> QED BY <1>1, <1>2, <1>3, <1>4

\* The features of the device are features.
LEMMA HaveFeatures == ASSUME AliveInv PROVE have \subseteq Setting!Features
BY DEF AliveInv, SettingTypes

-----------------------------------------------------------------------------

\* The steps one by one.  The device is switched off and on.
LEMMA PowerCycleApplies ==
    ASSUME AppliedInv, Setting!PowerCycle
    PROVE  SettingValues' /\ ReadOfMode' /\ QueuesAreRight' /\ ModeIsAdopted' /\ SettingsFollow'
<1>1. /\ device' = Setting!PowerOn /\ due' = TRUE
      /\ UNCHANGED <<have, config, profile, ref, made, jobs, read, owner>>
    BY DEF Setting!PowerCycle
<1>2. SettingValues'
    BY <1>1, PowerOnIs DEF AppliedInv, SettingValues
<1>3. ReadOfMode' /\ QueuesAreRight' /\ ModeIsAdopted'
    BY <1>1, NoJobMoves DEF AppliedInv
<1>4. \A f : Pends(f)'
    BY <1>1 DEF Pends
<1>5. SettingsFollow'
    BY <1>4, PendingFollows DEF SettingsFollow
<1> QED BY <1>2, <1>3, <1>5

\* A wakeup configures everything.
LEMMA WakeupApplies ==
    ASSUME AppliedInv, Setting!Wakeup
    PROVE  SettingValues' /\ ReadOfMode' /\ QueuesAreRight' /\ ModeIsAdopted' /\ SettingsFollow'
<1> DEFINE q == Setting!Reconfigure
<1>1. /\ "wake" \in Setting!Threads /\ jobs["wake"] = <<>>
      /\ jobs' = [jobs EXCEPT !["wake"] = q]
      /\ UNCHANGED <<have, config, profile, ref, made, device, read, owner, spoiled>>
    BY DEF Setting!Wakeup, Setting!Idle, Setting!Threads
<1>2. /\ q \in Seq(JobSet) /\ ConfiguresLast(q, have) /\ \A f \in have : Sends(q, f)
    BY HaveFeatures, ReconfigureIs, Configuring DEF AppliedInv
<1> HIDE DEF q
<1>3. /\ QueuesAreRight' /\ \A f \in have : Pends(f)'
      /\ \A u \in Setting!Threads \ {"wake"} : jobs'[u] = jobs[u]
      /\ \A i \in DOMAIN jobs["wake"] : jobs["wake"][i][1] # "adopt"
    BY <1>1, <1>2, NewJobs DEF AppliedInv
<1>4. ModeIsAdopted'
    BY <1>1, <1>3, ModeStays DEF AppliedInv
<1>5. read["wake"] = Unset
    BY <1>1, NothingRead DEF AppliedInv
<1>6. ReadOfMode'
    BY <1>1, <1>3, <1>5, ReadStays DEF AppliedInv
<1>7. SettingValues'
    BY <1>1 DEF AppliedInv, SettingValues
<1>8. SettingsFollow'
    BY <1>1, <1>3, PendingFollows DEF SettingsFollow
<1> QED BY <1>3, <1>4, <1>6, <1>7, <1>8

\* The profile is chosen, or cleared while it is active.
LEMMA ProfileApplies ==
    ASSUME AppliedInv, NEW t \in Setting!Threads, jobs[t] = <<>>,
           owner' = t, jobs' = [jobs EXCEPT ![t] = Setting!ProfileJobs],
           config' = [p \in DOMAIN config' |-> config'[p]],
           \A p \in DOMAIN config' : IsProfile(config'[p]),
           UNCHANGED <<have, made, device, read>>
    PROVE  SettingValues' /\ ReadOfMode' /\ QueuesAreRight' /\ ModeIsAdopted' /\ SettingsFollow'
<1> DEFINE q == Setting!ProfileJobs
<1>1. /\ q \in Seq(JobSet) /\ ConfiguresLast(q, have) /\ \A f \in have : Sends(q, f)
      /\ \A f \in have : \E i \in DOMAIN q : q[i] = <<"adopt", f>>
    BY HaveFeatures, ProfileJobsAre, Configuring DEF AppliedInv
<1>2. jobs' = [jobs EXCEPT ![t] = q]
    OBVIOUS
<1> HIDE DEF q
<1>3. /\ QueuesAreRight' /\ \A f \in have : Pends(f)'
      /\ jobs'[t] = q /\ \A u \in Setting!Threads \ {t} : jobs'[u] = jobs[u]
    BY <1>1, <1>2, NewJobs DEF AppliedInv
<1>4. ModeIsAdopted'
    BY <1>1, <1>3 DEF ModeIsAdopted, Adopts
<1>5. read[t] = Unset
    BY NothingRead DEF AppliedInv
<1>6. ReadOfMode'
    BY <1>3, <1>5, ReadStays DEF AppliedInv
<1>7. SettingValues'
    BY DEF AppliedInv, SettingValues
<1>8. SettingsFollow'
    BY <1>3, PendingFollows DEF SettingsFollow
<1> QED BY <1>3, <1>4, <1>6, <1>7, <1>8

\* A setProfile().
LEMMA SetProfileApplies ==
    ASSUME AppliedInv, NEW t \in Setting!Threads, NEW p \in Profiles, Setting!SetProfile(t, p)
    PROVE  SettingValues' /\ ReadOfMode' /\ QueuesAreRight' /\ ModeIsAdopted' /\ SettingsFollow'
<1>1. /\ jobs[t] = <<>> /\ owner' = t /\ jobs' = [jobs EXCEPT ![t] = Setting!ProfileJobs]
      /\ config' = [k \in DOMAIN config \cup {p} |->
                       IF k \in DOMAIN config THEN config[k] ELSE Setting!Blank]
      /\ UNCHANGED <<have, made, device, read>>
    BY DEF Setting!SetProfile, Setting!Idle
<1>2. config' = [k \in DOMAIN config' |-> config'[k]]
    BY <1>1
<1>3. \A k \in DOMAIN config' : IsProfile(config'[k])
    BY <1>1, BlankIs DEF AppliedInv, SettingValues
<1> QED BY <1>1, <1>2, <1>3, ProfileApplies

\* A clearProfile().
LEMMA ClearProfileApplies ==
    ASSUME AppliedInv, NEW p \in Profiles, Setting!ClearProfile(p)
    PROVE  SettingValues' /\ ReadOfMode' /\ QueuesAreRight' /\ ModeIsAdopted' /\ SettingsFollow'
<1>1. /\ "user" \in Setting!Threads /\ jobs["user"] = <<>> /\ p \in DOMAIN config
      /\ config' = [config EXCEPT ![p] = Setting!Blank]
      /\ UNCHANGED <<have, profile, ref, made, device, read, due, spoiled>>
    BY DEF Setting!ClearProfile, Setting!Idle, Setting!Threads
<1>2. /\ DOMAIN config' = DOMAIN config /\ config' = [k \in DOMAIN config' |-> config'[k]]
      /\ config'[p] = Setting!Blank /\ \A k \in DOMAIN config \ {p} : config'[k] = config[k]
    BY <1>1
<1>3. \A k \in DOMAIN config' : IsProfile(config'[k])
    BY <1>2, BlankIs DEF AppliedInv, SettingValues
<1>4. CASE p = profile
    <2>1. owner' = "user" /\ jobs' = [jobs EXCEPT !["user"] = Setting!ProfileJobs]
        BY <1>4 DEF Setting!ClearProfile
    <2> QED BY <1>1, <1>2, <1>3, <2>1, ProfileApplies
<1>5. CASE p # profile
    <2>1. jobs' = jobs /\ owner' = owner
        BY <1>5 DEF Setting!ClearProfile
    <2>2. /\ QueuesAreRight' /\ ReadOfMode' /\ \A f : Pends(f) => Pends(f)'
        BY <1>1, <2>1, NoJobMoves DEF AppliedInv
    <2>3. SettingValues'
        BY <1>1, <1>2, <1>3 DEF AppliedInv, SettingValues
    <2>4. ModeIsAdopted'
        <3>1. config'[profile] = config[profile]
            BY <1>2, <1>5 DEF AppliedInv, AliveInv, SettingTypes
        <3> QED BY <1>1, <2>1, <3>1 DEF AppliedInv, ModeIsAdopted, Adopts
    <2>5. SettingsFollow'
        <3> SUFFICES ASSUME NEW f \in have
                     PROVE  Follows(f)'
            BY <1>1 DEF SettingsFollow
        <3>1. f \in Setting!Features /\ Follows(f)
            BY HaveFeatures DEF AppliedInv, SettingsFollow
        <3>2. CASE ref[f] = p
            <4>1. \A e \in Setting!Fields[f] : Fits(f, e, config'[ref'[f]][f], device'[f][e])
                BY <1>1, <1>2, <3>1, <3>2, BlankFits
            <4> QED BY <4>1 DEF Follows
        <3>3. CASE ref[f] # p
            <4>1. ref[f] \in DOMAIN config' =>
                    ref[f] \in DOMAIN config /\ config'[ref[f]][f] = config[ref[f]][f]
                BY <1>2, <3>3
            <4> QED BY <1>1, <2>2, <3>1, <4>1, FollowsStill
        <3> QED BY <3>2, <3>3
    <2> QED BY <2>2, <2>3, <2>4, <2>5
<1> QED BY <1>4, <1>5

\* A removeProfile().
LEMMA RemoveProfileApplies ==
    ASSUME AppliedInv, NEW p \in Profiles, Setting!RemoveProfile(p)
    PROVE  SettingValues' /\ ReadOfMode' /\ QueuesAreRight' /\ ModeIsAdopted' /\ SettingsFollow'
<1>1. /\ p # profile /\ config' = [k \in DOMAIN config \ {p} |-> config[k]]
      /\ UNCHANGED <<have, profile, ref, made, device, jobs, read, owner, due, spoiled>>
    BY DEF Setting!RemoveProfile, Setting!Removable, Setting!Restrict
<1>2. /\ DOMAIN config' = DOMAIN config \ {p} /\ config' = [k \in DOMAIN config' |-> config'[k]]
      /\ \A k \in DOMAIN config \ {p} : config'[k] = config[k]
    BY <1>1
<1>3. /\ QueuesAreRight' /\ ReadOfMode' /\ \A f : Pends(f) => Pends(f)'
    BY <1>1, NoJobMoves DEF AppliedInv
<1>4. SettingValues'
    BY <1>1, <1>2 DEF AppliedInv, SettingValues
<1>5. ModeIsAdopted'
    <2>1. config'[profile] = config[profile]
        BY <1>1, <1>2 DEF AppliedInv, AliveInv, SettingTypes
    <2> QED BY <1>1, <2>1 DEF AppliedInv, ModeIsAdopted, Adopts
<1>6. SettingsFollow'
    <2> SUFFICES ASSUME NEW f \in have
                 PROVE  Follows(f)'
        BY <1>1 DEF SettingsFollow
    <2>1. Follows(f)
        BY DEF AppliedInv, SettingsFollow
    <2>2. ref[f] \in DOMAIN config' =>
            ref[f] \in DOMAIN config /\ config'[ref[f]][f] = config[ref[f]][f]
        BY <1>2
    <2> QED BY <1>1, <1>3, <2>1, <2>2, FollowsStill
<1> QED BY <1>3, <1>4, <1>5, <1>6

\* The device forgets everything and is configured after.
LEMMA ResetApplies ==
    ASSUME AppliedInv, NEW t \in Setting!Threads, Setting!Reset(t)
    PROVE  SettingValues' /\ ReadOfMode' /\ QueuesAreRight' /\ ModeIsAdopted' /\ SettingsFollow'
<1>1. /\ jobs[t] # <<>> /\ Head(jobs[t]) = <<"reset", "">> /\ device' = Setting!PowerOn
      /\ Setting!Finish(t)
      /\ UNCHANGED <<have, config, profile, ref, made, read>>
    BY DEF Setting!Reset, Setting!Job, Setting!Idle
<1>2. Head(jobs[t])[1] = "reset"
    <2>1. <<"reset", "">>[1] = "reset"
        OBVIOUS
    <2> QED BY <1>1, <2>1
<1>3. /\ QueuesAreRight' /\ \A f \in have : Pends(f)'
      /\ \A u \in Setting!Threads \ {t} : jobs'[u] = jobs[u]
      /\ owner # t => owner' = owner
    BY <1>1, <1>2, FinishMoves DEF AppliedInv
<1>4. \A i \in DOMAIN jobs[t] : jobs[t][i][1] # "adopt"
    BY <1>1, <1>2, NoAdoptsLeft DEF AppliedInv
<1>5. ModeIsAdopted'
    BY <1>1, <1>3, <1>4, ModeStays DEF AppliedInv
<1>6. read[t] = Unset
    BY <1>2, NothingRead DEF AppliedInv
<1>7. ReadOfMode'
    BY <1>1, <1>3, <1>6, ReadStays DEF AppliedInv
<1>8. SettingValues'
    BY <1>1, PowerOnIs DEF AppliedInv, SettingValues
<1>9. SettingsFollow'
    BY <1>1, <1>3, PendingFollows DEF SettingsFollow
<1> QED BY <1>3, <1>5, <1>7, <1>8, <1>9

\* A feature adopts the profile and is configured after.
LEMMA AdoptApplies ==
    ASSUME AppliedInv, NEW t \in Setting!Threads, NEW f \in Setting!Features, Setting!Adopt(t, f)
    PROVE  SettingValues' /\ ReadOfMode' /\ QueuesAreRight' /\ ModeIsAdopted' /\ SettingsFollow'
<1>1. /\ jobs[t] # <<>> /\ Head(jobs[t]) = <<"adopt", f>>
      /\ ref' = [ref EXCEPT ![f] = profile]
      /\ made' = IF f = "hiresscroll" THEN config[profile][f] ELSE made
      /\ Setting!Finish(t)
      /\ UNCHANGED <<have, config, profile, device, read>>
    BY DEF Setting!Adopt, Setting!Job, Setting!Idle
<1>2. Head(jobs[t])[1] = "adopt"
    BY <1>1
<1>3. /\ QueuesAreRight' /\ \A k \in have : Pends(k)'
      /\ jobs'[t] = Tail(jobs[t]) /\ \A u \in Setting!Threads \ {t} : jobs'[u] = jobs[u]
    BY <1>1, <1>2, FinishMoves DEF AppliedInv
<1>4. read[t] = Unset
    BY <1>2, NothingRead DEF AppliedInv
<1>5. ReadOfMode'
    BY <1>1, <1>3, <1>4, ReadStays DEF AppliedInv
<1>6. profile \in DOMAIN config /\ IsProfile(config[profile])
    BY DEF AppliedInv, AliveInv, SettingTypes, SettingValues
<1>7. made' = [e \in Setting!Fields["hiresscroll"] |-> made'[e]]
    <2> DEFINE c == config[profile]
    <2>1. c["hiresscroll"] = [e \in Setting!Fields["hiresscroll"] |-> c["hiresscroll"][e]]
        BY <1>6, FeatureNames DEF IsProfile
    <2>2. made = [e \in Setting!Fields["hiresscroll"] |-> made[e]]
        BY DEF AppliedInv, SettingValues
    <2>3. made' = c["hiresscroll"] \/ made' = made
        BY <1>1
    <2> HIDE DEF c
    <2> QED BY <2>1, <2>2, <2>3
<1>8. SettingValues'
    BY <1>1, <1>7 DEF AppliedInv, SettingValues
<1>9. SettingsFollow'
    BY <1>1, <1>3, PendingFollows DEF SettingsFollow
<1>10. ModeIsAdopted'
    <2> SUFFICES ASSUME "hiresscroll" \in have
                 PROVE  \/ owner' \in Setting!Threads /\ Adopts(owner, "hiresscroll")'
                        \/ ref'["hiresscroll"] = profile /\ made' = config[profile]["hiresscroll"]
        BY <1>1 DEF ModeIsAdopted
    <2>1. DOMAIN ref = Setting!Features
        BY DEF AppliedInv, AliveInv, SettingTypes
    <2>2. CASE f = "hiresscroll"
        BY <1>1, <2>1, <2>2
    <2>3. CASE f # "hiresscroll"
        <3>1. ref'["hiresscroll"] = ref["hiresscroll"] /\ made' = made
            BY <1>1, <2>3
        <3>2. CASE owner \in Setting!Threads /\ Adopts(owner, "hiresscroll")
            <4>1. owner = t
                <5>1. jobs[t][1] = <<"adopt", f>> /\ 1 \in DOMAIN jobs[t]
                    BY <1>1, QueueIs DEF AppliedInv
                <5> QED BY <5>1 DEF AppliedInv, AliveInv, AdoptsAreOwned
            <4>2. PICK i \in DOMAIN jobs[t] : jobs[t][i] = <<"adopt", "hiresscroll">>
                BY <3>2, <4>1 DEF Adopts
            <4>3. i # 1 /\ jobs[t] \in Seq(JobSet)
                BY <1>1, <2>3, <4>2, QueueIs DEF AppliedInv
            <4>4. /\ i - 1 \in DOMAIN jobs'[t] /\ jobs'[t][i - 1] = <<"adopt", "hiresscroll">>
                  /\ Len(jobs[t]) # 1
                <5>1. i - 1 \in DOMAIN Tail(jobs[t]) /\ Tail(jobs[t])[i - 1] = jobs[t][i]
                    BY <1>1, <4>2, <4>3, TailFacts
                <5>2. Len(jobs[t]) # 1
                    BY <4>2, <4>3
                <5> QED BY <1>3, <4>2, <5>1, <5>2
            <4>5. owner' = t
                BY <1>1, <4>1, <4>4 DEF Setting!Finish
            <4> QED BY <4>4, <4>5 DEF Adopts
        <3>3. CASE ref["hiresscroll"] = profile /\ made = config[profile]["hiresscroll"]
            BY <3>1, <3>3
        <3> QED BY <3>2, <3>3 DEF AppliedInv, ModeIsAdopted
    <2> QED BY <2>2, <2>3
<1> QED BY <1>3, <1>5, <1>8, <1>9, <1>10

\* What a failure leaves undone is spoiled.
LEMMA FailApplies ==
    ASSUME AppliedInv, NEW t \in Setting!Threads, Setting!Fail(t)
    PROVE  SettingValues' /\ ReadOfMode' /\ QueuesAreRight' /\ ModeIsAdopted' /\ SettingsFollow'
<1>1. /\ jobs[t] # <<>> /\ jobs' = [jobs EXCEPT ![t] = <<>>]
      /\ IF Head(jobs[t])[1] = "adopt"
         THEN /\ ref' = [ref EXCEPT !["hiresscroll"] = profile]
              /\ made' = config[profile].hiresscroll
         ELSE UNCHANGED <<ref, made>>
      /\ spoiled' = spoiled \cup {s \in Setting!Settings : \E i \in DOMAIN jobs[t] :
                       jobs[t][i][2] = s[1] /\ jobs[t][i][1] # "adopt"}
      /\ read' = [read EXCEPT ![t] = Unset]
      /\ owner' = IF owner = t THEN None ELSE owner
      /\ UNCHANGED <<have, config, profile, device, due>>
    BY DEF Setting!Fail, Setting!Idle
<1>2. /\ jobs'[t] = <<>> /\ \A u \in Setting!Threads \ {t} : jobs'[u] = jobs[u]
    BY <1>1 DEF AppliedInv, AliveInv, SettingTypes
<1>3. read'[t] = Unset
    BY <1>1 DEF AppliedInv, ReadOfMode
<1>4. ReadOfMode'
    BY <1>1, <1>2, <1>3, ReadStays DEF AppliedInv
<1>5. QueuesAreRight'
    <2>1. ConfiguresLast(<<>>, have')
        BY DEF ConfiguresLast
    <2>2. ASSUME NEW u \in Setting!Threads PROVE ConfiguresLast(jobs'[u], have')
        <3>1. CASE u = t
            BY <1>2, <2>1, <3>1
        <3>2. CASE u # t
            BY <1>1, <1>2, <3>2 DEF AppliedInv, QueuesAreRight
        <3> QED BY <3>1, <3>2
    <2> QED BY <2>2 DEF QueuesAreRight
<1>6. profile \in DOMAIN config /\ IsProfile(config[profile]) /\ DOMAIN ref = Setting!Features
    BY DEF AppliedInv, AliveInv, SettingTypes, SettingValues
<1>7. SettingValues'
    <2>1. made' = [e \in Setting!Fields["hiresscroll"] |-> made'[e]]
        BY <1>1, <1>6, FeatureNames DEF AppliedInv, SettingValues, IsProfile
    <2> QED BY <1>1, <2>1 DEF AppliedInv, SettingValues
<1>8. ModeIsAdopted'
    <2>1. CASE Head(jobs[t])[1] = "adopt"
        BY <1>1, <1>6, <2>1, FeatureNames DEF ModeIsAdopted
    <2>2. CASE Head(jobs[t])[1] # "adopt"
        <3>1. \A i \in DOMAIN jobs[t] : jobs[t][i][1] # "adopt"
            BY <1>1, <2>2, NoAdoptsLeft DEF AppliedInv
        <3> QED BY <1>1, <1>2, <2>2, <3>1, ModeStays DEF AppliedInv
    <2> QED BY <2>1, <2>2
<1>9. ASSUME NEW f \in have, Sends(jobs[t], f), NEW e \in Setting!Fields[f]
      PROVE  <<f, e>> \in spoiled'
    <2>1. PICK i \in DOMAIN jobs[t] : jobs[t][i] \in {<<"configure", f>>, <<"set", f>>}
        BY <1>9 DEF Sends
    <2>2. jobs[t][i][2] = f /\ jobs[t][i][1] # "adopt"
        BY <2>1
    <2>3. <<f, e>> \in Setting!Settings
        BY <1>9, HaveFeatures DEF AppliedInv, Setting!Settings
    <2>4. <<f, e>>[1] = f
        OBVIOUS
    <2> QED BY <1>1, <2>2, <2>3, <2>4
<1>10. ASSUME NEW f, ~Sends(jobs[t], f), Pends(f)
       PROVE  Pends(f)'
    <2>1. CASE due
        BY <1>1, <2>1 DEF Pends
    <2>2. ASSUME NEW u \in Setting!Threads, Sends(jobs[u], f)
          PROVE  Pends(f)'
        <3>1. u # t
            BY <1>10, <2>2
        <3>2. Sends(jobs'[u], f)
            BY <1>2, <2>2, <3>1
        <3> QED BY <3>2 DEF Pends
    <2> QED BY <1>10, <2>1, <2>2 DEF Pends
<1>11. SettingsFollow'
    <2> SUFFICES ASSUME NEW f \in have
                 PROVE  Follows(f)'
        BY <1>1 DEF SettingsFollow
    <2>1. CASE Sends(jobs[t], f)
        <3>1. \A e \in Setting!Fields[f] : <<f, e>> \in spoiled'
            BY <1>9, <2>1
        <3> QED BY <3>1 DEF Follows
    <2>2. CASE ~Sends(jobs[t], f)
        <3>1. Head(jobs[t])[1] = "adopt" => f # "hiresscroll"
            <4> SUFFICES ASSUME Head(jobs[t])[1] = "adopt"
                         PROVE  Sends(jobs[t], f)
                BY <2>2
            <4>1. /\ 1 \in DOMAIN jobs[t] /\ jobs[t][1][1] = "adopt"
                  /\ ConfiguresLast(jobs[t], have)
                BY <1>1, QueueIs DEF AppliedInv, QueuesAreRight
            <4>2. PICK j \in DOMAIN jobs[t] : jobs[t][j] = <<"configure", f>>
                BY <4>1 DEF ConfiguresLast
            <4> QED BY <4>2 DEF Sends
        <3>2. ref'[f] = ref[f]
            <4>1. f \in DOMAIN ref
                BY <1>6, HaveFeatures DEF AppliedInv
            <4> QED BY <1>1, <3>1, <4>1
        <3>3. Follows(f)
            BY DEF AppliedInv, SettingsFollow
        <3>4. Pends(f) => Pends(f)'
            BY <1>10, <2>2
        <3>5. \A e \in Setting!Fields[f] : <<f, e>> \in spoiled => <<f, e>> \in spoiled'
            BY <1>1
        <3> QED BY <1>1, <3>2, <3>3, <3>4, <3>5, FollowsStill
    <2> QED BY <2>1, <2>2
<1> QED BY <1>4, <1>5, <1>7, <1>8, <1>11

\* A job is a kind and a feature.
LEMMA JobsArePairs == \A h \in JobSet : \E a, b : h = <<a, b>>
<1> DEFINE A == {"adopt", "reset", "configure", "set", "toggle"}
           B == Setting!Features \cup {""}
<1>1. JobSet = A \X B
    BY DEF JobSet
<1> HIDE DEF A, B
<1>2. \A h \in A \X B : \E a \in A, b \in B : h = <<a, b>>
    OBVIOUS
<1> QED BY <1>1, <1>2

\* A thread reads the mode.
LEMMA GetModeApplies ==
    ASSUME AppliedInv, NEW t \in Setting!Threads, Setting!GetMode(t)
    PROVE  SettingValues' /\ ReadOfMode' /\ QueuesAreRight' /\ ModeIsAdopted' /\ SettingsFollow'
<1>1. /\ jobs[t] # <<>> /\ Head(jobs[t])[2] = "hiresscroll"
      /\ Head(jobs[t])[1] \in {"configure", "toggle"}
      /\ read' = [read EXCEPT ![t] = device.hiresscroll]
      /\ UNCHANGED <<have, config, profile, ref, made, device, jobs, owner, due, spoiled>>
    BY DEF Setting!GetMode, Setting!Idle
<1>2. /\ QueuesAreRight' /\ ModeIsAdopted' /\ \A f : Pends(f) => Pends(f)'
    BY <1>1, NoJobMoves DEF AppliedInv
<1>3. SettingValues'
    BY <1>1 DEF AppliedInv, SettingValues
<1>4. SettingsFollow'
    <2> SUFFICES ASSUME NEW f \in have
                 PROVE  Follows(f)'
        BY <1>1 DEF SettingsFollow
    <2>1. Follows(f)
        BY DEF AppliedInv, SettingsFollow
    <2> QED BY <1>1, <1>2, <2>1, FollowsStill
<1>5. ReadOfMode'
    <2>1. /\ DOMAIN read = Setting!Threads /\ read'[t] = device.hiresscroll
          /\ \A u \in Setting!Threads \ {t} : read'[u] = read[u]
          /\ read' = [u \in Setting!Threads |-> read'[u]]
        BY <1>1 DEF AppliedInv, ReadOfMode
    <2>2. DOMAIN read'[t] = Setting!Fields["hiresscroll"]
        BY <2>1, FeatureNames DEF AppliedInv, SettingValues
    <2>3. \/ Head(jobs[t])[1] = "toggle"
          \/ Head(jobs[t]) \in {<<"configure", "hiresscroll">>, <<"set", "hiresscroll">>}
        <3>1. Head(jobs[t]) \in JobSet
            BY <1>1, QueueIs DEF AppliedInv
        <3>2. ASSUME NEW h \in JobSet, h[2] = "hiresscroll", h[1] \in {"configure", "toggle"}
              PROVE  h[1] = "toggle" \/ h \in {<<"configure", "hiresscroll">>, <<"set", "hiresscroll">>}
            <4>1. PICK a, b : h = <<a, b>>
                BY <3>2, JobsArePairs
            <4>2. h[1] = a /\ h[2] = b
                BY <4>1
            <4>3. a = "toggle" \/ h = <<"configure", "hiresscroll">>
                BY <3>2, <4>1, <4>2
            <4> QED BY <4>2, <4>3
        <3> QED BY <1>1, <3>1, <3>2
    <2>4. ASSUME NEW u \in Setting!Threads, read'[u] # Unset
          PROVE  /\ jobs[u] # <<>>
                 /\ \/ Head(jobs[u])[1] = "toggle"
                    \/ Head(jobs[u]) \in {<<"configure", "hiresscroll">>, <<"set", "hiresscroll">>}
                 /\ Head(jobs[u])[2] = "hiresscroll" =>
                        DOMAIN read'[u] = Setting!Fields["hiresscroll"]
        <3>1. CASE u = t
            BY <1>1, <2>2, <2>3, <3>1
        <3>2. CASE u # t
            <4>1. read[u] # Unset /\ read'[u] = read[u]
                BY <2>1, <2>4, <3>2
            <4> QED BY <4>1 DEF AppliedInv, ReadOfMode
        <3> QED BY <3>1, <3>2
    <2> QED BY <1>1, <2>1, <2>4 DEF ReadOfMode
<1> QED BY <1>2, <1>3, <1>4, <1>5

\* A thread writes the mode it has read with the bits that are set.
LEMMA SetModeApplies ==
    ASSUME AppliedInv, NEW t \in Setting!Threads, Setting!SetMode(t)
    PROVE  SettingValues' /\ ReadOfMode' /\ QueuesAreRight' /\ ModeIsAdopted' /\ SettingsFollow'
<1>1. /\ read[t] # Unset /\ jobs[t] # <<>>
      /\ Head(jobs[t]) \in {<<"configure", "hiresscroll">>, <<"set", "hiresscroll">>}
      /\ device' = [device EXCEPT !["hiresscroll"] = Setting!Overlay(made, read[t])]
      /\ spoiled' = {s \in spoiled : s[1] # "hiresscroll"}
      /\ read' = [read EXCEPT ![t] = Unset] /\ Setting!Finish(t)
      /\ UNCHANGED <<have, config, profile, ref, made, due>>
    BY DEF Setting!SetMode, Setting!Idle
<1>2. Head(jobs[t])[1] # "adopt" /\ Head(jobs[t])[2] = "hiresscroll"
    BY <1>1
<1>3. DOMAIN read[t] = Setting!Fields["hiresscroll"]
    BY <1>1, <1>2 DEF AppliedInv, ReadOfMode
<1>4. /\ device' = [k \in Setting!Features |-> device'[k]]
      /\ \A k \in Setting!Features : DOMAIN device'[k] = Setting!Fields[k]
      /\ \A k \in Setting!Features \ {"hiresscroll"} : device'[k] = device[k]
      /\ \A e \in Setting!Fields["hiresscroll"] :
            device'["hiresscroll"][e] = IF made[e] = Unset THEN read[t][e] ELSE made[e]
    <2>1. SettingValues
        BY DEF AppliedInv
    <2>2. PICK o : o = Setting!Overlay(made, read[t])
        OBVIOUS
    <2>3. device' = [device EXCEPT !["hiresscroll"] = o]
        BY <1>1, <2>2
    <2>4. /\ DOMAIN o = Setting!Fields["hiresscroll"]
          /\ \A e \in Setting!Fields["hiresscroll"] :
                o[e] = IF made[e] = Unset THEN read[t][e] ELSE made[e]
        BY <1>3, <2>2, OverlayIs
    <2>5. /\ device' = [k \in Setting!Features |-> device'[k]]
          /\ \A k \in Setting!Features : DOMAIN device'[k] = Setting!Fields[k]
          /\ \A k \in Setting!Features \ {"hiresscroll"} : device'[k] = device[k]
          /\ device'["hiresscroll"] = o
        BY <2>1, <2>3, <2>4, FeatureNames, Written
    <2> QED BY <2>4, <2>5
<1>5. /\ QueuesAreRight'
      /\ \A u \in Setting!Threads \ {t} : jobs'[u] = jobs[u]
      /\ owner # t => owner' = owner
      /\ \A f : Pends(f) => Pends(f)' \/ Head(jobs[t]) \in {<<"configure", f>>, <<"set", f>>}
    BY <1>1, FinishMoves DEF AppliedInv
<1>6. \A i \in DOMAIN jobs[t] : jobs[t][i][1] # "adopt"
    BY <1>1, <1>2, NoAdoptsLeft DEF AppliedInv
<1>7. ModeIsAdopted'
    BY <1>1, <1>5, <1>6, ModeStays DEF AppliedInv
<1>8. read'[t] = Unset
    BY <1>1 DEF AppliedInv, ReadOfMode
<1>9. ReadOfMode'
    BY <1>1, <1>5, <1>8, ReadStays DEF AppliedInv
<1>10. SettingValues'
    BY <1>1, <1>4 DEF AppliedInv, SettingValues
<1>11. SettingsFollow'
    <2> SUFFICES ASSUME NEW f \in have
                 PROVE  Follows(f)'
        BY <1>1 DEF SettingsFollow
    <2>1. CASE f # "hiresscroll"
        <3>1. f \in Setting!Features /\ Follows(f)
            BY HaveFeatures DEF AppliedInv, SettingsFollow
        <3>2. device'[f] = device[f]
            BY <1>4, <2>1, <3>1
        <3>3. \A e \in Setting!Fields[f] : <<f, e>> \in spoiled => <<f, e>> \in spoiled'
            <4>1. \A e : <<f, e>>[1] = f
                OBVIOUS
            <4> QED BY <1>1, <2>1, <4>1
        <3>4. Pends(f) => Pends(f)'
            <4>1. <<"configure", f>>[2] = f /\ <<"set", f>>[2] = f
                OBVIOUS
            <4> QED BY <1>2, <1>5, <2>1, <4>1
        <3> QED BY <1>1, <3>1, <3>2, <3>3, <3>4, FollowsStill
    <2>2. CASE f = "hiresscroll"
        <3>1. CASE owner \in Setting!Threads /\ Adopts(owner, "hiresscroll")
            <4>1. PICK i \in DOMAIN jobs[owner] : jobs[owner][i] = <<"adopt", "hiresscroll">>
                BY <3>1 DEF Adopts
            <4>2. jobs[owner][i][1] = "adopt"
                BY <4>1
            <4>3. owner # t /\ jobs'[owner] = jobs[owner]
                BY <1>5, <1>6, <3>1, <4>1, <4>2
            <4>4. PICK j \in DOMAIN jobs[owner] : jobs[owner][j] = <<"configure", f>>
                BY <3>1, <4>1, <4>2 DEF AppliedInv, QueuesAreRight, ConfiguresLast
            <4>5. Sends(jobs'[owner], f)
                BY <4>3, <4>4 DEF Sends
            <4>6. Pends(f)'
                BY <3>1, <4>5 DEF Pends
            <4> QED BY <4>6, PendingFollows
        <3>2. CASE ref["hiresscroll"] = profile /\ made = config[profile]["hiresscroll"]
            <4>1. ASSUME NEW e \in Setting!Fields[f]
                  PROVE  Fits(f, e, config'[ref'[f]][f], device'[f][e])
                <5>1. config'[ref'[f]][f] = made
                    BY <1>1, <2>2, <3>2
                <5>2. made[e] \in {Unset, device'[f][e]}
                    BY <1>4, <2>2, <4>1
                <5> QED BY <2>2, <5>1, <5>2 DEF Fits
            <4> QED BY <4>1 DEF Follows
        <3> QED BY <2>2, <3>1, <3>2 DEF AppliedInv, ModeIsAdopted
    <2> QED BY <2>1, <2>2
<1> QED BY <1>5, <1>7, <1>9, <1>10, <1>11

\* A feature other than the mode of the wheel is configured.
LEMMA ConfigureApplies ==
    ASSUME AppliedInv, NEW t \in Setting!Threads, NEW f \in Setting!Features, Setting!Configure(t, f)
    PROVE  SettingValues' /\ ReadOfMode' /\ QueuesAreRight' /\ ModeIsAdopted' /\ SettingsFollow'
<1> DEFINE s == Setting!Sent(f, config[ref[f]][f])
<1>1. /\ jobs[t] # <<>> /\ Head(jobs[t]) = <<"configure", f>> /\ f # "hiresscroll"
      /\ ref[f] \in DOMAIN config
      /\ device' = [device EXCEPT ![f] = Setting!Overlay(s, device[f])]
      /\ spoiled' = {r \in spoiled : r[1] # f}
      /\ Setting!Finish(t)
      /\ UNCHANGED <<have, config, profile, ref, made, read, due>>
    BY DEF Setting!Configure, Setting!Job, Setting!Idle, Setting!Write
<1>2. Head(jobs[t])[1] = "configure" /\ Head(jobs[t])[2] = f
    <2>1. <<"configure", f>>[1] = "configure" /\ <<"configure", f>>[2] = f
        OBVIOUS
    <2> QED BY <1>1, <2>1
<1>3. IsProfile(config[ref[f]]) /\ DOMAIN device[f] = Setting!Fields[f]
    BY <1>1 DEF AppliedInv, SettingValues
<1>4. \A h, v : \A e \in Setting!Fields[f] :
         v = (IF s[e] = Unset THEN h ELSE s[e]) => Fits(f, e, config[ref[f]][f], v)
    BY <1>1, <1>3, SentFits
<1> HIDE DEF s
<1>5. /\ device' = [k \in Setting!Features |-> device'[k]]
      /\ \A k \in Setting!Features : DOMAIN device'[k] = Setting!Fields[k]
      /\ \A k \in Setting!Features \ {f} : device'[k] = device[k]
      /\ \A e \in Setting!Fields[f] :
            device'[f][e] = IF s[e] = Unset THEN device[f][e] ELSE s[e]
    <2>1. SettingValues
        BY DEF AppliedInv
    <2>2. PICK o : o = Setting!Overlay(s, device[f])
        OBVIOUS
    <2>3. device' = [device EXCEPT ![f] = o]
        BY <1>1, <2>2
    <2>4. /\ DOMAIN o = Setting!Fields[f]
          /\ \A e \in Setting!Fields[f] :
                o[e] = IF s[e] = Unset THEN device[f][e] ELSE s[e]
        BY <1>3, <2>2, OverlayIs
    <2>5. /\ device' = [k \in Setting!Features |-> device'[k]]
          /\ \A k \in Setting!Features : DOMAIN device'[k] = Setting!Fields[k]
          /\ \A k \in Setting!Features \ {f} : device'[k] = device[k]
          /\ device'[f] = o
        BY <2>1, <2>3, <2>4, Written
    <2> QED BY <2>4, <2>5
<1>6. /\ QueuesAreRight'
      /\ \A u \in Setting!Threads \ {t} : jobs'[u] = jobs[u]
      /\ owner # t => owner' = owner
      /\ \A k : Pends(k) => Pends(k)' \/ Head(jobs[t]) \in {<<"configure", k>>, <<"set", k>>}
    BY <1>1, FinishMoves DEF AppliedInv
<1>7. \A i \in DOMAIN jobs[t] : jobs[t][i][1] # "adopt"
    BY <1>1, <1>2, NoAdoptsLeft DEF AppliedInv
<1>8. ModeIsAdopted'
    BY <1>1, <1>6, <1>7, ModeStays DEF AppliedInv
<1>9. read[t] = Unset
    BY <1>1, <1>2, NothingRead DEF AppliedInv
<1>10. ReadOfMode'
    BY <1>1, <1>6, <1>9, ReadStays DEF AppliedInv
<1>11. SettingValues'
    BY <1>1, <1>5 DEF AppliedInv, SettingValues
<1>12. SettingsFollow'
    <2> SUFFICES ASSUME NEW k \in have
                 PROVE  Follows(k)'
        BY <1>1 DEF SettingsFollow
    <2>1. CASE k # f
        <3>1. k \in Setting!Features /\ Follows(k)
            BY HaveFeatures DEF AppliedInv, SettingsFollow
        <3>2. device'[k] = device[k]
            BY <1>5, <2>1, <3>1
        <3>3. \A e \in Setting!Fields[k] : <<k, e>> \in spoiled => <<k, e>> \in spoiled'
            <4>1. \A e : <<k, e>>[1] = k
                OBVIOUS
            <4> QED BY <1>1, <2>1, <4>1
        <3>4. Pends(k) => Pends(k)'
            <4>1. <<"configure", k>>[2] = k /\ <<"set", k>>[2] = k
                OBVIOUS
            <4> QED BY <1>2, <1>6, <2>1, <4>1
        <3> QED BY <1>1, <3>1, <3>2, <3>3, <3>4, FollowsStill
    <2>2. CASE k = f
        <3>1. ASSUME NEW e \in Setting!Fields[f]
              PROVE  Fits(f, e, config'[ref'[f]][f], device'[f][e])
            <4>1. Fits(f, e, config[ref[f]][f], device'[f][e])
                BY <1>4, <1>5
            <4> QED BY <1>1, <4>1
        <3> QED BY <2>2, <3>1 DEF Follows
    <2> QED BY <2>1, <2>2
<1> QED BY <1>6, <1>8, <1>10, <1>11, <1>12

\* What a setter does to the configuration, and what it sends.
LEMMA SetterIs ==
    ASSUME NEW s \in Setting!Setters
    PROVE  /\ s[1] \in Setting!Features \ {"hiresscroll"} /\ s[2] \in Setting!Fields[s[1]]
           /\ s[1] = "dpi" => /\ s[3] \in Wants
                              /\ s[4] = IF s[3] = 0 THEN Unset ELSE Setting!ClosestDPI(s[3])
           /\ s[1] = "smartshift" => \/ s[2] = "on" /\ s[4] = s[3]
                                     \/ s[2] = "threshold" /\ s[3] \in {Unset, s[4]} /\ s[4] # Unset
<1>1. CASE s \in {<<"thumbwheel", e, b, b>> : e \in Setting!Fields.thumbwheel, b \in BOOLEAN}
    BY <1>1, FeatureNames
<1>2. CASE s \in {<<"smartshift", "on", b, b>> : b \in BOOLEAN}
    BY <1>2, FeatureNames, TheFields
<1>3. CASE s \in {<<"smartshift", "on", Unset, Unset>>, <<"smartshift", "threshold", 1, 1>>,
                  <<"smartshift", "threshold", Unset, Setting!PowerOn.smartshift.threshold>>}
    <2>1. Setting!PowerOn.smartshift.threshold = 9
        BY DEF Setting!PowerOn
    <2> QED BY <1>3, <2>1, FeatureNames, TheFields, DPIsAre
<1>4. CASE s \in {<<"dpi", "dpi", d, IF d = 0 THEN Unset ELSE Setting!ClosestDPI(d)>> : d \in Wants}
    BY <1>4, FeatureNames, TheFields
<1> QED BY <1>1, <1>2, <1>3, <1>4 DEF Setting!Setters

\* One feature of one profile is configured otherwise.
LEMMA ConfigWritten ==
    ASSUME SettingValues, NEW p \in DOMAIN config, NEW f \in Setting!Features,
           NEW g, IsSetting(f, g), NEW c, Replaces(config[p], f, g, c),
           Puts(config, p, c, config')
    PROVE  Rewritten(config, config', p, f, g)
<1>1. PICK was : was = config[p]
    OBVIOUS
<1>2. config' = [config EXCEPT ![p] = c]
    BY DEF Puts
<1>3. IsProfile(was) /\ Replaces(was, f, g, c)
    BY <1>1 DEF SettingValues
<1>4. IsProfile(c) /\ c[f] = g /\ \A k \in Setting!Features \ {f} : c[k] = config[p][k]
    <2>1. IsProfile(c) /\ c[f] = g /\ \A k \in Setting!Features \ {f} : c[k] = was[k]
        BY <1>3, ProfileExcept
    <2> QED BY <1>1, <2>1
<1>5. /\ DOMAIN config' = DOMAIN config
      /\ config' = [q \in DOMAIN config' |-> config'[q]]
      /\ config'[p] = c /\ \A q \in DOMAIN config \ {p} : config'[q] = config[q]
    BY <1>2 DEF SettingValues
<1>6. \A q \in DOMAIN config' : IsProfile(config'[q])
    BY <1>4, <1>5 DEF SettingValues
<1>7. \A q \in DOMAIN config, k \in Setting!Features : k # f => config'[q][k] = config[q][k]
    BY <1>4, <1>5
<1>8. config'[p][f] = g
    BY <1>4, <1>5
<1> QED BY <1>5, <1>6, <1>7, <1>8 DEF Rewritten

\* A bit of the mode is set over IPC: it is to be written next.
LEMMA SetHiresApplies ==
    ASSUME AppliedInv, NEW e \in Setting!Fields["hiresscroll"], NEW b \in BOOLEAN,
           Setting!SetHires(e, b)
    PROVE  SettingValues' /\ ReadOfMode' /\ QueuesAreRight' /\ ModeIsAdopted' /\ SettingsFollow'
<1> DEFINE p == ref["hiresscroll"]
           q == <<<<"set", "hiresscroll">>>>
<1>1. /\ "user" \in Setting!Threads /\ jobs["user"] = <<>> /\ p \in DOMAIN config
      /\ config' = [config EXCEPT ![p].hiresscroll[e] = b]
      /\ made' = [made EXCEPT ![e] = b]
      /\ jobs' = [jobs EXCEPT !["user"] = q]
      /\ read' = [read EXCEPT !["user"] = device.hiresscroll]
      /\ UNCHANGED <<have, profile, ref, device, owner, due, spoiled>>
    BY DEF Setting!SetHires, Setting!Idle, Setting!Threads
<1>2. PICK g : g = [config[p]["hiresscroll"] EXCEPT ![e] = b]
    OBVIOUS
<1>0. PICK now : now = [config[p] EXCEPT !["hiresscroll"] = g]
    OBVIOUS
<1>3. config' = [config EXCEPT ![p] = now]
    BY <1>0, <1>1, <1>2
<1>4. IsSetting("hiresscroll", g)
    <2>1. PICK c : c = config[p]
        OBVIOUS
    <2>2. c["hiresscroll"] = [k \in Setting!Fields["hiresscroll"] |-> c["hiresscroll"][k]]
        BY <1>1, <2>1, FeatureNames DEF AppliedInv, SettingValues, IsProfile
    <2>3. g = [k \in Setting!Fields["hiresscroll"] |-> g[k]]
        BY <1>2, <2>1, <2>2
    <2> QED BY <2>3 DEF IsSetting
<1>5. SettingValues
    BY DEF AppliedInv
<1>6. /\ DOMAIN config' = DOMAIN config
      /\ config' = [k \in DOMAIN config' |-> config'[k]]
      /\ \A k \in DOMAIN config' : IsProfile(config'[k])
      /\ config'[p]["hiresscroll"] = g
      /\ \A r \in DOMAIN config, k \in Setting!Features :
            k # "hiresscroll" => config'[r][k] = config[r][k]
    <2>1. PICK f : f = "hiresscroll"
        OBVIOUS
    <2>2. PICK at : at = p
        OBVIOUS
    <2>3. /\ Replaces(config[at], f, g, now) /\ IsSetting(f, g)
          /\ f \in Setting!Features /\ at \in DOMAIN config
          /\ Puts(config, at, now, config')
        BY <1>0, <1>1, <1>3, <1>4, <2>1, <2>2, FeatureNames DEF Replaces, Puts
    <2>4. Rewritten(config, config', at, f, g)
        BY <1>5, <2>3, ConfigWritten
    <2> QED BY <2>1, <2>2, <2>4 DEF Rewritten
<1>7. /\ q \in Seq(JobSet) /\ ConfiguresLast(q, have) /\ Sends(q, "hiresscroll")
    <2>1. <<"set", "hiresscroll">> \in JobSet /\ <<"set", "hiresscroll">>[1] = "set"
        BY TheFeatures DEF JobSet
    <2>2. q \in Seq(JobSet) /\ DOMAIN q = {1} /\ q[1] = <<"set", "hiresscroll">>
        BY <2>1, OneIs
    <2> HIDE DEF q
    <2> QED BY <2>1, <2>2 DEF ConfiguresLast, Sends
<1> HIDE DEF q
<1>8. /\ QueuesAreRight' /\ Pends("hiresscroll")' /\ \A k : Pends(k) => Pends(k)'
      /\ jobs'["user"] = q /\ \A u \in Setting!Threads \ {"user"} : jobs'[u] = jobs[u]
    BY <1>1, <1>7, NewJobs DEF AppliedInv
<1>9. SettingValues'
    <2>1. made' = [k \in Setting!Fields["hiresscroll"] |-> made'[k]]
        BY <1>1 DEF AppliedInv, SettingValues
    <2> QED BY <1>1, <1>6, <2>1 DEF AppliedInv, SettingValues
<1>10. ReadOfMode'
    <2>1. /\ DOMAIN read = Setting!Threads /\ read'["user"] = device.hiresscroll
          /\ \A u \in Setting!Threads \ {"user"} : read'[u] = read[u]
          /\ read' = [u \in Setting!Threads |-> read'[u]]
        BY <1>1 DEF AppliedInv, ReadOfMode
    <2>2. DOMAIN read'["user"] = Setting!Fields["hiresscroll"]
        BY <2>1, FeatureNames DEF AppliedInv, SettingValues
    <2>3. jobs'["user"] # <<>> /\ Head(jobs'["user"]) = <<"set", "hiresscroll">>
        BY <1>8 DEF q
    <2>4. ASSUME NEW u \in Setting!Threads, read'[u] # Unset
          PROVE  /\ jobs'[u] # <<>>
                 /\ \/ Head(jobs'[u])[1] = "toggle"
                    \/ Head(jobs'[u]) \in {<<"configure", "hiresscroll">>, <<"set", "hiresscroll">>}
                 /\ Head(jobs'[u])[2] = "hiresscroll" =>
                        DOMAIN read'[u] = Setting!Fields["hiresscroll"]
        <3>1. CASE u = "user"
            BY <2>2, <2>3, <3>1
        <3>2. CASE u # "user"
            <4>1. read[u] # Unset /\ read'[u] = read[u] /\ jobs'[u] = jobs[u]
                BY <1>8, <2>1, <2>4, <3>2
            <4> QED BY <4>1 DEF AppliedInv, ReadOfMode
        <3> QED BY <3>1, <3>2
    <2> QED BY <2>1, <2>4 DEF ReadOfMode
<1>11. ModeIsAdopted'
    <2> SUFFICES ASSUME "hiresscroll" \in have
                 PROVE  \/ owner' \in Setting!Threads /\ Adopts(owner, "hiresscroll")'
                        \/ p = profile /\ made' = config'[profile]["hiresscroll"]
        BY <1>1 DEF ModeIsAdopted
    <2>1. CASE owner \in Setting!Threads /\ Adopts(owner, "hiresscroll")
        <3>1. owner # "user"
            BY <1>1, <2>1 DEF Adopts
        <3> QED BY <1>1, <1>8, <2>1, <3>1 DEF Adopts
    <2>2. CASE p = profile /\ made = config[profile]["hiresscroll"]
        BY <1>1, <1>2, <1>6, <2>2
    <2> QED BY <2>1, <2>2 DEF AppliedInv, ModeIsAdopted
<1>12. SettingsFollow'
    <2> SUFFICES ASSUME NEW k \in have
                 PROVE  Follows(k)'
        BY <1>1 DEF SettingsFollow
    <2>1. CASE k = "hiresscroll"
        BY <1>8, <2>1, PendingFollows
    <2>2. CASE k # "hiresscroll"
        <3>1. k \in Setting!Features /\ Follows(k)
            BY HaveFeatures DEF AppliedInv, SettingsFollow
        <3>2. ref[k] \in DOMAIN config' =>
                 ref[k] \in DOMAIN config /\ config'[ref[k]][k] = config[ref[k]][k]
            BY <1>6, <2>2, <3>1
        <3> QED BY <1>1, <1>8, <3>1, <3>2, FollowsStill
    <2> QED BY <2>1, <2>2
<1> QED BY <1>8, <1>9, <1>10, <1>11, <1>12

\* Setter s makes profile d of c; for it w is sent; over h that leaves v in field e.
Makes(s, f, c, d) ==
    f = s[1] /\ IsProfile(c) /\ IsProfile(d) /\ d[f] = [c[f] EXCEPT ![s[2]] = s[3]]
SentFor(s, f, d, w) ==
    w = IF f = "thumbwheel" THEN Setting!SentThumb(d[f])
        ELSE [Setting!Blank[f] EXCEPT ![s[2]] = s[4]]
Leaves(w, e, h, v) == v = IF w[e] = Unset THEN h ELSE w[e]

\* What a setter writes to the device is what it has put in the configuration.
LEMMA SetterFits ==
    ASSUME NEW s \in Setting!Setters, NEW f, NEW c, NEW d, Makes(s, f, c, d),
           NEW w, SentFor(s, f, d, w),
           NEW e \in Setting!Fields[f], NEW h, NEW v, Leaves(w, e, h, v)
    PROVE  \/ Fits(f, e, d[f], v)
           \/ v = h /\ (Fits(f, e, c[f], h) => Fits(f, e, d[f], h))
<1> USE DEF Makes, SentFor, Leaves
<1>1. /\ f \in Setting!Features \ {"hiresscroll"} /\ s[2] \in Setting!Fields[f]
      /\ f = "dpi" => /\ s[3] \in Wants
                      /\ s[4] = IF s[3] = 0 THEN Unset ELSE Setting!ClosestDPI(s[3])
      /\ f = "smartshift" => \/ s[2] = "on" /\ s[4] = s[3]
                             \/ s[2] = "threshold" /\ s[3] \in {Unset, s[4]} /\ s[4] # Unset
    BY SetterIs
<1>2. CASE f = "thumbwheel"
    <2>1. w = Setting!Sent(f, d[f])
        BY <1>2 DEF Setting!Sent
    <2>2. v = IF Setting!Sent(f, d[f])[e] = Unset THEN h ELSE Setting!Sent(f, d[f])[e]
        BY <2>1
    <2> QED BY <1>1, <2>2, SentFits
<1>3. DOMAIN Setting!Blank[f] = Setting!Fields[f] /\ Setting!Blank[f][e] = Unset
    BY <1>1, BlankIs DEF IsProfile
<1>4. PICK g : g = d[f]
    OBVIOUS
<1>5. PICK b : b = c[f]
    OBVIOUS
<1>6. DOMAIN b = Setting!Fields[f]
    BY <1>1, <1>5 DEF IsProfile
<1>7. /\ g[s[2]] = s[3] /\ \A k \in Setting!Fields[f] \ {s[2]} : g[k] = b[k]
    BY <1>1, <1>4, <1>5, <1>6
<1>8. CASE f # "thumbwheel" /\ e = s[2]
    <2>1. w = [Setting!Blank[f] EXCEPT ![s[2]] = s[4]]
        BY <1>8
    <2>2. w[e] = s[4]
        BY <1>3, <1>8, <2>1
    <2>3. CASE f = "dpi"
        <3>1. e = "dpi" /\ g.dpi = s[3] /\ s[3] \in Nat
            BY <1>1, <1>7, <1>8, <2>3, TheFields, DPIsAre
        <3>2. CASE s[3] = 0
            BY <1>4, <2>3, <3>1, <3>2 DEF Fits
        <3>3. CASE s[3] # 0
            <4>1. Nearest(s[3], Setting!ClosestDPI(s[3])) /\ Setting!ClosestDPI(s[3]) \in Int
                BY <3>1, ClosestIsNearest
            <4>2. v = Setting!ClosestDPI(s[3])
                BY <1>1, <2>2, <2>3, <3>3, <4>1, DPIsAre
            <4>3. g.dpi \notin {Unset, 0}
                BY <3>1, <3>3, DPIsAre
            <4> QED BY <1>4, <2>3, <3>1, <4>1, <4>2, <4>3 DEF Fits
        <3> QED BY <3>2, <3>3
    <2>4. CASE f = "smartshift"
        <3>1. CASE s[2] = "on" /\ s[4] = s[3]
            <4>1. e = "on" /\ g.on \in {Unset, v}
                BY <1>7, <1>8, <2>2, <3>1
            <4> QED BY <1>4, <2>4, <4>1 DEF Fits
        <3>2. CASE s[2] = "threshold" /\ s[3] \in {Unset, s[4]} /\ s[4] # Unset
            <4>1. e = "threshold" /\ g.threshold \in {Unset, v}
                BY <1>7, <1>8, <2>2, <3>2
            <4> QED BY <1>4, <2>4, <4>1 DEF Fits
        <3> QED BY <1>1, <2>4, <3>1, <3>2
    <2> QED BY <1>1, <1>8, <2>3, <2>4, TheFeatures
<1>9. CASE f # "thumbwheel" /\ e # s[2]
    <2>1. w = [Setting!Blank[f] EXCEPT ![s[2]] = s[4]]
        BY <1>9
    <2>2. w[e] = Unset
        BY <1>3, <1>9, <2>1
    <2>3. v = h /\ g[e] = b[e]
        BY <1>7, <1>9, <2>2
    <2>4. f = "smartshift" /\ e \in {"on", "threshold"}
        BY <1>1, <1>9, TheFields, TheFeatures
    <2>5. Fits(f, e, b, h) => Fits(f, e, g, h)
        BY <2>3, <2>4 DEF Fits
    <2> QED BY <1>4, <1>5, <2>3, <2>5
<1> QED BY <1>2, <1>8, <1>9

\* A setting of a feature other than the mode is set over IPC.
LEMMA SetFieldApplies ==
    ASSUME AppliedInv, NEW s \in Setting!Setters, Setting!SetField(s)
    PROVE  SettingValues' /\ ReadOfMode' /\ QueuesAreRight' /\ ModeIsAdopted' /\ SettingsFollow'
<1>1. PICK f : f = s[1]
    OBVIOUS
<1>2. PICK g : g = [config[ref[f]][f] EXCEPT ![s[2]] = s[3]]
    OBVIOUS
<1>3. PICK w : w = IF f = "thumbwheel" THEN Setting!SentThumb(g)
                   ELSE [Setting!Blank[f] EXCEPT ![s[2]] = s[4]]
    OBVIOUS
<1>4. /\ f \in have /\ ref[f] \in DOMAIN config
      /\ config' = [config EXCEPT ![ref[f]][f] = g]
      /\ \/ device' = [device EXCEPT ![f] = Setting!Overlay(w, device[f])] /\ UNCHANGED spoiled
         \/ UNCHANGED device /\ spoiled' = spoiled \cup {<<f, e>> : e \in Setting!Fields[f]}
      /\ UNCHANGED <<have, profile, ref, made, jobs, read, owner, due>>
    BY <1>1, <1>2, <1>3 DEF Setting!SetField, Setting!Write
<1>5. /\ f \in Setting!Features \ {"hiresscroll"} /\ s[2] \in Setting!Fields[f]
      /\ f = "dpi" => s[3] \in Wants /\ s[2] = "dpi"
    BY <1>1, SetterIs, TheFields
<1>6. PICK c : c = config[ref[f]]
    OBVIOUS
<1>7. SettingValues /\ IsProfile(c)
    BY <1>4, <1>6 DEF AppliedInv, SettingValues
<1>8. IsSetting(f, g)
    <2>1. c[f] = [e \in Setting!Fields[f] |-> c[f][e]]
        BY <1>5, <1>7 DEF IsProfile
    <2>2. g = [c[f] EXCEPT ![s[2]] = s[3]]
        BY <1>2, <1>6
    <2>3. g = [e \in Setting!Fields[f] |-> g[e]] /\ g[s[2]] = s[3]
        BY <1>5, <2>1, <2>2
    <2> QED BY <1>5, <2>3, DPIsAre DEF IsSetting
<1>0. PICK now : now = [config[ref[f]] EXCEPT ![f] = g]
    OBVIOUS
<1>9. config' = [config EXCEPT ![ref[f]] = now]
    BY <1>0, <1>4
<1>10. /\ DOMAIN config' = DOMAIN config
       /\ config' = [k \in DOMAIN config' |-> config'[k]]
       /\ \A k \in DOMAIN config' : IsProfile(config'[k])
       /\ config'[ref[f]][f] = g
       /\ \A r \in DOMAIN config, k \in Setting!Features :
             k # f => config'[r][k] = config[r][k]
    <2>1. PICK p : p = ref[f]
        OBVIOUS
    <2>2. /\ Replaces(config[p], f, g, now) /\ p \in DOMAIN config
          /\ f \in Setting!Features /\ Puts(config, p, now, config')
        BY <1>0, <1>4, <1>5, <1>9, <2>1 DEF Replaces, Puts
    <2>3. Rewritten(config, config', p, f, g)
        BY <1>7, <1>8, <2>2, ConfigWritten
    <2> QED BY <2>1, <2>3 DEF Rewritten
<1>11. /\ QueuesAreRight' /\ ReadOfMode' /\ \A k : Pends(k) => Pends(k)'
    BY <1>4, NoJobMoves DEF AppliedInv
<1>12. ModeIsAdopted'
    <2>1. config'[profile]["hiresscroll"] = config[profile]["hiresscroll"]
        BY <1>5, <1>10, FeatureNames DEF AppliedInv, AliveInv, SettingTypes
    <2> QED BY <1>4, <2>1 DEF AppliedInv, ModeIsAdopted, Adopts
<1>13. /\ device' = [k \in Setting!Features |-> device'[k]]
       /\ \A k \in Setting!Features : DOMAIN device'[k] = Setting!Fields[k]
       /\ \A k \in Setting!Features \ {f} : device'[k] = device[k]
       /\ \/ \A e \in Setting!Fields[f] : <<f, e>> \in spoiled'
          \/ /\ UNCHANGED spoiled
             /\ \A e \in Setting!Fields[f] :
                   device'[f][e] = IF w[e] = Unset THEN device[f][e] ELSE w[e]
    <2>1. CASE UNCHANGED device /\ spoiled' = spoiled \cup {<<f, e>> : e \in Setting!Fields[f]}
        BY <1>7, <2>1 DEF SettingValues
    <2>2. CASE device' = [device EXCEPT ![f] = Setting!Overlay(w, device[f])] /\ UNCHANGED spoiled
        <3>1. PICK o : o = Setting!Overlay(w, device[f])
            OBVIOUS
        <3>2. device' = [device EXCEPT ![f] = o]
            BY <2>2, <3>1
        <3>3. DOMAIN device[f] = Setting!Fields[f]
            BY <1>5, <1>7 DEF SettingValues
        <3>4. /\ DOMAIN o = Setting!Fields[f]
              /\ \A e \in Setting!Fields[f] :
                    o[e] = IF w[e] = Unset THEN device[f][e] ELSE w[e]
            BY <3>1, <3>3, OverlayIs
        <3>5. /\ device' = [k \in Setting!Features |-> device'[k]]
              /\ \A k \in Setting!Features : DOMAIN device'[k] = Setting!Fields[k]
              /\ \A k \in Setting!Features \ {f} : device'[k] = device[k]
              /\ device'[f] = o
            BY <1>5, <1>7, <3>2, <3>4, Written
        <3> QED BY <2>2, <3>4, <3>5
    <2> QED BY <1>4, <2>1, <2>2
<1>14. SettingValues'
    BY <1>4, <1>7, <1>10, <1>13 DEF SettingValues
<1>15. ASSUME NEW e \in Setting!Fields[f], UNCHANGED spoiled,
              device'[f][e] = IF w[e] = Unset THEN device[f][e] ELSE w[e]
       PROVE  Pends(f)' \/ <<f, e>> \in spoiled' \/ Fits(f, e, config'[ref'[f]][f], device'[f][e])
    <2>1. PICK d : d = config'[ref[f]]
        OBVIOUS
    <2>2. IsProfile(d) /\ d[f] = g
        BY <1>4, <1>10, <2>1
    <2>3. \/ Fits(f, e, d[f], device'[f][e])
          \/ /\ device'[f][e] = device[f][e]
             /\ Fits(f, e, c[f], device[f][e]) => Fits(f, e, d[f], device[f][e])
        <3>1. d[f] = [c[f] EXCEPT ![s[2]] = s[3]]
            BY <1>2, <1>6, <2>2
        <3>2. w = IF f = "thumbwheel" THEN Setting!SentThumb(d[f])
                  ELSE [Setting!Blank[f] EXCEPT ![s[2]] = s[4]]
            BY <1>3, <2>2
        <3>3. PICK h : h = device[f][e]
            OBVIOUS
        <3>4. PICK v : v = device'[f][e]
            OBVIOUS
        <3>5. v = IF w[e] = Unset THEN h ELSE w[e]
            BY <1>15, <3>3, <3>4
        <3>6. \/ Fits(f, e, d[f], v)
              \/ v = h /\ (Fits(f, e, c[f], h) => Fits(f, e, d[f], h))
            <4>1. Makes(s, f, c, d) /\ SentFor(s, f, d, w) /\ Leaves(w, e, h, v)
                BY <1>1, <1>7, <2>2, <3>1, <3>2, <3>5 DEF Makes, SentFor, Leaves
            <4> QED BY <4>1, SetterFits
        <3> QED BY <3>3, <3>4, <3>6
    <2>4. Pends(f) \/ <<f, e>> \in spoiled \/ Fits(f, e, c[f], device[f][e])
        BY <1>4, <1>6 DEF AppliedInv, SettingsFollow, Follows
    <2> QED BY <1>4, <1>11, <1>15, <2>1, <2>3, <2>4
<1>16. SettingsFollow'
    <2> SUFFICES ASSUME NEW k \in have
                 PROVE  Follows(k)'
        BY <1>4 DEF SettingsFollow
    <2>1. CASE k = f
        <3>1. \A e \in Setting!Fields[f] :
                Pends(f)' \/ <<f, e>> \in spoiled' \/ Fits(f, e, config'[ref'[f]][f], device'[f][e])
            BY <1>13, <1>15
        <3> QED BY <2>1, <3>1 DEF Follows
    <2>2. CASE k # f
        <3>1. k \in Setting!Features /\ Follows(k)
            BY HaveFeatures DEF AppliedInv, SettingsFollow
        <3>2. ref[k] \in DOMAIN config' =>
                 ref[k] \in DOMAIN config /\ config'[ref[k]][k] = config[ref[k]][k]
            BY <1>10, <2>2, <3>1
        <3>3. device'[k] = device[k]
            BY <1>13, <2>2, <3>1
        <3>4. \A e \in Setting!Fields[k] : <<k, e>> \in spoiled => <<k, e>> \in spoiled'
            BY <1>4
        <3> QED BY <1>4, <1>11, <3>1, <3>2, <3>3, <3>4, FollowsStill
    <2> QED BY <2>1, <2>2
<1> QED BY <1>11, <1>12, <1>14, <1>16

\* A button is pressed that is to change a setting.
LEMMA PressApplies ==
    ASSUME AppliedInv, NEW f \in Setting!Features, Setting!Press(f)
    PROVE  SettingValues' /\ ReadOfMode' /\ QueuesAreRight' /\ ModeIsAdopted' /\ SettingsFollow'
<1> DEFINE q == <<<<"toggle", f>>>>
<1>1. /\ "press" \in Setting!Threads /\ jobs["press"] = <<>>
      /\ jobs' = [jobs EXCEPT !["press"] = q]
      /\ UNCHANGED <<have, config, profile, ref, made, device, read, owner, due, spoiled>>
    BY DEF Setting!Press, Setting!Threads, Setting!Idle
<1>2. q \in Seq(JobSet) /\ ConfiguresLast(q, have)
    <2>1. <<"toggle", f>> \in JobSet /\ <<"toggle", f>>[1] = "toggle"
        BY DEF JobSet
    <2>2. q \in Seq(JobSet) /\ DOMAIN q = {1} /\ q[1] = <<"toggle", f>>
        BY <2>1, OneIs
    <2> HIDE DEF q
    <2> QED BY <2>1, <2>2 DEF ConfiguresLast
<1> HIDE DEF q
<1>3. /\ QueuesAreRight' /\ \A k : Pends(k) => Pends(k)'
      /\ \A u \in Setting!Threads \ {"press"} : jobs'[u] = jobs[u]
      /\ \A i \in DOMAIN jobs["press"] : jobs["press"][i][1] # "adopt"
    BY <1>1, <1>2, NewJobs DEF AppliedInv
<1>4. ModeIsAdopted'
    BY <1>1, <1>3, ModeStays DEF AppliedInv
<1>5. read["press"] = Unset
    BY <1>1, NothingRead DEF AppliedInv
<1>6. ReadOfMode'
    BY <1>1, <1>3, <1>5, ReadStays DEF AppliedInv
<1>7. SettingValues'
    BY <1>1 DEF AppliedInv, SettingValues
<1>8. SettingsFollow'
    <2> SUFFICES ASSUME NEW k \in have
                 PROVE  Follows(k)'
        BY <1>1 DEF SettingsFollow
    <2>1. Follows(k)
        BY DEF AppliedInv, SettingsFollow
    <2> QED BY <1>1, <1>3, <2>1, FollowsStill
<1> QED BY <1>3, <1>4, <1>6, <1>7, <1>8

\* The task of the button reads the setting.
LEMMA GetStatusApplies ==
    ASSUME AppliedInv, NEW f \in Setting!Features, Setting!GetStatus(f)
    PROVE  SettingValues' /\ ReadOfMode' /\ QueuesAreRight' /\ ModeIsAdopted' /\ SettingsFollow'
<1>1. /\ "press" \in Setting!Threads /\ jobs["press"] # <<>>
      /\ Head(jobs["press"]) = <<"toggle", f>> /\ f # "hiresscroll"
      /\ read' = [read EXCEPT !["press"] = device[f]]
      /\ UNCHANGED <<have, config, profile, ref, made, device, jobs, owner, due, spoiled>>
    BY DEF Setting!GetStatus, Setting!Job, Setting!Idle, Setting!Threads
<1>2. /\ QueuesAreRight' /\ ModeIsAdopted' /\ \A k : Pends(k) => Pends(k)'
    BY <1>1, NoJobMoves DEF AppliedInv
<1>3. SettingValues'
    BY <1>1 DEF AppliedInv, SettingValues
<1>4. SettingsFollow'
    <2> SUFFICES ASSUME NEW k \in have
                 PROVE  Follows(k)'
        BY <1>1 DEF SettingsFollow
    <2>1. Follows(k)
        BY DEF AppliedInv, SettingsFollow
    <2> QED BY <1>1, <1>2, <2>1, FollowsStill
<1>5. ReadOfMode'
    <2>1. /\ DOMAIN read = Setting!Threads
          /\ \A u \in Setting!Threads \ {"press"} : read'[u] = read[u]
          /\ read' = [u \in Setting!Threads |-> read'[u]]
        BY <1>1 DEF AppliedInv, ReadOfMode
    <2>2. Head(jobs["press"])[1] = "toggle" /\ Head(jobs["press"])[2] # "hiresscroll"
        <3>1. <<"toggle", f>>[1] = "toggle" /\ <<"toggle", f>>[2] = f
            OBVIOUS
        <3> QED BY <1>1, <3>1
    <2>3. ASSUME NEW u \in Setting!Threads, read'[u] # Unset
          PROVE  /\ jobs[u] # <<>>
                 /\ \/ Head(jobs[u])[1] = "toggle"
                    \/ Head(jobs[u]) \in {<<"configure", "hiresscroll">>, <<"set", "hiresscroll">>}
                 /\ Head(jobs[u])[2] = "hiresscroll" =>
                        DOMAIN read'[u] = Setting!Fields["hiresscroll"]
        <3>1. CASE u = "press"
            BY <1>1, <2>2, <3>1
        <3>2. CASE u # "press"
            <4>1. read[u] # Unset /\ read'[u] = read[u]
                BY <2>1, <2>3, <3>2
            <4> QED BY <4>1 DEF AppliedInv, ReadOfMode
        <3> QED BY <3>1, <3>2
    <2> QED BY <1>1, <2>1, <2>3 DEF ReadOfMode
<1> QED BY <1>2, <1>3, <1>4, <1>5

\* The task writes it changed: what is different now is spoiled.
LEMMA SetStatusApplies ==
    ASSUME AppliedInv, NEW f \in Setting!Features, Setting!SetStatus(f)
    PROVE  SettingValues' /\ ReadOfMode' /\ QueuesAreRight' /\ ModeIsAdopted' /\ SettingsFollow'
<1> DEFINE t == "press"
<1>1. PICK w : w = Setting!Changed(f, read["press"])
    OBVIOUS
<1>2. /\ "press" \in Setting!Threads /\ jobs["press"] # <<>>
      /\ Head(jobs["press"]) = <<"toggle", f>>
      /\ device' = [device EXCEPT ![f] = Setting!Overlay(w, device[f])]
      /\ spoiled' = spoiled \cup
            {<<f, e>> : e \in {k \in Setting!Fields[f] : device'[f][k] # device[f][k]}}
      /\ read' = [read EXCEPT !["press"] = Unset] /\ Setting!Finish("press")
      /\ UNCHANGED <<have, config, profile, ref, made, due>>
    BY <1>1 DEF Setting!SetStatus, Setting!Job, Setting!Idle, Setting!Threads, Setting!Write
<1>3. Head(jobs["press"])[1] = "toggle"
    <2>1. <<"toggle", f>>[1] = "toggle"
        OBVIOUS
    <2> QED BY <1>2, <2>1
<1>4. /\ device' = [k \in Setting!Features |-> device'[k]]
      /\ \A k \in Setting!Features : DOMAIN device'[k] = Setting!Fields[k]
      /\ \A k \in Setting!Features \ {f} : device'[k] = device[k]
    <2>1. SettingValues
        BY DEF AppliedInv
    <2>2. PICK o : o = Setting!Overlay(w, device[f])
        OBVIOUS
    <2>3. device' = [device EXCEPT ![f] = o]
        BY <1>2, <2>2
    <2>4. DOMAIN o = Setting!Fields[f]
        <3>1. DOMAIN device[f] = Setting!Fields[f]
            BY <2>1 DEF SettingValues
        <3> QED BY <2>2, <3>1, OverlayIs
    <2> QED BY <2>1, <2>3, <2>4, Written
<1>5. /\ QueuesAreRight'
      /\ \A u \in Setting!Threads \ {"press"} : jobs'[u] = jobs[u]
      /\ owner # "press" => owner' = owner
      /\ \A k : Pends(k) => Pends(k)' \/ Head(jobs["press"]) \in {<<"configure", k>>, <<"set", k>>}
    BY <1>2, FinishMoves DEF AppliedInv
<1>6. \A k : Pends(k) => Pends(k)'
    <2>1. \A k : <<"configure", k>>[1] = "configure" /\ <<"set", k>>[1] = "set"
        OBVIOUS
    <2> QED BY <1>3, <1>5, <2>1
<1>7. \A i \in DOMAIN jobs["press"] : jobs["press"][i][1] # "adopt"
    BY <1>2, <1>3, NoAdoptsLeft DEF AppliedInv
<1>8. ModeIsAdopted'
    BY <1>2, <1>5, <1>7, ModeStays DEF AppliedInv
<1>9. read'["press"] = Unset
    BY <1>2 DEF AppliedInv, ReadOfMode
<1>10. ReadOfMode'
    BY <1>2, <1>5, <1>9, ReadStays DEF AppliedInv
<1>11. SettingValues'
    BY <1>2, <1>4 DEF AppliedInv, SettingValues
<1>12. SettingsFollow'
    <2> SUFFICES ASSUME NEW k \in have
                 PROVE  Follows(k)'
        BY <1>2 DEF SettingsFollow
    <2>1. k \in Setting!Features /\ Follows(k)
        BY HaveFeatures DEF AppliedInv, SettingsFollow
    <2>2. \A e \in Setting!Fields[k] : <<k, e>> \in spoiled => <<k, e>> \in spoiled'
        BY <1>2
    <2>3. CASE k # f
        <3>1. device'[k] = device[k]
            BY <1>4, <2>1, <2>3
        <3> QED BY <1>2, <1>6, <2>1, <2>2, <3>1, FollowsStill
    <2>4. CASE k = f
        <3> SUFFICES ASSUME ref[f] \in DOMAIN config, NEW e \in Setting!Fields[f]
                     PROVE  \/ Pends(f)' \/ <<f, e>> \in spoiled'
                            \/ Fits(f, e, config'[ref'[f]][f], device'[f][e])
            BY <1>2, <2>4 DEF Follows
        <3>1. CASE device'[f][e] # device[f][e]
            BY <1>2, <3>1
        <3>2. CASE device'[f][e] = device[f][e]
            <4>1. Pends(f) \/ <<f, e>> \in spoiled \/ Fits(f, e, config[ref[f]][f], device[f][e])
                BY <2>1, <2>4 DEF Follows
            <4>2. Fits(f, e, config[ref[f]][f], device[f][e]) =>
                     Fits(f, e, config'[ref'[f]][f], device'[f][e])
                BY <1>2, <3>2
            <4> QED BY <1>6, <2>2, <2>4, <4>1, <4>2
        <3> QED BY <3>1, <3>2
    <2> QED BY <2>3, <2>4
<1> QED BY <1>5, <1>8, <1>10, <1>11, <1>12

-----------------------------------------------------------------------------

\* What the configuration file says is a profile.
LEMMA ConfigIs ==
    ASSUME NEW d \in Setting!Configs, NEW c,
           c = [f \in Setting!Features |-> IF f \in have THEN d[f] ELSE Setting!Blank[f]]
    PROVE  IsProfile(c)
<1>1. /\ d.dpi \in [dpi : {Unset} \cup Wants]
      /\ d.hiresscroll \in {[hires |-> Unset, invert |-> TRUE], [hires |-> TRUE, invert |-> FALSE]}
      /\ d.smartshift \in {[on |-> TRUE, threshold |-> Unset], [on |-> Unset, threshold |-> 0]}
      /\ d.thumbwheel \in {[divert |-> TRUE, invert |-> Unset], Setting!Blank.thumbwheel}
    BY DEF Setting!Configs
<1>2. IsProfile(Setting!Blank)
    BY BlankIs
<1>3. \A f \in Setting!Features :
         Setting!Blank[f] = [e \in Setting!Fields[f] |-> Setting!Blank[f][e]]
    BY <1>2 DEF IsProfile
<1>4. d.dpi = [e \in Setting!Fields["dpi"] |-> d.dpi[e]] /\ d.dpi.dpi \in {Unset} \cup Nat
    BY <1>1, TheFields, DPIsAre
<1>5. d.hiresscroll = [e \in Setting!Fields["hiresscroll"] |-> d.hiresscroll[e]]
    BY <1>1, TheFields
<1>6. d.smartshift = [e \in Setting!Fields["smartshift"] |-> d.smartshift[e]]
    BY <1>1, TheFields
<1>7. d.thumbwheel = [e \in Setting!Fields["thumbwheel"] |-> d.thumbwheel[e]]
    <2>1. CASE d.thumbwheel = Setting!Blank.thumbwheel
        BY <1>3, <2>1, FeatureNames
    <2>2. CASE d.thumbwheel = [divert |-> TRUE, invert |-> Unset]
        BY <2>2, TheFields
    <2> QED BY <1>1, <2>1, <2>2
<1>8. \A f \in Setting!Features : d[f] = [e \in Setting!Fields[f] |-> d[f][e]]
    BY <1>4, <1>5, <1>6, <1>7, TheFeatures
<1>9. \A f \in Setting!Features : c[f] = d[f] \/ c[f] = Setting!Blank[f]
    OBVIOUS
<1>10. \A f \in Setting!Features : c[f] = [e \in Setting!Fields[f] |-> c[f][e]]
    <2> TAKE f \in Setting!Features
    <2>1. CASE c[f] = d[f]
        BY <1>8, <2>1
    <2>2. CASE c[f] = Setting!Blank[f]
        BY <1>3, <2>2
    <2> QED BY <1>9, <2>1, <2>2
<1>11. c.dpi.dpi \in {Unset} \cup Nat
    <2>1. CASE c.dpi = d.dpi
        BY <1>4, <2>1
    <2>2. CASE c.dpi = Setting!Blank.dpi
        BY <1>2, <2>2 DEF IsProfile
    <2> QED BY <1>9, <2>1, <2>2, FeatureNames
<1>12. c = [f \in Setting!Features |-> c[f]]
    OBVIOUS
<1> QED BY <1>10, <1>11, <1>12 DEF IsProfile

\* What the other profiles say is one.
LEMMA OtherIs == IsProfile(Setting!Other)
<1>1. PICK b : b = Setting!Blank
    OBVIOUS
<1>2. PICK o : o = Setting!Other
    OBVIOUS
<1>3. DOMAIN b = Setting!Features /\ \A f \in Setting!Features : DOMAIN b[f] = Setting!Fields[f]
    BY <1>1, BlankIs DEF IsProfile
<1>4. o = [b EXCEPT !["dpi"]["dpi"] = MaxDPI, !["hiresscroll"]["hires"] = TRUE,
                    !["smartshift"]["on"] = TRUE, !["thumbwheel"]["invert"] = TRUE]
    BY <1>1, <1>2 DEF Setting!Other
<1>0. o = [f \in Setting!Features |-> o[f]]
    BY <1>3, <1>4
<1>5. /\ o["dpi"] = [b["dpi"] EXCEPT !["dpi"] = MaxDPI]
      /\ o["hiresscroll"] = [b["hiresscroll"] EXCEPT !["hires"] = TRUE]
      /\ o["smartshift"] = [b["smartshift"] EXCEPT !["on"] = TRUE]
      /\ o["thumbwheel"] = [b["thumbwheel"] EXCEPT !["invert"] = TRUE]
    BY <1>3, <1>4, FeatureNames
<1>6. o["dpi"] = [e \in Setting!Fields["dpi"] |-> o["dpi"][e]] /\ o["dpi"]["dpi"] = MaxDPI
    BY <1>3, <1>5, FeatureNames, TheFields
<1>7. o["hiresscroll"] = [e \in Setting!Fields["hiresscroll"] |-> o["hiresscroll"][e]]
    BY <1>3, <1>5, FeatureNames
<1>8. o["smartshift"] = [e \in Setting!Fields["smartshift"] |-> o["smartshift"][e]]
    BY <1>3, <1>5, FeatureNames
<1>9. o["thumbwheel"] = [e \in Setting!Fields["thumbwheel"] |-> o["thumbwheel"][e]]
    BY <1>3, <1>5, FeatureNames
<1>10. \A f \in Setting!Features : o[f] = [e \in Setting!Fields[f] |-> o[f][e]]
    BY <1>6, <1>7, <1>8, <1>9, TheFeatures
<1>11. o.dpi.dpi \in {Unset} \cup Nat
    BY <1>6, DPIsAre
<1>12. IsProfile(o)
    BY <1>0, <1>10, <1>11 DEF IsProfile
<1> QED BY <1>2, <1>12

\* The wakeup that configures the device first is queued.
LEMMA InitApplies ==
    ASSUME Setting!Init
    PROVE  AppliedInv
<1>1. PICK c \in {[f \in Setting!Features |-> IF f \in have THEN d[f] ELSE Setting!Blank[f]] :
                       d \in Setting!Configs} :
         /\ config = [p \in Profiles |-> IF p # FirstProfile THEN Setting!Other
                       ELSE [c EXCEPT !.smartshift.threshold = IF @ = 0 THEN 1 ELSE @]]
         /\ made = c.hiresscroll
    BY DEF Setting!Init
<1>2. PICK d \in Setting!Configs :
         c = [f \in Setting!Features |-> IF f \in have THEN d[f] ELSE Setting!Blank[f]]
    OBVIOUS
<1>3. IsProfile(c)
    BY <1>2, ConfigIs
<1>4. PICK g : g = [c["smartshift"] EXCEPT !["threshold"] = IF @ = 0 THEN 1 ELSE @]
    OBVIOUS
<1>5. PICK a : a = [c EXCEPT !["smartshift"] = g]
    OBVIOUS
<1>6. IsProfile(a) /\ a["hiresscroll"] = c["hiresscroll"]
    <2>1. c["smartshift"] = [e \in Setting!Fields["smartshift"] |-> c["smartshift"][e]]
        BY <1>3, FeatureNames DEF IsProfile
    <2>2. g = [e \in Setting!Fields["smartshift"] |-> g[e]]
        BY <1>4, <2>1
    <2>3. PICK f : f = "smartshift"
        OBVIOUS
    <2>4. IsSetting(f, g) /\ Replaces(c, f, g, a) /\ f \in Setting!Features
        BY <1>5, <2>2, <2>3, FeatureNames DEF IsSetting, Replaces
    <2>5. IsProfile(a) /\ \A k \in Setting!Features \ {f} : a[k] = c[k]
        BY <1>3, <2>4, ProfileExcept
    <2> QED BY <2>3, <2>5, FeatureNames
<1>7. config = [p \in Profiles |-> IF p # FirstProfile THEN Setting!Other ELSE a]
    BY <1>1, <1>4, <1>5
<1>8. /\ profile = FirstProfile /\ ref = [f \in Setting!Features |-> FirstProfile] /\ FirstProfile \in Profiles
      /\ device = Setting!PowerOn
      /\ jobs = [t \in Setting!Threads |-> <<>>] /\ read = [t \in Setting!Threads |-> Unset]
      /\ due = TRUE
    BY ComponentsAssumption DEF Setting!Init, Setting!SettingsAssumption
<1>9. AliveInv
    BY InitAlive
<1>10. made = [e \in Setting!Fields["hiresscroll"] |-> made[e]]
    BY <1>1, <1>3, FeatureNames DEF IsProfile
<1>11. SettingValues
    BY <1>6, <1>7, <1>8, <1>10, OtherIs, PowerOnIs DEF SettingValues
<1>12. ReadOfMode
    BY <1>8 DEF ReadOfMode
<1>13. QueuesAreRight
    <2>1. ConfiguresLast(<<>>, have)
        BY DEF ConfiguresLast
    <2> QED BY <1>8, <2>1 DEF QueuesAreRight
<1>14. ModeIsAdopted
    <2>1. config[profile]["hiresscroll"] = made
        BY <1>1, <1>6, <1>7, <1>8
    <2> QED BY <1>8, <2>1, FeatureNames DEF ModeIsAdopted
<1>15. SettingsFollow
    BY <1>8 DEF SettingsFollow, Follows, Pends
<1> QED BY <1>9, <1>11, <1>12, <1>13, <1>14, <1>15 DEF AppliedInv

\* Every step keeps it.
LEMMA NextApplies ==
    ASSUME AppliedInv, Setting!Next
    PROVE  AppliedInv'
<1>1. AliveInv'
    BY NextAlive DEF AppliedInv
<1> SUFFICES SettingValues' /\ ReadOfMode' /\ QueuesAreRight' /\ ModeIsAdopted' /\ SettingsFollow'
    BY <1>1 DEF AppliedInv
<1>2. CASE Setting!PowerCycle
    BY <1>2, PowerCycleApplies
<1>3. CASE Setting!Wakeup
    BY <1>3, WakeupApplies
<1>4. ASSUME NEW t \in Setting!Threads,
             Setting!Fail(t) \/ Setting!Reset(t) \/ Setting!GetMode(t) \/ Setting!SetMode(t)
      PROVE  SettingValues' /\ ReadOfMode' /\ QueuesAreRight' /\ ModeIsAdopted' /\ SettingsFollow'
    BY <1>4, FailApplies, ResetApplies, GetModeApplies, SetModeApplies
<1>5. ASSUME NEW t \in Setting!Threads, NEW f \in Setting!Features,
             Setting!Adopt(t, f) \/ Setting!Configure(t, f)
      PROVE  SettingValues' /\ ReadOfMode' /\ QueuesAreRight' /\ ModeIsAdopted' /\ SettingsFollow'
    BY <1>5, AdoptApplies, ConfigureApplies
<1>6. ASSUME NEW t \in Setting!Threads, NEW p \in Profiles, Setting!SetProfile(t, p)
      PROVE  SettingValues' /\ ReadOfMode' /\ QueuesAreRight' /\ ModeIsAdopted' /\ SettingsFollow'
    BY <1>6, SetProfileApplies
<1>7. ASSUME NEW p \in Profiles, Setting!ClearProfile(p) \/ Setting!RemoveProfile(p)
      PROVE  SettingValues' /\ ReadOfMode' /\ QueuesAreRight' /\ ModeIsAdopted' /\ SettingsFollow'
    BY <1>7, ClearProfileApplies, RemoveProfileApplies
<1>8. ASSUME NEW e \in Setting!Fields.hiresscroll, NEW b \in BOOLEAN, Setting!SetHires(e, b)
      PROVE  SettingValues' /\ ReadOfMode' /\ QueuesAreRight' /\ ModeIsAdopted' /\ SettingsFollow'
    <2>1. e \in Setting!Fields["hiresscroll"]
        BY <1>8
    <2> QED BY <1>8, <2>1, SetHiresApplies
<1>9. ASSUME NEW s \in Setting!Setters, Setting!SetField(s)
      PROVE  SettingValues' /\ ReadOfMode' /\ QueuesAreRight' /\ ModeIsAdopted' /\ SettingsFollow'
    BY <1>9, SetFieldApplies
<1>10. ASSUME NEW f \in Setting!Features,
              Setting!Press(f) \/ Setting!GetStatus(f) \/ Setting!SetStatus(f)
       PROVE  SettingValues' /\ ReadOfMode' /\ QueuesAreRight' /\ ModeIsAdopted' /\ SettingsFollow'
    BY <1>10, PressApplies, GetStatusApplies, SetStatusApplies
<1> QED BY <1>2, <1>3, <1>4, <1>5, <1>6, <1>7, <1>8, <1>9, <1>10 DEF Setting!Next

\* What nothing is done to keeps it.
LEMMA AppliedStays ==
    ASSUME AppliedInv, UNCHANGED settingVars
    PROVE  AppliedInv'
<1>1. UNCHANGED <<have, config, profile, ref, made, device, jobs, read, owner, due, spoiled, torn>>
    BY DEF settingVars
<1>2. AliveInv'
    <2>1. DOMAIN config' = DOMAIN config
        BY <1>1
    <2> QED BY <1>1, <2>1, NoJob DEF AppliedInv
<1>3. QueuesAreRight' /\ ReadOfMode' /\ ModeIsAdopted' /\ \A f : Pends(f) => Pends(f)'
    BY <1>1, NoJobMoves DEF AppliedInv
<1>4. SettingValues'
    BY <1>1 DEF AppliedInv, SettingValues
<1>5. SettingsFollow'
    <2> SUFFICES ASSUME NEW f \in have
                 PROVE  Follows(f)'
        BY <1>1 DEF SettingsFollow
    <2>1. Follows(f)
        BY DEF AppliedInv, SettingsFollow
    <2> QED BY <1>1, <1>3, <2>1, FollowsStill
<1> QED BY <1>2, <1>3, <1>4, <1>5 DEF AppliedInv

\* AppliedInv is an invariant of the settings.
THEOREM AppliedInvariance == MCSpec => [](part = "settings" => AppliedInv)
<1>1. MCInit => (part = "settings" => AppliedInv)
    BY InitApplies DEF MCInit
<1>2. (part = "settings" => AppliedInv) /\ [MCNext]_allVars => (part = "settings" => AppliedInv)'
    <2> SUFFICES ASSUME part = "settings" => AppliedInv, [MCNext]_allVars, part' = "settings"
                 PROVE  AppliedInv'
        OBVIOUS
    <2>1. CASE UNCHANGED allVars
        <3>1. part = "settings" /\ UNCHANGED settingVars
            BY <2>1 DEF allVars
        <3> QED BY <3>1, AppliedStays
    <2>2. CASE MCNext
        <3>1. part = "settings"
            BY <2>2 DEF MCNext, Rest
        <3>2. Setting!Next \/ UNCHANGED settingVars
            BY <2>2, <3>1, SettingsMove
        <3> QED BY <3>1, <3>2, AppliedStays, NextApplies
    <2> QED BY <2>1, <2>2
<1> QED BY <1>1, <1>2, PTL DEF MCSpec

\* A device at rest has what the active profile asks for (Settings.tla), for every
\* set of profiles, of devices, of DPIs and of bounds.
THEOREM SettingsAreApplied == MCSpec => []SettingsApplied
<1>1. (part = "settings" => AppliedInv) => SettingsApplied
    <2> SUFFICES ASSUME AppliedInv, Setting!Quiet, ~torn, NEW f \in have, NEW e \in Setting!Fields[f]
                 PROVE  <<f, e>> \in spoiled \/ Setting!Obeys(f, e, config[profile])
        BY DEF SettingsApplied, Setting!SettingsApplied
    <2>1. ~due /\ \A t \in Setting!Threads : jobs[t] = <<>>
        BY DEF Setting!Quiet, Setting!Idle
    <2>2. ~Pends(f)
        BY <2>1 DEF Pends, Sends
    <2>3. ref[f] = profile /\ profile \in DOMAIN config /\ f \in Setting!Features
        <3>1. owner \in Setting!Threads => ~Adopts(owner, f)
            BY <2>1 DEF Adopts
        <3> QED BY <3>1 DEF AppliedInv, AliveInv, Adopted, SettingTypes
    <2>4. <<f, e>> \in spoiled \/ Fits(f, e, config[profile][f], device[f][e])
        BY <2>2, <2>3 DEF AppliedInv, SettingsFollow, Follows
    <2> QED BY <2>3, <2>4, FitsIsObeyed
<1> QED BY <1>1, AppliedInvariance, PTL

(***************************************************************************)
(* Actions.                                                                *)
(***************************************************************************)

\* While the part is explored, its steps are those of Actions.
LEMMA ActionsMove ==
    ASSUME MCNext, part = "actions"
    PROVE  part' = part /\ (Act!Next \/ UNCHANGED actionVars)
BY DEF MCNext, Rest, Act!vars, Act!buttonVars, actionVars

\* What ChangeHost can be set to.
HostNames == {"next", "prev", "other", "0", "1", "3", "4"}

\* A part of a profile: a type and a value, one of its own for ChangeHost.
IsPart(c) ==
    /\ c = Act!Is(c.type, c.value)
    /\ c.type = "ChangeHost" => c.value \in HostNames \cup {Unset}

\* The button's part of every profile, the active one among them.
PartsAre ==
    /\ button_config = [p \in DOMAIN button_config |-> button_config[p]]
    /\ \A p \in DOMAIN button_config : IsPart(button_config[p])
    /\ active_profile \in DOMAIN button_config

\* The action, and what was pressed last.
ActionIs ==
    /\ actions_made \in Nat
    /\ button_action # None =>
        /\ button_action = [id |-> button_action.id, pressed |-> button_action.pressed]
        /\ button_action.id \in Nat /\ button_action.id < actions_made
        /\ button_action.pressed \in BOOLEAN
        /\ button_action.pressed = TRUE => by = button_action.id

\* What was asked for was asked for by an earlier report.
AskedBefore ==
    /\ action_spare.reports \in Nat
    /\ action_spare = [reports |-> action_spare.reports, sets |-> action_spare.sets,
                       failures |-> action_spare.failures]
    /\ \A n \in DOMAIN ask : n \in Nat /\ n > action_spare.reports
    /\ late \subseteq DOMAIN ask

\* A task does what its report asked for, which nobody has done.
TaskIs(t) ==
    /\ t = [n |-> t.n, id |-> t.id, type |-> t.type, value |-> t.value, begun |-> t.begun]
    /\ t.id \in Nat /\ t.id < actions_made
    /\ t.begun \in BOOLEAN
    /\ t.n \in DOMAIN ask /\ t.n \notin DOMAIN done
    /\ ask[t.n].type = t.type
    /\ t.type \in {"ChangeHost", "ChangeProfile", "CycleDPI"}
    /\ t.type = "ChangeHost" => t.value \in HostNames
    /\ t.type # "CycleDPI" => ask[t.n].value = t.value
    /\ ask[t.n].value # Unset

\* A task whose action was replaced first has not begun and never will.
LateIsDead(t) ==
    t.n \in late =>
        /\ t.begun = FALSE /\ t.type # "ChangeProfile"
        /\ button_action # None => button_action.id # t.id

TasksAre ==
    /\ \A t \in action_tasks : TaskIs(t) /\ LateIsDead(t)
    /\ \A t, u \in action_tasks : t.n = u.n => t = u

\* What was done for report n is what it asked for.
DoneIs(n) ==
    /\ n \in DOMAIN ask /\ n \notin late
    /\ Len(done[n]) = 1
    /\ ask[n].value # Unset
    /\ ask[n].type = "ChangeHost" => Head(done[n]) = Act!Meant(ask[n].value)
    /\ ask[n].type = "ChangeProfile" => Head(done[n]) = ask[n].value
    /\ ask[n].type = "Command" => Head(done[n]) = ask[n].value /\ ask[n].by = ask[n].id

DoneAsAsked == \A n \in DOMAIN done : DoneIs(n)

\* The computer is the first host or the last, and the device is somewhere.
HereIs == here \in 0 .. HostCount - 1

Good == PartsAre /\ ActionIs /\ AskedBefore /\ TasksAre /\ DoneAsAsked /\ HereIs
ActionsInv == part = "actions" => Good

-----------------------------------------------------------------------------

\* There are hosts, and a bound of the presses.
LEMMA CountIs == HostCount \in 1 .. 255 /\ MaxPresses \in Nat
BY ComponentsAssumption DEF Act!ActionsAssumption

\* The numbers that are written.
LEMMA NumberIs ==
    /\ DOMAIN Act!Number = {"0", "1", "3", "4"}
    /\ \A d \in {"0", "1", "3", "4"} : Act!Number[d] \in 0 .. 4
    /\ Act!Number["0"] = 0 /\ Act!Number["1"] = 1
    /\ Act!Number["3"] = 3 /\ Act!Number["4"] = 4
BY DEF Act!Number

\* The types, and the values of those that have some.
LEMMA ValuesAre ==
    /\ Act!Types = {"ChangeHost", "CycleDPI", "ChangeProfile", "Command", "None"}
    /\ Act!Values["ChangeHost"] = HostNames
    /\ Act!Settable["ChangeHost"] \subseteq HostNames
    /\ Act!Values["CycleDPI"] = {"empty", "some"}
BY NumberIs DEF Act!Types, Act!Values, Act!Settable, HostNames

\* The remainder of C++, of what can be the number of a host.
LEMMA RemainderIs ==
    ASSUME NEW n \in Int, n <= 255, n + 1 >= 0, HereIs
    PROVE  /\ n >= 0 => Act!Remainder(n) = n % HostCount
           /\ n >= 0 => Act!Remainder(n) \in 0 .. HostCount - 1
           /\ 0 <= n /\ n < HostCount => Act!Remainder(n) = n
           /\ n + 1 = 0 => /\ HostCount # 1 => Act!Remainder(n) % 256 = 255
                           /\ HostCount = 1 => Act!Remainder(n) = 0
<1>1. CASE n >= 0
    BY <1>1, CountIs DEF Act!Remainder
<1>2. CASE n + 1 = 0
    <2>1. -n = 1 /\ n < 0
        BY <1>2
    <2>2. Act!Remainder(n) = -(1 % HostCount)
        BY <2>1 DEF Act!Remainder
    <2>3. CASE HostCount = 1
        <3>1. 1 % HostCount = 0
            BY <2>3
        <3>2. Act!Remainder(n) = 0
            BY <3>1, <2>2
        <3> QED BY <3>2, <2>1, <2>3
    <2>4. CASE HostCount # 1
        <3>1. 1 % HostCount = 1
            BY <2>4, CountIs
        <3>2. Act!Remainder(n) = n
            BY <3>1, <2>2, <1>2
        <3>3. n % 256 = 255
            BY <1>2
        <3>4. Act!Remainder(n) % 256 = 255
            BY <3>2, <3>3, Zenon
        <3> QED BY <3>4, <2>4, <2>1
    <2> QED BY <2>3, <2>4
<1> QED BY <1>1, <1>2

\* A task that changes the host takes the device where it should go.
LEMMA HostIsMeant ==
    ASSUME HereIs, NEW v \in HostNames,
           Act!Remainder(Act!NextHost(v)) # here,
           Act!Remainder(Act!NextHost(v)) % 256 < HostCount
    PROVE  Act!Remainder(Act!NextHost(v)) = Act!Meant(v)
<1>0. HostCount \in 1 .. 255 /\ here \in 0 .. HostCount - 1
    BY CountIs DEF HereIs
<1>1. CASE v = "next"
    <2>1. Act!NextHost(v) = here + 1 /\ Act!Meant(v) = (here + 1) % HostCount
        BY <1>1 DEF Act!NextHost, Act!Meant
    <2> QED BY <2>1, <1>0 DEF Act!Remainder
<1>2. CASE v = "prev"
    <2>1. Act!NextHost(v) = here - 1 /\ Act!Meant(v) = here - 1
        BY <1>2 DEF Act!NextHost, Act!Meant
    <2>2. CASE here = 0
        <3>1. here - 1 \in Int /\ here - 1 <= 255 /\ (here - 1) + 1 = 0
            BY <2>2
        <3>2. /\ HostCount # 1 => Act!Remainder(here - 1) % 256 = 255
              /\ HostCount = 1 => Act!Remainder(here - 1) = 0
            BY <3>1, RemainderIs
        <3> QED BY <3>2, <2>1, <2>2, <1>0
    <2>3. CASE here # 0
        <3>1. here - 1 \in Int /\ here - 1 <= 255 /\ 0 <= here - 1 /\ here - 1 < HostCount
            BY <2>3, <1>0
        <3>2. Act!Remainder(here - 1) = here - 1
            BY <3>1, RemainderIs
        <3> QED BY <3>2, <2>1
    <2> QED BY <2>2, <2>3
<1>3. CASE v = "other"
    <2>1. Act!NextHost(v) = here
        BY <1>3 DEF Act!NextHost
    <2>2. Act!Remainder(here) = here
        BY <1>0, RemainderIs
    <2> QED BY <2>1, <2>2
<1>4. CASE v \in {"0", "1", "3", "4"}
    <2>1. Act!NextHost(v) = Act!Number[v] - 1 /\ Act!Meant(v) = (Act!Number[v] - 1) % HostCount
        BY <1>4 DEF Act!NextHost, Act!Meant
    <2>2. Act!Number[v] \in 0 .. 4
        BY <1>4, NumberIs
    <2>3. CASE Act!Number[v] = 0
        <3>1. Act!Number[v] - 1 \in Int /\ Act!Number[v] - 1 <= 255 /\ (Act!Number[v] - 1) + 1 = 0
            BY <2>3
        <3>2. /\ HostCount # 1 => Act!Remainder(Act!Number[v] - 1) % 256 = 255
              /\ HostCount = 1 => Act!Remainder(Act!Number[v] - 1) = 0
            BY <3>1, RemainderIs
        <3> QED BY <3>2, <2>1, <1>0
    <2>4. CASE Act!Number[v] # 0
        <3>1. Act!Number[v] - 1 \in Int /\ Act!Number[v] - 1 <= 255 /\ Act!Number[v] - 1 >= 0
            BY <2>4, <2>2
        <3>2. Act!Remainder(Act!Number[v] - 1) = (Act!Number[v] - 1) % HostCount
            BY <3>1, RemainderIs
        <3> QED BY <3>2, <2>1
    <2> QED BY <2>3, <2>4
<1> QED BY <1>1, <1>2, <1>3, <1>4 DEF HostNames

\* Doing something for a report for which nothing was done.
LEMMA DoesOnce ==
    ASSUME NEW n, n \notin DOMAIN done, NEW e, Act!Does(n, e)
    PROVE  /\ DOMAIN done' = DOMAIN done \cup {n}
           /\ Len(done'[n]) = 1 /\ Head(done'[n]) = e
           /\ \A m \in DOMAIN done : done'[m] = done[m]
<1>1. done'[n] = Append(<<>>, e)
    BY DEF Act!Does
<1>2. Len(Append(<<>>, e)) = 1 /\ Head(Append(<<>>, e)) = e
    OBVIOUS
<1> QED BY <1>1, <1>2 DEF Act!Does

\* What a report asks for is new.
LEMMA AsksNew ==
    ASSUME AskedBefore, Act!Asks
    PROVE  /\ Act!Now \notin DOMAIN ask
           /\ DOMAIN ask' = DOMAIN ask \cup {Act!Now}
           /\ \A n \in DOMAIN ask : ask'[n] = ask[n]
           /\ ask'[Act!Now].type = Act!Type /\ ask'[Act!Now].value = Act!Value
           /\ ask'[Act!Now].id = button_action.id /\ ask'[Act!Now].by = by
<1>1. Act!Now \notin DOMAIN ask
    BY DEF AskedBefore, Act!Now
<1>2. /\ DOMAIN ask' = DOMAIN ask \cup {Act!Now}
      /\ \A n \in DOMAIN ask : ask'[n] = ask[n]
    BY <1>1 DEF Act!Asks
<1>3. ask'[Act!Now] = [type |-> Act!Type, value |-> Act!Value, id |-> button_action.id, by |-> by]
    BY <1>1 DEF Act!Asks
<1> QED BY <1>1, <1>2, <1>3

-----------------------------------------------------------------------------

\* ask only grows.
AsksKept == \A n \in DOMAIN ask : n \in DOMAIN ask' /\ ask'[n] = ask[n]

\* What was asked for is kept.
LEMMA AsksAreKept ==
    ASSUME AskedBefore, UNCHANGED ask \/ Act!Asks
    PROVE  AsksKept
<1>1. CASE UNCHANGED ask
    BY <1>1 DEF AsksKept
<1>2. CASE Act!Asks
    BY <1>2, AsksNew DEF AsksKept
<1> QED BY <1>1, <1>2

\* A report that asks for something or for nothing.
LEMMA Reported ==
    ASSUME AskedBefore, UNCHANGED ask \/ Act!Asks, late' = late,
           action_spare' = [action_spare EXCEPT !.reports = @ - 1] \/
           action_spare' = [action_spare EXCEPT !.reports = @ - 1, !.failures = @ - 1],
           action_spare.reports > 0
    PROVE  AskedBefore'
<1>1. /\ action_spare.reports \in Nat
      /\ action_spare = [reports |-> action_spare.reports, sets |-> action_spare.sets,
                         failures |-> action_spare.failures]
      /\ \A n \in DOMAIN ask : n \in Nat /\ n > action_spare.reports
      /\ late \subseteq DOMAIN ask
    BY DEF AskedBefore
<1>2. /\ action_spare'.reports = action_spare.reports - 1
      /\ action_spare' = [reports |-> action_spare'.reports, sets |-> action_spare'.sets,
                          failures |-> action_spare'.failures]
    BY <1>1
<1>3. Act!Now = action_spare.reports
    BY DEF Act!Now
<1>4. \A n \in DOMAIN ask' : n \in DOMAIN ask \/ n = Act!Now
    BY AsksNew
<1>5. late' \subseteq DOMAIN ask'
    BY <1>1, AsksNew
<1> QED BY <1>1, <1>2, <1>3, <1>4, <1>5 DEF AskedBefore

\* A task stays what it is when nobody does it.
LEMMA TaskStays ==
    ASSUME NEW t, TaskIs(t), AsksKept, t.n \notin DOMAIN done',
           actions_made \in Nat, actions_made' \in {actions_made, actions_made + 1}
    PROVE  TaskIs(t)'
BY DEF TaskIs, AsksKept

\* So does what was done.
LEMMA DoneStays ==
    ASSUME NEW n, DoneIs(n), AsksKept, done'[n] = done[n], n \notin late', UNCHANGED here
    PROVE  DoneIs(n)'
<1>1. ask'[n] = ask[n] /\ n \in DOMAIN ask'
    BY DEF DoneIs, AsksKept
<1> HIDE DEF AsksKept
<1> QED BY <1>1 DEF DoneIs, Act!Meant

\* The IPC and the tasks leave the asks as they are.
LEMMA NotReported ==
    ASSUME AskedBefore, UNCHANGED ask, late' \subseteq DOMAIN ask,
           UNCHANGED action_spare \/ action_spare' = [action_spare EXCEPT !.sets = @ - 1]
    PROVE  AskedBefore'
BY DEF AskedBefore

\* Nothing is added to the tasks, to what is done and to what is late.
LEMMA TasksStay ==
    ASSUME TasksAre, AsksKept, action_tasks' \subseteq action_tasks, UNCHANGED <<done, late>>,
           actions_made \in Nat, UNCHANGED actions_made,
           button_action' # None => button_action # None /\ button_action'.id = button_action.id
    PROVE  TasksAre'
<1>1. \A t \in action_tasks' : TaskIs(t)'
    BY TaskStays DEF TasksAre, TaskIs
<1>2. \A t \in action_tasks' : LateIsDead(t)'
    BY DEF TasksAre, LateIsDead
<1> QED BY <1>1, <1>2 DEF TasksAre

\* And all that was done.
LEMMA DoneAllStays ==
    ASSUME DoneAsAsked, AsksKept, UNCHANGED <<done, late, here>>
    PROVE  DoneAsAsked'
<1>1. \A n \in DOMAIN done : DoneIs(n)'
    BY DoneStays DEF DoneAsAsked, DoneIs
<1> QED BY <1>1 DEF DoneAsAsked

\* A report queues a task for what it asks for.
LEMMA Queued ==
    ASSUME TasksAre, DoneAsAsked, ActionIs, AskedBefore, NEW v, Act!Queue(v),
           button_action # None,
           Act!Type \in {"ChangeHost", "ChangeProfile", "CycleDPI"},
           Act!Type = "ChangeHost" => v \in HostNames,
           Act!Type # "CycleDPI" => v = Act!Value,
           Act!Value # Unset,
           UNCHANGED <<done, late, actions_made>>,
           button_action' # None => button_action'.id = button_action.id
    PROVE  TasksAre'
<1>0. PICK new : new = [n |-> Act!Now, id |-> button_action.id, type |-> Act!Type,
                        value |-> v, begun |-> FALSE]
    OBVIOUS
<1>1. Act!Asks /\ action_tasks' = action_tasks \cup {new}
    BY <1>0 DEF Act!Queue
<1>2. AsksKept
    BY <1>1, AsksAreKept
<1>3. /\ new.n = Act!Now /\ new.id = button_action.id /\ new.type = Act!Type
      /\ new.value = v /\ new.begun = FALSE
      /\ new = [n |-> new.n, id |-> new.id, type |-> new.type, value |-> new.value,
                begun |-> new.begun]
    BY <1>0
<1>4. /\ Act!Now \notin DOMAIN ask /\ Act!Now \in DOMAIN ask'
      /\ ask'[Act!Now].type = Act!Type /\ ask'[Act!Now].value = Act!Value
    BY <1>1, AsksNew
<1>5. /\ Act!Now \notin DOMAIN done /\ Act!Now \notin late
    BY <1>4 DEF DoneAsAsked, DoneIs, AskedBefore
<1>6. TaskIs(new)'
    BY <1>3, <1>4, <1>5 DEF TaskIs, ActionIs
<1>7. LateIsDead(new)'
    BY <1>3, <1>5 DEF LateIsDead
<1>8. \A t \in action_tasks : t.n \in DOMAIN ask /\ t.n \notin DOMAIN done
    BY DEF TasksAre, TaskIs
<1>9. \A t \in action_tasks : TaskIs(t)'
    <2> SUFFICES ASSUME NEW t \in action_tasks
                 PROVE  TaskIs(t)'
        OBVIOUS
    <2>1. TaskIs(t)
        BY DEF TasksAre
    <2>2. t.n \notin DOMAIN done' /\ actions_made \in Nat /\ actions_made' = actions_made
        BY <1>8 DEF ActionIs
    <2> QED BY <2>1, <2>2, <1>2, TaskStays
<1>10. \A t \in action_tasks : LateIsDead(t)'
    BY DEF TasksAre, LateIsDead
<1> QED BY <1>1, <1>3, <1>4, <1>6, <1>7, <1>8, <1>9, <1>10 DEF TasksAre

\* A command is run by the action that was pressed.
LEMMA Commanded ==
    ASSUME TasksAre, DoneAsAsked, ActionIs, AskedBefore, Act!Asks, Act!Does(Act!Now, Act!Value),
           button_action # None, Act!Type = "Command", Act!Executes,
           UNCHANGED <<action_tasks, late, here, actions_made>>,
           button_action' # None => button_action # None /\ button_action'.id = button_action.id
    PROVE  TasksAre' /\ DoneAsAsked'
<1>1. AsksKept
    BY AsksAreKept
<1>2. /\ Act!Now \notin DOMAIN ask
      /\ Act!Now \in DOMAIN ask'
      /\ ask'[Act!Now].type = "Command" /\ ask'[Act!Now].value = Act!Value
      /\ ask'[Act!Now].id = button_action.id /\ ask'[Act!Now].by = by
    BY AsksNew
<1>3. Act!Now \notin DOMAIN done /\ Act!Now \notin late
    BY <1>2 DEF DoneAsAsked, DoneIs, AskedBefore
<1>4. /\ DOMAIN done' = DOMAIN done \cup {Act!Now}
      /\ Len(done'[Act!Now]) = 1 /\ Head(done'[Act!Now]) = Act!Value
      /\ \A m \in DOMAIN done : done'[m] = done[m]
    BY <1>3, DoesOnce
<1>5. \A t \in action_tasks : TaskIs(t)'
    <2> SUFFICES ASSUME NEW t \in action_tasks
                 PROVE  TaskIs(t)'
        OBVIOUS
    <2>1. TaskIs(t)
        BY DEF TasksAre
    <2>2. t.n \in DOMAIN ask /\ t.n \notin DOMAIN done
        BY <2>1 DEF TaskIs
    <2>3. t.n \notin DOMAIN done' /\ actions_made \in Nat /\ actions_made' = actions_made
        BY <2>2, <1>2, <1>4 DEF ActionIs
    <2> QED BY <2>1, <2>3, <1>1, TaskStays
<1>6. \A t \in action_tasks : LateIsDead(t)'
    BY DEF TasksAre, LateIsDead
<1>7. TasksAre'
    BY <1>5, <1>6 DEF TasksAre
<1>8. by = button_action.id /\ Act!Value # Unset
    BY DEF ActionIs, Act!Executes
<1>9. \A n : n = Act!Now => DoneIs(n)'
    BY <1>2, <1>3, <1>4, <1>8 DEF DoneIs
<1>10. \A n \in DOMAIN done : DoneIs(n)'
    BY <1>1, <1>4, DoneStays DEF DoneAsAsked, DoneIs
<1> QED BY <1>4, <1>7, <1>9, <1>10 DEF DoneAsAsked

\* A press keeps the invariant.
LEMMA PressGood ==
    ASSUME Good, Act!Press
    PROVE  Good'
<1>0. PartsAre /\ ActionIs /\ AskedBefore /\ TasksAre /\ DoneAsAsked /\ HereIs
    BY DEF Good
<1>1. /\ UNCHANGED <<button_config, active_profile, actions_made, here, late, done>>
      /\ action_spare.reports > 0
      /\ action_spare' = [action_spare EXCEPT !.reports = @ - 1]
    BY DEF Act!Press, Act!Spends
<1>2. PartsAre' /\ HereIs'
    BY <1>0, <1>1 DEF PartsAre, HereIs, IsPart
<1>3. UNCHANGED ask \/ Act!Asks
    BY DEF Act!Press, Act!Queue
<1>4. AsksKept /\ AskedBefore'
    BY <1>0, <1>1, <1>3, AsksAreKept, Reported
<1>5. DoneAsAsked'
    BY <1>0, <1>1, <1>4, DoneAllStays
<1>6. CASE button_known \/ button_action = None
    <2>1. UNCHANGED <<button_action, action_tasks, ask, by>>
        BY <1>6 DEF Act!Press
    <2>2. ActionIs'
        BY <2>1, <1>0, <1>1 DEF ActionIs
    <2>3. actions_made \in Nat
        BY <1>0 DEF ActionIs
    <2>4. TasksAre'
        BY <2>1, <2>3, <1>0, <1>1, <1>4, TasksStay
    <2> QED BY <1>2, <1>4, <1>5, <2>2, <2>4 DEF Good
<1>7. CASE ~button_known /\ button_action # None
    <2>1. /\ button_action' = [button_action EXCEPT !.pressed = Act!Type \in {"Command", "CycleDPI", "None"}]
          /\ by' = button_action.id
        BY <1>7 DEF Act!Press
    <2>2. /\ button_action = [id |-> button_action.id, pressed |-> button_action.pressed]
          /\ button_action.id \in Nat /\ button_action.id < actions_made /\ actions_made \in Nat
        BY <1>0, <1>7 DEF ActionIs
    <2>3. button_action' = [id |-> button_action.id, pressed |-> Act!Type \in {"Command", "CycleDPI", "None"}]
        BY <2>1, <2>2
    <2>4. /\ button_action'.id = button_action.id
          /\ button_action'.pressed \in BOOLEAN
          /\ button_action' = [id |-> button_action'.id, pressed |-> button_action'.pressed]
        BY <2>3
    <2>5. ActionIs'
        BY <2>1, <2>2, <2>4, <1>1 DEF ActionIs
    <2>6. CASE Act!Type = "CycleDPI" /\ Act!Value = "empty"
        <3>1. PICK dpi \in {"0", "400"} : Act!Queue(dpi)
            BY <1>7, <2>6 DEF Act!Press
        <3>2. "empty" # Unset
            BY ValuesAre, ComponentsAssumption DEF Act!ActionsAssumption
        <3>3. TasksAre'
            BY <3>1, <3>2, <2>4, <2>6, <1>0, <1>1, <1>7, Queued
        <3> QED BY <1>2, <1>4, <1>5, <2>5, <3>3 DEF Good
    <2>7. CASE ~(Act!Type = "CycleDPI" /\ Act!Value = "empty")
        <3>1. UNCHANGED <<action_tasks, ask>>
            BY <1>7, <2>7 DEF Act!Press
        <3>3. TasksAre'
            BY <3>1, <2>2, <2>4, <1>0, <1>1, <1>4, <1>7, TasksStay
        <3> QED BY <1>2, <1>4, <1>5, <2>5, <3>3 DEF Good
    <2> QED BY <2>6, <2>7
<1> QED BY <1>6, <1>7

\* A release, of a ChangeHost or a ChangeProfile.
LEMMA ReleaseGood ==
    ASSUME Good, Act!Release
    PROVE  Good'
<1>0. PartsAre /\ ActionIs /\ AskedBefore /\ TasksAre /\ DoneAsAsked /\ HereIs
    BY DEF Good
<1>1. /\ UNCHANGED <<button_config, active_profile, actions_made, here, by, late>>
      /\ action_spare.reports > 0
      /\ action_spare' = [action_spare EXCEPT !.reports = @ - 1]
    BY DEF Act!Release, Act!Spends
<1>2. PartsAre' /\ HereIs'
    BY <1>0, <1>1 DEF PartsAre, HereIs, IsPart
<1>3. UNCHANGED ask \/ Act!Asks
    BY DEF Act!Release, Act!Queue, Act!Execute
<1>4. AsksKept /\ AskedBefore'
    BY <1>0, <1>1, <1>3, AsksAreKept, Reported
<1>5. /\ actions_made \in Nat
      /\ button_action # None =>
           /\ button_action = [id |-> button_action.id, pressed |-> button_action.pressed]
           /\ button_action.id \in Nat /\ button_action.id < actions_made
           /\ button_action.pressed \in BOOLEAN
    BY <1>0 DEF ActionIs
<1>6. \/ UNCHANGED button_action
      \/ /\ button_action # None
         /\ button_action' = [button_action EXCEPT !.pressed = FALSE]
    BY DEF Act!Release
<1>7. /\ ActionIs'
      /\ button_action' # None => button_action # None /\ button_action'.id = button_action.id
    <2>1. CASE UNCHANGED button_action
        BY <2>1, <1>0, <1>1 DEF ActionIs
    <2>2. CASE button_action # None /\ button_action' = [button_action EXCEPT !.pressed = FALSE]
        <3>1. button_action' = [id |-> button_action.id, pressed |-> FALSE]
            BY <2>2, <1>5
        <3>2. /\ button_action'.id = button_action.id
              /\ button_action'.pressed = FALSE
              /\ button_action' = [id |-> button_action'.id, pressed |-> button_action'.pressed]
            BY <3>1
        <3> QED BY <3>2, <2>2, <1>5, <1>1 DEF ActionIs
    <2> QED BY <1>6, <2>1, <2>2
<1>8. CASE button_action # None /\ Act!Type = "Command" /\ Act!Executes
    <2>1. Act!Execute /\ UNCHANGED action_tasks
        BY <1>8 DEF Act!Release
    <2>2. CASE UNCHANGED <<done, ask>>
        <3>1. TasksAre'
            BY <2>1, <2>2, <1>0, <1>1, <1>4, <1>5, <1>7, TasksStay
        <3>2. DoneAsAsked'
            BY <2>2, <1>0, <1>1, <1>4, DoneAllStays
        <3> QED BY <3>1, <3>2, <1>2, <1>4, <1>7 DEF Good
    <2>3. CASE Act!Does(Act!Now, Act!Value) /\ Act!Asks
        <3>1. TasksAre' /\ DoneAsAsked'
            BY <2>1, <2>3, <1>0, <1>1, <1>7, <1>8, Commanded
        <3> QED BY <3>1, <1>2, <1>4, <1>7 DEF Good
    <2> QED BY <2>1, <2>2, <2>3 DEF Act!Execute
<1>9. CASE ~(button_action # None /\ Act!Type = "Command" /\ Act!Executes)
    <2>1. UNCHANGED done
        BY <1>9 DEF Act!Release
    <2>2. DoneAsAsked'
        BY <2>1, <1>0, <1>1, <1>4, DoneAllStays
    <2>3. CASE /\ button_action # None /\ Act!Type \in {"ChangeHost", "ChangeProfile"}
               /\ Act!Value # Unset
        <3>1. Act!Queue(Act!Value)
            BY <2>3, <1>9 DEF Act!Release
        <3>2. Act!Type = "ChangeHost" => Act!Value \in HostNames
            BY <2>3, <1>0 DEF PartsAre, IsPart, Act!Type, Act!Value
        <3>3. TasksAre'
            BY <3>1, <3>2, <2>1, <2>3, <1>0, <1>1, <1>7, Queued
        <3> QED BY <3>3, <2>2, <1>2, <1>4, <1>7 DEF Good
    <2>4. CASE ~(/\ button_action # None /\ Act!Type \in {"ChangeHost", "ChangeProfile"}
                 /\ Act!Value # Unset)
        <3>1. UNCHANGED <<action_tasks, ask>>
            BY <2>4, <1>9 DEF Act!Release
        <3>2. TasksAre'
            BY <3>1, <2>1, <1>0, <1>1, <1>4, <1>5, <1>7, TasksStay
        <3> QED BY <3>2, <2>2, <1>2, <1>4, <1>7 DEF Good
    <2> QED BY <2>3, <2>4
<1> QED BY <1>8, <1>9

\* So does a release that throws.
LEMMA ReleaseThrowsGood ==
    ASSUME Good, Act!ReleaseThrows
    PROVE  Good'
<1>0. PartsAre /\ ActionIs /\ AskedBefore /\ TasksAre /\ DoneAsAsked /\ HereIs
    BY DEF Good
<1>1. /\ UNCHANGED <<button_config, active_profile, button_action, actions_made, action_tasks,
                     here, by, late>>
      /\ action_spare.reports > 0
      /\ action_spare' = [action_spare EXCEPT !.reports = @ - 1, !.failures = @ - 1]
      /\ button_action # None /\ Act!Type = "Command" /\ Act!Executes
      /\ Act!Asks /\ Act!Does(Act!Now, Act!Value)
    BY DEF Act!ReleaseThrows, Act!buttonVars
<1>2. PartsAre' /\ HereIs' /\ ActionIs'
    BY <1>0, <1>1 DEF PartsAre, HereIs, IsPart, ActionIs
<1>3. AskedBefore'
    BY <1>0, <1>1, Reported
<1>4. TasksAre' /\ DoneAsAsked'
    BY <1>0, <1>1, Commanded
<1> QED BY <1>2, <1>3, <1>4 DEF Good

\* A task begins with its action, or goes.
LEMMA BeginGood ==
    ASSUME Good, NEW t \in action_tasks, Act!Begin(t)
    PROVE  Good'
<1>0. PartsAre /\ ActionIs /\ AskedBefore /\ TasksAre /\ DoneAsAsked /\ HereIs
    BY DEF Good
<1>1. /\ UNCHANGED <<button_config, active_profile, button_action, actions_made,
                     here, ask, by, late, done, action_spare>>
    BY DEF Act!Begin, Act!buttonVars
<1>2. PartsAre' /\ HereIs' /\ ActionIs' /\ AskedBefore' /\ AsksKept
    BY <1>0, <1>1, AsksAreKept DEF PartsAre, HereIs, IsPart, ActionIs, AskedBefore
<1>3. DoneAsAsked'
    BY <1>0, <1>1, <1>2, DoneAllStays
<1>4. CASE ~Act!Locked(t)
    <2>1. action_tasks' \subseteq action_tasks
        BY <1>4 DEF Act!Begin
    <2>2. actions_made \in Nat
        BY <1>0 DEF ActionIs
    <2>3. TasksAre'
        BY <2>1, <2>2, <1>0, <1>1, <1>2, TasksStay
    <2> QED BY <2>3, <1>2, <1>3 DEF Good
<1>5. CASE Act!Locked(t)
    <2>1. TaskIs(t) /\ LateIsDead(t)
        BY <1>0 DEF TasksAre
    <2>2. PICK u : u = [t EXCEPT !.begun = TRUE]
        OBVIOUS
    <2>3. t = [n |-> t.n, id |-> t.id, type |-> t.type, value |-> t.value, begun |-> t.begun]
        BY <2>1 DEF TaskIs
    <2>4. u = [n |-> t.n, id |-> t.id, type |-> t.type, value |-> t.value, begun |-> TRUE]
        BY <2>2, <2>3
    <2>5. u.n = t.n /\ u.id = t.id /\ u.type = t.type /\ u.value = t.value /\ u.begun = TRUE
        BY <2>4
    <2>6. TaskIs(u)'
        BY <2>1, <2>4, <2>5, <1>1 DEF TaskIs
    <2>7. t.n \notin late
        BY <2>1, <1>5 DEF LateIsDead, Act!Locked
    <2>8. LateIsDead(u)'
        BY <2>5, <2>7, <1>1 DEF LateIsDead
    <2>9. action_tasks' = (action_tasks \ {t}) \cup {u}
        BY <1>5, <2>2 DEF Act!Begin
    <2>10. \A v \in action_tasks : TaskIs(v)'
        BY <1>0, <1>1 DEF TasksAre, TaskIs
    <2>11. \A v \in action_tasks : LateIsDead(v)'
        BY <1>0, <1>1 DEF TasksAre, LateIsDead
    <2>12. \A v, w \in action_tasks' : v.n = w.n => v = w
        BY <2>5, <2>9, <1>0 DEF TasksAre
    <2>13. TasksAre'
        BY <2>6, <2>8, <2>9, <2>10, <2>11, <2>12 DEF TasksAre
    <2> QED BY <2>13, <1>2, <1>3 DEF Good
<1> QED BY <1>4, <1>5

\* A task that is done, and what it does.
LEMMA Dropped ==
    ASSUME TasksAre, DoneAsAsked, ActionIs, NEW t \in action_tasks, NEW e,
           UNCHANGED done \/ Act!Does(t.n, e), Act!Drop(t), UNCHANGED <<ask, late, here>>,
           UNCHANGED <<button_action, actions_made>>,
           t.begun = TRUE,
           \/ UNCHANGED done
           \/ t.type = "ChangeHost" /\ e = Act!Meant(t.value)
           \/ t.type = "ChangeProfile" /\ e = t.value
           \/ t.type = "CycleDPI"
    PROVE  TasksAre' /\ DoneAsAsked'
<1>0. AsksKept
    BY DEF AsksKept
<1>1. /\ TaskIs(t) /\ LateIsDead(t) /\ action_tasks' = action_tasks \ {t}
      /\ actions_made \in Nat
    BY DEF TasksAre, Act!Drop, ActionIs
<1>2. CASE UNCHANGED done
    <2>1. TasksAre'
        BY <1>0, <1>1, <1>2, TasksStay
    <2>2. DoneAsAsked'
        BY <1>0, <1>2, DoneAllStays
    <2> QED BY <2>1, <2>2
<1>3. CASE ~UNCHANGED done
    <2>1. t.n \notin DOMAIN done /\ t.n \notin late /\ t.n \in DOMAIN ask
        BY <1>1 DEF TaskIs, LateIsDead
    <2>2. /\ DOMAIN done' = DOMAIN done \cup {t.n}
          /\ Len(done'[t.n]) = 1 /\ Head(done'[t.n]) = e
          /\ \A m \in DOMAIN done : done'[m] = done[m]
        BY <1>3, <2>1, DoesOnce
    <2>3. \A u \in action_tasks' : TaskIs(u)'
        <3> SUFFICES ASSUME NEW u \in action_tasks'
                     PROVE  TaskIs(u)'
            OBVIOUS
        <3>1. TaskIs(u) /\ u.n # t.n /\ u.n \notin DOMAIN done
            BY <1>1 DEF TasksAre, TaskIs
        <3>2. u.n \notin DOMAIN done'
            BY <3>1, <2>2
        <3> QED BY <3>1, <3>2, <1>0, <1>1, TaskStays
    <2>4. \A u \in action_tasks' : LateIsDead(u)'
        BY <1>1 DEF TasksAre, LateIsDead
    <2>5. TasksAre'
        BY <1>1, <2>3, <2>4 DEF TasksAre
    <2>6. \A n \in DOMAIN done : DoneIs(n)'
        BY <1>0, <2>2, DoneStays DEF DoneAsAsked, DoneIs
    <2>7. /\ ask[t.n].type = t.type /\ ask[t.n].value # Unset
          /\ t.type \in {"ChangeHost", "ChangeProfile", "CycleDPI"}
          /\ t.type # "CycleDPI" => ask[t.n].value = t.value
        BY <1>1 DEF TaskIs
    <2>8. PICK v : v = t.value
        OBVIOUS
    <2>9. Act!Meant(v)' = Act!Meant(v)
        BY DEF Act!Meant
    <2>10. DoneIs(t.n)'
        BY <2>1, <2>2, <2>7, <2>8, <2>9, <1>3 DEF DoneIs
    <2> QED BY <2>2, <2>5, <2>6, <2>10 DEF DoneAsAsked
<1> QED BY <1>2, <1>3

\* So does the task of ChangeHost.
LEMMA ChangeHostGood ==
    ASSUME Good, NEW t \in action_tasks, Act!ChangeHost(t)
    PROVE  Good'
<1>0. PartsAre /\ ActionIs /\ AskedBefore /\ TasksAre /\ DoneAsAsked /\ HereIs
    BY DEF Good
<1>1. /\ UNCHANGED <<button_config, active_profile, button_action, actions_made,
                     here, ask, by, late, action_spare>>
      /\ Act!Drop(t) /\ t.begun /\ t.type = "ChangeHost"
    BY DEF Act!ChangeHost, Act!buttonVars
<1>2. PartsAre' /\ HereIs' /\ ActionIs' /\ AskedBefore'
    BY <1>0, <1>1 DEF PartsAre, HereIs, IsPart, ActionIs, AskedBefore
<1>3. TaskIs(t)
    BY <1>0 DEF TasksAre
<1>4. t.value \in HostNames /\ t.begun = TRUE
    BY <1>1, <1>3 DEF TaskIs
<1>5. UNCHANGED done \/ Act!Does(t.n, Act!Meant(t.value))
    <2>1. CASE UNCHANGED done
        BY <2>1
    <2>2. CASE ~UNCHANGED done
        <3>1. /\ Act!Remainder(Act!NextHost(t.value)) # here
              /\ Act!Remainder(Act!NextHost(t.value)) % 256 < HostCount
              /\ Act!Does(t.n, Act!Remainder(Act!NextHost(t.value)))
            BY <2>2 DEF Act!ChangeHost
        <3>2. Act!Remainder(Act!NextHost(t.value)) = Act!Meant(t.value)
            BY <3>1, <1>0, <1>4, HostIsMeant
        <3> QED BY <3>1, <3>2
    <2> QED BY <2>1, <2>2
<1>6. TasksAre' /\ DoneAsAsked'
    BY <1>0, <1>1, <1>4, <1>5, Dropped
<1> QED BY <1>2, <1>6 DEF Good

\* So does the task of CycleDPI.
LEMMA CycleDPIGood ==
    ASSUME Good, NEW t \in action_tasks, Act!CycleDPI(t)
    PROVE  Good'
<1>0. PartsAre /\ ActionIs /\ AskedBefore /\ TasksAre /\ DoneAsAsked /\ HereIs
    BY DEF Good
<1>1. /\ UNCHANGED <<button_config, active_profile, button_action, actions_made,
                     here, ask, by, late, action_spare>>
      /\ Act!Drop(t) /\ t.begun /\ t.type = "CycleDPI"
      /\ UNCHANGED done \/ Act!Does(t.n, t.value)
    BY DEF Act!CycleDPI, Act!buttonVars
<1>2. PartsAre' /\ HereIs' /\ ActionIs' /\ AskedBefore'
    BY <1>0, <1>1 DEF PartsAre, HereIs, IsPart, ActionIs, AskedBefore
<1>3. TaskIs(t)
    BY <1>0 DEF TasksAre
<1>4. t.begun = TRUE
    BY <1>1, <1>3 DEF TaskIs
<1>6. TasksAre' /\ DoneAsAsked'
    BY <1>0, <1>1, <1>4, Dropped
<1> QED BY <1>2, <1>6 DEF Good

\* Another action takes the place of the button's: those of its tasks that have
\* not begun are late.
LEMMA Replaced ==
    ASSUME ActionIs, AskedBefore, TasksAre, DoneAsAsked, NEW c, Act!Replaces(c), UNCHANGED ask
    PROVE  /\ ActionIs'
           /\ actions_made \in Nat /\ actions_made' = actions_made + 1
           /\ late' \subseteq DOMAIN ask
           /\ \A t \in action_tasks : LateIsDead(t)'
           /\ \A n \in DOMAIN done : n \notin late'
           /\ \A t \in action_tasks : t.begun = TRUE => t.n \notin late'
<1>1. /\ actions_made' = actions_made + 1 /\ actions_made \in Nat
      /\ button_action' = None \/ button_action' = [id |-> actions_made, pressed |-> FALSE]
    BY DEF Act!Replaces, Act!Fresh, ActionIs
<1>2. ActionIs'
    <2>1. CASE button_action' = None
        BY <2>1, <1>1 DEF ActionIs
    <2>2. CASE button_action' = [id |-> actions_made, pressed |-> FALSE]
        <3>1. /\ button_action'.id = actions_made /\ button_action'.pressed = FALSE
              /\ button_action' = [id |-> button_action'.id, pressed |-> button_action'.pressed]
            BY <2>2
        <3>2. button_action'.id \in Nat /\ button_action'.id < actions_made' /\ actions_made' \in Nat
            BY <3>1, <1>1
        <3>3. button_action'.pressed \in BOOLEAN /\ button_action'.pressed # TRUE
            BY <3>1, Zenon
        <3> QED BY <3>1, <3>2, <3>3, Zenon DEF ActionIs
    <2> QED BY <1>1, <2>1, <2>2
<1>3. \A n \in late' : \/ n \in late
                       \/ \E u \in action_tasks : /\ n = u.n /\ ~u.begun
                                                 /\ u.type # "ChangeProfile"
    BY DEF Act!Replaces
<1>4. \A t \in action_tasks : /\ TaskIs(t) /\ LateIsDead(t)
                              /\ \A u \in action_tasks : t.n = u.n => t = u
    BY DEF TasksAre
<1>5. \A t \in action_tasks : /\ t.n \in DOMAIN ask /\ t.n \notin DOMAIN done
                              /\ t.begun \in BOOLEAN /\ t.id \in Nat /\ t.id < actions_made
    BY <1>4 DEF TaskIs
<1>6. late' \subseteq DOMAIN ask
    BY <1>3, <1>5 DEF AskedBefore
<1>7. \A n \in DOMAIN done : n \notin late'
    BY <1>3, <1>5 DEF DoneAsAsked, DoneIs
<1>8. \A t \in action_tasks : t.n \in late' => t.begun = FALSE /\ t.type # "ChangeProfile"
    BY <1>3, <1>4, <1>5 DEF LateIsDead
<1>9. \A t \in action_tasks : button_action' # None => button_action'.id # t.id
    BY <1>1, <1>5
<1>10. \A t \in action_tasks : LateIsDead(t)'
    BY <1>8, <1>9 DEF LateIsDead
<1> QED BY <1>1, <1>2, <1>6, <1>7, <1>8, <1>10

\* So does a new action.
LEMMA SetActionGood ==
    ASSUME Good, NEW type, Act!SetAction(type)
    PROVE  Good'
<1>0. PartsAre /\ ActionIs /\ AskedBefore /\ TasksAre /\ DoneAsAsked /\ HereIs
    BY DEF Good
<1>1. /\ UNCHANGED <<active_profile, action_tasks, here, ask, by, done>>
      /\ action_spare' = [action_spare EXCEPT !.sets = @ - 1]
    BY DEF Act!SetAction, Act!Spends
<1>2. PICK c : Act!Replaces(c)
    BY DEF Act!SetAction
<1>3. /\ ActionIs'
      /\ actions_made \in Nat /\ actions_made' = actions_made + 1
      /\ late' \subseteq DOMAIN ask
      /\ \A t \in action_tasks : LateIsDead(t)'
      /\ \A n \in DOMAIN done : n \notin late'
    BY <1>0, <1>1, <1>2, Replaced
<1>4. AskedBefore' /\ AsksKept /\ HereIs'
    BY <1>0, <1>1, <1>3, NotReported DEF AsksKept, HereIs
<1>5. \A t \in action_tasks : TaskIs(t)'
    <2> SUFFICES ASSUME NEW t \in action_tasks
                 PROVE  TaskIs(t)'
        OBVIOUS
    <2>1. TaskIs(t) /\ t.n \notin DOMAIN done'
        BY <1>0, <1>1 DEF TasksAre, TaskIs
    <2> QED BY <2>1, <1>3, <1>4, TaskStays
<1>6. TasksAre'
    BY <1>0, <1>1, <1>3, <1>5 DEF TasksAre
<1>7. \A n \in DOMAIN done : DoneIs(n)'
    BY <1>0, <1>1, <1>3, <1>4, DoneStays DEF DoneAsAsked
<1>8. DoneAsAsked'
    BY <1>1, <1>7 DEF DoneAsAsked
<1>9. PartsAre'
    <2>1. CASE UNCHANGED button_config
        BY <2>1, <1>0, <1>1 DEF PartsAre, IsPart
    <2>2. CASE button_config' = [button_config EXCEPT ![active_profile] = Act!Is(type, Unset)]
        <3>1. IsPart(Act!Is(type, Unset))
            BY DEF IsPart, Act!Is
        <3> QED BY <3>1, <2>2, <1>0, <1>1 DEF PartsAre
    <2> QED BY <2>1, <2>2 DEF Act!SetAction
<1> QED BY <1>3, <1>4, <1>6, <1>8, <1>9 DEF Good

\* So does a new value of the action.
LEMMA SetValueGood ==
    ASSUME Good, NEW v, Act!SetValue(v)
    PROVE  Good'
<1>0. PartsAre /\ ActionIs /\ AskedBefore /\ TasksAre /\ DoneAsAsked /\ HereIs
    BY DEF Good
<1>1. /\ UNCHANGED <<active_profile, button_action, actions_made, action_tasks, here, ask, by,
                     late, done>>
      /\ action_spare' = [action_spare EXCEPT !.sets = @ - 1]
      /\ v \in Act!Settable[Act!Type]
    BY DEF Act!SetValue, Act!Spends
<1>2. ActionIs' /\ HereIs' /\ AsksKept /\ late \subseteq DOMAIN ask
    BY <1>0, <1>1 DEF ActionIs, HereIs, AsksKept, AskedBefore
<1>3. AskedBefore'
    BY <1>0, <1>1, <1>2, NotReported
<1>4. actions_made \in Nat
    BY <1>0 DEF ActionIs
<1>5. TasksAre'
    BY <1>0, <1>1, <1>2, <1>4, TasksStay
<1>6. DoneAsAsked'
    BY <1>0, <1>1, <1>2, DoneAllStays
<1>7. PartsAre'
    <2>1. CASE UNCHANGED button_config
        BY <2>1, <1>0, <1>1 DEF PartsAre, IsPart
    <2>2. CASE button_config' = [button_config EXCEPT ![active_profile].value = v]
        <3>1. PICK c : c = button_config[active_profile]
            OBVIOUS
        <3>2. IsPart(c) /\ active_profile \in DOMAIN button_config /\ c.type = Act!Type
            BY <3>1, <1>0 DEF PartsAre, Act!Type
        <3>3. c = [type |-> c.type, value |-> c.value]
            BY <3>2 DEF IsPart, Act!Is
        <3>4. PICK d : d = [c EXCEPT !.value = v]
            OBVIOUS
        <3>5. d = [type |-> c.type, value |-> v]
            BY <3>3, <3>4
        <3>6. d = Act!Is(d.type, d.value) /\ d.type = Act!Type /\ d.value = v
            BY <3>2, <3>5 DEF Act!Is
        <3>7. d.type = "ChangeHost" => d.value \in HostNames
            BY <3>6, <1>1, ValuesAre
        <3>8. IsPart(d)
            BY <3>6, <3>7 DEF IsPart
        <3>9. button_config' = [button_config EXCEPT ![active_profile] = d]
            BY <2>2, <3>1, <3>4
        <3> QED BY <3>2, <3>8, <3>9, <1>0, <1>1 DEF PartsAre
    <2> QED BY <2>1, <2>2 DEF Act!SetValue
<1> QED BY <1>2, <1>3, <1>5, <1>6, <1>7 DEF Good

\* So does the task of ChangeProfile.
LEMMA ChangeProfileGood ==
    ASSUME Good, NEW t \in action_tasks, Act!ChangeProfile(t)
    PROVE  Good'
<1>0. PartsAre /\ ActionIs /\ AskedBefore /\ TasksAre /\ DoneAsAsked /\ HereIs
    BY DEF Good
<1>1. /\ UNCHANGED <<here, ask, by, action_spare>>
      /\ t.begun /\ t.type = "ChangeProfile" /\ action_tasks' = action_tasks \ {t}
      /\ active_profile' = t.value
      /\ button_config' = [p \in DOMAIN button_config \cup {t.value} |->
                      IF p \in DOMAIN button_config THEN button_config[p] ELSE Act!Default]
      /\ Act!Does(t.n, t.value)
    BY DEF Act!ChangeProfile, Act!Drop
<1>2. PICK c : Act!Replaces(c)
    BY DEF Act!ChangeProfile
<1>3. /\ ActionIs'
      /\ actions_made \in Nat /\ actions_made' = actions_made + 1
      /\ late' \subseteq DOMAIN ask
      /\ \A u \in action_tasks : LateIsDead(u)'
      /\ \A n \in DOMAIN done : n \notin late'
      /\ \A u \in action_tasks : u.begun = TRUE => u.n \notin late'
    BY <1>0, <1>1, <1>2, Replaced
<1>4. AskedBefore' /\ AsksKept /\ HereIs'
    BY <1>0, <1>1, <1>3, NotReported DEF AsksKept, HereIs
<1>5. /\ TaskIs(t) /\ t.begun = TRUE
    BY <1>0, <1>1 DEF TasksAre, TaskIs
<1>6. /\ t.n \notin DOMAIN done /\ t.n \in DOMAIN ask /\ t.n \notin late'
      /\ ask[t.n].type = "ChangeProfile" /\ ask[t.n].value = t.value /\ ask[t.n].value # Unset
    BY <1>1, <1>3, <1>5 DEF TaskIs
<1>7. /\ DOMAIN done' = DOMAIN done \cup {t.n}
      /\ Len(done'[t.n]) = 1 /\ Head(done'[t.n]) = t.value
      /\ \A m \in DOMAIN done : done'[m] = done[m]
    BY <1>1, <1>6, DoesOnce
<1>8. \A u \in action_tasks' : TaskIs(u)'
    <2> SUFFICES ASSUME NEW u \in action_tasks'
                 PROVE  TaskIs(u)'
        OBVIOUS
    <2>1. TaskIs(u) /\ u.n # t.n /\ u.n \notin DOMAIN done
        BY <1>0, <1>1 DEF TasksAre, TaskIs
    <2>2. u.n \notin DOMAIN done'
        BY <2>1, <1>7
    <2> QED BY <2>1, <2>2, <1>3, <1>4, TaskStays
<1>9. TasksAre'
    BY <1>0, <1>1, <1>3, <1>8 DEF TasksAre
<1>10. \A n \in DOMAIN done : DoneIs(n)'
    BY <1>0, <1>1, <1>3, <1>4, <1>7, DoneStays DEF DoneAsAsked
<1>11. DoneIs(t.n)'
    BY <1>1, <1>6, <1>7 DEF DoneIs
<1>12. DoneAsAsked'
    BY <1>7, <1>10, <1>11 DEF DoneAsAsked
<1>13. PartsAre'
    <2>1. IsPart(Act!Default)
        BY DEF IsPart, Act!Is, Act!Default
    <2>2. \A p \in DOMAIN button_config' : IsPart(button_config'[p])
        BY <2>1, <1>0, <1>1 DEF PartsAre
    <2> QED BY <2>2, <1>1 DEF PartsAre
<1> QED BY <1>3, <1>4, <1>9, <1>12, <1>13 DEF Good

\* So does the device that comes back.
LEMMA DeviceReturnsGood ==
    ASSUME Good, Act!DeviceReturns \/ UNCHANGED actionVars
    PROVE  Good'
<1>0. PartsAre /\ ActionIs /\ AskedBefore /\ TasksAre /\ DoneAsAsked /\ HereIs
    BY DEF Good
<1>1. UNCHANGED <<button_config, active_profile, button_action, actions_made,
                  here, ask, by, late, done, action_spare, action_tasks>>
    BY DEF Act!DeviceReturns, Act!buttonVars, actionVars
<1>2. PartsAre' /\ HereIs' /\ ActionIs' /\ AskedBefore' /\ AsksKept /\ actions_made \in Nat
    BY <1>0, <1>1, AsksAreKept DEF PartsAre, HereIs, IsPart, ActionIs, AskedBefore
<1>3. DoneAsAsked'
    BY <1>0, <1>1, <1>2, DoneAllStays
<1>4. TasksAre'
    BY <1>0, <1>1, <1>2, TasksStay
<1> QED BY <1>2, <1>3, <1>4 DEF Good

\* The invariant holds at first.
LEMMA ActionsInit ==
    ASSUME MCInit, part = "actions"
    PROVE  Good
<1>1. Act!Init
    BY DEF MCInit
<1>2. PartsAre
    <2>1. PICK c \in Act!Configs, d \in {Act!Default, Act!Is("ChangeHost", "next")} :
              button_config = [p \in Profiles |-> IF p = active_profile THEN c ELSE d]
        BY <1>1 DEF Act!Init
    <2>2. IsPart(d)
        BY <2>1 DEF IsPart, Act!Default, Act!Is, HostNames
    <2>3. IsPart(c)
        <3>1. CASE c = Act!Default
            BY <3>1 DEF IsPart, Act!Default, Act!Is
        <3>2. CASE \E t \in Act!Types : \E v \in Act!Values[t] \cup {Unset} : c = Act!Is(t, v)
            <4>1. PICK t \in Act!Types : \E v \in Act!Values[t] \cup {Unset} : c = Act!Is(t, v)
                BY <3>2
            <4>2. PICK v \in Act!Values[t] \cup {Unset} : c = Act!Is(t, v)
                BY <4>1
            <4>3. c.type = t /\ c.value = v
                BY <4>2 DEF Act!Is
            <4> QED BY <4>2, <4>3, ValuesAre DEF IsPart
        <3> QED BY <3>1, <3>2 DEF Act!Configs
    <2>4. active_profile \in Profiles
        BY <1>1 DEF Act!Init
    <2> QED BY <2>1, <2>2, <2>3, <2>4 DEF PartsAre
<1>3. ActionIs
    BY <1>1 DEF Act!Init, ActionIs
<1>4. DOMAIN ask = {} /\ DOMAIN done = {}
    BY <1>1 DEF Act!Init
<1>5. AskedBefore /\ TasksAre /\ DoneAsAsked
    BY <1>1, <1>4, CountIs DEF Act!Init, AskedBefore, TasksAre, DoneAsAsked
<1>6. HereIs
    BY <1>1, CountIs DEF Act!Init, HereIs
<1> QED BY <1>2, <1>3, <1>5, <1>6 DEF Good

\* Every step keeps it.
LEMMA ActionsNext == ActionsInv /\ [MCNext]_allVars => ActionsInv'
<1> SUFFICES ASSUME ActionsInv, [MCNext]_allVars, part' = "actions"
             PROVE  Good'
    BY DEF ActionsInv
<1>1. part = "actions" /\ (Act!Next \/ UNCHANGED actionVars)
    <2>1. CASE MCNext
        <3>1. part = part'
            BY <2>1 DEF MCNext, Rest
        <3> QED BY <3>1, <2>1, ActionsMove
    <2>2. CASE UNCHANGED allVars
        BY <2>2 DEF allVars, actionVars
    <2> QED BY <2>1, <2>2
<1>2. Good
    BY <1>1 DEF ActionsInv
<1>3. CASE UNCHANGED actionVars
    BY <1>2, <1>3, DeviceReturnsGood
<1>4. CASE Act!Next
    <2>1. CASE Act!Press
        BY <2>1, <1>2, PressGood
    <2>2. CASE Act!Release
        BY <2>2, <1>2, ReleaseGood
    <2>3. CASE Act!ReleaseThrows
        BY <2>3, <1>2, ReleaseThrowsGood
    <2>4. CASE Act!DeviceReturns
        BY <2>4, <1>2, DeviceReturnsGood
    <2>5. ASSUME NEW t \in action_tasks, Act!Begin(t)
          PROVE  Good'
        BY <2>5, <1>2, BeginGood
    <2>6. ASSUME NEW t \in action_tasks, Act!ChangeHost(t)
          PROVE  Good'
        BY <2>6, <1>2, ChangeHostGood
    <2>7. ASSUME NEW t \in action_tasks, Act!CycleDPI(t)
          PROVE  Good'
        BY <2>7, <1>2, CycleDPIGood
    <2>8. ASSUME NEW t \in action_tasks, Act!ChangeProfile(t)
          PROVE  Good'
        BY <2>8, <1>2, ChangeProfileGood
    <2>9. ASSUME NEW type, Act!SetAction(type)
          PROVE  Good'
        BY <2>9, <1>2, SetActionGood
    <2>10. ASSUME NEW v, Act!SetValue(v)
          PROVE  Good'
        BY <2>10, <1>2, SetValueGood
    <2> QED BY <1>4, <2>1, <2>2, <2>3, <2>4, <2>5, <2>6, <2>7, <2>8, <2>9, <2>10 DEF Act!Next
<1> QED BY <1>1, <1>3, <1>4

\* ActionsInv is an invariant of the actions.
THEOREM ActionsInvariance == MCSpec => []ActionsInv
<1>1. MCInit => ActionsInv
    BY ActionsInit DEF ActionsInv
<1> QED BY <1>1, ActionsNext, PTL DEF MCSpec

\* What a press or a release asks for is done once and as it was set then
\* (Actions.tla), for every number of hosts and of presses.
THEOREM DoesAsAsked == MCSpec => []ActsAsAsked
<1>1. ActionsInv => ActsAsAsked
    BY DEF ActionsInv, Good, DoneAsAsked, DoneIs, ActsAsAsked, Act!ActsAsAsked
<1> QED BY <1>1, ActionsInvariance, PTL
=============================================================================
