--------------------------- MODULE BatteryReading ---------------------------
(***************************************************************************)
(* What one BatteryStatus::_readAndPublish makes of the answers of up to   *)
(* three battery features (features/BatteryStatus.cpp 41-155, 257-284, and *)
(* backend/hidpp20/features/BatteryStatus.cpp).  Battery.tla is about when *)
(* it runs; this module is about which answer it publishes.                *)
(***************************************************************************)
EXTENDS Integers, Sequences, FiniteSets, Functions

CONSTANTS
    None,         \* std::nullopt, and a reader that failed
    Voltages,     \* voltages in mV
    Percents,     \* percentages a report may hold, 0 and beyond 100 included
    LevelBits     \* the level byte of a unified battery

VARIABLES
    readers,      \* the readers that are left, in the order they were made
    answers,      \* the statuses that were read, with their readers
    selected,     \* selected, selected_priority, selected_reported_capacity
    any_charging, \* any_charging
    published     \* what _publish is given

vars == <<readers, answers, selected, any_charging, published>>

Sources == <<"UNIFIED_BATTERY", "BATTERY_STATUS", "BATTERY_VOLTAGE">>
Priority == [UNIFIED_BATTERY |-> 30, BATTERY_STATUS |-> 20, BATTERY_VOLTAGE |-> 10]

StateNames == <<"Discharging", "Recharging", "AlmostFull", "Full", "SlowRecharge",
                "InvalidBattery", "ThermalError">>
ParseState(byte) == IF byte \in 0..6 THEN StateNames[byte + 1] ELSE "Unknown"
InRange(percent) == IF percent \in 1..100 THEN percent ELSE None

UnifiedStatus(percent, bits, byte) ==
    [level |-> IF InRange(percent) # None THEN percent
               ELSE CASE bits = 8 -> 90 [] bits = 4 -> 50 [] bits = 2 -> 20
                      [] bits = 1 -> 5 [] OTHER -> None,
     state |-> ParseState(byte)]

LevelStatus(percent, byte) == [level |-> InRange(percent), state |-> ParseState(byte)]

Table == <<<<4186, 100>>, <<4067, 90>>, <<3989, 80>>, <<3922, 70>>, <<3859, 60>>,
           <<3811, 50>>, <<3778, 40>>, <<3751, 30>>, <<3717, 20>>, <<3671, 10>>,
           <<3646, 5>>, <<3579, 2>>, <<3500, 0>>>>

\* estimateBatteryPercentage: the line between two entries, rounded.
Between(high, low, v) ==
    low[2] + (2 * (high[2] - low[2]) * (v - low[1]) + (high[1] - low[1]))
             \div (2 * (high[1] - low[1]))
Estimate(v) ==
    IF v >= Table[1][1] THEN 100 ELSE IF v <= Table[13][1] THEN 0
    ELSE LET i == CHOOSE i \in 1..12 : v >= Table[i + 1][1] /\ \A j \in 1 .. i-1 : v < Table[j + 1][1]
         IN  Between(Table[i], Table[i + 1], v)

VoltageStatus(v, external, full, slow) ==
    [level |-> Estimate(v),
     state |-> IF slow THEN "SlowRecharge" ELSE IF ~external THEN "Discharging"
               ELSE IF full THEN "Full" ELSE "Recharging"]

Answers(source) ==
    CASE source = "UNIFIED_BATTERY" ->
           {UnifiedStatus(p, b, s) : p \in Percents, b \in LevelBits, s \in 0..7}
      [] source = "BATTERY_STATUS" -> {LevelStatus(p, s) : p \in Percents, s \in 0..7}
      [] source = "BATTERY_VOLTAGE" ->
           {VoltageStatus(v, e, f, s) : v \in Voltages, e, f, s \in BOOLEAN}

Inferred(state) == CASE state = "Full" -> 100 [] state \in {"AlmostFull", "Recharging"} -> 90
                     [] state = "SlowRecharge" -> 20 [] OTHER -> None
Capacity(status) == IF status.level # None THEN status.level ELSE Inferred(status.state)
Charging(status) == status.state \in {"Recharging", "AlmostFull", "SlowRecharge"}

\* The features a device may have, in the order their readers are made.
Readers ==
    {r \in UNION {[1 .. n -> Range(Sources)] : n \in 1 .. 3} :
        \A i, j \in DOMAIN r : i < j => Priority[r[i]] > Priority[r[j]]}

Init ==
    /\ readers \in Readers
    /\ answers = {} /\ selected = None /\ any_charging = FALSE /\ published = None

BatteryReadingAssumption ==
    None \notin [source : Range(Sources), status : UNION {Answers(s) : s \in Range(Sources)}]

BetterOnPriority(new, old) ==     \* a mutant
    old = None \/ Priority[new.source] > Priority[old.source]

\* No two readers have one priority: the comparison of capacities never decides.
Better(new, old) ==
    \/ old = None
    \/ new.status.level # None /\ old.status.level = None
    \/ /\ (new.status.level = None) = (old.status.level = None)
       /\ Priority[new.source] > Priority[old.source]

Read(status) ==
    /\ readers # <<>>
    /\ LET new == [source |-> Head(readers), status |-> status]
       IN  /\ answers' = answers \cup {new}
           /\ IF Capacity(status) = None THEN UNCHANGED <<selected, any_charging>>
              ELSE /\ any_charging' = (any_charging \/ Charging(status))
                   /\ selected' = IF Better(new, selected) THEN new ELSE selected
    /\ readers' = Tail(readers) /\ UNCHANGED published

ReadFails ==
    /\ readers # <<>> /\ readers' = Tail(readers)
    /\ UNCHANGED <<answers, selected, any_charging, published>>

Publish ==
    /\ readers = <<>> /\ selected # None /\ published = None
    /\ published' = [capacity |-> Capacity(selected.status),
                     charging |-> \/ Charging(selected.status)
                                  \/ any_charging /\ selected.status.state # "Full"]
    /\ UNCHANGED <<readers, answers, selected, any_charging>>

Next ==
    \/ ReadFails
    \/ Publish
    \/ /\ readers # <<>>
       /\ \E status \in Answers(Head(readers)) : Read(status)

Spec == Init /\ [][Next]_vars

-----------------------------------------------------------------------------
\* Of the answers that tell a capacity, a reported one comes before a guess from
\* the state and then the richer feature before the poorer; "charging" is what
\* any of them says, unless the answer that is shown says the battery is full.
PublishesBest ==
    published # None =>
        LET known == {a \in answers : Capacity(a.status) # None}
            reported == {a \in known : a.status.level # None}
            pool == IF reported # {} THEN reported ELSE known
            best == CHOOSE a \in pool : \A b \in pool : Priority[a.source] >= Priority[b.source]
        IN  /\ published.capacity = Capacity(best.status)
            /\ published.charging = (best.status.state # "Full"
                                     /\ \E a \in known : Charging(a.status))
=============================================================================
