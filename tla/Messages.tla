------------------------------ MODULE Messages ------------------------------
(***************************************************************************)
(* What the bytes of reports say: how calls of features (HID++ 2.0) and of *)
(* registers (1.0) are put into reports, and replies, errors and events    *)
(* are taken out of them (backend/hidpp/Report.cpp, hidpp20/features/*.cpp,*)
(* hidpp10/Receiver.cpp).                                                  *)
(*                                                                         *)
(* One call is under way at a time, of one item: a setting that is written *)
(* and read, or a fact that is only read.  The device keeps the bytes of a *)
(* setting as they came and hands them out again, so that what is read can *)
(* be compared with what was asked for.  It sends events in between.  Who  *)
(* a late or lost reply is taken for is in Transactions.tla.               *)
(***************************************************************************)
EXTENDS Integers, FiniteSetsExt, SequencesExt

CONSTANTS
    Words,          \* 16-bit values that are tried
    Behind,         \* the bytes that may lie behind a report in memory
    None, Unset,
    MaxCalls, MaxEvents

VARIABLES
    item,           \* what the calls are about
    shorts,         \* supported_reports has ShortReportSupported
    image,          \* the bytes the device keeps for the item
    wanted,         \* what the calls that succeeded ask of it (history)
    call,           \* the call under way: its request, and what it sets
    wire,           \* the request the device has not answered
    inbox,          \* reports not yet handled, with what they mean (history)
    result,         \* what the last report was taken for, and what it meant
    spare

vars == <<item, shorts, image, wanted, call, wire, inbox, result, spare>>

Hi(w) == w \div 256
Lo(w) == w % 256
Word(h, l) == 256 * h + l
Signed(w) == IF w < 32768 THEN w ELSE w - 65536
Unsigned(n) == n % 65536
Bit(b, k) == (b \div 2^k) % 2 = 1
Flag(b, k) == IF b THEN 2^k ELSE 0

-----------------------------------------------------------------------------
(* Reports *)

ShortParamLength == 3
LongParamLength == 16
softwareID == 2
noAckSoftwareID == 3

Padded(p, n) == [i \in 1..n |-> IF i \in DOMAIN p THEN p[i] ELSE 0]
Report(length, sub, addr, p) == [sub |-> sub, addr |-> addr, params |-> Padded(p, length)]
IsShort(r) == Len(r.params) = ShortParamLength

FunctionReport(feature, function, p) ==
    Report(IF Len(p) <= ShortParamLength THEN ShortParamLength ELSE LongParamLength,
           feature, 16 * function + softwareID, p)

\* setRegister() of a long register is long, getRegister() is not.
RegisterReport(sub, address, p) ==
    Report(IF Len(p) <= ShortParamLength /\ sub # 130 THEN ShortParamLength ELSE LongParamLength,
           sub, address, p)

\* sendReportNoACK()
NoAck(r) == [r EXCEPT !.addr = 16 * (@ \div 16) + noAckSoftwareID]

\* reportFixup()
Fixup(r) == IF IsShort(r) /\ ~shorts THEN [r EXCEPT !.params = Padded(@, LongParamLength)] ELSE r

IsError10(r) == IsShort(r) /\ r.sub = 143
IsError20(r) == ~IsShort(r) /\ r.sub = 255
IsError(r) == IsError10(r) \/ IsError20(r)

\* What responseReport() compares with the request: a feature or sub id and a
\* function or address, which an error names one byte further on.
Key(r) == IF IsError(r) THEN <<r.addr, r.params[1]>> ELSE <<r.sub, r.addr>>
ErrorCode(r) == r.params[2]

-----------------------------------------------------------------------------
(* HID++ 2.0 features *)

SetSensorDPI(dpi) == <<0, Hi(dpi), Lo(dpi)>>
SensorDPI(p) == [dpi |-> Word(p[2], p[3])]
DefaultSensorDPI(p) == [default |-> Word(p[4], p[5])]

\* getSensorDPIList: an eighth entry would be half in the byte behind the report.
SensorDPIList(p, behind) ==
    LET q == Append(p, behind)
        entry == [k \in 1..8 |-> Word(q[2*k], q[2*k + 1])]
        read == SelectInSeq(Append(entry, 0), LAMBDA w : w = 0) - 1
        list == SubSeq(entry, 1, read)
        steps == SelectSeq(list, LAMBDA w : w >= 57344)
    IN  [dpis |-> SelectSeq(list, LAMBDA w : w < 57344),
         isRange |-> steps # <<>>,
         dpiStep |-> IF steps = <<>> THEN 0 ELSE Last(steps) - 57344]

\* A byte 0 leaves the setting as it is.
Leaves(v) == IF v = Unset THEN 0 ELSE v
Active(s) == IF s.active = Unset THEN 0 ELSE Flag(s.active, 0) + 1
SetStatus(s) == <<Active(s), Leaves(s.autoDisengage), 0>>
SetStatusV2(s) == <<Active(s), Leaves(s.autoDisengage), Leaves(s.torque)>>
Status(p) == [active |-> p[1] # 1, autoDisengage |-> p[2], torque |-> 0]
StatusV2(p) == [active |-> p[1] # 1, autoDisengage |-> p[2], torque |-> p[3]]

SetReporting(s) == <<Flag(s.diverted, 0), Flag(s.inverted, 0)>>
ThumbStatus(p) == [diverted |-> p[1] # 0, inverted |-> Bit(p[2], 0)]
ThumbInfo(p) ==
    [nativeRes |-> Word(p[1], p[2]), divertedRes |-> Word(p[3], p[4]),
     defaultDirection |-> IF p[5] # 0 THEN 1 ELSE -1,
     capabilities |-> p[6], timeElapsed |-> Word(p[7], p[8])]
ThumbEvent(p) == [rotation |-> Signed(Word(p[1], p[2])), timestamp |-> Word(p[3], p[4]),
                  status |-> p[5], flags |-> p[6]]

SetMode(mode) == <<mode>>
Mode(p) == p[1]
Capabilities(p) == [multiplier |-> p[1], flags |-> p[2]]
WheelMovement(p) == [hiRes |-> Bit(p[1], 4), periods |-> p[1] % 16,
                     deltaV |-> Signed(Word(p[2], p[3]))]

ResetTo(profile) == <<Hi(profile), Lo(profile)>>
Profile(p) == Word(p[1], p[2])

ControlID == 196
ControlInfo(p) == [controlID |-> Word(p[1], p[2]), taskID |-> Word(p[3], p[4]), flags |-> p[5],
                   position |-> p[6], group |-> p[7], groupMask |-> p[8], additional |-> p[9]]
\* With hidpp20_reprog_rebind: both diversions are changed.
SetControlReporting(c) ==
    <<Hi(ControlID), Lo(ControlID), 2 + 32 + Flag(c.diverted, 0) + Flag(c.rawXY, 4),
      Hi(ControlID), Lo(ControlID)>>
ControlReporting(p) == [diverted |-> Bit(p[3], 0), rawXY |-> Bit(p[3], 4)]
DivertedButtons(p) ==
    LET cids == [k \in 1 .. Len(p) \div 2 |-> Word(p[2*k - 1], p[2*k])]
    IN  ToSet(SubSeq(cids, 1, SelectInSeq(Append(cids, 0), LAMBDA w : w = 0) - 1))
DivertedRawXY(p) == [x |-> Signed(Word(p[1], p[2])), y |-> Signed(Word(p[3], p[4]))]

FeatureID(p) == Word(p[1], p[2])

SetHost(host) == <<host>>
HostInfo(p) == [hosts |-> p[1], host |-> p[2]]

-----------------------------------------------------------------------------
(* Registers of a receiver *)

SetNotifications(n) == <<Flag(n.battery, 4), Flag(n.wireless, 0) + Flag(n.software, 3), 0>>
NotificationFlags(p) == [battery |-> Bit(p[1], 4), wireless |-> Bit(p[2], 0), software |-> Bit(p[2], 3)]
DeviceCount(p) == p[2]
PairingInfo(p) == [destinationId |-> p[2], reportInterval |-> p[3],
                   pid |-> Word(p[4], p[5]), type |-> p[8]]
BoltPairingInfo(p) == [destinationId |-> 0, reportInterval |-> 0, pid |-> Word(p[4], p[3]), type |-> p[2]]
ExtendedInfo(p, serial, report, psl) ==
    [serial |-> [i \in 1..4 |-> p[i + serial]], reportTypes |-> [i \in 1..4 |-> p[i + report]],
     location |-> IF p[psl + 1] % 16 > 12 THEN 0 ELSE p[psl + 1] % 16]
DeviceName(p) == SubSeq(p, 3, IF p[2] + 2 <= Len(p) THEN p[2] + 2 ELSE Len(p))
ConnectionEvent(p) ==
    [type |-> p[1] % 16, softwarePresent |-> Bit(p[1], 4), encrypted |-> Bit(p[1], 5),
     linkEstablished |-> ~Bit(p[1], 6), withPayload |-> Bit(p[1], 7), pid |-> Word(p[3], p[2])]

-----------------------------------------------------------------------------
(* The items: the feature index or register they are at, the functions (or   *)
(* sub ids) that read and write them, and what a read sends along.           *)

Function(feature, get, set) == [feature |-> feature, get |-> get, set |-> set, asks |-> <<>>]
Register(address, get, set, asks) == [address |-> address, get |-> get, set |-> set, asks |-> asks]

At == [
    dpis |-> Function(1, 1, None), dpi |-> Function(1, 2, 3), default |-> Function(1, 2, None),
    smartshift |-> Function(2, 0, 1), smartshiftV2 |-> Function(2, 1, 2),
    thumbinfo |-> Function(3, 0, None), thumbwheel |-> Function(3, 1, 2),
    capabilities |-> Function(4, 0, None), mode |-> Function(4, 1, 2),
    profile |-> Function(5, 0, 1), host |-> Function(6, 0, 1),
    controlinfo |-> Function(7, 1, None),
    reporting |-> [Function(7, 2, 3) EXCEPT !.asks = <<Hi(ControlID), Lo(ControlID)>>],
    feature |-> Function(8, 1, None),
    notifications |-> Register(0, 129, 128, <<>>), count |-> Register(2, 129, None, <<>>),
    pairing |-> Register(181, 131, None, <<32>>), boltpairing |-> Register(181, 131, None, <<81>>),
    extended |-> Register(181, 131, None, <<48>>), boltextended |-> Register(181, 131, None, <<81>>),
    name |-> Register(181, 131, None, <<64>>)]
Items == DOMAIN At
IsSetting(i) == At[i].set # None
Request(i, operation, p) ==
    IF "feature" \in DOMAIN At[i] THEN FunctionReport(At[i].feature, operation, p)
    ELSE RegisterReport(operation, At[i].address, p)

\* What a call writes, and what it reads.
Encode(i, v) ==
    CASE i = "dpi" -> SetSensorDPI(v.dpi) [] i = "mode" -> SetMode(v)
      [] i = "smartshift" -> SetStatus(v) [] i = "smartshiftV2" -> SetStatusV2(v)
      [] i = "thumbwheel" -> SetReporting(v) [] i = "reporting" -> SetControlReporting(v)
      [] i = "profile" -> ResetTo(v) [] i = "host" -> SetHost(v.host)
      [] i = "notifications" -> SetNotifications(v)
Decode(i, p, behind) ==
    CASE i = "dpis" -> SensorDPIList(p, behind) [] i = "dpi" -> SensorDPI(p)
      [] i = "default" -> DefaultSensorDPI(p) [] i = "mode" -> Mode(p)
      [] i = "smartshift" -> Status(p) [] i = "smartshiftV2" -> StatusV2(p)
      [] i = "thumbinfo" -> ThumbInfo(p) [] i = "thumbwheel" -> ThumbStatus(p)
      [] i = "capabilities" -> Capabilities(p) [] i = "profile" -> Profile(p)
      [] i = "host" -> HostInfo(p) [] i = "controlinfo" -> ControlInfo(p)
      [] i = "reporting" -> ControlReporting(p) [] i = "feature" -> FeatureID(p)
      [] i = "notifications" -> NotificationFlags(p) [] i = "count" -> DeviceCount(p)
      [] i = "pairing" -> PairingInfo(p) [] i = "boltpairing" -> BoltPairingInfo(p)
      [] i = "extended" -> ExtendedInfo(p, 1, 5, 8) [] i = "boltextended" -> ExtendedInfo(p, 4, 8, 12)
      [] i = "name" -> DeviceName(p)
      [] i = "wheel" -> WheelMovement(p) [] i = "thumb" -> ThumbEvent(p)
      [] i = "buttons" -> DivertedButtons(p) [] i = "rawxy" -> DivertedRawXY(p)
      [] i = "connection" -> ConnectionEvent(p) [] i = "nothing" -> 0

\* The handlers the features and the receiver monitor register.
EventOf(r) ==
    LET function == r.addr \div 16
    IN  CASE r.sub = 3 /\ function = 0 -> "thumb" [] r.sub = 4 /\ function = 0 -> "wheel"
          [] r.sub = 7 /\ function = 0 -> "buttons" [] r.sub = 7 /\ function = 1 -> "rawxy"
          [] r.sub = 65 -> "connection" [] OTHER -> "nothing"

-----------------------------------------------------------------------------
(* The device.  What values an item may have, and the bytes it sends of them *)

Bytes == {0, 1, 255}
Values(i) ==
    CASE i \in {"mode", "count"} -> Bytes
      [] i \in {"profile", "feature"} -> Words
      [] i = "dpi" -> [dpi : Words]
      [] i = "default" -> [default : Words]
      [] i = "dpis" -> {[dpis |-> [k \in 1..n |-> 400 * k], isRange |-> FALSE, dpiStep |-> 0] : n \in {1, 6, 7}}
                       \cup {[dpis |-> <<200, 8000>>, isRange |-> TRUE, dpiStep |-> 50]}
      [] i = "smartshift" -> [active : {TRUE, FALSE, Unset}, autoDisengage : {Unset, 0, 255}, torque : {Unset}]
      [] i = "smartshiftV2" -> [active : {TRUE, FALSE, Unset}, autoDisengage : {Unset, 0, 255}, torque : {Unset, 1, 100}]
      [] i = "thumbwheel" -> [diverted : BOOLEAN, inverted : BOOLEAN]
      [] i = "thumbinfo" -> [nativeRes : Words, divertedRes : {258}, defaultDirection : {1, -1},
                             capabilities : {7}, timeElapsed : Words]
      [] i = "capabilities" -> [multiplier : Bytes, flags : Bytes]
      [] i = "host" -> [hosts : {3}, host : 0..2]
      [] i = "controlinfo" -> [controlID : Words, taskID : Words, flags : {49}, position : {3},
                               group : {2}, groupMask : {7}, additional : Bytes]
      [] i = "reporting" -> [diverted : BOOLEAN, rawXY : BOOLEAN]
      [] i = "notifications" -> [battery : BOOLEAN, wireless : BOOLEAN, software : BOOLEAN]
      [] i = "pairing" -> [destinationId : {4}, reportInterval : {8}, pid : Words, type : {2}]
      [] i = "boltpairing" -> [destinationId : {0}, reportInterval : {0}, pid : Words, type : {2}]
      [] i = "boltextended" ->
            [serial : {<<1, 2, 3, 255>>}, reportTypes : {<<5, 6, 7, 8>>}, location : {0, 1, 12}]
      [] i = "extended" ->      \* the location is where the last report type is
            {[serial |-> <<1, 2, 3, 255>>, reportTypes |-> <<5, 6, 7, l>>, location |-> l] : l \in {0, 1, 12}}
      [] i = "name" -> {<<77>>, [k \in 1..14 |-> 64 + k]}
      [] i = "wheel" -> [hiRes : BOOLEAN, periods : {15}, deltaV : {-32768, 256}]
      [] i = "thumb" -> [rotation : {-1, 32767}, timestamp : {513}, status : {2}, flags : {1}]
      [] i = "buttons" -> {{}, {80, 195, 65535}, 1..8}
      [] i = "rawxy" -> [x : {-1, 300}, y : {-32768}]
      [] i = "connection" -> [type : {2}, softwarePresent : {FALSE}, encrypted : {TRUE},
                              linkEstablished : BOOLEAN, withPayload : {TRUE}, pid : {45096}]
      [] i = "nothing" -> {0}

W(w) == <<Hi(w), Lo(w)>>
Entries(v) == IF v.isRange THEN <<v.dpis[1], 57344 + v.dpiStep, v.dpis[2]>> ELSE v.dpis
Flat(words) == FoldLeft(LAMBDA s, w : s \o W(w), <<>>, words)
Psl(v) == IF v.location = 0 THEN 13 ELSE v.location + 16
Image(i, v) ==
    CASE i \in {"mode"} -> <<v>>
      [] i = "count" -> <<0, v>>
      [] i \in {"profile", "feature"} -> W(v)
      [] i = "dpi" -> <<0>> \o W(v.dpi) \o W(1000)
      [] i = "default" -> <<0>> \o W(1000) \o W(v.default)
      [] i = "dpis" -> <<0>> \o Flat(Entries(v))
      [] i \in {"smartshift", "smartshiftV2"} -> <<1, 9, 50>>
      [] i = "thumbwheel" -> <<Flag(v.diverted, 0), Flag(v.inverted, 0) + 6>>
      [] i = "thumbinfo" -> W(v.nativeRes) \o W(v.divertedRes)
             \o <<IF v.defaultDirection = 1 THEN 1 ELSE 0, v.capabilities>> \o W(v.timeElapsed)
      [] i = "capabilities" -> <<v.multiplier, v.flags>>
      [] i = "host" -> <<v.hosts, v.host>>
      [] i = "controlinfo" -> W(v.controlID) \o W(v.taskID)
             \o <<v.flags, v.position, v.group, v.groupMask, v.additional>>
      [] i = "reporting" -> W(ControlID) \o <<Flag(v.diverted, 0) + Flag(v.rawXY, 4)>> \o W(0)
      [] i = "notifications" -> <<Flag(v.battery, 4), Flag(v.wireless, 0) + Flag(v.software, 3), 0>>
      [] i = "pairing" -> <<32, v.destinationId, v.reportInterval>> \o W(v.pid) \o <<0, 0, v.type>>
      [] i = "boltpairing" -> <<81, v.type, Lo(v.pid), Hi(v.pid)>>
      [] i = "extended" -> <<48>> \o v.serial \o v.reportTypes
      [] i = "boltextended" -> <<81, 0, 0, 0>> \o v.serial \o v.reportTypes \o <<Psl(v)>>
      [] i = "name" -> <<64, Len(v)>> \o v
      [] i = "wheel" -> <<Flag(v.hiRes, 4) + v.periods>> \o W(Unsigned(v.deltaV))
      [] i = "thumb" -> W(Unsigned(v.rotation)) \o W(v.timestamp) \o <<v.status, v.flags>>
      [] i = "buttons" -> FoldSet(LAMBDA w, s : s \o W(w), <<>>, v)
      [] i = "rawxy" -> W(Unsigned(v.x)) \o W(Unsigned(v.y))
      [] i = "connection" -> <<v.type + Flag(v.softwarePresent, 4) + Flag(v.encrypted, 5)
              + Flag(~v.linkEstablished, 6) + Flag(v.withPayload, 7), Lo(v.pid), Hi(v.pid)>>

\* A flag is changed if the flag behind it is set.
Changed(new, old, k) == IF Bit(new, k + 1) THEN Bit(new, k) ELSE Bit(old, k)

\* What it keeps of a request that writes setting i.
Kept(i, old, p) ==
    CASE i \in {"smartshift", "smartshiftV2"} ->
            [k \in 1..3 |-> IF p[k] = 0 THEN old[k] ELSE p[k]]
      [] i = "dpi" -> [old EXCEPT ![2] = p[2], ![3] = p[3]]
      [] i = "thumbwheel" -> <<p[1], 2 * (old[2] \div 2) + p[2]>>
      [] i = "host" -> <<old[1], p[1]>>
      [] i = "reporting" ->
            [SubSeq(p, 1, 5) EXCEPT ![3] = Flag(Changed(@, old[3], 0), 0) + Flag(Changed(@, old[3], 4), 4)]
      [] OTHER -> SubSeq(p, 1, Len(old))

\* What a call that sets v asks for, given what was asked for before.
Asked(old, v) ==
    [x \in DOMAIN old |-> IF v[x] = Unset \/ (x # "active" /\ v[x] = 0) THEN old[x] ELSE v[x]]
After(i, old, v) == IF i \in {"smartshift", "smartshiftV2"} THEN Asked(old, v) ELSE v

Means(what, v) == [is |-> what, value |-> v]
NoResult == Means("nothing", 0)

Init ==
    /\ item \in Items /\ shorts \in BOOLEAN
    /\ \E v \in Values(item) :
          /\ image = Image(item, v)
          /\ wanted = CASE item = "smartshift" -> [active |-> FALSE, autoDisengage |-> 9, torque |-> 0]
                        [] item = "smartshiftV2" -> [active |-> FALSE, autoDisengage |-> 9, torque |-> 50]
                        [] OTHER -> v
    /\ call = None /\ wire = None /\ inbox = <<>>
    /\ result = [got |-> NoResult, meant |-> NoResult]
    /\ spare = [calls |-> IF IsSetting(item) THEN MaxCalls ELSE 1, events |-> MaxEvents]

Use(what) == spare[what] > 0 /\ spare' = [spare EXCEPT ![what] = @ - 1]

Get ==
    /\ call = None /\ wire = None /\ Use("calls")
    /\ LET r == Request(item, At[item].get, At[item].asks)
       IN  call' = [request |-> r, sets |-> None] /\ wire' = [report |-> Fixup(r), sets |-> None]
    /\ UNCHANGED <<item, shorts, image, wanted, inbox, result>>

\* ChangeHost::setHost() does not wait for the reply.
Set(v) ==
    /\ call = None /\ wire = None /\ IsSetting(item) /\ Use("calls")
    /\ LET r == Request(item, At[item].set, Encode(item, v))
       IN  IF item = "host" THEN wire' = [report |-> Fixup(NoAck(r)), sets |-> v] /\ UNCHANGED call
           ELSE call' = [request |-> r, sets |-> v] /\ wire' = [report |-> Fixup(r), sets |-> v]
    /\ UNCHANGED <<item, shorts, image, wanted, inbox, result>>

Send(r, means) == inbox' = Append(inbox, [report |-> r, means |-> means])
Replies(p) ==
    Report(IF "feature" \in DOMAIN At[item] \/ wire.report.sub = 131 THEN LongParamLength ELSE ShortParamLength,
           wire.report.sub, wire.report.addr, p)

Obeys ==
    /\ wire # None /\ wire' = None
    /\ IF wire.sets = None
       THEN Send(Replies(image), Means(item, wanted)) /\ UNCHANGED <<image, wanted>>
       ELSE /\ image' = Kept(item, image, wire.report.params)
            /\ wanted' = After(item, wanted, wire.sets)
            /\ Send(Replies(<<>>), IF call = None THEN NoResult ELSE Means("done", 0))
    /\ UNCHANGED <<item, shorts, call, result, spare>>

\* An error report names the request and a code.
Refuses ==
    /\ wire # None /\ wire' = None
    /\ LET p == <<wire.report.addr, 5>>
       IN  Send(IF "feature" \in DOMAIN At[item]
                THEN Report(LongParamLength, 255, wire.report.sub, p)
                ELSE Report(ShortParamLength, 143, wire.report.sub, p),
                IF call = None THEN NoResult ELSE Means("error", 5))
    /\ UNCHANGED <<item, shorts, image, wanted, call, result, spare>>

\* An event: its function has software id 0.
Tells(e, v) ==
    /\ Use("events")
    /\ Send(Report(IF e = "connection" THEN ShortParamLength ELSE LongParamLength,
                   [wheel |-> 4, thumb |-> 3, buttons |-> 7, rawxy |-> 7, connection |-> 65][e],
                   IF e = "rawxy" THEN 16 ELSE 0, Image(e, v)), Means(e, v))
    /\ UNCHANGED <<item, shorts, image, wanted, call, wire, result>>

\* A mutant of IsReply: the function and the software id are not compared.
AnyFunction(r) == call # None /\ Key(r)[1] = call.request.sub
\* A register's address is not compared (hidpp10/Device.cpp 94-110).
IsReply(r) ==
    /\ call # None
    /\ Key(r)[1] = call.request.sub
    /\ "feature" \in DOMAIN At[item] => Key(r)[2] = call.request.addr

\* responseReport(), or run_all(): what a report is taken for.
Receive ==
    /\ inbox # <<>> /\ inbox' = Tail(inbox)
    /\ LET r == Head(inbox).report
       IN  \E behind \in Behind :
           /\ result' = [meant |-> Head(inbox).means,
                         got |-> IF ~IsReply(r) THEN Means(EventOf(r), Decode(EventOf(r), r.params, behind))
                                 ELSE IF IsError(r) THEN Means("error", ErrorCode(r))
                                 ELSE IF call.sets # None THEN Means("done", 0)
                                 ELSE Means(item, Decode(item, r.params, behind))]
           /\ call' = IF IsReply(r) THEN None ELSE call
    /\ UNCHANGED <<item, shorts, image, wanted, wire, spare>>

Events == {"wheel", "thumb", "buttons", "rawxy", "connection"}

Next ==
    \/ Get \/ Obeys \/ Refuses \/ Receive
    \/ IsSetting(item) /\ \E v \in Values(item) : Set(v)
    \/ \E e \in Events : \E v \in Values(e) : Tells(e, v)

Spec == Init /\ [][Next]_vars

-----------------------------------------------------------------------------
\* Every report is taken for what it is: a read returns what the calls before it
\* asked for (a field that was left out keeps its value), an error is that of its own
\* request, and an event tells what the device told, also while a call waits.  Only
\* a list of seven DPIs may end with one the sensor does not have: the low byte of an
\* eighth is read from behind the reply.
ReadBack ==
    LET got == result.got  meant == result.meant
    IN  /\ got.is = meant.is
        /\ \/ got.value = meant.value
           \/ /\ meant.is = "dpis" /\ Len(meant.value.dpis) = 7
              /\ SubSeq(got.value.dpis, 1, 7) = meant.value.dpis
=============================================================================
