---------------------------- MODULE MCComponents ----------------------------
(***************************************************************************)
(* Instances of thirteen components that share no variable.  A behaviour is *)
(* one of a single component, its part; the others are Off.                *)
(***************************************************************************)
EXTENDS Gestures

CONSTANTS
    Off,                                        \* not a value of the program
    None, Unset, Failed,
    Candidates, NoDevice, PairSlots, BlockSize, MaxName, \* Pairing
    MaxPairCalls, MaxReports, MaxTimeouts,
    Profiles, FirstProfile, MinDPI, MaxDPI, StepDPI, Wants, Equipped, \* Settings
    MaxCalls, MaxFaults, MaxCycles,
    Voltages, Percents, LevelBits,              \* BatteryReading
    MaxTries, MaxDrops, MaxErrors,              \* Probing
    DeviceNames, MaxChanges, MaxKills,                \* ConfigStore
    Removers, IO, Handlers, MaxRuns,             \* EventHandlers
    RawObjects, RawNodes,                        \* RawDevices
    HostCount, MaxPresses                        \* Actions

VARIABLES
    part, bolt, names, state, event, tasks, call, last_state, calls, ready,
    receiver, target, reports, sent, raced, failed, timeouts, paired, slot,
    found, count, handed, have, resets, config, profile, ref, made, device,
    jobs, read, owner, due, spoiled, torn, budget, readers, answers,
    selected, any_charging, published, try, step, phase, awaited, response,
    asked, got, faults, file, memory, ignored, writing, acked, cut, spare,
    list, flagged, excl, io, pos, erasing, runs, added, removed, lost,
    listed, called,
    registered, enabled, kernel, down, keys, keying, job, busy, typed, undone,
    dropped, key_spare, touching, fingers, contacts, next, tracked, tools,
    touch, wishes, touch_pressed, gesture, ended, touch_spare, plugged, table,
    monitor, stage, node, fd, batch, reading, dying, given, unplugs, item,
    shorts, image, wanted, request, wire, inbox, result, message_spare,
    cmdline, argument, loglevel, config_file, main, status, thread, signals,
    requested, stop, server, signalled, signal_spare,
    button_config, active_profile, button_action, actions_made, button_held,
    button_known, action_tasks, here, place, ask, by, late, done, action_spare

Pair == INSTANCE Pairing WITH MaxCalls <- MaxPairCalls, Slots <- PairSlots
Setting == INSTANCE Settings WITH Default <- FirstProfile
Reading == INSTANCE BatteryReading
Probe == INSTANCE Probing
Store == INSTANCE ConfigStore WITH Names <- DeviceNames, Fail <- Failed
Handler == INSTANCE EventHandlers WITH
    Threads <- Removers, MaxReports <- MaxRuns, reports <- runs, raced <- lost, due <- listed
Keyboard == INSTANCE VirtualKeyboard WITH
    Common <- {"KEY_A", "KEY_B"}, Rare <- {"KEY_MACRO1", "REL_MISC"}, Unknown <- "KEY_NONE",
    Wheel <- "axis", Presses <- {"keypress"}, New <- "new keypress",
    MaxReports <- 4, MaxSets <- 2, MaxFailures <- 1,
    pressed <- keying, sent <- typed, spare <- key_spare
Touchpad == INSTANCE VirtualTouchpad WITH
    Buttons <- {"gesture button", "mode button"}, Wanted <- {1, 3, 4},
    MaxReports <- 6, MaxSets <- 1, active <- touching, config <- wishes,
    pressed <- touch_pressed, spare <- touch_spare
Raw == INSTANCE RawDevices WITH
    Objects <- RawObjects, Nodes <- RawNodes, MaxUnplugs <- 1,
    got <- given
Message == INSTANCE Messages WITH
    Words <- {1, 258, 40960}, Behind <- {0, 77}, MaxCalls <- 2, MaxEvents <- 1,
    call <- request, spare <- message_spare
Start == INSTANCE Startup WITH
    MaxOptions <- 2, MaxSignals <- 2, line <- cmdline, i <- argument,
    pending <- signals, asked <- signalled, spare <- signal_spare
Act == INSTANCE Actions WITH
    Count <- HostCount, MaxReports <- MaxPresses, MaxSets <- 1, MaxFailures <- 1,
    config <- button_config, active <- active_profile, action <- button_action,
    made <- actions_made, held <- button_held, known <- button_known,
    tasks <- action_tasks, at <- place, asked <- ask, spare <- action_spare

ASSUME ComponentsAssumption ==
    /\ Setting!SettingsAssumption /\ Handler!EventHandlersAssumption
    /\ Raw!RawDevicesAssumption /\ Reading!BatteryReadingAssumption
    /\ Pair!PairingAssumption /\ Touchpad!VirtualTouchpadAssumption
    /\ Act!ActionsAssumption

pairVars == <<bolt, names, state, event, tasks, call, last_state, calls,
    ready, receiver, target, reports, sent, raced, failed, timeouts, paired,
    slot, found, count, handed>>
settingVars == <<have, resets, config, profile, ref, made, device, jobs, read,
    owner, due, spoiled, torn, budget>>
readingVars == <<readers, answers, selected, any_charging, published>>
probeVars == <<try, step, phase, awaited, response, asked, got, faults>>
storeVars == <<file, memory, ignored, writing, acked, cut, spare>>
handlerVars == <<list, flagged, excl, io, pos, erasing, runs, added, removed,
    lost, listed, called>>
keyboardVars == <<registered, enabled, kernel, down, keys, keying, job, busy,
    typed, undone, dropped, key_spare>>
touchpadVars == <<touching, fingers, contacts, next, tracked, tools, touch,
    wishes, touch_pressed, gesture, ended, touch_spare>>
rawVars == <<plugged, table, monitor, stage, node, fd, batch, reading, dying,
    given, unplugs>>
messageVars == <<item, shorts, image, wanted, request, wire, inbox, result,
    message_spare>>
startVars == <<cmdline, argument, loglevel, config_file, main, status, thread,
    signals, requested, stop, server, signalled, signal_spare>>
actionVars == <<button_config, active_profile, button_action, actions_made,
    button_held, button_known, action_tasks, here, place, ask, by, late, done,
    action_spare>>

\* The variables of a part that is not explored.
GestureOff ==
    /\ host = Off /\ steps = Off /\ gs = Off /\ x = Off /\ y = Off
    /\ pressed = Off /\ last = Off /\ replaced = Off /\ run = Off
    /\ before = Off /\ held = Off /\ action = Off /\ movement = Off
    /\ pending = Off /\ active = Off /\ finger = Off /\ clicks = Off
PairOff ==
    /\ bolt = Off /\ names = Off /\ state = Off /\ event = Off
    /\ tasks = Off /\ call = Off /\ last_state = Off /\ calls = Off
    /\ ready = Off /\ receiver = Off /\ target = Off /\ reports = Off
    /\ sent = Off /\ raced = Off /\ failed = Off /\ timeouts = Off
    /\ paired = Off /\ slot = Off /\ found = Off /\ count = Off
    /\ handed = Off
SettingOff ==
    /\ have = Off /\ resets = Off /\ config = Off /\ profile = Off
    /\ ref = Off /\ made = Off /\ device = Off /\ jobs = Off /\ read = Off
    /\ owner = Off /\ due = Off /\ spoiled = Off /\ torn = Off
    /\ budget = Off
ReadingOff ==
    /\ readers = Off /\ answers = Off /\ selected = Off
    /\ any_charging = Off /\ published = Off
ProbeOff ==
    /\ try = Off /\ step = Off /\ phase = Off /\ awaited = Off
    /\ response = Off /\ asked = Off /\ got = Off /\ faults = Off
StoreOff ==
    /\ file = Off /\ memory = Off /\ ignored = Off /\ writing = Off
    /\ acked = Off /\ cut = Off /\ spare = Off
HandlerOff ==
    /\ list = Off /\ flagged = Off /\ excl = Off /\ io = Off /\ pos = Off
    /\ erasing = Off /\ runs = Off /\ added = Off /\ removed = Off
    /\ lost = Off /\ listed = Off /\ called = Off
KeyboardOff ==
    /\ registered = Off /\ enabled = Off /\ kernel = Off /\ down = Off
    /\ keys = Off /\ keying = Off /\ job = Off /\ busy = Off /\ typed = Off
    /\ undone = Off /\ dropped = Off /\ key_spare = Off
TouchpadOff ==
    /\ touching = Off /\ fingers = Off /\ contacts = Off /\ next = Off
    /\ tracked = Off /\ tools = Off /\ touch = Off /\ wishes = Off
    /\ touch_pressed = Off /\ gesture = Off /\ ended = Off
    /\ touch_spare = Off
RawOff ==
    /\ plugged = Off /\ table = Off /\ monitor = Off /\ stage = Off
    /\ node = Off /\ fd = Off /\ batch = Off /\ reading = Off /\ dying = Off
    /\ given = Off /\ unplugs = Off
MessageOff ==
    /\ item = Off /\ shorts = Off /\ image = Off /\ wanted = Off
    /\ request = Off /\ wire = Off /\ inbox = Off /\ result = Off
    /\ message_spare = Off
StartOff ==
    /\ cmdline = Off /\ argument = Off /\ loglevel = Off /\ config_file = Off
    /\ main = Off /\ status = Off /\ thread = Off /\ signals = Off
    /\ requested = Off /\ stop = Off /\ server = Off /\ signalled = Off
    /\ signal_spare = Off
ActionOff ==
    /\ button_config = Off /\ active_profile = Off /\ button_action = Off
    /\ actions_made = Off /\ button_held = Off /\ button_known = Off
    /\ action_tasks = Off /\ here = Off /\ place = Off /\ ask = Off
    /\ by = Off /\ late = Off /\ done = Off /\ action_spare = Off

MCInit ==
    /\ part \in {"gestures", "pairing", "settings", "reading", "probing", "configuration",
                "handlers", "keyboard", "touchpad", "raw devices", "messages", "startup",
                "actions"}
    /\ IF part = "gestures" THEN Init ELSE GestureOff
    /\ IF part = "pairing" THEN Pair!Init ELSE PairOff
    /\ IF part = "settings" THEN Setting!Init ELSE SettingOff
    /\ IF part = "reading" THEN Reading!Init ELSE ReadingOff
    /\ IF part = "probing" THEN Probe!Init ELSE ProbeOff
    /\ IF part = "configuration" THEN Store!Init ELSE StoreOff
    /\ IF part = "handlers" THEN Handler!Init ELSE HandlerOff
    /\ IF part = "keyboard" THEN Keyboard!Init ELSE KeyboardOff
    /\ IF part = "touchpad" THEN Touchpad!Init ELSE TouchpadOff
    /\ IF part = "raw devices" THEN Raw!Init ELSE RawOff
    /\ IF part = "messages" THEN Message!Init ELSE MessageOff
    /\ IF part = "startup" THEN Start!Init ELSE StartOff
    /\ IF part = "actions" THEN Act!Init ELSE ActionOff

\* The other parts stay as they are.
Rest(p) ==
    /\ part = p /\ UNCHANGED part
    /\ p # "gestures" => UNCHANGED vars
    /\ p # "pairing" => UNCHANGED pairVars
    /\ p # "settings" => UNCHANGED settingVars
    /\ p # "reading" => UNCHANGED readingVars
    /\ p # "probing" => UNCHANGED probeVars
    /\ p # "configuration" => UNCHANGED storeVars
    /\ p # "handlers" => UNCHANGED handlerVars
    /\ p # "keyboard" => UNCHANGED keyboardVars
    /\ p # "touchpad" => UNCHANGED touchpadVars
    /\ p # "raw devices" => UNCHANGED rawVars
    /\ p # "messages" => UNCHANGED messageVars
    /\ p # "startup" => UNCHANGED startVars
    /\ p # "actions" => UNCHANGED actionVars

MCNext ==
    \/ Rest("gestures") /\ Next
    \/ Rest("pairing") /\ Pair!Next
    \/ Rest("settings") /\ Setting!Next
    \/ Rest("reading") /\ Reading!Next
    \/ Rest("probing") /\ Probe!Next
    \/ Rest("configuration") /\ Store!Next
    \/ Rest("handlers") /\ Handler!Next
    \/ Rest("keyboard") /\ Keyboard!Next
    \/ Rest("touchpad") /\ Touchpad!Next
    \/ Rest("raw devices") /\ Raw!Next
    \/ Rest("messages") /\ Message!Next
    \/ Rest("startup") /\ Start!Next
    \/ Rest("actions") /\ Act!Next

allVars == <<part, vars, pairVars, settingVars, readingVars, probeVars,
    storeVars, handlerVars, keyboardVars, touchpadVars, rawVars, messageVars,
    startVars, actionVars>>

MCSpec == MCInit /\ [][MCNext]_allVars

-----------------------------------------------------------------------------
(* The properties of the parts; those of Gestures hold of the others, whose  *)
(* host is Off.                                                              *)

\* Once all is handled the pairing state is the receiver's (Pairing.tla).
StateIsTheReceivers == part = "pairing" => Pair!StateIsTheReceivers

\* PairReady names the device the receiver pairs with (Pairing.tla).
NamesTheTarget == part = "pairing" => Pair!NamesTheTarget

\* The search for paired devices leaves none out (Pairing.tla).
EveryPairedSlot == part = "pairing" => Pair!EveryPairedSlot

\* A device at rest has the settings of the active profile (Settings.tla).
SettingsApplied == part = "settings" => Setting!SettingsApplied

\* No feature refers to an erased profile (Settings.tla).
ProfilesAreAlive == part = "settings" => Setting!ProfilesAreAlive

\* The best answer of the battery features is published (BatteryReading.tla).
PublishesBest == part = "reading" => Reading!PublishesBest

\* A device that is ready was not named by late replies (Probing.tla).
AnswersAreOwn == part = "probing" => Probe!AnswersAreOwn

\* The next start reads what the last Save wrote (ConfigStore.tla).
SavedIsRead == part = "configuration" => Store!SavedIsRead

\* The list of event handlers loses nothing but what meets a cleanup, and no
\* iterator (EventHandlers.tla).
ListIsExact == part = "handlers" => Handler!ListIsExact

\* A report reaches every handler in the list (EventHandlers.tla).
EveryHandlerCalled == Handler!EveryHandlerCalled

\* What the kernel is told by the virtual devices: no event is lost for want of a
\* declared code, no key stays down, and a touchpad gesture is well formed
\* (VirtualKeyboard.tla, VirtualTouchpad.tla).
KernelAgrees ==
    /\ part = "keyboard" => Keyboard!KernelAgrees
    /\ part = "touchpad" => Touchpad!TouchpadAgrees

\* A descriptor belongs to one object, whose reports alone it gets
\* (RawDevices.tla).
DescriptorsAreOwn == part = "raw devices" => Raw!DescriptorsAreOwn

\* Every report is taken for what it is (Messages.tla).
ReadBack == part = "messages" => Message!ReadBack

\* logid is set up as its options say and ends for a signal from outside alone,
\* its signal thread before it (Startup.tla).
EndsAsAsked == part = "startup" => Start!EndsAsAsked

\* A press or a release has what it asks for done once, as it was set then, and
\* nothing is done for an action that was replaced before (Actions.tla).
ActsAsAsked == part = "actions" => Act!ActsAsAsked
=============================================================================
