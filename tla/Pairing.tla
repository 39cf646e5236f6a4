------------------------------- MODULE Pairing -------------------------------
(***************************************************************************)
(* Pairing with a receiver, and finding out what is paired:                *)
(* backend/hidpp10/ReceiverMonitor.cpp and backend/hidpp10/Receiver.cpp.   *)
(*                                                                         *)
(* StartPair and StopPair are D-Bus calls of one thread, which change      *)
(* _pair_state and then send a request.  The receiver's events are handled *)
(* on the I/O thread, in order, and a worker starts the pairing with a     *)
(* Bolt device when its name has been put together.                        *)
(***************************************************************************)
EXTENDS Naturals, Sequences, FiniteSets

CONSTANTS
    Candidates,     \* devices that can be discovered
    NoDevice,
    Slots,          \* WirelessDevice1 .. WirelessDevice6
    BlockSize,      \* characters of a name in one report (13 in the code)
    MaxName,        \* bound of the model on the length of a name
    MaxCalls,       \* bound of the model on D-Bus calls
    MaxReports,     \* bound of the model on discoveries
    MaxTimeouts     \* bound of the model on requests that time out

PairingAssumption ==
    /\ IsFiniteSet(Slots) /\ Slots = 1 .. Cardinality(Slots)
    /\ BlockSize \in Nat \ {0} /\ MaxName \in Nat

VARIABLES
    bolt,           \* _is_bolt
    names,          \* the length of the name of each device
    state,          \* _pair_state
    event,          \* _discovery_event
    tasks,          \* queued calls of startBoltPairing(): their events
    call, last_state,   \* the D-Bus call under way; last_state of _stopPair()
    calls, timeouts,
    receiver,       \* what the receiver does
    target,         \* the device it pairs with
    reports, sent,  \* its reports that are not handled; discoveries so far
    ready,          \* the event of the last PairReady signal, or its reset value
    raced,          \* a queued start or a status overtook a call (history)
    failed,         \* a request timed out (history)
    paired,         \* slots that hold a device
    slot, found, count, handed      \* _enumeratePairedDevices()

fixed == <<bolt, names>>
pairing == <<state, event, tasks, call, last_state, calls, ready>>
hardware == <<receiver, target, reports, sent>>
history == <<raced, failed>>
slots == <<paired, slot, found, count, handed>>
vars == <<fixed, pairing, hardware, history, timeouts, slots>>

NoEvent == [device |-> NoDevice, seq |-> 0, length |-> 0, parts |-> {}]

Init ==
    /\ bolt \in BOOLEAN
    /\ names \in [Candidates -> 1..MaxName]
    /\ state = "NotPairing" /\ event = NoEvent /\ tasks = {}
    /\ call = "none" /\ last_state = "NotPairing" /\ timeouts = 0
    /\ receiver = "idle" /\ target = NoDevice /\ reports = <<>> /\ sent = 0
    /\ ready = NoEvent /\ raced = FALSE /\ failed = FALSE
    /\ found = 0 /\ count = 0 /\ handed = {}
       \* The search shares nothing with pairing, and is explored without it.
    /\ \/ paired \in SUBSET Slots /\ slot = 0 /\ calls = MaxCalls
       \/ paired = {} /\ slot = Cardinality(Slots) + 1 /\ calls = 0

(***************************************************************************)
(* The receiver.                                                           *)
(***************************************************************************)
Tell(report) == reports' = Append(reports, report)

\* A device is discovered: its type, address and the length of its name, and
\* then, in blocks, the name.
Discovered ==
    /\ receiver = "discovering" /\ sent < MaxReports /\ sent' = sent + 1
    /\ \E d \in Candidates :
          reports' = reports \o
              [p \in 1..(1 + (names[d] + BlockSize - 1) \div BlockSize) |->
                  [type |-> "discovered", device |-> d, seq |-> sent + 1,
                   part |-> p - 1, length |-> names[d]]]
    /\ UNCHANGED <<fixed, pairing, receiver, target, history, timeouts, slots>>

\* It asks for the passkey, or what it does ends.
AsksPasskey ==
    /\ receiver = "pairing" /\ bolt /\ receiver' = "passkey"
    /\ Tell([type |-> "passkey"])
    /\ UNCHANGED <<fixed, pairing, target, sent, history, timeouts, slots>>

Ended == [type |-> IF receiver = "discovering" THEN "discoverEnded" ELSE "pairEnded"]

Ends ==
    /\ receiver # "idle" /\ receiver' = "idle" /\ target' = NoDevice /\ Tell(Ended)
    /\ UNCHANGED <<fixed, pairing, sent, history, timeouts, slots>>

\* A request: the receiver obeys it, or it is lost and the call throws.
Request(does, device) ==
    \/ /\ receiver' = does /\ target' = device
       /\ IF does = "idle" /\ receiver # "idle" THEN Tell(Ended) ELSE UNCHANGED reports
       /\ UNCHANGED <<failed, timeouts>>
    \/ /\ timeouts < MaxTimeouts /\ timeouts' = timeouts + 1 /\ failed' = TRUE
       /\ UNCHANGED <<receiver, target, reports>>

(***************************************************************************)
(* _startPair() and _stopPair().                                           *)
(***************************************************************************)
StartPair ==
    /\ call = "none" /\ calls < MaxCalls /\ calls' = calls + 1 /\ call' = "start"
    /\ state' = IF bolt THEN "Discovering" ELSE "Pairing"
    /\ event' = NoEvent
    /\ UNCHANGED <<fixed, tasks, last_state, ready, hardware, history, timeouts, slots>>

StopPair ==
    /\ call = "none" /\ calls < MaxCalls /\ calls' = calls + 1 /\ call' = "stop"
    /\ last_state' = state /\ state' = "NotPairing"
    /\ UNCHANGED <<fixed, event, tasks, ready, hardware, history, timeouts, slots>>

\* startDiscover(), startPairing(), stopDiscover() or stopPairing().
SendCall ==
    /\ call # "none" /\ call' = "none"
    /\ IF call = "start"
       THEN Request(IF bolt THEN "discovering" ELSE "pairing", NoDevice)
       ELSE IF last_state = "NotPairing"
            THEN UNCHANGED <<receiver, target, reports, failed, timeouts>>
            ELSE Request("idle", NoDevice)
    /\ UNCHANGED <<fixed, state, event, tasks, last_state, calls, ready, sent, raced, slots>>

(***************************************************************************)
(* The handlers of the receiver's events, under _pair_mutex.               *)
(***************************************************************************)

\* fillDeviceDiscoveryEvent(): a block of another sequence is ignored.
Fill(e, r) ==
    IF r.part = 0 THEN [device |-> r.device, seq |-> r.seq, length |-> 0, parts |-> {}]
    ELSE IF e.seq # r.seq THEN e
    ELSE [e EXCEPT !.length = IF r.part = 1 THEN r.length ELSE @,
                   !.parts = @ \cup {r.part}]

\* The name is complete when a block reaches beyond its end.
Filled(e, r) == r.part > 0 /\ e.seq = r.seq /\ r.part * BlockSize > Fill(e, r).length

FillsAlways(r) == r.type = "discovered"                      \* a mutant
Fills(r) == r.type = "discovered" /\ state = "Discovering"

EndsNever(r) == FALSE                                        \* a mutant
EndsPairing(r) ==
    \/ r.type = "discoverEnded" /\ state = "Discovering"
    \/ r.type = "pairEnded" /\ state \in {"FindingPasskey", "Pairing"}

Handle ==
    /\ reports # <<>> /\ reports' = Tail(reports)
    /\ LET r == Head(reports) IN
       \/ /\ Fills(r) /\ event' = Fill(event, r)
          /\ IF Filled(event, r)
             THEN /\ state' = "FindingPasskey" /\ tasks' = tasks \cup {event'}
                  /\ raced' = (raced \/ call # "none")
             ELSE UNCHANGED <<state, tasks, raced>>
          /\ UNCHANGED ready
       \/ /\ r.type = "passkey" /\ state = "FindingPasskey"
          /\ state' = "Pairing" /\ ready' = event
          /\ UNCHANGED <<event, tasks, raced>>
       \/ /\ EndsPairing(r) /\ state' = "NotPairing"
          /\ raced' = (raced \/ receiver # "idle" \/ call # "none")
          /\ UNCHANGED <<event, tasks, ready>>
       \/ /\ ~Fills(r) /\ ~EndsPairing(r) /\ ~(r.type = "passkey" /\ state = "FindingPasskey")
          /\ UNCHANGED <<state, event, tasks, ready, raced>>
    /\ UNCHANGED <<fixed, call, last_state, calls, receiver, target, sent, failed,
                   timeouts, slots>>

\* The task that was queued when the name was complete.
StartBoltPairing ==
    \E e \in tasks :
        /\ tasks' = tasks \ {e}
        /\ Request("pairing", e.device)
        /\ raced' = (raced \/ state # "FindingPasskey" \/ event # e \/ call # "none")
        /\ UNCHANGED <<fixed, state, event, call, last_state, calls, ready, sent, slots>>

(***************************************************************************)
(* _enumeratePairedDevices().                                              *)
(***************************************************************************)

\* getDeviceCount(); 0 when it fails.
GetDeviceCount ==
    /\ slot = 0 /\ slot' = 1
    /\ \/ count' = Cardinality(paired) /\ UNCHANGED timeouts
       \/ timeouts < MaxTimeouts /\ timeouts' = timeouts + 1 /\ count' = 0
    /\ UNCHANGED <<fixed, pairing, hardware, history, paired, found, handed>>

\* Every device that is paired was found.
FoundOneTooEarly == count > 0 /\ found + 1 >= count          \* a mutant
FoundAll == count > 0 /\ found >= count

\* getPairingInfo(): an empty slot answers with an error.
ReadSlot ==
    /\ slot \in Slots /\ ~FoundAll /\ slot' = slot + 1
    /\ \/ /\ slot \in paired /\ handed' = handed \cup {slot} /\ found' = found + 1
          /\ UNCHANGED timeouts
       \/ slot \notin paired /\ UNCHANGED <<handed, found, timeouts>>
       \/ timeouts < MaxTimeouts /\ timeouts' = timeouts + 1 /\ UNCHANGED <<handed, found>>
    /\ UNCHANGED <<fixed, pairing, hardware, history, paired, count>>

Next ==
    \/ Discovered \/ AsksPasskey \/ Ends \/ StartPair \/ StopPair \/ SendCall
    \/ Handle \/ StartBoltPairing \/ GetDeviceCount \/ ReadSlot

Spec == Init /\ [][Next]_vars

-----------------------------------------------------------------------------
\* When everything was handled, the state is that of the receiver: what ends
\* by itself can be started again, and what goes on can be stopped.
StateIsTheReceivers ==
    (reports = <<>> /\ tasks = {} /\ call = "none" /\ ~raced /\ ~failed) =>
        /\ (state = "NotPairing") <=> (receiver = "idle")
        /\ state = "Discovering" <=> receiver = "discovering"

\* The device that PairReady names, with its passkey and its whole name, is the
\* one the receiver pairs with, whatever else is discovered meanwhile.
NamesTheTarget ==
    (state = "Pairing" /\ bolt /\ receiver = "passkey" /\ ~raced /\ ~failed) =>
        /\ ready.device = target
        /\ \A i \in 1..ready.length : \E p \in ready.parts :
              i \in (p - 1) * BlockSize + 1 .. p * BlockSize

\* Every device that is paired is handed to _addHandler(), if no request times
\* out, though the search ends when as many were found as there are.
EveryPairedSlot ==
    (slot > 0 /\ (FoundAll \/ slot \notin Slots) /\ timeouts = 0) => handed = paired
=============================================================================
