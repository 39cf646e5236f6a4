------------------------------ MODULE Probing ------------------------------
(***************************************************************************)
(* How a device is probed: hidpp::Device::_init (backend/hidpp/Device.cpp) *)
(* with the one-slot transaction of the base class, the ping test of       *)
(* isStable20, and the name read through EssentialFeature, Root and        *)
(* DeviceName.  A probing that fails with DeviceNotReady is repeated with a *)
(* new object (DeviceMonitor.cpp 246-265), so the reply to a request of an *)
(* earlier try, which timed out, may reach a later one: it has the same    *)
(* feature, function and software id.                                      *)
(*                                                                         *)
(* A request is <<try, step>>.  The device answers in the order it was     *)
(* asked; an answer may be late, or never come.                            *)
(***************************************************************************)
EXTENDS Integers, Sequences

CONSTANTS None, MaxTries, MaxDrops, MaxErrors

VARIABLES
    try, step,       \* the probing that runs and its request
    phase,           \* where sendReport() is, or how the probing ended
    awaited,         \* _sent_sub_id and _sent_address
    response,        \* _response
    asked,           \* the requests the device has not answered yet
    got,             \* what this probing got, step by step
    faults           \* what is left of the bounds

vars == <<try, step, phase, awaited, response, asked, got, faults>>

\* The version is asked with a ping of 0; then "hello"; then the name.
Version == 1
Pings == 2..6
Name == 7..9
Byte(s) == (<<"0", "h", "e", "l", "l", "o", "0", "0", "0">>)[s]
\* Feature index and function, with the software id every request has.
Key(s) == CASE s \in 1..6 -> "Root::Ping" [] s = 7 -> "Root::GetFeature"
            [] s = 8 -> "DeviceName::GetLength" [] s = 9 -> "DeviceName::GetDeviceName"

\* isError10 and isError20 find the key of the request in an error report.
Outcomes(s) ==
    {"reply", "Hidpp20Error"} \cup (IF s = Version THEN {"InvalidSubID", "UnknownDevice"} ELSE {})

Init ==
    /\ try = 1 /\ step = Version /\ phase = "free" /\ awaited = None /\ response = None
    /\ asked = <<>> /\ got = <<>>
    /\ faults = [drops |-> MaxDrops, errors |-> MaxErrors]

\* sendReport() notes what it waits for before it takes _response_mutex ...
Announce ==
    /\ phase = "free" /\ phase' = "announced" /\ awaited' = Key(step)
    /\ UNCHANGED <<try, step, response, asked, got, faults>>

\* ... and writes the report and waits with it.
Write ==
    /\ phase = "announced" /\ phase' = "waiting"
    /\ asked' = Append(asked, <<try, step>>)
    /\ UNCHANGED <<try, step, awaited, response, got, faults>>

ByKey(reply) == awaited # None /\ Key(reply.to[2]) = awaited

\* The I/O thread: responseReport() of an answer, or an answer nobody hears.
Answer(what) ==
    /\ asked # <<>> /\ asked' = Tail(asked) /\ what \in Outcomes(Head(asked)[2])
    /\ what # "reply" => faults.errors > 0
    /\ faults' = IF what = "reply" THEN faults ELSE [faults EXCEPT !.errors = @ - 1]
    /\ LET reply == [to |-> Head(asked), what |-> what]
       IN  response' = IF ByKey(reply) /\ phase \in {"announced", "waiting"}
                       THEN reply ELSE response
    /\ UNCHANGED <<try, step, phase, awaited, got>>

Drop ==
    /\ asked # <<>> /\ asked' = Tail(asked) /\ faults.drops > 0
    /\ faults' = [faults EXCEPT !.drops = @ - 1]
    /\ UNCHANGED <<try, step, phase, awaited, response, got>>

\* The base class gives an HID++ 2.0 error to its caller as a reply (line 249).
\* A ping is answered with its byte, and so is a late one with its own.
Echo(reply) == IF reply.what = "reply" THEN Byte(reply.to[2]) ELSE "error"

AnyEcho(s, reply) == TRUE         \* a mutant
\* isStable20: root.ping(c) != c
Accepts(s, reply) == s \in Pings => Echo(reply) = Byte(s)

End(how) == phase' = how /\ awaited' = None /\ response' = None

Receive ==
    /\ phase = "waiting" /\ response # None
    /\ got' = Append(got, response.to)
    /\ \/ /\ response.what = "UnknownDevice" /\ End("absent") /\ UNCHANGED step
       \/ /\ response.what = "InvalidSubID" /\ End("hidpp10") /\ UNCHANGED step
       \/ /\ response.what \in {"reply", "Hidpp20Error"}
          /\ IF ~Accepts(step, response) THEN End("not ready") /\ UNCHANGED step
             ELSE IF step = 9 THEN End("ready") /\ UNCHANGED step
             ELSE End("free") /\ step' = step + 1
    /\ UNCHANGED <<try, asked, faults>>

\* TimeoutError, which addDevice() turns into DeviceNotReady.
Timeout ==
    /\ phase = "waiting" /\ response = None /\ End("not ready")
    /\ UNCHANGED <<try, step, asked, got, faults>>

TryAgain ==
    /\ phase = "not ready" /\ try < MaxTries
    /\ try' = try + 1 /\ step' = Version /\ got' = <<>> /\ End("free")
    /\ UNCHANGED <<asked, faults>>

Next ==
    \/ Announce \/ Write \/ Drop \/ Receive \/ Timeout \/ TryAgain
    \/ \E what \in {"reply", "Hidpp20Error", "InvalidSubID", "UnknownDevice"} : Answer(what)

Spec == Init /\ [][Next]_vars

-----------------------------------------------------------------------------
\* A device that passes the stability test is in step with this probing: the last
\* ping and every part of the name were answered by the reply to that very request,
\* however late the replies to earlier tries came.  (The version and the first
\* pings may have been answered by an earlier try's replies.)
AnswersAreOwn ==
    phase = "ready" => \A s \in {6} \cup Name : got[s] = <<try, s>>
=============================================================================
