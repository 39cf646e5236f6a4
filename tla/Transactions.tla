---------------------------- MODULE Transactions ----------------------------
(***************************************************************************)
(* HID++ request/response matching in hidpp20::Device and hidpp10::Device  *)
(* (src/src/logid/backend/hidpp20/Device.cpp and .../hidpp10/Device.cpp):  *)
(* callers on any thread, one mutex, one condition variable, a small array *)
(* of response slots, replies handled by the I/O thread.  The two classes  *)
(* differ in what they match and in whether giving a slot back notifies;   *)
(* Protocol chooses.                                                       *)
(*                                                                         *)
(* Whatever a thread does between taking and giving up _response_mutex is  *)
(* one step.  A request is its feature index (2.0) or sub id (1.0) and its *)
(* address; tags number the calls and are not in the protocol.             *)
(***************************************************************************)
EXTENDS Integers, FiniteSets

CONSTANTS
    Protocol,       \* "hidpp20" or "hidpp10"
    Callers,        \* threads that send requests
    Features,       \* feature indices (sub ids) in use
    Addresses,      \* function and software id (register)
    NoAckAddress,   \* the address sendReportNoACK() gives a report, per address
    Slots,          \* how many response slots there are: 16, or 4
    MaxCalls,       \* bound of the model on the calls of sendReport()
    NoRequest,      \* "no request"
    MaxErrors       \* bound of the model on the writes that fail

Requests == [feature : Features, address : Addresses]
NoAckRequests ==
    [feature : Features, address : {NoAckAddress[a] : a \in Addresses}]

ASSUME TransactionsAssumption ==
    /\ Protocol \in {"hidpp20", "hidpp10"}
    /\ Features \subseteq Nat
    /\ Slots \in Nat \ {0}
    /\ MaxCalls \in Nat
    /\ MaxErrors \in Nat
    /\ NoRequest \notin Requests \cup NoAckRequests
    /\ Protocol = "hidpp20" => \A a \in Addresses : NoAckAddress[a] \notin Addresses

VARIABLES
    slot,       \* _responses: what each slot waits for and has received
    pc,         \* where each caller is in sendReport()
    request,    \* the report each caller sends
    tag,        \* the number of each caller's call
    woken,      \* waiting callers that _response_cv has signalled
    replies,    \* replies on their way from the device
    calls,      \* calls of sendReport() made so far
    errors,     \* writes that have failed so far
    timedOut    \* the requests that have timed out once (history)

vars == <<slot, pc, request, tag, woken, replies, calls, errors, timedOut>>

Tags == 0..MaxCalls
Replies == [request : Requests \cup NoAckRequests, tag : Tags]

Nothing == [request |-> NoRequest, tag |-> 0]
Free == [waits |-> NoRequest, response |-> Nothing]
Waiting(q) == [waits |-> q, response |-> Nothing]

TypeOK ==
    /\ slot \in [0..Slots-1 ->
                    [waits : Requests \cup {NoRequest},
                     response : Replies \cup {Nothing}]]
    /\ pc \in [Callers -> {"idle", "slot", "reply"}]
    /\ request \in [Callers -> Requests \cup {NoRequest}]
    /\ tag \in [Callers -> Tags]
    /\ woken \subseteq Callers
    /\ replies \subseteq Replies
    /\ calls \in 0..MaxCalls
    /\ errors \in 0..MaxErrors
    /\ timedOut \subseteq Requests
    /\ \A i \in 0..Slots-1 : slot[i] = Free \/ slot[i].waits \in Requests

Init ==
    /\ slot = [i \in 0..Slots-1 |-> Free]
    /\ pc = [c \in Callers |-> "idle"]
    /\ request = [c \in Callers |-> NoRequest]
    /\ tag = [c \in Callers |-> 0]
    /\ woken = {}
    /\ replies = {}
    /\ calls = 0
    /\ errors = 0
    /\ timedOut = {}

SlotOf(q) == q.feature % Slots

\* Callers asleep until a slot is free.  A caller that waits for its response
\* is woken by it or by its timeout and needs no bookkeeping.
Waiters == {c \in Callers : pc[c] = "slot"}

(***************************************************************************)
(* sendReport().                                                           *)
(***************************************************************************)

\* The slot waits for nothing.
MayUse(q) == slot[SlotOf(q)].waits = NoRequest

\* The report is written and answered some time, or is lost (the raw device
\* is no longer valid, eight writes gave EPIPE, the device does not answer).
Write(q, t) ==
    \/ replies' = replies \cup {[request |-> q, tag |-> t]}
    \/ UNCHANGED replies

\* Caller c holds the mutex and its slot is free.  A write that fails throws
\* out of sendReport() and leaves the slot as it is.
Occupy(c, q, t) ==
    /\ slot' = [slot EXCEPT ![SlotOf(q)] = Waiting(q)]
    /\ \/ /\ Write(q, t)
          /\ pc' = [pc EXCEPT ![c] = "reply"]
          /\ UNCHANGED errors
       \/ /\ errors < MaxErrors             \* bound of the model
          /\ errors' = errors + 1
          /\ pc' = [pc EXCEPT ![c] = "idle"]
          /\ UNCHANGED replies

AwaitSlot(c) ==
    /\ pc' = [pc EXCEPT ![c] = "slot"]
    /\ UNCHANGED <<slot, replies, errors>>

\* Waiting for the slot, from the call or from a wakeup.
TryOccupy(c, q, t) ==
    IF MayUse(q) THEN Occupy(c, q, t) ELSE AwaitSlot(c)

SendReport(c, q) ==
    /\ pc[c] = "idle"
    /\ calls < MaxCalls                     \* bound of the model
    /\ calls' = calls + 1
    /\ request' = [request EXCEPT ![c] = q]
    /\ tag' = [tag EXCEPT ![c] = calls']
    /\ TryOccupy(c, q, calls')
    /\ UNCHANGED <<woken, timedOut>>

SlotWakeup(c) ==
    /\ pc[c] = "slot"
    /\ c \in woken
    /\ woken' = woken \ {c}
    /\ TryOccupy(c, request[c], tag[c])
    /\ UNCHANGED <<request, tag, calls, timedOut>>

\* ResponseSlot::reset().
Reset(c) == slot' = [slot EXCEPT ![SlotOf(request[c])] = Free]

\* Mutant of ReleaseOnTimeout: the slot is only given back with a response.
KeepOnTimeout(c) == UNCHANGED slot

ReleaseOnTimeout(c) == Reset(c)

\* hidpp10 notifies nobody when it gives the slot back (and so stands for a
\* mutant of hidpp20); hidpp20 notifies everyone.
Notify10 == UNCHANGED woken
Notify20 == woken' = Waiters

ReleaseNotifies == IF Protocol = "hidpp20" THEN Notify20 ELSE Notify10

Received(c) == slot[SlotOf(request[c])].response

\* wait_for() sees a response: it is returned or, if it is an error, thrown.
Answered(c) ==
    /\ pc[c] = "reply"
    /\ Received(c) # Nothing
    /\ Reset(c)
    /\ ReleaseNotifies
    /\ pc' = [pc EXCEPT ![c] = "idle"]
    /\ UNCHANGED <<request, tag, replies, calls, errors, timedOut>>

\* io_timeout has passed and there still is none.
TimesOut(c) ==
    /\ pc[c] = "reply"
    /\ Received(c) = Nothing
    /\ ReleaseOnTimeout(c)
    /\ ReleaseNotifies
    /\ timedOut' = timedOut \cup {request[c]}
    /\ pc' = [pc EXCEPT ![c] = "idle"]
    /\ UNCHANGED <<request, tag, replies, calls, errors>>

\* A condition variable may wake a thread that nobody signalled.
SpuriousWakeup(c) ==
    /\ pc[c] = "slot"
    /\ c \notin woken
    /\ woken' = woken \cup {c}
    /\ UNCHANGED <<slot, pc, request, tag, replies, calls, errors, timedOut>>

\* sendReportNoACK(): the reply the device may send has tag 0, nobody's.
SendReportNoACK(q) ==
    /\ calls < MaxCalls                     \* bound of the model
    /\ calls' = calls + 1
    /\ replies' = replies \cup
           {[request |-> [q EXCEPT !.address = NoAckAddress[@]], tag |-> 0]}
    /\ UNCHANGED <<slot, pc, request, tag, woken, errors, timedOut>>

(***************************************************************************)
(* responseReport(), on the I/O thread.                                    *)
(***************************************************************************)

\* Mutant of Matches20: only the feature is compared.
MatchesFeature(q, w) == w # NoRequest /\ q.feature = w.feature

Matches20(q, w) == w # NoRequest /\ q = w
Matches10(q, w) == w # NoRequest /\ q.feature = w.feature

Matches(q, w) == IF Protocol = "hidpp20" THEN Matches20(q, w) ELSE Matches10(q, w)

\* Replies arrive in any order and any time after the request.  One that
\* matches no slot is handed to the event handlers, as an event.
ResponseReport(r) ==
    /\ r \in replies
    /\ replies' = replies \ {r}
    /\ IF Matches(r.request, slot[SlotOf(r.request)].waits)
       THEN /\ slot' = [slot EXCEPT ![SlotOf(r.request)].response = r]
            /\ woken' = Waiters
       ELSE UNCHANGED <<slot, woken>>
    /\ UNCHANGED <<pc, request, tag, calls, errors, timedOut>>

CallerStep(c) == SlotWakeup(c) \/ Answered(c) \/ TimesOut(c)

Next ==
    \/ \E c \in Callers, q \in Requests : SendReport(c, q)
    \/ \E c \in Callers : CallerStep(c) \/ SpuriousWakeup(c)
    \/ \E q \in Requests : SendReportNoACK(q)
    \/ \E r \in replies : ResponseReport(r)

Spec == Init /\ [][Next]_vars

\* Callers are scheduled and their timeouts expire; the device owes nothing.
FairSpec == Spec /\ \A c \in Callers : WF_vars(CallerStep(c))

(***************************************************************************)
(* Properties.                                                             *)
(***************************************************************************)

Owns(c, i) == pc[c] = "reply" /\ SlotOf(request[c]) = i

\* A slot serves one caller at a time and waits for that caller's request
\* (hidpp20/Device.cpp 89-94).
OneOwner ==
    \A c, d \in Callers :
        pc[c] = "reply" =>
            /\ slot[SlotOf(request[c])].waits = request[c]
            /\ Owns(d, SlotOf(request[c])) => d = c

\* A slot without a caller was left by a write that threw; nothing frees it
\* (hidpp20/Device.cpp 93-96).
Leaked(i) == slot[i] # Free /\ \A c \in Callers : ~Owns(c, i)

LeaksAreWriteErrors == Cardinality({i \in 0..Slots-1 : Leaked(i)}) <= errors

\* A slot has one owner at a time, and is given back by it whether the reply
\* comes, is an error or never comes; only a write that throws keeps it.
SlotsAreOwned == TypeOK /\ OneOwner /\ LeaksAreWriteErrors

\* A caller never receives the reply to an unacknowledged report, nor one to
\* a different request; and it receives its own reply unless, some time
\* before, an equal request timed out (hidpp20/Device.cpp 104-108, 147-150).
\* It need not be the reply to the call that timed out: once a late reply has
\* answered the next call, that call's reply answers the one after it.
OwnReplyUntilTimeout ==
    \A c \in Callers :
        LET r == Received(c)
        IN pc[c] = "reply" /\ r # Nothing =>
               /\ r.request = request[c]
               /\ r.tag = tag[c] \/ r.request \in timedOut

\* Every call returns or throws, unless a failed write leaked its slot: a
\* caller that waits for a slot is woken when it is given back.
EveryCallReturns ==
    \A c \in Callers :
        pc[c] # "idle" ~> pc[c] = "idle" \/ Leaked(SlotOf(request[c]))
=============================================================================
