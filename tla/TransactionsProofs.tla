------------------------- MODULE TransactionsProofs -------------------------
(***************************************************************************)
(* The response slots of hidpp20::Device and hidpp10::Device, for any      *)
(* number of threads, of slots and of calls: a slot has one owner and is   *)
(* lost only by a write that throws, and in the 2.0 protocol a caller      *)
(* receives its own reply unless an equal request has timed out.           *)
(***************************************************************************)
EXTENDS Transactions, FiniteSetTheorems, TLAPS

\* A caller inside sendReport() has a request.
CallersHaveRequests ==
    \A c \in Callers : pc[c] # "idle" => request[c] \in Requests

\* What is inductive for the slots, in either protocol.
IInv ==
    /\ TypeOK
    /\ CallersHaveRequests
    /\ OneOwner
    /\ LeaksAreWriteErrors

\* A caller waits for the reply r.
Expected(r) ==
    \E c \in Callers : pc[c] = "reply" /\ request[c] = r.request /\ tag[c] = r.tag

\* A response is in the slot of its request, and the slot waits for it.
ResponseIsWaitedFor ==
    \A i \in 0..Slots-1 :
        slot[i].response # Nothing =>
            /\ slot[i].waits = slot[i].response.request
            /\ SlotOf(slot[i].response.request) = i

\* A reply belongs to no request, to one that has timed out or to a caller
\* that waits for it.
Belongs(r) == r.request \in Requests => r.request \in timedOut \/ Expected(r)

\* So does every reply, on its way or received.
RepliesAreExpected ==
    /\ \A r \in replies : Belongs(r)
    /\ \A i \in 0..Slots-1 : Belongs(slot[i].response)

\* A reply is delivered once.
DeliveredOnce == \A i \in 0..Slots-1 : slot[i].response \notin replies

\* What is inductive for the replies of the 2.0 protocol.  A caller's own
\* reply alone is not: a reply may be the caller's while it is on its way.
ReplyInv ==
    /\ IInv
    /\ ResponseIsWaitedFor
    /\ RepliesAreExpected
    /\ DeliveredOnce

-----------------------------------------------------------------------------
\* A request has a slot.
LEMMA SlotOfType ==
    ASSUME NEW q \in Requests \cup NoAckRequests
    PROVE  SlotOf(q) \in 0..Slots-1
<1>1. q.feature \in Features
  BY DEF Requests, NoAckRequests
<1>2. q.feature \in Nat
  BY <1>1, TransactionsAssumption, Zenon DEF TransactionsAssumption
<1>3. Slots \in Nat /\ Slots > 0
  BY TransactionsAssumption DEF TransactionsAssumption
<1> QED
  BY <1>2, <1>3 DEF SlotOf

\* No request is "no request", and so nothing is the reply to one.
LEMMA RequestIsNotNone ==
    /\ NoRequest \notin Requests
    /\ \A r \in Replies : r # Nothing /\ r.request # NoRequest
BY TransactionsAssumption DEF TransactionsAssumption, Replies, Requests, NoAckRequests, Nothing

\* Among finitely many slots, losing at most the slot j counts at most one.
LEMMA OneMoreLeak ==
    ASSUME NEW S, NEW T, NEW j, IsFiniteSet(S), T \subseteq S \cup {j}
    PROVE  /\ Cardinality(S) \in Nat
           /\ Cardinality(T) \in Nat
           /\ Cardinality(T) <= Cardinality(S) + 1
<1>1. /\ Cardinality(S) \in Nat
      /\ IsFiniteSet(S \cup {j})
      /\ Cardinality(S \cup {j}) = IF j \in S THEN Cardinality(S) ELSE Cardinality(S) + 1
  BY FS_AddElement, FS_CardinalityType, Zenon
<1>2. /\ Cardinality(T) \in Nat
      /\ Cardinality(T) <= Cardinality(S \cup {j})
  BY <1>1, FS_Subset, FS_CardinalityType
<1> QED
  BY <1>1, <1>2

LeakedSlots == {i \in 0..Slots-1 : Leaked(i)}

\* There are finitely many slots, so those that leak can be counted.
LEMMA LeakedSlotsFinite == IsFiniteSet(LeakedSlots) /\ IsFiniteSet(LeakedSlots')
<1>1. IsFiniteSet(0..Slots-1)
  BY FS_Interval, TransactionsAssumption DEF TransactionsAssumption
<1> QED
  BY <1>1, FS_Subset DEF LeakedSlots

\* A step that loses no slot keeps the count of the lost ones.
LEMMA NoLeak ==
    ASSUME LeaksAreWriteErrors, errors \in Nat, UNCHANGED errors,
           \A i \in 0..Slots-1 : Leaked(i)' => Leaked(i)
    PROVE  LeaksAreWriteErrors'
<1>1. LeakedSlots' \subseteq LeakedSlots
  BY DEF LeakedSlots
<1>2. /\ Cardinality(LeakedSlots') <= Cardinality(LeakedSlots)
      /\ Cardinality(LeakedSlots') \in Nat
      /\ Cardinality(LeakedSlots) \in Nat
  BY <1>1, LeakedSlotsFinite, FS_Subset, FS_CardinalityType
<1> QED
  BY <1>2 DEF LeaksAreWriteErrors, LeakedSlots

\* A write that throws loses the slot it was for.
LEMMA OneLeak ==
    ASSUME LeaksAreWriteErrors, errors \in Nat, errors' = errors + 1, NEW j,
           \A i \in 0..Slots-1 : Leaked(i)' => Leaked(i) \/ i = j
    PROVE  LeaksAreWriteErrors'
<1>1. LeakedSlots' \subseteq LeakedSlots \cup {j}
  BY DEF LeakedSlots
<1>2. /\ Cardinality(LeakedSlots) \in Nat
      /\ Cardinality(LeakedSlots') \in Nat
      /\ Cardinality(LeakedSlots') <= Cardinality(LeakedSlots) + 1
  BY <1>1, LeakedSlotsFinite, OneMoreLeak
<1> QED
  BY <1>2 DEF LeaksAreWriteErrors, LeakedSlots

-----------------------------------------------------------------------------
\* Initially no slot is used.
LEMMA InitIInv == Init => IInv
<1> SUFFICES ASSUME Init
             PROVE  IInv
  OBVIOUS
<1>1. TypeOK
  BY TransactionsAssumption
     DEF TransactionsAssumption, Init, TypeOK, Free, Nothing, Replies, Tags
<1>2. CallersHaveRequests /\ OneOwner
  BY DEF Init, CallersHaveRequests, OneOwner, Owns
<1>3. LeakedSlots = {}
  BY DEF Init, LeakedSlots, Leaked
<1>4. Cardinality(LeakedSlots) = 0 /\ errors = 0
  BY <1>3, FS_EmptySet DEF Init
<1>5. LeaksAreWriteErrors
  BY <1>4 DEF LeaksAreWriteErrors, LeakedSlots
<1> QED
  BY <1>1, <1>2, <1>5 DEF IInv

\* Whoever is in "reply" owns a slot that is in use.
LEMMA OwnersUseSlots ==
    ASSUME IInv, NEW c \in Callers, pc[c] = "reply"
    PROVE  /\ request[c] \in Requests
           /\ SlotOf(request[c]) \in 0..Slots-1
           /\ slot[SlotOf(request[c])].waits = request[c]
           /\ slot[SlotOf(request[c])].waits # NoRequest
<1>1. request[c] \in Requests
  BY DEF IInv, CallersHaveRequests
<1>2. SlotOf(request[c]) \in 0..Slots-1
  BY <1>1, SlotOfType
<1>3. slot[SlotOf(request[c])].waits = request[c]
  BY DEF IInv, OneOwner
<1> QED
  BY <1>1, <1>2, <1>3, RequestIsNotNone

\* What sendReport() does with the mutex held, from the call or a wakeup.
LEMMA TryOccupyIInv ==
    ASSUME IInv, NEW c \in Callers, NEW q \in Requests, NEW t \in Tags,
           pc[c] # "reply",
           request' = [request EXCEPT ![c] = q],
           tag' = [tag EXCEPT ![c] = t],
           woken' \subseteq Callers,
           calls' \in 0..MaxCalls,
           UNCHANGED timedOut,
           TryOccupy(c, q, t)
    PROVE  IInv'
<1> DEFINE k == SlotOf(q)
<1>k. k \in 0..Slots-1
  BY SlotOfType
<1>t. TypeOK
  BY DEF IInv
<1>n. q # NoRequest
  BY RequestIsNotNone
<1> HIDE DEF k
<1>1. CASE MayUse(q) /\ Occupy(c, q, t)
  <2>1. slot' = [slot EXCEPT ![k] = Waiting(q)] /\ slot[k].waits = NoRequest
    BY <1>1 DEF Occupy, MayUse, k
  <2>2. Waiting(q).waits = q /\ Waiting(q).response = Nothing
    BY DEF Waiting
  <2>3. \A d \in Callers : pc[d] = "reply" => ~Owns(d, k)
    BY <2>1, OwnersUseSlots DEF Owns
  <2>4. \/ /\ pc' = [pc EXCEPT ![c] = "reply"]
           /\ UNCHANGED errors
        \/ /\ pc' = [pc EXCEPT ![c] = "idle"]
           /\ errors' = errors + 1
           /\ errors < MaxErrors
    BY <1>1 DEF Occupy
  <2>5. replies' \subseteq replies \cup {[request |-> q, tag |-> t]}
    BY <1>1 DEF Occupy, Write
  <2>6. TypeOK'
    <3>1. slot' \in [0..Slots-1 -> [waits : Requests \cup {NoRequest},
                                   response : Replies \cup {Nothing}]]
      BY <2>1, <1>t, <1>k DEF TypeOK, Waiting
    <3>2. \A i \in 0..Slots-1 : slot'[i] = Free \/ slot'[i].waits \in Requests
      BY <2>1, <2>2, <1>t, <1>k DEF TypeOK
    <3>3. /\ pc' \in [Callers -> {"idle", "slot", "reply"}]
          /\ errors' \in 0..MaxErrors
      BY <2>4, <1>t, TransactionsAssumption DEF TypeOK, TransactionsAssumption
    <3>4. /\ request' \in [Callers -> Requests \cup {NoRequest}]
          /\ tag' \in [Callers -> Tags]
          /\ replies' \subseteq Replies
          /\ timedOut' \subseteq Requests
      BY <2>5, <1>t DEF TypeOK, Replies
    <3> QED
      BY <3>1, <3>2, <3>3, <3>4 DEF TypeOK
  <2>7. CallersHaveRequests'
    BY <2>4, <1>t DEF IInv, CallersHaveRequests, TypeOK
  <2>8. OneOwner'
    <3> SUFFICES ASSUME NEW b \in Callers, NEW d \in Callers, pc'[b] = "reply"
                 PROVE  /\ slot'[SlotOf(request'[b])].waits = request'[b]
                        /\ Owns(d, SlotOf(request[b]))' => d = b
      BY DEF OneOwner, Owns, SlotOf
    <3>1. \A e \in Callers \ {c} : pc'[e] = pc[e] /\ request'[e] = request[e]
      BY <2>4, <1>t DEF TypeOK
    <3>2. request'[c] = q
      BY <1>t DEF TypeOK
    <3>3. CASE b = c
      BY <3>1, <3>2, <3>3, <2>1, <2>2, <2>3, <1>t, <1>k DEF TypeOK, Owns, k, SlotOf
    <3>4. CASE b # c
      <4>1. pc[b] = "reply" /\ request'[b] = request[b]
        BY <3>1, <3>4
      <4>2. SlotOf(request[b]) # k /\ SlotOf(request[b]) \in 0..Slots-1
        BY <4>1, <2>3, OwnersUseSlots DEF Owns
      <4>3. slot'[SlotOf(request[b])] = slot[SlotOf(request[b])]
        BY <4>2, <2>1, <1>t DEF TypeOK
      <4>4. Owns(d, SlotOf(request[b]))' => d # c /\ Owns(d, SlotOf(request[b]))
        BY <3>1, <3>2, <4>1, <4>2 DEF Owns, k, SlotOf
      <4> QED
        BY <4>1, <4>3, <4>4 DEF IInv, OneOwner
    <3> QED
      BY <3>3, <3>4
  <2>9. LeaksAreWriteErrors'
    <3>1. \A i \in 0..Slots-1 : i # k => slot'[i] = slot[i]
      BY <2>1, <1>t DEF TypeOK
    <3>2. \A d \in Callers, i \in 0..Slots-1 : Owns(d, i) => Owns(d, i)'
      BY <2>4, <1>t DEF TypeOK, Owns, SlotOf
    <3>3. \A i \in 0..Slots-1 : Leaked(i)' => Leaked(i) \/ i = k
      BY <3>1, <3>2 DEF Leaked, Free, Nothing
    <3>4. CASE pc'[c] = "reply" /\ UNCHANGED errors
      <4>1. Owns(c, k)'
        BY <3>4, <1>t DEF Owns, k, TypeOK, SlotOf
      <4>2. \A i \in 0..Slots-1 : Leaked(i)' => Leaked(i)
        BY <4>1, <3>3 DEF Leaked
      <4> QED
        BY <4>2, <3>4, <1>t, NoLeak DEF IInv, TypeOK
    <3>5. CASE errors' = errors + 1
      BY <3>3, <3>5, <1>t, OneLeak DEF IInv, TypeOK
    <3> QED
      BY <3>4, <3>5, <2>4, <1>t DEF TypeOK
  <2> QED
    BY <2>6, <2>7, <2>8, <2>9 DEF IInv
<1>2. CASE AwaitSlot(c)
  <2>1. /\ pc' = [pc EXCEPT ![c] = "slot"]
        /\ UNCHANGED <<slot, replies, errors>>
    BY <1>2 DEF AwaitSlot
  <2>2. TypeOK'
    BY <2>1, <1>t DEF TypeOK
  <2>3. CallersHaveRequests'
    BY <2>1, <1>t DEF IInv, CallersHaveRequests, TypeOK
  <2>4. \A d \in Callers : /\ pc'[d] = "reply" <=> pc[d] = "reply"
                           /\ pc[d] = "reply" => request'[d] = request[d]
    BY <2>1, <1>t DEF TypeOK
  <2>5. OneOwner'
    BY <2>1, <2>4 DEF IInv, OneOwner, Owns, SlotOf
  <2>6. \A i \in 0..Slots-1 : Leaked(i)' => Leaked(i)
    BY <2>1, <2>4 DEF Leaked, Owns, SlotOf, Free, Nothing
  <2>7. LeaksAreWriteErrors'
    BY <2>1, <2>6, <1>t, NoLeak DEF IInv, TypeOK
  <2> QED
    BY <2>2, <2>3, <2>5, <2>7 DEF IInv
<1> QED
  BY <1>1, <1>2 DEF TryOccupy

\* A caller that leaves, with a response or without, gives its slot back.
LEMMA ReleaseIInv ==
    ASSUME IInv, NEW c \in Callers, pc[c] = "reply",
           Reset(c),
           pc' = [pc EXCEPT ![c] = "idle"],
           woken' \subseteq Callers,
           timedOut' \subseteq Requests,
           UNCHANGED <<request, tag, replies, calls, errors>>
    PROVE  IInv'
<1> DEFINE k == SlotOf(request[c])
<1>t. TypeOK
  BY DEF IInv
<1>k. k \in 0..Slots-1 /\ Owns(c, k)
  BY OwnersUseSlots DEF Owns
<1>1. slot' = [slot EXCEPT ![k] = Free]
  BY DEF Reset
<1>o. \A d \in Callers : d # c => /\ pc'[d] = pc[d]
                                  /\ pc[d] = "reply" => SlotOf(request[d]) # k
  BY <1>k, <1>t DEF TypeOK, IInv, OneOwner, Owns
<1> HIDE DEF k
<1>2. TypeOK'
  BY <1>1, <1>k, <1>t DEF TypeOK, Free, Nothing
<1>3. CallersHaveRequests'
  BY <1>o, <1>t DEF IInv, CallersHaveRequests, TypeOK
<1>4. OneOwner'
  <2> SUFFICES ASSUME NEW b \in Callers, NEW d \in Callers, pc'[b] = "reply"
               PROVE  /\ slot'[SlotOf(request[b])].waits = request[b]
                      /\ Owns(d, SlotOf(request[b]))' => d = b
    BY DEF OneOwner, Owns, SlotOf
  <2>1. b # c /\ pc[b] = "reply"
    BY <1>o, <1>t DEF TypeOK
  <2>2. slot'[SlotOf(request[b])] = slot[SlotOf(request[b])]
    BY <2>1, <1>1, <1>o, <1>t, OwnersUseSlots DEF TypeOK
  <2>3. Owns(d, SlotOf(request[b]))' => Owns(d, SlotOf(request[b]))
    BY <1>o, <1>t DEF Owns, SlotOf, TypeOK
  <2> QED
    BY <2>1, <2>2, <2>3 DEF IInv, OneOwner
<1>5. \A i \in 0..Slots-1 : Leaked(i)' => Leaked(i)
  <2> SUFFICES ASSUME NEW i \in 0..Slots-1, Leaked(i)'
               PROVE  Leaked(i)
    OBVIOUS
  <2>1. i # k
    BY <1>1, <1>k, <1>t DEF Leaked, TypeOK, Free, Nothing
  <2>2. slot'[i] = slot[i]
    BY <2>1, <1>1, <1>t DEF TypeOK
  <2>3. \A d \in Callers : Owns(d, i) => Owns(d, i)'
    BY <2>1, <1>o, <1>t DEF Owns, SlotOf, TypeOK, k
  <2> QED
    BY <2>2, <2>3 DEF Leaked, Free, Nothing
<1>6. LeaksAreWriteErrors'
  BY <1>5, <1>t, NoLeak DEF IInv, TypeOK
<1> QED
  BY <1>2, <1>3, <1>4, <1>6 DEF IInv

\* responseReport() fills a slot that waits, and changes no owner.
LEMMA ResponseReportIInv ==
    ASSUME IInv, NEW r \in replies, ResponseReport(r)
    PROVE  IInv'
<1> DEFINE k == SlotOf(r.request)
<1>t. TypeOK
  BY DEF IInv
<1>r. r \in Replies /\ r.request \in Requests \cup NoAckRequests
  BY <1>t DEF TypeOK, Replies
<1>k. k \in 0..Slots-1
  BY <1>r, SlotOfType
<1>1. \/ UNCHANGED <<slot, woken>>
      \/ /\ slot' = [slot EXCEPT ![k].response = r]
         /\ slot[k].waits # NoRequest
         /\ woken' = Waiters
  BY DEF ResponseReport, Matches, Matches20, Matches10
<1>2. /\ replies' = replies \ {r}
      /\ UNCHANGED <<pc, request, tag, calls, errors, timedOut>>
  BY DEF ResponseReport
<1> HIDE DEF k
<1>3. \A i \in 0..Slots-1 : /\ slot'[i].waits = slot[i].waits
                            /\ slot'[i] = Free => slot[i] = Free
                            /\ slot[i] = Free => slot'[i] = Free
  <2>1. CASE UNCHANGED <<slot, woken>>
    BY <2>1 DEF Free, Nothing
  <2>2. CASE /\ slot' = [slot EXCEPT ![k].response = r]
             /\ slot[k].waits # NoRequest
    BY <2>2, <1>r, <1>k, <1>t, RequestIsNotNone DEF TypeOK, Free
  <2> QED
    BY <1>1, <2>1, <2>2
<1>4. TypeOK'
  <2>1. slot' \in [0..Slots-1 -> [waits : Requests \cup {NoRequest},
                                 response : Replies \cup {Nothing}]]
    BY <1>1, <1>r, <1>k, <1>t DEF TypeOK
  <2>2. \A i \in 0..Slots-1 : slot'[i] = Free \/ slot'[i].waits \in Requests
    BY <1>3, <1>t DEF TypeOK
  <2>3. woken' \subseteq Callers
    BY <1>1, <1>t DEF TypeOK, Waiters
  <2> QED
    BY <2>1, <2>2, <2>3, <1>2, <1>t DEF TypeOK
<1>5. CallersHaveRequests'
  BY <1>2 DEF IInv, CallersHaveRequests
<1>6. OneOwner'
  <2>1. \A b \in Callers : pc[b] = "reply" => SlotOf(request[b]) \in 0..Slots-1
    BY OwnersUseSlots
  <2> QED
    BY <2>1, <1>2, <1>3 DEF IInv, OneOwner, Owns, SlotOf
<1>7. \A i \in 0..Slots-1 : Leaked(i)' => Leaked(i)
  BY <1>2, <1>3 DEF Leaked, Owns, SlotOf, Free, Nothing
<1>8. LeaksAreWriteErrors'
  BY <1>2, <1>7, <1>t, NoLeak DEF IInv, TypeOK
<1> QED
  BY <1>4, <1>5, <1>6, <1>8 DEF IInv

\* Every step preserves the invariant of the slots.
LEMMA NextIInv == IInv /\ [Next]_vars => IInv'
<1> SUFFICES ASSUME IInv, [Next]_vars
             PROVE  IInv'
  OBVIOUS
<1>t. TypeOK
  BY DEF IInv
<1>1. ASSUME NEW c \in Callers, NEW q \in Requests, SendReport(c, q)
      PROVE  IInv'
  <2>1. calls' \in 0..MaxCalls /\ calls' \in Tags
    BY <1>1, <1>t, TransactionsAssumption
       DEF SendReport, TypeOK, Tags, TransactionsAssumption
  <2>2. /\ pc[c] # "reply"
        /\ request' = [request EXCEPT ![c] = q]
        /\ tag' = [tag EXCEPT ![c] = calls']
        /\ woken' \subseteq Callers
        /\ UNCHANGED timedOut
        /\ TryOccupy(c, q, calls')
    BY <1>1, <1>t DEF SendReport, TypeOK
  <2> QED
    BY <2>1, <2>2, TryOccupyIInv
<1>2. ASSUME NEW c \in Callers, SlotWakeup(c)
      PROVE  IInv'
  <2>1. request[c] \in Requests /\ tag[c] \in Tags
    BY <1>2, <1>t DEF SlotWakeup, TypeOK, IInv, CallersHaveRequests
  <2>2. /\ pc[c] # "reply"
        /\ request' = [request EXCEPT ![c] = request[c]]
        /\ tag' = [tag EXCEPT ![c] = tag[c]]
        /\ woken' \subseteq Callers
        /\ calls' \in 0..MaxCalls
        /\ UNCHANGED timedOut
        /\ TryOccupy(c, request[c], tag[c])
    BY <1>2, <1>t DEF SlotWakeup, TypeOK
  <2> QED
    BY <2>1, <2>2, TryOccupyIInv
<1>3. ASSUME NEW c \in Callers, Answered(c)
      PROVE  IInv'
  <2>1. woken' \subseteq Callers
    BY <1>3, <1>t DEF Answered, ReleaseNotifies, Notify20, Notify10, Waiters, TypeOK
  <2> QED
    BY <1>3, <1>t, <2>1, ReleaseIInv DEF Answered, TypeOK
<1>4. ASSUME NEW c \in Callers, TimesOut(c)
      PROVE  IInv'
  <2>1. woken' \subseteq Callers
    BY <1>4, <1>t DEF TimesOut, ReleaseNotifies, Notify20, Notify10, Waiters, TypeOK
  <2>2. timedOut' \subseteq Requests
    BY <1>4, <1>t, OwnersUseSlots DEF TimesOut, TypeOK
  <2> QED
    BY <1>4, <2>1, <2>2, ReleaseIInv DEF TimesOut, ReleaseOnTimeout
<1>5. ASSUME NEW c \in Callers, SpuriousWakeup(c)
      PROVE  IInv'
  <2>1. UNCHANGED <<slot, pc, request, tag, replies, calls, errors, timedOut>>
    BY <1>5 DEF SpuriousWakeup
  <2>2. TypeOK'
    BY <1>5, <2>1, <1>t DEF SpuriousWakeup, TypeOK
  <2> QED
    BY <2>1, <2>2 DEF IInv, CallersHaveRequests, OneOwner, Owns, SlotOf,
                      LeaksAreWriteErrors, Leaked, Free, Nothing
<1>6. ASSUME NEW q \in Requests, SendReportNoACK(q)
      PROVE  IInv'
  <2>1. [q EXCEPT !.address = NoAckAddress[@]] \in NoAckRequests
    BY DEF Requests, NoAckRequests
  <2>2. UNCHANGED <<slot, pc, request, tag, woken, errors, timedOut>>
    BY <1>6 DEF SendReportNoACK
  <2>3. calls' \in 0..MaxCalls
    BY <1>6, <1>t, TransactionsAssumption
       DEF SendReportNoACK, TypeOK, TransactionsAssumption
  <2>4. 0 \in Tags
    BY TransactionsAssumption DEF Tags, TransactionsAssumption
  <2>5. replies' \subseteq Replies
    BY <1>6, <2>1, <2>4, <1>t DEF SendReportNoACK, TypeOK, Replies
  <2>6. TypeOK'
    BY <2>2, <2>3, <2>5, <1>t DEF TypeOK
  <2> QED
    BY <2>2, <2>6 DEF IInv, CallersHaveRequests, OneOwner, Owns, SlotOf,
                      LeaksAreWriteErrors, Leaked, Free, Nothing
<1>7. CASE UNCHANGED vars
  BY <1>7 DEF vars, IInv, TypeOK, CallersHaveRequests, OneOwner, Owns, SlotOf,
              LeaksAreWriteErrors, Leaked, Free, Nothing
<1> QED
  BY <1>1, <1>2, <1>3, <1>4, <1>5, <1>6, <1>7, ResponseReportIInv
     DEF Next, CallerStep

\* The slots keep their invariant in every behaviour.
THEOREM Invariance == Spec => []IInv
  BY InitIInv, NextIInv, PTL DEF Spec

\* The fields of hidpp20::Device and of hidpp10::Device keep their types.
THEOREM TypeCorrect == Spec => []TypeOK
<1>1. IInv => TypeOK
  BY DEF IInv
<1> QED
  BY <1>1, Invariance, PTL

\* In either protocol a slot serves one caller at a time, which gives it back
\* whether its reply comes, is an error or never comes; no more slots are
\* lost than writes have thrown (hidpp20/Device.cpp 83-118).
THEOREM SlotOwnership == Spec => []SlotsAreOwned
<1>1. IInv => SlotsAreOwned
  BY DEF IInv, SlotsAreOwned
<1> QED
  BY <1>1, Invariance, PTL

-----------------------------------------------------------------------------
\* A response that has been received is the reply to a request.
LEMMA ResponseType ==
    ASSUME TypeOK, NEW i \in 0..Slots-1, slot[i].response # Nothing
    PROVE  slot[i].response \in Replies /\ slot[i].waits \in Requests
BY DEF TypeOK, Free

\* Initially there are no replies.
LEMMA InitReplyInv == Init => ReplyInv
<1> SUFFICES ASSUME Init
             PROVE  ReplyInv
  OBVIOUS
<1>1. \A i \in 0..Slots-1 : slot[i].response = Nothing
  BY DEF Init, Free
<1>2. Belongs(Nothing)
  BY RequestIsNotNone DEF Belongs, Nothing
<1> QED
  BY <1>1, <1>2, InitIInv DEF ReplyInv, ResponseIsWaitedFor, RepliesAreExpected,
                              DeliveredOnce, Init

\* sendReport(): the new reply is the caller's, and no slot holds it yet.
LEMMA TryOccupyReplyInv ==
    ASSUME ReplyInv, IInv', NEW c \in Callers, NEW q \in Requests, NEW t \in Tags,
           pc[c] # "reply",
           request' = [request EXCEPT ![c] = q],
           tag' = [tag EXCEPT ![c] = t],
           UNCHANGED timedOut,
           TryOccupy(c, q, t)
    PROVE  ReplyInv'
<1> DEFINE k == SlotOf(q)
           new == [request |-> q, tag |-> t]
<1>k. k \in 0..Slots-1
  BY SlotOfType
<1>t. TypeOK
  BY DEF ReplyInv, IInv
<1>n. Belongs(Nothing)' /\ Nothing \notin Replies /\ q # NoRequest
  BY RequestIsNotNone DEF Belongs, Nothing
<1>x. \A r : Expected(r) => Expected(r)'
  <2> SUFFICES ASSUME NEW r, NEW d \in Callers,
                      pc[d] = "reply", request[d] = r.request, tag[d] = r.tag
               PROVE  pc'[d] = "reply" /\ request'[d] = r.request /\ tag'[d] = r.tag
    BY DEF Expected
  <2>1. pc' = [pc EXCEPT ![c] = pc'[c]]
    BY <1>t DEF TryOccupy, Occupy, AwaitSlot, TypeOK
  <2> QED
    BY <2>1, <1>t DEF TypeOK
<1>b. \A r : Belongs(r) => Belongs(r)'
  BY <1>x DEF Belongs
<1> HIDE DEF k
<1>1. CASE MayUse(q) /\ Occupy(c, q, t)
  <2>1. slot' = [slot EXCEPT ![k] = Waiting(q)] /\ slot[k].waits = NoRequest
    BY <1>1 DEF Occupy, MayUse, k
  <2>2. slot'[k].response = Nothing
    BY <2>1, <1>t, <1>k DEF TypeOK, Waiting
  <2>3. \A i \in 0..Slots-1 : i # k => slot'[i] = slot[i]
    BY <2>1, <1>t DEF TypeOK
  <2>4. \/ UNCHANGED replies
        \/ replies' = replies \cup {new} /\ pc' = [pc EXCEPT ![c] = "reply"]
    BY <1>1 DEF Occupy, Write
  <2>5. ResponseIsWaitedFor'
    BY <2>2, <2>3 DEF ReplyInv, ResponseIsWaitedFor, SlotOf, Nothing
  <2>6. RepliesAreExpected'
    <3>1. replies' = replies \cup {new} /\ pc' = [pc EXCEPT ![c] = "reply"]
              => Belongs(new)'
      BY <1>t DEF Belongs, Expected, TypeOK
    <3> QED
      BY <3>1, <2>2, <2>3, <2>4, <1>b, <1>n DEF ReplyInv, RepliesAreExpected
  <2>7. DeliveredOnce'
    <3> SUFFICES ASSUME NEW i \in 0..Slots-1, slot'[i].response \in replies'
                 PROVE  FALSE
      BY DEF DeliveredOnce
    <3>1. replies' \subseteq Replies
      BY DEF IInv, TypeOK
    <3>2. i # k
      BY <3>1, <2>2, <1>n
    <3>3. slot[i].response \notin replies
      BY DEF ReplyInv, DeliveredOnce
    <3>4. slot[i].response = new
      BY <3>2, <3>3, <2>3, <2>4
    <3>5. slot[i].response # Nothing
      BY <3>4, <1>n DEF Nothing
    <3>6. SlotOf(slot[i].response.request) = i
      BY <3>5 DEF ReplyInv, ResponseIsWaitedFor
    <3> QED
      BY <3>2, <3>4, <3>6 DEF k
  <2> QED
    BY <2>5, <2>6, <2>7 DEF ReplyInv
<1>2. CASE AwaitSlot(c)
  <2>1. UNCHANGED <<slot, replies>>
    BY <1>2 DEF AwaitSlot
  <2> QED
    BY <2>1, <1>b DEF ReplyInv, ResponseIsWaitedFor, RepliesAreExpected, DeliveredOnce,
                      SlotOf, Nothing
<1> QED
  BY <1>1, <1>2 DEF TryOccupy

\* A caller leaves with its own reply, or its request has timed out: either
\* way the replies that remain belong.
LEMMA ReleaseReplyInv ==
    ASSUME ReplyInv, IInv', NEW c \in Callers, pc[c] = "reply",
           Reset(c),
           pc' = [pc EXCEPT ![c] = "idle"],
           timedOut \subseteq timedOut',
           request[c] \in timedOut' \/ Received(c) # Nothing,
           UNCHANGED <<request, tag, replies>>
    PROVE  ReplyInv'
<1> DEFINE k == SlotOf(request[c])
<1>i. IInv
  BY DEF ReplyInv
<1>t. TypeOK
  BY <1>i DEF IInv
<1>k. k \in 0..Slots-1 /\ slot[k].waits = request[c]
  BY <1>i, OwnersUseSlots
<1>n. Belongs(Nothing)' /\ Nothing \notin Replies
  BY RequestIsNotNone DEF Belongs, Nothing
<1>1. slot' = [slot EXCEPT ![k] = Free]
  BY DEF Reset
<1>2. slot'[k].response = Nothing
  BY <1>1, <1>k, <1>t DEF TypeOK, Free
<1>3. \A i \in 0..Slots-1 : i # k => slot'[i] = slot[i]
  BY <1>1, <1>t DEF TypeOK
\* What belonged to c can only be the response it has received.
<1>4. ASSUME NEW r \in Replies, Belongs(r), ~Belongs(r)'
      PROVE  r = slot[k].response
  <2>1. r.request \in Requests /\ r.request \notin timedOut' /\ ~Expected(r)'
    BY <1>4 DEF Belongs
  <2>2. PICK d \in Callers : pc[d] = "reply" /\ request[d] = r.request /\ tag[d] = r.tag
    BY <1>4, <2>1 DEF Belongs, Expected
  <2>3. d = c
    <3>1. d # c => pc'[d] = "reply" /\ request'[d] = r.request /\ tag'[d] = r.tag
      BY <2>2, <1>t DEF TypeOK
    <3> QED
      BY <3>1, <2>1 DEF Expected
  <2> DEFINE x == slot[k].response
  <2>4. x # Nothing
    BY <2>1, <2>2, <2>3 DEF Received
  <2>5. x \in Replies /\ x.request = request[c]
    BY <2>4, <1>k, <1>t, ResponseType DEF ReplyInv, ResponseIsWaitedFor
  <2>6. Expected(x)
    BY <2>1, <2>2, <2>3, <2>5, <1>k DEF ReplyInv, RepliesAreExpected, Belongs
  <2>7. PICK e \in Callers : pc[e] = "reply" /\ request[e] = x.request /\ tag[e] = x.tag
    BY <2>6 DEF Expected
  <2>8. e = c
    BY <2>5, <2>7, <1>i DEF IInv, OneOwner, Owns
  <2> HIDE DEF x
  <2>9. r.request = x.request /\ r.tag = x.tag
    BY <2>2, <2>3, <2>5, <2>7, <2>8
  <2>10. r = x
    BY <2>5, <2>9 DEF Replies
  <2> QED
    BY <2>10 DEF x
<1> HIDE DEF k
<1>5. ResponseIsWaitedFor'
  BY <1>2, <1>3 DEF ReplyInv, ResponseIsWaitedFor, SlotOf, Nothing
<1>6. \A r \in replies' : Belongs(r)'
  <2> SUFFICES ASSUME NEW r \in replies, ~Belongs(r)'
               PROVE  FALSE
    OBVIOUS
  <2>1. r \in Replies /\ Belongs(r)
    BY <1>t DEF TypeOK, ReplyInv, RepliesAreExpected
  <2>2. r = slot[k].response
    BY <2>1, <1>4
  <2> QED
    BY <2>2, <1>k DEF ReplyInv, DeliveredOnce
<1>7. \A i \in 0..Slots-1 : Belongs(slot[i].response)'
  <2> SUFFICES ASSUME NEW i \in 0..Slots-1, i # k
               PROVE  Belongs(slot[i].response)'
    BY <1>2, <1>n DEF Belongs, Expected
  <2> DEFINE r == slot[i].response
  <2>1. CASE r = Nothing
    BY <2>1, <1>3, <1>n DEF Belongs, Expected
  <2>2. CASE r # Nothing
    <3>1. r \in Replies /\ Belongs(r) /\ SlotOf(r.request) = i
      BY <2>2, <1>t, ResponseType DEF ReplyInv, RepliesAreExpected, ResponseIsWaitedFor
    <3>2. slot[k].response # r
      BY <3>1, <2>2, <1>k DEF ReplyInv, ResponseIsWaitedFor
    <3>3. slot'[i].response = r
      BY <1>3
    <3> HIDE DEF r
    <3>4. r.request \in Requests => r.request \in timedOut' \/
             \E d \in Callers : pc'[d] = "reply" /\ request'[d] = r.request /\ tag'[d] = r.tag
      BY <3>1, <3>2, <1>4 DEF Belongs, Expected
    <3> QED
      BY <3>3, <3>4 DEF Belongs, Expected
  <2> QED
    BY <2>1, <2>2
<1>8. DeliveredOnce'
  <2>1. Nothing \notin replies'
    BY <1>n, <1>t DEF TypeOK
  <2> QED
    BY <2>1, <1>2, <1>3 DEF ReplyInv, DeliveredOnce
<1> QED
  BY <1>5, <1>6, <1>7, <1>8 DEF ReplyInv, RepliesAreExpected

\* responseReport(): the slot that takes the reply waits for its request.
LEMMA ResponseReportReplyInv ==
    ASSUME Protocol = "hidpp20", ReplyInv, IInv', NEW r \in replies, ResponseReport(r)
    PROVE  ReplyInv'
<1> DEFINE k == SlotOf(r.request)
<1>t. TypeOK
  BY DEF ReplyInv, IInv
<1>r. r \in Replies /\ k \in 0..Slots-1
  <2>1. r \in Replies /\ r.request \in Requests \cup NoAckRequests
    BY <1>t DEF TypeOK, Replies
  <2> QED
    BY <2>1, SlotOfType
<1>1. \/ UNCHANGED slot
      \/ slot' = [slot EXCEPT ![k].response = r] /\ slot[k].waits = r.request
  BY DEF ResponseReport, Matches, Matches20
<1>2. replies' = replies \ {r} /\ UNCHANGED <<pc, request, tag, timedOut>>
  BY DEF ResponseReport
<1>b. \A x : Belongs(x) => Belongs(x)'
  BY <1>2 DEF Belongs, Expected
<1>3. CASE UNCHANGED slot
  BY <1>2, <1>3, <1>b DEF ReplyInv, ResponseIsWaitedFor, RepliesAreExpected,
                          DeliveredOnce, SlotOf, Nothing
<1>4. CASE slot' = [slot EXCEPT ![k].response = r] /\ slot[k].waits = r.request
  <2>1. slot'[k].response = r /\ slot'[k].waits = r.request
    BY <1>4, <1>r, <1>t DEF TypeOK
  <2>2. \A i \in 0..Slots-1 : i # k => slot'[i] = slot[i]
    BY <1>4, <1>t DEF TypeOK
  <2>3. Belongs(r)'
    BY <1>b DEF ReplyInv, RepliesAreExpected
  <2>4. ResponseIsWaitedFor'
    <3> SUFFICES ASSUME NEW i \in 0..Slots-1, slot'[i].response # Nothing
                 PROVE  /\ slot'[i].waits = slot'[i].response.request
                        /\ SlotOf(slot'[i].response.request) = i
      BY DEF ResponseIsWaitedFor, SlotOf, Nothing
    <3> QED
      BY <2>1, <2>2 DEF ReplyInv, ResponseIsWaitedFor
  <2>5. RepliesAreExpected'
    BY <2>1, <2>2, <2>3, <1>2, <1>b DEF ReplyInv, RepliesAreExpected
  <2>6. DeliveredOnce'
    BY <2>1, <2>2, <1>2 DEF ReplyInv, DeliveredOnce
  <2> QED
    BY <2>4, <2>5, <2>6 DEF ReplyInv
<1> QED
  BY <1>1, <1>3, <1>4

\* The reply to an unacknowledged report is no request's: no slot has it.
LEMMA SendReportNoACKReplyInv ==
    ASSUME Protocol = "hidpp20", ReplyInv, IInv', NEW q \in Requests,
           SendReportNoACK(q)
    PROVE  ReplyInv'
<1> DEFINE new == [request |-> [q EXCEPT !.address = NoAckAddress[@]], tag |-> 0]
<1>t. TypeOK
  BY DEF ReplyInv, IInv
<1>1. replies' = replies \cup {new} /\ UNCHANGED <<slot, pc, request, tag, timedOut>>
  BY DEF SendReportNoACK
<1>2. new.request \notin Requests /\ new # Nothing
  <2>1. q.address \in Addresses
    BY DEF Requests
  <2>2. NoAckAddress[q.address] \notin Addresses
    BY <2>1, TransactionsAssumption DEF TransactionsAssumption
  <2>3. new.request \in NoAckRequests /\ new.request.address = NoAckAddress[q.address]
    BY <2>1 DEF Requests, NoAckRequests
  <2>4. NoRequest \notin NoAckRequests
    BY TransactionsAssumption DEF TransactionsAssumption
  <2> QED
    BY <2>2, <2>3, <2>4 DEF Requests, Nothing
<1>b. Belongs(new)' /\ \A x : Belongs(x) => Belongs(x)'
  BY <1>1, <1>2 DEF Belongs, Expected
<1>3. \A i \in 0..Slots-1 : slot[i].response # new
  BY <1>2, <1>t, ResponseType DEF ReplyInv, ResponseIsWaitedFor
<1> HIDE DEF new
<1> QED
  BY <1>1, <1>b, <1>3 DEF ReplyInv, ResponseIsWaitedFor, RepliesAreExpected,
                          DeliveredOnce, SlotOf, Nothing

\* Every step of the 2.0 protocol preserves the invariant of the replies.
LEMMA NextReplyInv ==
    ASSUME Protocol = "hidpp20"
    PROVE  ReplyInv /\ [Next]_vars => ReplyInv'
<1> SUFFICES ASSUME ReplyInv, [Next]_vars
             PROVE  ReplyInv'
  OBVIOUS
<1>i. IInv /\ IInv'
  BY NextIInv DEF ReplyInv
<1>t. TypeOK /\ TypeOK'
  BY <1>i DEF IInv
<1>1. ASSUME NEW c \in Callers, NEW q \in Requests, SendReport(c, q)
      PROVE  ReplyInv'
  <2>1. calls' \in Tags
    BY <1>t DEF TypeOK, Tags
  <2> QED
    BY <1>1, <1>i, <2>1, TryOccupyReplyInv DEF SendReport
<1>2. ASSUME NEW c \in Callers, SlotWakeup(c)
      PROVE  ReplyInv'
  <2>1. request[c] \in Requests /\ tag[c] \in Tags
    BY <1>2, <1>i, <1>t DEF SlotWakeup, TypeOK, IInv, CallersHaveRequests
  <2>2. /\ pc[c] # "reply"
        /\ request' = [request EXCEPT ![c] = request[c]]
        /\ tag' = [tag EXCEPT ![c] = tag[c]]
        /\ UNCHANGED timedOut
        /\ TryOccupy(c, request[c], tag[c])
    BY <1>2, <1>t DEF SlotWakeup, TypeOK
  <2> QED
    BY <1>i, <2>1, <2>2, TryOccupyReplyInv
<1>3. ASSUME NEW c \in Callers, Answered(c)
      PROVE  ReplyInv'
  BY <1>3, <1>i, ReleaseReplyInv DEF Answered
<1>4. ASSUME NEW c \in Callers, TimesOut(c)
      PROVE  ReplyInv'
  BY <1>4, <1>i, ReleaseReplyInv DEF TimesOut, ReleaseOnTimeout
<1>5. ASSUME UNCHANGED <<slot, pc, request, tag, replies, timedOut>>
      PROVE  ReplyInv'
  BY <1>5, <1>i DEF ReplyInv, ResponseIsWaitedFor, RepliesAreExpected, DeliveredOnce,
                    Belongs, Expected, SlotOf, Nothing
<1>6. ASSUME NEW c \in Callers, SpuriousWakeup(c)
      PROVE  ReplyInv'
  BY <1>5, <1>6 DEF SpuriousWakeup
<1>7. CASE UNCHANGED vars
  BY <1>5, <1>7 DEF vars
<1> QED
  BY <1>1, <1>2, <1>3, <1>4, <1>6, <1>7, <1>i, ResponseReportReplyInv,
     SendReportNoACKReplyInv DEF Next, CallerStep

\* In the 2.0 protocol a caller receives the reply to its own request: to its
\* own call, unless an equal request has timed out before; never the reply
\* to an unacknowledged report (hidpp20/Device.cpp 104-108, 147-150).  The
\* 1.0 device compares sub ids only and promises neither.
THEOREM OwnReply ==
    ASSUME Protocol = "hidpp20"
    PROVE  Spec => []OwnReplyUntilTimeout
<1>1. ReplyInv => OwnReplyUntilTimeout
  <2> SUFFICES ASSUME ReplyInv, NEW c \in Callers, pc[c] = "reply", Received(c) # Nothing
               PROVE  /\ Received(c).request = request[c]
                      /\ \/ Received(c).tag = tag[c]
                         \/ Received(c).request \in timedOut
    BY DEF OwnReplyUntilTimeout
  <2> DEFINE r == Received(c)
  <2>1. IInv /\ SlotOf(request[c]) \in 0..Slots-1 /\ request[c] \in Requests
    BY OwnersUseSlots DEF ReplyInv
  <2>2. r.request = request[c]
    BY <2>1 DEF Received, ReplyInv, ResponseIsWaitedFor, IInv, OneOwner
  <2>3. Belongs(r)
    BY <2>1 DEF Received, ReplyInv, RepliesAreExpected
  <2>4. Expected(r) => r.tag = tag[c]
    BY <2>1, <2>2 DEF Expected, IInv, OneOwner, Owns
  <2> QED
    BY <2>1, <2>2, <2>3, <2>4 DEF Belongs
<1>2. Spec => []ReplyInv
  BY InitReplyInv, NextReplyInv, PTL DEF Spec
<1> QED
  BY <1>1, <1>2, PTL
=============================================================================
