------------------------- MODULE OwnerTrackerProofs -------------------------
(* Theorems about OwnerTracker for every value of its constants.           *)
EXTENDS OwnerTracker, TLAPS, SequenceTheorems, WellFoundedInduction, FiniteSetTheorems

\* min() of a non-empty set of names returns one of them, the smallest.
LEMMA LeastProperties ==
  ASSUME NEW S \in SUBSET Nat, S # {}
  PROVE  Least(S) \in S /\ \A m \in S : Least(S) <= m
<1> DEFINE below == {ss \in Nat \X Nat : ss[1] < ss[2]}
<1>1. IsWellFoundedOn(below, Nat)
  BY NatLessThanWellFounded DEF OpToRel
<1>2. \E x \in S : \A y \in S : ~(<<y, x>> \in below)
  BY <1>1, WFMin, Zenon
<1>3. \E x \in S : \A y \in S : x <= y
  <2>1. PICK x \in S : \A y \in S : ~(<<y, x>> \in below)
    BY <1>2
  <2>2. \A y \in S : y \in Nat /\ x \in Nat /\ ~(y < x)
    BY <2>1
  <2> QED
    BY <2>2
<1> QED
  BY <1>3 DEF Least
-----------------------------------------------------------------------------
(* The helpers of the handlers.                                            *)

\* _select_service answers with a name of the set it is given, or with none.
LEMMA SelectServiceChooses ==
  ASSUME NEW names \in SUBSET Name, NEW i
  PROVE  SelectService(names, i) # NoName => SelectService(names, i) \in names
<1>1. Eligible(names, i) \subseteq names
  BY DEF Eligible
<1>2. Eligible(names, i) \in SUBSET Nat
  BY <1>1, NamesAreOrdered
<1>3. Eligible(names, i) # {} => Least(Eligible(names, i)) \in names
  BY <1>1, <1>2, LeastProperties
<1> QED
  BY <1>3 DEF SelectService

\* _refresh keeps the state of the requests well typed.
LEMMA RefreshTyped ==
  ASSUME RequestsTypeOK, Refresh
  PROVE  RequestsTypeOK'
<1>1. CASE UNCHANGED askVars
  BY <1>1 DEF RequestsTypeOK, askVars
<1>2. CASE /\ refreshing' = TRUE /\ listing' = TRUE
           /\ changed' = {}
           /\ sinceRefresh' = 0 /\ waited' = 0
           /\ UNCHANGED asked
  BY <1>2, LimitsAreNatural DEF RequestsTypeOK
<1>3. CASE /\ changed' = {}
           /\ sinceRefresh' = Cooldown
           /\ UNCHANGED <<refreshing, listing, asked, waited>>
  BY <1>3, LimitsAreNatural DEF RequestsTypeOK, Cooldown
<1> QED
  BY <1>1, <1>2, <1>3 DEF Refresh

\* complete() keeps the state of the requests well typed.
LEMMA SettleTyped ==
  ASSUME RequestsTypeOK, NEW names \in SUBSET Name, NEW time \in 0..CallTimeout,
         Settle(names, time), sinceRefresh' \in 0..RefreshInterval
  PROVE  RequestsTypeOK'
<1>1. refreshing' \in BOOLEAN /\ listing' \in BOOLEAN
  BY DEF Settle, RequestsTypeOK
<1>2. changed' \subseteq Name /\ asked' \subseteq Name
  BY DEF Settle, RequestsTypeOK
<1>3. waited' \in 0..CallTimeout
  BY LimitsAreNatural DEF Settle
<1> QED
  BY <1>1, <1>2, <1>3 DEF RequestsTypeOK

LEMMA StartTrackerTyped ==
  ASSUME RequestsTypeOK, StartTracker, started \in BOOLEAN, closed \in BOOLEAN
  PROVE  RequestsTypeOK' /\ started' \in BOOLEAN
BY RefreshTyped DEF StartTracker, askVars, RequestsTypeOK

\* A batch that is published under a name keeps its fields.
LEMMA AsDeliveryTyped ==
  ASSUME NEW b \in Batch \cup Queued, NEW n \in Name
  PROVE  /\ AsDelivery(b, n) \in Delivery
         /\ AsDelivery(b, n).id = b.id /\ AsDelivery(b, n).owner = b.owner
         /\ AsDelivery(b, n).service = n
BY DEF AsDelivery, Delivery, Batch, Queued

\* _set_owner, replay included, keeps owners, queue and callbacks well typed.
LEMMA SetOwnerTyped ==
  ASSUME TypeOK, NEW n \in Name, NEW c \in Owner, SetOwner(n, c)
  PROVE  OwnersTypeOK' /\ QueueTypeOK' /\ CallsTypeOK'
<1> DEFINE names == owners[c] \cup {n}
<1>1. OwnersTypeOK'
  BY DEF TypeOK, OwnersTypeOK, SetOwner, Reassign
<1>2. Fresh \subseteq pending
  BY DEF Fresh
<1>3. QueueTypeOK'
  BY <1>2 DEF TypeOK, QueueTypeOK, SetOwner, queueVars, KeepOnly, Remaining
<1>4. CASE c = NoConn
  <2>1. calls' = [invalidate |-> IF Lost(n, c) THEN {n} ELSE {}, deliver |-> {}]
    BY <1>4 DEF SetOwner
  <2> QED
    BY <2>1, <1>1, <1>3 DEF CallsTypeOK
<1>5. CASE c # NoConn
  <2>1. names \in SUBSET Name
    BY <1>5 DEF TypeOK, OwnersTypeOK, Owner
  <2>2. ASSUME NEW b \in Ready(c, names)
        PROVE  AsDelivery(b, SelectService(names, b.iface)) \in Delivery
    <3>1. b \in Queued
      BY <2>2, <1>2 DEF Ready, TypeOK, QueueTypeOK
    <3>2. SelectService(names, b.iface) \in Name
      BY <2>1, <2>2, SelectServiceChooses DEF Ready
    <3> QED
      BY <3>1, <3>2, AsDeliveryTyped
  <2>3. calls' = [invalidate |-> IF Lost(n, c) THEN {n} ELSE {},
                  deliver |-> {AsDelivery(b, SelectService(names, b.iface))
                                 : b \in Ready(c, names)}]
    BY <1>5 DEF SetOwner
  <2>4. {AsDelivery(b, SelectService(names, b.iface)) : b \in Ready(c, names)}
          \in SUBSET Delivery
    BY <2>2
  <2> HIDE DEF names
  <2>5. CallsTypeOK'
    BY <2>3, <2>4 DEF CallsTypeOK
  <2> QED
    BY <1>1, <1>3, <2>5
<1> QED
  BY <1>4, <1>5

\* Forgetting vanished names invalidates names only.
LEMMA ForgetTyped ==
  ASSUME TypeOK, NEW gone \in SUBSET Name, Forget(gone)
  PROVE  OwnersTypeOK' /\ CallsTypeOK'
<1>1. services' \in [Name -> Owner]
  BY DEF Forget, TypeOK, OwnersTypeOK, Owner
<1>2. owners' \in [Conn -> SUBSET Name]
  BY DEF Forget, TypeOK, OwnersTypeOK
<1>3. CallsTypeOK'
  BY DEF Forget, CallsTypeOK
<1> QED
  BY <1>1, <1>2, <1>3 DEF OwnersTypeOK

LEMMA QuietTyped == ASSUME calls' = Quiet PROVE CallsTypeOK'
BY DEF CallsTypeOK, Quiet

LEMMA SettledRequestsTyped ==
  ASSUME TypeOK, NEW names \in SUBSET Name, OnFailed(names)
  PROVE  RequestsTypeOK' /\ CallsTypeOK' /\ OwnersTypeOK' /\ QueueTypeOK'
<1>1. sinceRefresh' \in 0..RefreshInterval
  BY LimitsAreNatural DEF OnFailed, Cooldown
<1>2. waited \in 0..CallTimeout /\ asked \ names \in SUBSET Name
  BY DEF TypeOK, RequestsTypeOK
<1>3. RequestsTypeOK'
  BY <1>1, <1>2, SettleTyped DEF OnFailed, TypeOK
<1> QED
  BY <1>3, QuietTyped
     DEF OnFailed, TypeOK, OwnersTypeOK, QueueTypeOK, ownerVars, queueVars

LEMMA OnListedTyped ==
  ASSUME TypeOK, NEW present \in SUBSET Name, OnListed(present)
  PROVE  RequestsTypeOK' /\ CallsTypeOK' /\ OwnersTypeOK' /\ QueueTypeOK'
<1>1. PICK sent \in SUBSET Name :
        Settle(sent, 0) /\ sinceRefresh' \in {sinceRefresh, Cooldown}
  BY Zenon DEF OnListed, AskFor
<1>2. sinceRefresh' \in 0..RefreshInterval
  BY <1>1, LimitsAreNatural DEF Cooldown, TypeOK, RequestsTypeOK
<1>3. RequestsTypeOK'
  BY <1>1, <1>2, SettleTyped, LimitsAreNatural DEF TypeOK
<1> QED
  BY <1>3, ForgetTyped DEF OnListed, TypeOK, QueueTypeOK, queueVars

LEMMA OnFoundTyped ==
  ASSUME TypeOK, NEW n \in Name, NEW c \in Owner, OnFound(n, c)
  PROVE  RequestsTypeOK' /\ CallsTypeOK' /\ OwnersTypeOK' /\ QueueTypeOK'
<1>1. waited \in 0..CallTimeout /\ asked \ {n} \in SUBSET Name
      /\ sinceRefresh' \in 0..RefreshInterval
  BY DEF TypeOK, RequestsTypeOK, OnFound
<1>2. RequestsTypeOK'
  BY <1>1, SettleTyped DEF OnFound, TypeOK
<1>3. CASE n \in changed
  BY <1>2, <1>3, QuietTyped
     DEF OnFound, TypeOK, OwnersTypeOK, QueueTypeOK, ownerVars, queueVars
<1>4. CASE n \notin changed
  BY <1>2, <1>4, SetOwnerTyped DEF OnFound
<1> QED
  BY <1>3, <1>4

LEMMA OnChangedTyped ==
  ASSUME TypeOK, NEW n \in Name, NEW c \in Owner, OnChanged(n, c)
  PROVE  RequestsTypeOK' /\ CallsTypeOK' /\ OwnersTypeOK' /\ QueueTypeOK'
<1>1. CASE closed
  BY <1>1, QuietTyped
     DEF OnChanged, TypeOK, OwnersTypeOK, QueueTypeOK, RequestsTypeOK, ownerVars,
         queueVars, askVars
<1>2. CASE ~closed
  <2>1. RequestsTypeOK'
    BY <1>2 DEF OnChanged, TypeOK, RequestsTypeOK
  <2> QED
    BY <1>2, <2>1, SetOwnerTyped DEF OnChanged
<1> QED
  BY <1>1, <1>2

LEMMA EnqueueTyped ==
  ASSUME TypeOK, NEW b \in Batch, Enqueue(b)
  PROVE  RequestsTypeOK' /\ QueueTypeOK'
<1>1. CASE Size(b) > MaxPendingItems
  BY <1>1 DEF Enqueue, KeepOnly, Fresh, TypeOK, QueueTypeOK, RequestsTypeOK, askVars
<1>2. CASE ~(Size(b) > MaxPendingItems)
  <2>1. Evict(Fresh, Size(b)) \subseteq pending
    BY DEF Evict, Younger, Fresh
  <2>2. [id |-> b.id, owner |-> b.owner, iface |-> b.iface,
         changed |-> b.changed, age |-> 0] \in Queued
    BY LimitsAreNatural DEF Batch, Queued
  <2>3. pending' = Evict(Fresh, Size(b)) \cup
          {[id |-> b.id, owner |-> b.owner, iface |-> b.iface,
            changed |-> b.changed, age |-> 0]}
    BY <1>2 DEF Enqueue
  <2>4. QueueTypeOK'
    BY <2>1, <2>2, <2>3 DEF QueueTypeOK, TypeOK
  <2>5. RequestsTypeOK'
    BY <1>2, RefreshTyped DEF Enqueue, TypeOK
  <2> QED
    BY <2>4, <2>5
<1> QED
  BY <1>1, <1>2

LEMMA OnItemsTyped ==
  ASSUME TypeOK, NEW b \in Batch, OnItems(b)
  PROVE  RequestsTypeOK' /\ CallsTypeOK' /\ OwnersTypeOK' /\ QueueTypeOK'
<1> DEFINE n == SelectService(owners[b.owner], b.iface)
<1>1. OwnersTypeOK'
  BY DEF OnItems, TypeOK, OwnersTypeOK, ownerVars
<1>2. CASE UNCHANGED <<queueVars, askVars>> /\ calls' = Quiet
  BY <1>1, <1>2, QuietTyped
     DEF TypeOK, QueueTypeOK, RequestsTypeOK, queueVars, askVars
<1>3. CASE /\ n # NoName
           /\ calls' = [invalidate |-> {}, deliver |-> {AsDelivery(b, n)}]
           /\ UNCHANGED <<queueVars, askVars>>
  <2>1. b.owner \in Conn
    BY DEF Batch
  <2>2. n \in Name
    BY <1>3, <2>1, SelectServiceChooses DEF TypeOK, OwnersTypeOK
  <2>3. AsDelivery(b, n) \in Delivery
    BY <2>2, AsDeliveryTyped
  <2> HIDE DEF n
  <2>4. CallsTypeOK'
    BY <1>3, <2>3 DEF CallsTypeOK
  <2> QED
    BY <1>1, <1>3, <2>4
       DEF TypeOK, QueueTypeOK, RequestsTypeOK, queueVars, askVars
<1>4. CASE calls' = Quiet /\ Enqueue(b)
  BY <1>1, <1>4, QuietTyped, EnqueueTyped
<1> QED
  BY <1>2, <1>3, <1>4 DEF OnItems

\* Taking one message out of the wire leaves a wire, whose messages keep
\* their order.
LEMMA WithoutTyped ==
  ASSUME wire \in Seq(Message), NEW i \in 1..Len(wire)
  PROVE  /\ Without(i) \in Seq(Message)
         /\ Len(Without(i)) = Len(wire) - 1
         /\ \A j \in 1..(Len(wire) - 1) :
              Without(i)[j] = IF j < i THEN wire[j] ELSE wire[j + 1]
<1> DEFINE front == SubSeq(wire, 1, i - 1)
           back == SubSeq(wire, i + 1, Len(wire))
<1>1. /\ front \in Seq(Message)
      /\ Len(front) = i - 1
      /\ \A j \in 1..(i - 1) : front[j] = wire[j]
  <2>1. \A j \in 1..(i - 1) : wire[j] \in Message
    BY ElementOfSeq
  <2> QED
    BY <2>1, SubSeqProperties
<1>2. /\ back \in Seq(Message)
      /\ Len(back) = Len(wire) - i
      /\ \A j \in 1..(Len(wire) - i) : back[j] = wire[j + i]
  <2>1. \A j \in (i + 1)..Len(wire) : wire[j] \in Message
    BY ElementOfSeq
  <2>2. /\ back \in Seq(Message)
        /\ Len(back) = IF i + 1 <= Len(wire) THEN Len(wire) - (i + 1) + 1 ELSE 0
        /\ \A j \in 1..(Len(wire) - (i + 1) + 1) : back[j] = wire[i + 1 + j - 1]
    BY <2>1, SubSeqProperties
  <2> QED
    BY <2>2
<1> HIDE DEF front, back
<1>3. /\ front \o back \in Seq(Message)
      /\ Len(front \o back) = Len(front) + Len(back)
      /\ \A j \in 1..(Len(front) + Len(back)) :
           (front \o back)[j] = IF j <= Len(front) THEN front[j] ELSE back[j - Len(front)]
  BY <1>1, <1>2, ConcatProperties
<1>4. Without(i) = front \o back
  BY DEF Without, front, back
<1>5. Len(wire) \in Nat
  BY LenProperties
<1>6. ASSUME NEW j \in 1..(Len(wire) - 1)
      PROVE  Without(i)[j] = IF j < i THEN wire[j] ELSE wire[j + 1]
  <2>1. CASE j < i
    BY <1>1, <1>2, <1>3, <1>4, <1>5, <2>1
  <2>2. CASE j >= i
    <3>1. Without(i)[j] = back[j - (i - 1)]
      BY <1>1, <1>2, <1>3, <1>4, <1>5, <2>2
    <3>2. back[j - (i - 1)] = wire[j - (i - 1) + i]
      BY <1>2, <1>5, <2>2
    <3> QED
      BY <2>2, <3>1, <3>2
  <2> QED
    BY <2>1, <2>2
<1>7. Len(front) + Len(back) = Len(wire) - 1
  BY <1>1, <1>2, <1>5
<1> QED
  BY <1>3, <1>4, <1>6, <1>7

LEMMA ReceiveTyped ==
  ASSUME TypeOK, NEW i \in 1..Len(wire), Receive(i)
  PROVE  TypeOK'
<1> DEFINE m == wire[i]
<1>0. m \in Message
  BY ElementOfSeq DEF TypeOK, EnvironmentTypeOK
<1>1. EnvironmentTypeOK'
  BY WithoutTyped DEF Receive, TypeOK, EnvironmentTypeOK
<1>2. SubscriptionsTypeOK' /\ started' \in BOOLEAN /\ closed' \in BOOLEAN
  BY DEF Receive, TypeOK, SubscriptionsTypeOK, subscriptionVars
<1>3. RequestsTypeOK' /\ CallsTypeOK' /\ OwnersTypeOK' /\ QueueTypeOK'
  <2>1. CASE m.kind = "items" /\ OnItems(m.batch)
    <3>1. m.batch \in Batch
      BY <1>0, <2>1 DEF Message
    <3> QED
      BY <2>1, <3>1, OnItemsTyped
  <2>2. CASE m.kind = "changed" /\ OnChanged(m.name, m.new)
    <3>1. m.name \in Name /\ m.new \in Owner
      BY <1>0, <2>2 DEF Message
    <3> QED
      BY <2>2, <3>1, OnChangedTyped
  <2>3. CASE IsReply(m) /\ closed /\ IgnoreReply
    BY <2>3, QuietTyped
       DEF IgnoreReply, TypeOK, OwnersTypeOK, QueueTypeOK, RequestsTypeOK, ownerVars,
           queueVars, askVars
  <2>4. CASE m.kind = "listed" /\ OnListed(m.names)
    <3>1. m.names \in SUBSET Name
      BY <1>0, <2>4 DEF Message
    <3> QED
      BY <2>4, <3>1, OnListedTyped
  <2>5. CASE m.kind = "found" /\ OnFound(m.name, m.owner)
    <3>1. m.name \in Name /\ m.owner \in Owner
      BY <1>0, <2>5 DEF Message
    <3> QED
      BY <2>5, <3>1, OnFoundTyped
  <2>6. CASE m.kind = "failed" /\ OnFailed(m.names)
    <3>1. m.names \in SUBSET Name
      BY <1>0, <2>6 DEF Message
    <3> QED
      BY <2>6, <3>1, SettledRequestsTyped
  <2> QED
    BY <2>1, <2>2, <2>3, <2>4, <2>5, <2>6 DEF Receive
<1> QED
  BY <1>1, <1>2, <1>3 DEF TypeOK

LEMMA OutstandingAreNames ==
  ASSUME TypeOK, NEW names \in Outstanding
  PROVE  names \in SUBSET Name
BY DEF Outstanding, TypeOK, RequestsTypeOK

LEMMA TimeoutTyped ==
  ASSUME TypeOK, NEW names \in Outstanding, Timeout(names)
  PROVE  TypeOK'
<1>1. names \in SUBSET Name
  BY OutstandingAreNames
<1>2. RequestsTypeOK' /\ CallsTypeOK' /\ OwnersTypeOK' /\ QueueTypeOK'
  BY <1>1, SettledRequestsTyped DEF Timeout
<1>3. wire' \in Seq(Message)
  <2> DEFINE late == AnswersTo(names)
  <2>1. CASE late = {}
    BY <2>1 DEF Timeout, TypeOK, EnvironmentTypeOK
  <2>2. CASE late # {}
    <3>1. (CHOOSE i \in late : TRUE) \in 1..Len(wire)
      BY <2>2 DEF AnswersTo
    <3> QED
      BY <2>2, <3>1, WithoutTyped DEF Timeout, TypeOK, EnvironmentTypeOK
  <2> QED
    BY <2>1, <2>2
<1>4. EnvironmentTypeOK'
  BY <1>3 DEF Timeout, TypeOK, EnvironmentTypeOK
<1>5. SubscriptionsTypeOK' /\ started' \in BOOLEAN /\ closed' \in BOOLEAN
  BY DEF Timeout, TypeOK, SubscriptionsTypeOK, subscriptionVars
<1> QED
  BY <1>2, <1>4, <1>5 DEF TypeOK
-----------------------------------------------------------------------------
(* The steps of the listener, of the daemon and of the clock.              *)

LEMMA SubscribeTyped ==
  ASSUME TypeOK, SubscribeGlobal \/ \E k \in SelectKeys : Subscribe(k)
  PROVE  TypeOK'
<1>1. OwnersTypeOK' /\ QueueTypeOK' /\ EnvironmentTypeOK' /\ closed' \in BOOLEAN
  BY DEF SubscribeGlobal, Subscribe, TypeOK, OwnersTypeOK, QueueTypeOK,
         EnvironmentTypeOK, ownerVars, queueVars, envVars
<1>2. CallsTypeOK'
  BY QuietTyped DEF SubscribeGlobal, Subscribe
<1>3. SubscriptionsTypeOK'
  BY SelectedKeys DEF SubscribeGlobal, Subscribe, RecordGlobal, RecordKey, TypeOK,
                      SubscriptionsTypeOK
<1>4. RequestsTypeOK' /\ started' \in BOOLEAN
  <2>1. CASE StartTracker
    BY <2>1, StartTrackerTyped DEF TypeOK
  <2>2. CASE UNCHANGED <<started, askVars>>
    BY <2>2 DEF TypeOK, RequestsTypeOK, askVars
  <2> QED
    BY <2>1, <2>2 DEF SubscribeGlobal, Subscribe
<1> QED
  BY <1>1, <1>2, <1>3, <1>4 DEF TypeOK

LEMMA StopTyped == ASSUME TypeOK, Stop PROVE TypeOK'
<1>1. SubscriptionsTypeOK' /\ started' \in BOOLEAN /\ closed' \in BOOLEAN
  BY DEF Stop, ForgetSubscriptions, SubscriptionsTypeOK
<1>2. OwnersTypeOK' /\ QueueTypeOK'
  BY DEF Stop, OwnersTypeOK, QueueTypeOK, Owner
<1>3. RequestsTypeOK'
  <2>1. /\ refreshing' \in BOOLEAN /\ listing' \in BOOLEAN
        /\ changed' \subseteq Name /\ asked' \subseteq Name
    BY DEF Stop, TypeOK, RequestsTypeOK
  <2>2. sinceRefresh' \in 0..RefreshInterval /\ waited' \in 0..CallTimeout
    BY LimitsAreNatural DEF Stop, TypeOK, RequestsTypeOK
  <2> QED
    BY <2>1, <2>2 DEF RequestsTypeOK
<1>4. CallsTypeOK' /\ EnvironmentTypeOK'
  BY QuietTyped DEF Stop, TypeOK, EnvironmentTypeOK, envVars
<1> QED
  BY <1>1, <1>2, <1>3, <1>4 DEF TypeOK

LEMMA TickTyped == ASSUME TypeOK, Tick PROVE TypeOK'
<1>1. RequestsTypeOK'
  <2>1. CASE Refresh
    BY <2>1, RefreshTyped DEF TypeOK
  <2>2. CASE UNCHANGED askVars
    BY <2>2 DEF TypeOK, RequestsTypeOK, askVars
  <2> QED
    BY <2>1, <2>2 DEF Tick
<1>2. QueueTypeOK'
  BY DEF Tick, KeepOnly, Fresh, TypeOK, QueueTypeOK
<1>3. CallsTypeOK'
  BY QuietTyped DEF Tick
<1>4. /\ SubscriptionsTypeOK' /\ OwnersTypeOK' /\ EnvironmentTypeOK'
      /\ started' \in BOOLEAN /\ closed' \in BOOLEAN
  BY DEF Tick, TypeOK, SubscriptionsTypeOK, OwnersTypeOK, EnvironmentTypeOK,
         subscriptionVars, ownerVars, envVars
<1> QED
  BY <1>1, <1>2, <1>3, <1>4 DEF TypeOK

\* What every step of the daemon leaves alone.
LEMMA EnvironmentTyped ==
  ASSUME TypeOK, EnvironmentTypeOK', calls' = Quiet,
         UNCHANGED <<subscriptionVars, ownerVars, queueVars, askVars, started, closed>>
  PROVE  TypeOK'
<1>1. /\ SubscriptionsTypeOK' /\ OwnersTypeOK' /\ QueueTypeOK' /\ RequestsTypeOK'
      /\ started' \in BOOLEAN /\ closed' \in BOOLEAN
  BY DEF TypeOK, SubscriptionsTypeOK, OwnersTypeOK, QueueTypeOK, RequestsTypeOK,
         subscriptionVars, ownerVars, queueVars, askVars
<1> QED
  BY <1>1, QuietTyped DEF TypeOK

LEMMA RenameTyped ==
  ASSUME TypeOK, NEW n \in Name, NEW c \in Owner, Rename(n, c)
  PROVE  TypeOK'
<1>1. [kind |-> "changed", name |-> n, old |-> bus[n], new |-> c] \in Message
  BY DEF Message, TypeOK, EnvironmentTypeOK
<1>2. wire' \in Seq(Message)
  BY <1>1, AppendProperties DEF Rename, TypeOK, EnvironmentTypeOK
<1>3. EnvironmentTypeOK'
  BY <1>2 DEF Rename, TypeOK, EnvironmentTypeOK
<1> QED
  BY <1>3, EnvironmentTyped DEF Rename

LEMMA EmitTyped ==
  ASSUME TypeOK, NEW c \in Conn, NEW i \in Iface, NEW content \in Contents,
         Emit(c, i, content)
  PROVE  TypeOK'
<1> DEFINE b == [id |-> emitted + 1, owner |-> c, iface |-> i, changed |-> content]
<1>1. b \in Batch
  BY DEF Batch, TypeOK, EnvironmentTypeOK
<1>2. [kind |-> "items", batch |-> b] \in Message
  BY <1>1 DEF Message
<1>3. wire' \in Seq(Message)
  BY <1>2, AppendProperties DEF Emit, TypeOK, EnvironmentTypeOK
<1>4. EnvironmentTypeOK'
  BY <1>3 DEF Emit, TypeOK, EnvironmentTypeOK
<1> QED
  BY <1>4, EnvironmentTyped DEF Emit

LEMMA AnswerTyped ==
  ASSUME TypeOK, NEW names \in Outstanding, Answer(names)
  PROVE  TypeOK'
<1>1. names \in SUBSET Name
  BY OutstandingAreNames
<1>2. Reply(names) \in Message
  <2>1. CASE names = {}
    BY <2>1 DEF Reply, Message
  <2>2. CASE names # {}
    <3>1. Least(names) \in Name
      BY <1>1, <2>2, NamesAreOrdered, LeastProperties
    <3> QED
      BY <1>1, <2>2, <3>1 DEF Reply, Message, TypeOK, EnvironmentTypeOK
  <2> QED
    BY <2>1, <2>2
<1>3. EnvironmentTypeOK'
  BY <1>2, AppendProperties DEF Answer, TypeOK, EnvironmentTypeOK
<1> QED
  BY <1>3, EnvironmentTyped DEF Answer

LEMMA AdvanceTyped == ASSUME TypeOK, Advance PROVE TypeOK'
<1>1. QueueTypeOK'
  <2>1. ASSUME NEW b \in pending
        PROVE  [b EXCEPT !.age = Capped(b.age, PendingTTL)] \in Queued
    BY LimitsAreNatural DEF TypeOK, QueueTypeOK, Queued, Capped
  <2> QED
    BY <2>1 DEF Advance, QueueTypeOK
<1>2. RequestsTypeOK'
  <2>1. sinceRefresh' \in 0..RefreshInterval
    BY LimitsAreNatural DEF Advance, Capped, TypeOK, RequestsTypeOK
  <2>2. waited' \in 0..CallTimeout
    BY LimitsAreNatural DEF Advance, TypeOK, RequestsTypeOK
  <2> QED
    BY <2>1, <2>2 DEF Advance, TypeOK, RequestsTypeOK
<1>3. CallsTypeOK'
  BY QuietTyped DEF Advance
<1>4. /\ SubscriptionsTypeOK' /\ OwnersTypeOK' /\ EnvironmentTypeOK'
      /\ started' \in BOOLEAN /\ closed' \in BOOLEAN
  BY DEF Advance, TypeOK, SubscriptionsTypeOK, OwnersTypeOK, EnvironmentTypeOK,
         subscriptionVars, ownerVars, envVars
<1> QED
  BY <1>1, <1>2, <1>3, <1>4 DEF TypeOK
-----------------------------------------------------------------------------
LEMMA InitTyped == ASSUME Init PROVE TypeOK
<1>1. SubscriptionsTypeOK /\ OwnersTypeOK /\ QueueTypeOK
  BY DEF Init, InitSubscriptions, SubscriptionsTypeOK, OwnersTypeOK, QueueTypeOK, Owner
<1>2. RequestsTypeOK
  <2>1. refreshing \in BOOLEAN /\ listing \in BOOLEAN /\ changed = {} /\ asked = {}
    BY DEF Init
  <2>2. sinceRefresh \in 0..RefreshInterval /\ waited \in 0..CallTimeout
    BY LimitsAreNatural DEF Init
  <2> QED
    BY <2>1, <2>2 DEF RequestsTypeOK
<1>3. CallsTypeOK /\ EnvironmentTypeOK
  BY DEF Init, CallsTypeOK, EnvironmentTypeOK, Quiet
<1> QED
  BY <1>1, <1>2, <1>3 DEF Init, TypeOK

LEMMA StepTyped == ASSUME TypeOK, [Next]_vars PROVE TypeOK'
<1>1. CASE Listener
  BY <1>1, SubscribeTyped, StopTyped DEF Listener
<1>2. CASE Handlers
  BY <1>2, TickTyped, ReceiveTyped, TimeoutTyped DEF Handlers
<1>3. CASE Environment
  BY <1>3, RenameTyped, EmitTyped, AnswerTyped, AdvanceTyped DEF Environment
<1>4. CASE UNCHANGED vars
  BY <1>4 DEF vars, trackerVars, envVars, ownerVars, queueVars, askVars, subscriptionVars,
              TypeOK, SubscriptionsTypeOK, OwnersTypeOK, QueueTypeOK, RequestsTypeOK,
              CallsTypeOK, EnvironmentTypeOK
<1> QED
  BY <1>1, <1>2, <1>3, <1>4 DEF Next

\* Every variable of the tracker keeps its type, for all names, connections,
\* limits and delays.
THEOREM TypeCorrect == Spec => []TypeOK
BY InitTyped, StepTyped, PTL DEF Spec
-----------------------------------------------------------------------------
(* The two dictionaries are inverse, so a batch goes out under a name of    *)
(* its own sender.                                                          *)

OwnerInv == InverseMaps /\ DeliveredUnderOwnName

LEMMA QuietDelivery ==
  ASSUME calls' = Quiet PROVE DeliveredUnderOwnName'
BY DEF DeliveredUnderOwnName, Quiet

LEMMA ReassignInverse ==
  ASSUME TypeOK, InverseMaps, NEW n \in Name, NEW c \in Owner, Reassign(n, c)
  PROVE  /\ InverseMaps'
         /\ services'[n] = c
         /\ \A m \in Name : m # n => services'[m] = services[m]
<1>1. /\ services'[n] = c
      /\ \A m \in Name : m # n => services'[m] = services[m]
  BY DEF Reassign, TypeOK, OwnersTypeOK
<1>2. ASSUME NEW x \in Conn
      PROVE  owners'[x] = {m \in Name : services'[m] = x}
  <2>1. owners[x] = {m \in Name : services[m] = x}
    BY DEF InverseMaps
  <2>2. owners'[x] = IF x = c THEN owners[x] \cup {n}
                     ELSE IF x = services[n] THEN owners[x] \ {n} ELSE owners[x]
    BY DEF Reassign
  <2> QED
    BY <1>1, <2>1, <2>2
<1> QED
  BY <1>1, <1>2 DEF InverseMaps

LEMMA SetOwnerInverse ==
  ASSUME TypeOK, InverseMaps, NEW n \in Name, NEW c \in Owner, SetOwner(n, c)
  PROVE  OwnerInv'
<1> DEFINE names == owners[c] \cup {n}
<1>1. /\ InverseMaps'
      /\ services'[n] = c
      /\ \A m \in Name : m # n => services'[m] = services[m]
  BY ReassignInverse DEF SetOwner
<1>2. CASE c = NoConn
  <2>1. calls'.deliver = {}
    BY <1>2 DEF SetOwner
  <2> QED
    BY <1>1, <2>1 DEF OwnerInv, DeliveredUnderOwnName
<1>3. CASE c # NoConn
  <2>1. calls'.deliver = {AsDelivery(b, SelectService(names, b.iface)) : b \in Ready(c, names)}
    <3>1. calls' = [invalidate |-> IF Lost(n, c) THEN {n} ELSE {},
                    deliver |-> {AsDelivery(b, SelectService(names, b.iface))
                                   : b \in Ready(c, names)}]
      BY <1>3 DEF SetOwner
    <3> QED
      BY <3>1, Zenon
  <2>2. names \in SUBSET Name
    BY <1>3 DEF TypeOK, OwnersTypeOK, Owner
  <2>3. \A m \in names : services'[m] = c
    BY <1>1, <1>3 DEF InverseMaps, Owner
  <2>4. ASSUME NEW b \in Ready(c, names)
        PROVE  /\ AsDelivery(b, SelectService(names, b.iface)).owner = c
               /\ AsDelivery(b, SelectService(names, b.iface)).service \in names
    <3>1. b.owner = c
      BY DEF Ready
    <3>2. SelectService(names, b.iface) \in names
      BY <2>2, SelectServiceChooses DEF Ready
    <3> QED
      BY <3>1, <3>2 DEF AsDelivery
  <2>5. \A d \in calls'.deliver : d.owner = c /\ d.service \in names
    BY <2>1, <2>4
  <2> QED
    BY <1>1, <2>3, <2>5 DEF OwnerInv, DeliveredUnderOwnName
<1> QED
  BY <1>2, <1>3

LEMMA ForgetInverse ==
  ASSUME TypeOK, InverseMaps, NEW gone \in SUBSET Name, Forget(gone)
  PROVE  OwnerInv'
<1>1. ASSUME NEW c \in Conn
      PROVE  owners'[c] = {n \in Name : services'[n] = c}
  <2>1. owners[c] = {n \in Name : services[n] = c}
    BY DEF InverseMaps
  <2>2. owners'[c] = owners[c] \ {n \in gone : services[n] = c}
    BY DEF Forget
  <2>3. \A n \in Name : services'[n] = IF n \in gone THEN NoConn ELSE services[n]
    BY DEF Forget
  <2>4. c # NoConn
    BY NoConnIsNoConnection
  <2> QED
    BY <2>1, <2>2, <2>3, <2>4
<1>2. calls'.deliver = {}
  BY DEF Forget
<1> QED
  BY <1>1, <1>2 DEF OwnerInv, InverseMaps, DeliveredUnderOwnName

LEMMA OnItemsInverse ==
  ASSUME TypeOK, InverseMaps, NEW b \in Batch, OnItems(b)
  PROVE  OwnerInv'
<1> DEFINE n == SelectService(owners[b.owner], b.iface)
<1>1. InverseMaps'
  BY DEF OnItems, ownerVars, InverseMaps
<1>2. CASE calls' = Quiet
  BY <1>1, <1>2, QuietDelivery DEF OwnerInv
<1>3. CASE n # NoName /\ calls'.deliver = {AsDelivery(b, n)}
  <2>1. b.owner \in Conn
    BY DEF Batch
  <2>2. n \in owners[b.owner]
    BY <1>3, <2>1, SelectServiceChooses DEF TypeOK, OwnersTypeOK
  <2>3. services'[n] = b.owner
    BY <2>1, <2>2 DEF InverseMaps, OnItems, ownerVars
  <2>4. \A d \in calls'.deliver : d.service = n /\ d.owner = b.owner
    BY <1>3 DEF AsDelivery
  <2> QED
    BY <1>1, <2>3, <2>4 DEF OwnerInv, DeliveredUnderOwnName
<1>4. \/ calls' = Quiet
      \/ n # NoName /\ calls' = [invalidate |-> {}, deliver |-> {AsDelivery(b, n)}]
  BY DEF OnItems
<1> QED
  BY <1>2, <1>3, <1>4

LEMMA ReceiveInverse ==
  ASSUME TypeOK, InverseMaps, NEW i \in 1..Len(wire), Receive(i)
  PROVE  OwnerInv'
<1> DEFINE m == wire[i]
<1>0. m \in Message
  BY ElementOfSeq DEF TypeOK, EnvironmentTypeOK
<1>1. CASE UNCHANGED ownerVars /\ calls' = Quiet
  BY <1>1, QuietDelivery DEF OwnerInv, InverseMaps, ownerVars
<1>2. CASE m.kind = "items" /\ OnItems(m.batch)
  BY <1>0, <1>2, OnItemsInverse DEF Message
<1>3. CASE m.kind = "changed" /\ OnChanged(m.name, m.new)
  <2>1. m.name \in Name /\ m.new \in Owner
    BY <1>0, <1>3 DEF Message
  <2> QED
    BY <1>1, <1>3, <2>1, SetOwnerInverse DEF OnChanged
<1>4. CASE m.kind = "listed" /\ OnListed(m.names)
  BY <1>4, ForgetInverse DEF OnListed
<1>5. CASE m.kind = "found" /\ OnFound(m.name, m.owner)
  <2>1. m.name \in Name /\ m.owner \in Owner
    BY <1>0, <1>5 DEF Message
  <2> QED
    BY <1>1, <1>5, <2>1, SetOwnerInverse DEF OnFound
<1>6. CASE IsReply(m) /\ closed /\ IgnoreReply
  BY <1>1, <1>6 DEF IgnoreReply
<1>7. CASE m.kind = "failed" /\ OnFailed(m.names)
  BY <1>1, <1>7 DEF OnFailed
<1> QED
  BY <1>2, <1>3, <1>4, <1>5, <1>6, <1>7 DEF Receive

LEMMA StepInverse ==
  ASSUME TypeOK, OwnerInv, [Next]_vars
  PROVE  OwnerInv'
<1>1. CASE UNCHANGED ownerVars /\ calls' = Quiet
  BY <1>1, QuietDelivery DEF OwnerInv, InverseMaps, ownerVars
<1>2. CASE Listener
  <2>1. CASE Stop
    BY <2>1, QuietDelivery, NoConnIsNoConnection DEF Stop, OwnerInv, InverseMaps
  <2>2. CASE ~Stop
    BY <1>1, <1>2, <2>2 DEF Listener, SubscribeGlobal, Subscribe
  <2> QED
    BY <2>1, <2>2
<1>3. CASE Handlers
  <2>1. ASSUME NEW i \in 1..Len(wire), Receive(i) PROVE OwnerInv'
    BY <2>1, ReceiveInverse DEF OwnerInv
  <2>2. CASE Tick
    BY <1>1, <2>2 DEF Tick
  <2>3. CASE \E names \in Outstanding : Timeout(names)
    BY <1>1, <2>3 DEF Timeout, OnFailed
  <2> QED
    BY <1>3, <2>1, <2>2, <2>3 DEF Handlers
<1>4. CASE Environment
  BY <1>1, <1>4 DEF Environment, Rename, Emit, Answer, Advance
<1>5. CASE UNCHANGED vars
  BY <1>5 DEF vars, trackerVars, ownerVars, OwnerInv, InverseMaps, DeliveredUnderOwnName
<1> QED
  BY <1>2, <1>3, <1>4, <1>5 DEF Next

LEMMA InitInverse == ASSUME Init PROVE OwnerInv
BY NoConnIsNoConnection DEF Init, OwnerInv, InverseMaps, DeliveredUnderOwnName, Quiet

\* services and owners never disagree: _set_owner finds owners[previous] and
\* submit sees all the names of a sender.
THEOREM InverseMapsHold == Spec => []InverseMaps
<1>1. Init => TypeOK /\ OwnerInv
  BY InitTyped, InitInverse
<1>2. TypeOK /\ OwnerInv /\ [Next]_vars => (TypeOK /\ OwnerInv)'
  BY StepTyped, StepInverse
<1>3. OwnerInv => InverseMaps
  BY DEF OwnerInv
<1> QED
  BY <1>1, <1>2, <1>3, PTL DEF Spec

\* No batch, replayed or not, is published under a name that its sender does
\* not hold for the tracker at that moment.
THEOREM DeliveredUnderOwnNameHolds == Spec => []DeliveredUnderOwnName
<1>1. Init => TypeOK /\ OwnerInv
  BY InitTyped, InitInverse
<1>2. TypeOK /\ OwnerInv /\ [Next]_vars => (TypeOK /\ OwnerInv)'
  BY StepTyped, StepInverse
<1>3. OwnerInv => DeliveredUnderOwnName
  BY DEF OwnerInv
<1> QED
  BY <1>1, <1>2, <1>3, PTL DEF Spec
-----------------------------------------------------------------------------
(* Names that change hands are invalidated in the same step.               *)

LostNames == {n \in Name : services[n] # NoConn /\ services'[n] # services[n]}

LEMMA NothingLost ==
  ASSUME UNCHANGED services, calls'.invalidate = {}
  PROVE  calls'.invalidate = LostNames
BY DEF LostNames

LEMMA SetOwnerInvalidates ==
  ASSUME TypeOK, NEW n \in Name, NEW c \in Owner, SetOwner(n, c)
  PROVE  calls'.invalidate = LostNames
<1>1. /\ services'[n] = c
      /\ \A m \in Name : m # n => services'[m] = services[m]
  BY DEF SetOwner, Reassign, TypeOK, OwnersTypeOK
<1>2. calls'.invalidate = IF Lost(n, c) THEN {n} ELSE {}
  <2>1. CASE c = NoConn
    BY <2>1 DEF SetOwner
  <2>2. CASE c # NoConn
    <3> DEFINE names == owners[c] \cup {n}
    <3>1. calls' = [invalidate |-> IF Lost(n, c) THEN {n} ELSE {},
                    deliver |-> {AsDelivery(b, SelectService(names, b.iface))
                                   : b \in Ready(c, names)}]
      BY <2>2 DEF SetOwner
    <3> QED
      BY <3>1, Zenon
  <2> QED
    BY <2>1, <2>2
<1> QED
  BY <1>1, <1>2 DEF Lost, LostNames

LEMMA ReceiveInvalidates ==
  ASSUME TypeOK, NEW i \in 1..Len(wire), Receive(i)
  PROVE  calls'.invalidate = LostNames
<1> DEFINE m == wire[i]
<1>0. m \in Message
  BY ElementOfSeq DEF TypeOK, EnvironmentTypeOK
<1>1. CASE UNCHANGED ownerVars /\ calls' = Quiet
  BY <1>1, NothingLost DEF ownerVars, Quiet
<1>2. CASE m.kind = "items" /\ OnItems(m.batch)
  <2>1. UNCHANGED services /\ calls'.invalidate = {}
    BY <1>2 DEF OnItems, ownerVars, Quiet
  <2> QED
    BY <2>1, NothingLost
<1>3. CASE m.kind = "changed" /\ OnChanged(m.name, m.new)
  <2>1. m.name \in Name /\ m.new \in Owner
    BY <1>0, <1>3 DEF Message
  <2> QED
    BY <1>1, <1>3, <2>1, SetOwnerInvalidates DEF OnChanged
<1>4. CASE m.kind = "listed" /\ OnListed(m.names)
  <2> DEFINE gone == Name \ (m.names \cup changed)
  <2>1. calls'.invalidate = {n \in gone : services[n] # NoConn}
    BY <1>4 DEF OnListed, Forget
  <2>2. \A n \in Name : services'[n] = IF n \in gone THEN NoConn ELSE services[n]
    BY <1>4 DEF OnListed, Forget
  <2> QED
    BY <2>1, <2>2 DEF LostNames
<1>5. CASE m.kind = "found" /\ OnFound(m.name, m.owner)
  <2>1. m.name \in Name /\ m.owner \in Owner
    BY <1>0, <1>5 DEF Message
  <2> QED
    BY <1>1, <1>5, <2>1, SetOwnerInvalidates DEF OnFound
<1>6. CASE IsReply(m) /\ closed /\ IgnoreReply
  BY <1>1, <1>6 DEF IgnoreReply
<1>7. CASE m.kind = "failed" /\ OnFailed(m.names)
  BY <1>1, <1>7 DEF OnFailed
<1> QED
  BY <1>2, <1>3, <1>4, <1>5, <1>6, <1>7 DEF Receive

LEMMA StepInvalidates ==
  ASSUME TypeOK, Next, ~closed'
  PROVE  calls'.invalidate = LostNames
<1>1. CASE UNCHANGED ownerVars /\ calls' = Quiet
  BY <1>1, NothingLost DEF ownerVars, Quiet
<1>2. CASE Listener
  BY <1>1, <1>2 DEF Listener, SubscribeGlobal, Subscribe, Stop
<1>3. CASE Handlers
  <2>1. ASSUME NEW i \in 1..Len(wire), Receive(i) PROVE calls'.invalidate = LostNames
    BY <2>1, ReceiveInvalidates
  <2>2. CASE Tick
    BY <1>1, <2>2 DEF Tick
  <2>3. CASE \E names \in Outstanding : Timeout(names)
    BY <1>1, <2>3 DEF Timeout, OnFailed
  <2> QED
    BY <1>3, <2>1, <2>2, <2>3 DEF Handlers
<1>4. CASE Environment
  BY <1>1, <1>4 DEF Environment, Rename, Emit, Answer, Advance
<1> QED
  BY <1>2, <1>3, <1>4 DEF Next

\* Until stop(), the tracker calls invalidate for exactly the names that leave
\* their owner, in the handler that takes them away.
THEOREM InvalidatedWhenLostHolds == Spec => InvalidatedWhenLost
<1>1. TypeOK /\ [Next]_vars =>
        [~closed' => calls'.invalidate =
           {n \in Name : services[n] # NoConn /\ services'[n] # services[n]}]_vars
  BY StepInvalidates DEF LostNames
<1>2. TypeOK /\ [Next]_vars => TypeOK'
  BY StepTyped
<1> QED
  BY InitTyped, <1>1, <1>2, PTL DEF Spec, InvalidatedWhenLost
-----------------------------------------------------------------------------
(* Batches are numbered by the daemon: nothing is newer than the last one.  *)

IdsBounded ==
  /\ \A b \in pending : b.id <= emitted
  /\ \A d \in calls.deliver : d.id <= emitted
  /\ \A i \in 1..Len(wire) : wire[i].kind = "items" => wire[i].batch.id <= emitted

LEMMA SetOwnerBounded ==
  ASSUME TypeOK, IdsBounded, NEW n \in Name, NEW c \in Owner, SetOwner(n, c)
  PROVE  /\ pending' \subseteq pending
         /\ \A d \in calls'.deliver : d.id <= emitted
<1>1. Fresh \subseteq pending
  BY DEF Fresh
<1>2. pending' \subseteq pending
  BY <1>1 DEF SetOwner, queueVars, KeepOnly, Remaining
<1>3. CASE c = NoConn
  BY <1>2, <1>3 DEF SetOwner
<1>4. CASE c # NoConn
  <2> DEFINE names == owners[c] \cup {n}
  <2>1. calls' = [invalidate |-> IF Lost(n, c) THEN {n} ELSE {},
                  deliver |-> {AsDelivery(b, SelectService(names, b.iface))
                                 : b \in Ready(c, names)}]
    BY <1>4 DEF SetOwner
  <2>2. calls'.deliver = {AsDelivery(b, SelectService(names, b.iface)) : b \in Ready(c, names)}
    BY <2>1, Zenon
  <2>3. ASSUME NEW b \in Ready(c, names)
        PROVE  AsDelivery(b, SelectService(names, b.iface)).id <= emitted
    <3>1. b.id <= emitted
      BY <1>1 DEF Ready, IdsBounded
    <3>2. AsDelivery(b, SelectService(names, b.iface)).id = b.id
      BY DEF AsDelivery
    <3> QED
      BY <3>1, <3>2
  <2> QED
    BY <1>2, <2>2, <2>3
<1> QED
  BY <1>3, <1>4

LEMMA OnItemsBounded ==
  ASSUME TypeOK, IdsBounded, NEW b \in Batch, b.id <= emitted, OnItems(b)
  PROVE  /\ \A x \in pending' : x.id <= emitted
         /\ \A d \in calls'.deliver : d.id <= emitted
<1>1. \A d \in calls'.deliver : d.id <= emitted
  <2>1. \/ calls' = Quiet
        \/ calls' = [invalidate |-> {},
                     deliver |-> {AsDelivery(b, SelectService(owners[b.owner], b.iface))}]
    BY DEF OnItems
  <2>2. AsDelivery(b, SelectService(owners[b.owner], b.iface)).id = b.id
    BY DEF AsDelivery
  <2>3. calls'.deliver \subseteq {AsDelivery(b, SelectService(owners[b.owner], b.iface))}
    BY <2>1 DEF Quiet
  <2> QED
    BY <2>2, <2>3
<1>2. \A x \in pending' : x.id <= emitted
  <2>1. CASE UNCHANGED queueVars
    BY <2>1 DEF queueVars, IdsBounded
  <2>2. CASE Enqueue(b)
    <3>1. Fresh \subseteq pending /\ Evict(Fresh, Size(b)) \subseteq pending
      BY DEF Fresh, Evict, Younger
    <3>2. \A x \in pending' : x \in pending \/ x.id = b.id
      BY <2>2, <3>1 DEF Enqueue, KeepOnly
    <3> QED
      BY <3>2 DEF IdsBounded
  <2> QED
    BY <2>1, <2>2 DEF OnItems
<1> QED
  BY <1>1, <1>2

LEMMA ReceiveBounded ==
  ASSUME TypeOK, IdsBounded, NEW i \in 1..Len(wire), Receive(i)
  PROVE  IdsBounded'
<1> DEFINE m == wire[i]
<1>0. m \in Message
  BY ElementOfSeq DEF TypeOK, EnvironmentTypeOK
<1>1. \A j \in 1..Len(wire') :
        wire'[j].kind = "items" => wire'[j].batch.id <= emitted
  <2>1. Len(wire) \in Nat
    BY LenProperties DEF TypeOK, EnvironmentTypeOK
  <2>2. ASSUME NEW j \in 1..Len(wire') PROVE \E k \in 1..Len(wire) : wire'[j] = wire[k]
    <3>1. j \in 1..(Len(wire) - 1) /\ wire'[j] = IF j < i THEN wire[j] ELSE wire[j + 1]
      BY <2>2, WithoutTyped DEF Receive, TypeOK, EnvironmentTypeOK
    <3>2. j \in 1..Len(wire) /\ j + 1 \in 1..Len(wire)
      BY <2>1, <3>1
    <3> QED
      BY <3>1, <3>2
  <2> QED
    BY <2>2 DEF IdsBounded
<1>2. UNCHANGED emitted
  BY DEF Receive
<1>3. /\ \A x \in pending' : x.id <= emitted
      /\ \A d \in calls'.deliver : d.id <= emitted
  <2>1. CASE pending' \subseteq pending /\ calls' = Quiet
    BY <2>1 DEF IdsBounded, Quiet
  <2>2. CASE m.kind = "items" /\ OnItems(m.batch)
    <3>1. m.batch \in Batch /\ m.batch.id <= emitted
      BY <1>0, <2>2 DEF Message, IdsBounded
    <3> QED
      BY <2>2, <3>1, OnItemsBounded
  <2>3. CASE m.kind = "changed" /\ OnChanged(m.name, m.new)
    <3>1. m.name \in Name /\ m.new \in Owner
      BY <1>0, <2>3 DEF Message
    <3> QED
      BY <2>1, <2>3, <3>1, SetOwnerBounded DEF OnChanged, queueVars, IdsBounded
  <2>4. CASE m.kind = "listed" /\ OnListed(m.names)
    BY <2>4 DEF OnListed, Forget, queueVars, IdsBounded
  <2>5. CASE m.kind = "found" /\ OnFound(m.name, m.owner)
    <3>1. m.name \in Name /\ m.owner \in Owner
      BY <1>0, <2>5 DEF Message
    <3> QED
      BY <2>1, <2>5, <3>1, SetOwnerBounded DEF OnFound, queueVars, IdsBounded
  <2>6. CASE IsReply(m) /\ closed /\ IgnoreReply
    BY <2>1, <2>6 DEF IgnoreReply, queueVars
  <2>7. CASE m.kind = "failed" /\ OnFailed(m.names)
    BY <2>1, <2>7 DEF OnFailed, queueVars
  <2> QED
    BY <2>2, <2>3, <2>4, <2>5, <2>6, <2>7 DEF Receive
<1> QED
  BY <1>1, <1>2, <1>3 DEF IdsBounded

LEMMA TimeoutBounded ==
  ASSUME TypeOK, IdsBounded, NEW names \in Outstanding, Timeout(names)
  PROVE  IdsBounded'
<1>1. UNCHANGED <<pending, emitted>> /\ calls' = Quiet
  BY DEF Timeout, OnFailed, queueVars
<1>2. ASSUME NEW j \in 1..Len(wire') PROVE \E k \in 1..Len(wire) : wire'[j] = wire[k]
  <2> DEFINE late == AnswersTo(names)
             i == CHOOSE i \in late : TRUE
  <2>1. CASE late = {}
    BY <1>2, <2>1 DEF Timeout
  <2>2. CASE late # {}
    <3>1. i \in 1..Len(wire)
      BY <2>2 DEF AnswersTo
    <3>2. wire' = Without(i)
      BY <2>2 DEF Timeout
    <3> HIDE DEF i
    <3>3. Len(wire) \in Nat
      BY LenProperties DEF TypeOK, EnvironmentTypeOK
    <3>4. j \in 1..(Len(wire) - 1) /\ wire'[j] = IF j < i THEN wire[j] ELSE wire[j + 1]
      BY <1>2, <3>1, <3>2, WithoutTyped DEF TypeOK, EnvironmentTypeOK
    <3>5. j \in 1..Len(wire) /\ j + 1 \in 1..Len(wire)
      BY <3>3, <3>4
    <3> QED
      BY <3>4, <3>5
  <2> QED
    BY <2>1, <2>2
<1> QED
  BY <1>1, <1>2 DEF IdsBounded, Quiet

\* A step of the environment appends to the wire at most.
LEMMA AppendBounded ==
  ASSUME TypeOK, TypeOK', IdsBounded, NEW m \in Message, calls' = Quiet,
         wire' = Append(wire, m), emitted <= emitted', UNCHANGED pending,
         m.kind = "items" => m.batch.id <= emitted'
  PROVE  IdsBounded'
<1>1. emitted \in Nat /\ emitted' \in Nat /\ Len(wire) \in Nat
  BY LenProperties DEF TypeOK, EnvironmentTypeOK
<1>2. \A b \in pending' : b.id <= emitted'
  BY <1>1 DEF IdsBounded, TypeOK, QueueTypeOK, Queued
<1>3. ASSUME NEW j \in 1..Len(wire'), wire'[j].kind = "items"
      PROVE  wire'[j].batch.id <= emitted'
  <2>1. CASE j = Len(wire) + 1
    BY <1>3, <2>1, AppendProperties DEF TypeOK, EnvironmentTypeOK
  <2>2. CASE j # Len(wire) + 1
    <3>1. j \in 1..Len(wire) /\ wire'[j] = wire[j]
      BY <1>1, <2>2, AppendProperties DEF TypeOK, EnvironmentTypeOK
    <3>2. wire[j] \in Message
      BY <3>1, ElementOfSeq DEF TypeOK, EnvironmentTypeOK
    <3>3. wire[j].batch.id \in Nat /\ wire[j].batch.id <= emitted
      BY <1>3, <3>1, <3>2 DEF IdsBounded, Message, Batch
    <3> QED
      BY <1>1, <3>1, <3>3
  <2> QED
    BY <2>1, <2>2
<1> QED
  BY <1>2, <1>3 DEF IdsBounded, Quiet

LEMMA EnvironmentBounded ==
  ASSUME TypeOK, TypeOK', IdsBounded, Environment
  PROVE  IdsBounded'
<1>1. ASSUME NEW n \in Name, NEW c \in Owner, Rename(n, c) PROVE IdsBounded'
  <2> DEFINE m == [kind |-> "changed", name |-> n, old |-> bus[n], new |-> c]
  <2>1. m \in Message
    BY DEF Message, TypeOK, EnvironmentTypeOK
  <2>2. emitted <= emitted' /\ UNCHANGED <<pending, emitted>> /\ calls' = Quiet
    BY <1>1 DEF Rename, queueVars, TypeOK, EnvironmentTypeOK
  <2>3. CASE wire' = wire
    BY <2>2, <2>3 DEF IdsBounded, Quiet
  <2>4. CASE wire' = Append(wire, m)
    BY <2>1, <2>2, <2>4, AppendBounded
  <2> QED
    BY <1>1, <2>3, <2>4 DEF Rename
<1>2. ASSUME NEW c \in Conn, NEW i \in Iface, NEW content \in Contents,
             Emit(c, i, content)
      PROVE  IdsBounded'
  <2> DEFINE b == [id |-> emitted + 1, owner |-> c, iface |-> i, changed |-> content]
             m == [kind |-> "items", batch |-> b]
  <2>1. m \in Message
    BY DEF Message, Batch, TypeOK, EnvironmentTypeOK
  <2>2. /\ emitted' = emitted + 1 /\ emitted <= emitted' /\ UNCHANGED pending
        /\ calls' = Quiet /\ wire' = Append(wire, m)
    BY <1>2 DEF Emit, queueVars, TypeOK, EnvironmentTypeOK
  <2>3. m.batch.id <= emitted'
    BY <2>2 DEF TypeOK, EnvironmentTypeOK
  <2> HIDE DEF m
  <2> QED
    BY <2>1, <2>2, <2>3, AppendBounded
<1>3. ASSUME NEW names \in Outstanding, Answer(names) PROVE IdsBounded'
  <2>1. names \in SUBSET Name
    BY OutstandingAreNames
  <2>2. Reply(names) \in Message /\ Reply(names).kind # "items"
    <3>1. names # {} => Least(names) \in Name
      BY <2>1, NamesAreOrdered, LeastProperties
    <3> QED
      BY <2>1, <3>1 DEF Reply, Message, TypeOK, EnvironmentTypeOK
  <2>3. /\ emitted <= emitted' /\ UNCHANGED pending /\ calls' = Quiet
        /\ wire' = Append(wire, Reply(names))
    BY <1>3 DEF Answer, queueVars, TypeOK, EnvironmentTypeOK
  <2> QED
    BY <2>2, <2>3, AppendBounded
<1>4. ASSUME Advance PROVE IdsBounded'
  <2>1. \A x \in pending' : \E b \in pending : x.id = b.id
    BY <1>4 DEF Advance, TypeOK, QueueTypeOK, Queued
  <2> QED
    BY <1>4, <2>1 DEF Advance, IdsBounded, Quiet, envVars
<1> QED
  BY <1>1, <1>2, <1>3, <1>4 DEF Environment

LEMMA StepBounded ==
  ASSUME TypeOK, TypeOK', IdsBounded, [Next]_vars
  PROVE  IdsBounded'
<1>1. CASE pending' \subseteq pending /\ calls' = Quiet /\ UNCHANGED <<wire, emitted>>
  BY <1>1 DEF IdsBounded, Quiet
<1>2. CASE Listener
  BY <1>1, <1>2 DEF Listener, SubscribeGlobal, Subscribe, Stop, queueVars, envVars
<1>3. CASE Handlers
  <2>1. CASE Tick
    BY <1>1, <2>1 DEF Tick, KeepOnly, Fresh, envVars
  <2> QED
    BY <1>3, <2>1, ReceiveBounded, TimeoutBounded DEF Handlers
<1>4. CASE UNCHANGED vars
  BY <1>4 DEF vars, trackerVars, queueVars, envVars, IdsBounded
<1> QED
  BY <1>2, <1>3, <1>4, EnvironmentBounded DEF Next

LEMMA InitBounded == ASSUME Init PROVE IdsBounded
BY DEF Init, IdsBounded, Quiet
-----------------------------------------------------------------------------
(* What a set of batches holds: the sum that MapThenSumSet computes, which is *)
(* defined by recursion over the set.                                        *)

\* Induction over the natural numbers, for a set of them.
LEMMA Numbers ==
  ASSUME NEW S \in SUBSET Nat, 0 \in S, \A n \in S : n + 1 \in S
  PROVE  \A n \in Nat : n \in S
<1> SUFFICES ASSUME Nat \ S # {} PROVE FALSE
  OBVIOUS
<1>1. PICK n \in Nat : n \notin S /\ \A m \in Nat \ S : n <= m
  <2>1. Least(Nat \ S) \in Nat \ S /\ \A m \in Nat \ S : Least(Nat \ S) <= m
    BY LeastProperties
  <2> QED
    BY <2>1
<1>2. n - 1 \in Nat /\ ~(n <= n - 1)
  BY <1>1
<1>3. n - 1 \in S /\ (n - 1) + 1 = n
  BY <1>1, <1>2
<1> QED
  BY <1>1, <1>3

\* One batch less.
LEMMA OneLess ==
  ASSUME NEW S, IsFiniteSet(S), NEW x \in S
  PROVE  /\ IsFiniteSet(S \ {x}) /\ Cardinality(S) \in Nat /\ Cardinality(S \ {x}) \in Nat
         /\ Cardinality(S \ {x}) = Cardinality(S) - 1
BY FS_RemoveElement, FS_CardinalityType

\* MapThenSumSet takes the batches out of a set in the order that Pick says.
Pick(s) == CHOOSE x \in s : TRUE
Rest(s) == s \ {Pick(s)}
Adds(f, S) == f = [s \in SUBSET S |-> IF s = {} THEN 0 ELSE Size(Pick(s)) + f[Rest(s)]]

LEMMA ItemsDef == ASSUME NEW S PROVE Items(S) = (CHOOSE f : Adds(f, S))[S]
BY DEF Items, MapThenSumSet, MapThenFoldSet, Adds, Pick, Rest

LEMMA PickIsIn == ASSUME NEW s, s # {} PROVE Pick(s) \in s
BY DEF Pick

\* The recursion of MapThenSumSet defines a function.
LEMMA AddsExists == ASSUME NEW S, IsFiniteSet(S) PROVE \E f : Adds(f, S)
<1> DEFINE B(n) == {s \in SUBSET S : Cardinality(s) <= n}
           Step(f, s) == IF s = {} THEN 0 ELSE Size(Pick(s)) + f[Rest(s)]
           Good == {n \in Nat : \E f : f = [s \in B(n) |-> Step(f, s)]}
<1>0. \A s \in SUBSET S : /\ IsFiniteSet(s) /\ Cardinality(s) \in Nat
                          /\ Cardinality(s) <= Cardinality(S)
  BY FS_Subset, FS_CardinalityType
<1>1. 0 \in Good
  <2>1. \A s \in B(0) : s = {}
    BY <1>0, FS_EmptySet
  <2>2. PICK f : f = [s \in B(0) |-> 0]
    OBVIOUS
  <2>3. f = [s \in B(0) |-> Step(f, s)]
    BY <2>1, <2>2
  <2> QED
    BY <2>3
<1>2. ASSUME NEW n \in Good PROVE n + 1 \in Good
  <2>1. n \in Nat /\ \E f : f = [s \in B(n) |-> Step(f, s)]
    OBVIOUS
  <2>2. PICK f : f = [s \in B(n) |-> Step(f, s)]
    BY <2>1
  <2>3. PICK g : g = [s \in B(n + 1) |-> Step(f, s)]
    OBVIOUS
  <2>4. \A s \in B(n) : s \in B(n + 1)
    BY <1>0, <2>1
  <2>5. ASSUME NEW s \in B(n + 1), s # {} PROVE Rest(s) \in B(n)
    BY <1>0, <2>1, <2>5, OneLess, PickIsIn DEF Rest
  <2>6. \A s \in B(n) : g[s] = f[s]
    <3> HIDE DEF B, Step
    <3> QED
      BY <2>2, <2>3, <2>4
  <2>7. ASSUME NEW s \in B(n + 1) PROVE Step(f, s) = Step(g, s)
    <3> HIDE DEF B
    <3> QED
      BY <2>5, <2>6
  <2>8. g = [s \in B(n + 1) |-> Step(g, s)]
    <3> HIDE DEF B, Step
    <3> QED
      BY <2>3, <2>7
  <2> HIDE DEF B, Step
  <2> QED
    BY <2>1, <2>8
<1>3. Cardinality(S) \in Good
  <2>1. Good \in SUBSET Nat /\ Cardinality(S) \in Nat
    BY FS_CardinalityType
  <2> HIDE DEF Good
  <2> QED
    BY <1>1, <1>2, <2>1, Numbers
<1>4. B(Cardinality(S)) = SUBSET S
  BY <1>0
<1>5. PICK f : f = [s \in B(Cardinality(S)) |-> Step(f, s)]
  BY <1>3
<1>6. f = [s \in SUBSET S |-> Step(f, s)]
  BY <1>4, <1>5
<1> QED
  BY <1>6 DEF Adds

LEMMA AddsStep ==
  ASSUME NEW S, NEW f, NEW s \in SUBSET S, Adds(f, S)
  PROVE  f[s] = IF s = {} THEN 0 ELSE Size(Pick(s)) + f[Rest(s)]
BY DEF Adds

\* And one only: what it gives for a set does not depend on the larger set that
\* it is started from.
LEMMA AddsUnique ==
  ASSUME NEW S, IsFiniteSet(S), NEW T \in SUBSET S, NEW f, NEW h, Adds(f, S), Adds(h, T)
  PROVE  f[T] = h[T]
<1> DEFINE Good == {n \in Nat : \A s \in SUBSET T : Cardinality(s) = n => f[s] = h[s]}
<1>0. \A s \in SUBSET T : s \in SUBSET S /\ IsFiniteSet(s) /\ Cardinality(s) \in Nat
  BY FS_Subset, FS_CardinalityType
<1>1. \A s \in SUBSET T :
        /\ f[s] = IF s = {} THEN 0 ELSE Size(Pick(s)) + f[Rest(s)]
        /\ h[s] = IF s = {} THEN 0 ELSE Size(Pick(s)) + h[Rest(s)]
  BY <1>0, AddsStep
<1>2. 0 \in Good
  BY <1>0, <1>1, FS_EmptySet
<1>3. ASSUME NEW n \in Good PROVE n + 1 \in Good
  <2>1. ASSUME NEW s \in SUBSET T, Cardinality(s) = n + 1 PROVE f[s] = h[s]
    <3>1. n \in Nat /\ s # {}
      <4>1. n \in Nat
        OBVIOUS
      <4> QED
        BY <2>1, <4>1, FS_EmptySet
    <3>2. Rest(s) \in SUBSET T /\ Cardinality(Rest(s)) = n
      BY <1>0, <2>1, <3>1, OneLess, PickIsIn DEF Rest
    <3>3. f[Rest(s)] = h[Rest(s)]
      BY <3>2
    <3> QED
      BY <1>1, <3>1, <3>3
  <2> QED
    BY <2>1
<1>4. \A n \in Nat : n \in Good
  <2>1. Good \in SUBSET Nat
    OBVIOUS
  <2> HIDE DEF Good
  <2> QED
    BY <1>2, <1>3, <2>1, Numbers
<1> QED
  BY <1>0, <1>4

\* Items of the empty set, and of a set without the one that Pick says.
LEMMA ItemsPick ==
  ASSUME NEW S, IsFiniteSet(S)
  PROVE  Items(S) = IF S = {} THEN 0 ELSE Size(Pick(S)) + Items(Rest(S))
<1>1. PICK f : Adds(f, S) /\ Items(S) = f[S]
  <2>1. Adds(CHOOSE f : Adds(f, S), S)
    BY AddsExists
  <2> QED
    BY <2>1, ItemsDef
<1>2. CASE S = {}
  BY <1>1, <1>2, AddsStep
<1>3. CASE S # {}
  <2>1. Rest(S) \in SUBSET S /\ IsFiniteSet(Rest(S))
    BY FS_Subset DEF Rest
  <2>2. PICK h : Adds(h, Rest(S)) /\ Items(Rest(S)) = h[Rest(S)]
    <3>1. Adds(CHOOSE h : Adds(h, Rest(S)), Rest(S))
      BY <2>1, AddsExists
    <3> QED
      BY <3>1, ItemsDef
  <2>3. f[Rest(S)] = h[Rest(S)]
    BY <1>1, <2>1, <2>2, AddsUnique
  <2> QED
    BY <1>1, <1>3, <2>2, <2>3, AddsStep
<1> QED
  BY <1>2, <1>3

\* The sum is a number, and the order of the batches does not matter.
LEMMA ItemsNumber ==
  ASSUME NEW S, IsFiniteSet(S), \A b \in S : Size(b) \in Nat
  PROVE  Items(S) \in Nat
<1> DEFINE Good == {n \in Nat : \A s \in SUBSET S : Cardinality(s) = n => Items(s) \in Nat}
<1>0. \A s \in SUBSET S : IsFiniteSet(s) /\ Cardinality(s) \in Nat
  BY FS_Subset, FS_CardinalityType
<1>2. 0 \in Good
  BY <1>0, ItemsPick, FS_EmptySet
<1>3. ASSUME NEW n \in Good PROVE n + 1 \in Good
  <2>1. ASSUME NEW s \in SUBSET S, Cardinality(s) = n + 1 PROVE Items(s) \in Nat
    <3>1. s # {}
      BY <2>1, FS_EmptySet
    <3>2. Rest(s) \in SUBSET S /\ Cardinality(Rest(s)) = n /\ Pick(s) \in S
      BY <1>0, <2>1, <3>1, OneLess, PickIsIn DEF Rest
    <3>3. Items(Rest(s)) \in Nat /\ Size(Pick(s)) \in Nat
      BY <3>2
    <3>4. Items(s) = Size(Pick(s)) + Items(Rest(s))
      BY <1>0, <3>1, ItemsPick
    <3> QED
      BY <3>3, <3>4
  <2> QED
    BY <2>1
<1>4. \A n \in Nat : n \in Good
  <2>1. Good \in SUBSET Nat
    OBVIOUS
  <2> HIDE DEF Good
  <2> QED
    BY <1>2, <1>3, <2>1, Numbers
<1> QED
  BY <1>0, <1>4

LEMMA ItemsOneLess ==
  ASSUME NEW S, IsFiniteSet(S), \A b \in S : Size(b) \in Nat, NEW x \in S
  PROVE  Items(S) = Size(x) + Items(S \ {x})
<1> DEFINE Good == {n \in Nat : \A s \in SUBSET S : Cardinality(s) = n =>
                                 \A y \in s : Items(s) = Size(y) + Items(s \ {y})}
<1>0. \A s \in SUBSET S : IsFiniteSet(s) /\ Cardinality(s) \in Nat /\ Items(s) \in Nat
  BY FS_Subset, FS_CardinalityType, ItemsNumber
<1>2. 0 \in Good
  BY <1>0, FS_EmptySet
<1>3. ASSUME NEW n \in Good PROVE n + 1 \in Good
  <2>1. ASSUME NEW s \in SUBSET S, Cardinality(s) = n + 1, NEW y \in s
        PROVE  Items(s) = Size(y) + Items(s \ {y})
    <3>1. PICK z \in s : z = Pick(s)
      BY PickIsIn
    <3>2. Items(s) = Size(z) + Items(s \ {z})
      BY <1>0, <3>1, ItemsPick DEF Rest
    <3>3. CASE y # z
      <4>1. /\ s \ {z} \in SUBSET S /\ Cardinality(s \ {z}) = n /\ y \in s \ {z}
            /\ s \ {y} \in SUBSET S /\ Cardinality(s \ {y}) = n /\ z \in s \ {y}
        BY <1>0, <2>1, <3>3, OneLess
      <4>2. /\ Items(s \ {z}) = Size(y) + Items((s \ {z}) \ {y})
            /\ Items(s \ {y}) = Size(z) + Items((s \ {y}) \ {z})
        BY <4>1
      <4>3. (s \ {z}) \ {y} = (s \ {y}) \ {z} /\ (s \ {y}) \ {z} \in SUBSET S
        OBVIOUS
      <4>4. /\ Size(y) \in Nat /\ Size(z) \in Nat /\ Items((s \ {y}) \ {z}) \in Nat
        BY <1>0, <4>3
      <4>5. PICK i \in Nat, j \in Nat, rest \in Nat :
              i = Size(y) /\ j = Size(z) /\ rest = Items((s \ {y}) \ {z})
        BY <4>4
      <4>6. Items(s \ {z}) = i + rest /\ Items(s \ {y}) = j + rest
        BY <4>2, <4>3, <4>5
      <4>7. Items(s) = j + (i + rest) /\ j + (i + rest) = i + (j + rest)
        BY <3>2, <4>5, <4>6
      <4> HIDE DEF Good
      <4> QED
        BY <4>5, <4>6, <4>7
    <3> QED
      BY <3>2, <3>3
  <2> QED
    BY <2>1
<1>4. \A n \in Nat : n \in Good
  <2>1. Good \in SUBSET Nat
    OBVIOUS
  <2> HIDE DEF Good
  <2> QED
    BY <1>2, <1>3, <2>1, Numbers
<1> QED
  BY <1>0, <1>4

\* What is left when Q leaves S.
LEMMA ItemsLeft ==
  ASSUME NEW S, IsFiniteSet(S), \A b \in S : Size(b) \in Nat, NEW Q \in SUBSET S
  PROVE  Items(S) = Items(Q) + Items(S \ Q)
<1> DEFINE Good == {n \in Nat : \A q \in SUBSET S : Cardinality(S \ q) = n =>
                                 Items(S) = Items(q) + Items(S \ q)}
<1>0. \A s \in SUBSET S : IsFiniteSet(s) /\ Cardinality(s) \in Nat /\ Items(s) \in Nat
  BY FS_Subset, FS_CardinalityType, ItemsNumber
<1>2. 0 \in Good
  <2>1. ASSUME NEW q \in SUBSET S, Cardinality(S \ q) = 0
        PROVE  Items(S) = Items(q) + Items(S \ q)
    <3>1. S \ q = {} /\ S = q
      BY <1>0, <2>1, FS_EmptySet
    <3>2. Items({}) = 0 /\ Items(S) \in Nat
      BY <1>0, ItemsPick, FS_EmptySet
    <3> QED
      BY <3>1, <3>2
  <2> QED
    BY <2>1
<1>3. ASSUME NEW n \in Good PROVE n + 1 \in Good
  <2>1. ASSUME NEW q \in SUBSET S, Cardinality(S \ q) = n + 1
        PROVE  Items(S) = Items(q) + Items(S \ q)
    <3>1. PICK x : x \in S \ q
      BY <2>1, FS_EmptySet
    <3>2. PICK r \in SUBSET S : r = q \cup {x}
      BY <3>1
    <3>3. S \ r = (S \ q) \ {x} /\ r \ {x} = q /\ x \in r
      BY <3>1, <3>2
    <3>4. Cardinality(S \ r) = n
      <4>1. Cardinality(S \ r) = Cardinality(S \ q) - 1
        BY <1>0, <3>1, <3>3, OneLess
      <4>2. n \in Nat
        OBVIOUS
      <4> QED
        BY <2>1, <4>1, <4>2
    <3>5. Items(S) = Items(r) + Items(S \ r)
      BY <3>4
    <3>6. Items(r) = Size(x) + Items(q)
      <4>1. \A b \in r : Size(b) \in Nat
        OBVIOUS
      <4> QED
        BY <1>0, <3>3, <4>1, ItemsOneLess
    <3>7. Items(S \ q) = Size(x) + Items(S \ r)
      <4>1. S \ q \in SUBSET S /\ \A b \in S \ q : Size(b) \in Nat
        OBVIOUS
      <4> QED
        BY <1>0, <3>1, <3>3, <4>1, ItemsOneLess
    <3>8. /\ Size(x) \in Nat /\ Items(q) \in Nat /\ Items(S \ r) \in Nat
      BY <1>0, <3>1
    <3> HIDE DEF Good
    <3> QED
      BY <3>5, <3>6, <3>7, <3>8
  <2> QED
    BY <2>1
<1>4. \A n \in Nat : n \in Good
  <2>1. Good \in SUBSET Nat
    OBVIOUS
  <2> HIDE DEF Good
  <2> QED
    BY <1>2, <1>3, <2>1, Numbers
<1> QED
  BY <1>0, <1>4
=============================================================================
