-------------------------- MODULE SignalPathProofs --------------------------
(* Theorems about SignalPath for every value of its constants.              *)
EXTENDS SignalPath, OwnerBeliefProofs

\* The tracker's invariants hold along the signal path: its steps are steps of
\* the tracker.
TrackerInv == TypeOK /\ OwnerInv /\ IdsBounded

LEMMA TrackerInit == ASSUME PathInit PROVE TrackerInv
BY InitTyped, InitInverse, InitBounded DEF PathInit, TrackerInv

LEMMA TrackerStep == ASSUME TrackerInv, [PathNext]_pathVars PROVE TrackerInv'
<1>1. [Next]_vars
  BY DEF PathNext, pathVars
<1> QED
  BY <1>1, StepTyped, StepInverse, StepBounded DEF TrackerInv
-----------------------------------------------------------------------------
(* The effect of a handler on one series.                                   *)

\* Of a set of deliveries there is a newest one.
LEMMA NewestChosen ==
  ASSUME NEW ds \in SUBSET Delivery, ds # {},
         NEW top \in Nat, \A d \in ds : d.id <= top
  PROVE  Newest(ds) \in ds /\ \A e \in ds : e.id <= Newest(ds).id
<1> DEFINE gaps == {top - d.id : d \in ds}
<1>1. gaps \in SUBSET Nat
  BY DEF Delivery
<1>2. gaps # {}
  OBVIOUS
<1>3. Least(gaps) \in gaps /\ \A g \in gaps : Least(gaps) <= g
  BY <1>1, <1>2, LeastProperties
<1>4. PICK d \in ds : Least(gaps) = top - d.id
  BY <1>3
<1>5. \A e \in ds : e.id <= d.id
  <2>1. ASSUME NEW e \in ds PROVE e.id <= d.id
    <3>1. top - d.id <= top - e.id
      BY <1>3, <1>4
    <3>2. e.id \in Nat /\ d.id \in Nat
      BY DEF Delivery
    <3> QED
      BY <3>1, <3>2
  <2> QED
    BY <2>1
<1> QED
  BY <1>5 DEF Newest

LEMMA WritesChosen ==
  ASSUME TrackerInv', NEW serial, NEW s, Writes(calls', serial, s) # {}
  PROVE  /\ Newest(Writes(calls', serial, s)) \in calls'.deliver
         /\ Newest(Writes(calls', serial, s)) \in Writes(calls', serial, s)
<1>1. /\ Writes(calls', serial, s) \in SUBSET calls'.deliver
      /\ calls'.deliver \in SUBSET Delivery
      /\ \A d \in calls'.deliver : d.id <= emitted'
      /\ emitted' \in Nat
  BY DEF Writes, TrackerInv, TypeOK, CallsTypeOK, EnvironmentTypeOK, IdsBounded
<1>2. Newest(Writes(calls', serial, s)) \in Writes(calls', serial, s)
  BY <1>1, NewestChosen
<1> QED
  BY <1>1, <1>2

LEMMA ShownTyped ==
  ASSUME NEW d \in Delivery, NEW p
  PROVE  /\ Shown(d, p) \in Exported
         /\ d.changed[p] = "number" => Shown(d, p) # NoReading /\ Shown(d, p).origin = d.owner
         /\ d.changed[p] # "number" => Shown(d, p) = NoReading
BY NoConnIsNoConnection DEF Shown, Exported, Reading, NoReading, Delivery

\* One step of the OpenTelemetry side of one series: a write by a connection
\* that holds the name it is published under, the loss of its publisher, or
\* nothing.
LEMMA OtelStep ==
  ASSUME TrackerInv', ExportOtel(calls'), NEW s \in Series
  PROVE  \/ \E d \in calls'.deliver :
              /\ services'[d.service] = d.owner /\ d \in Delivery
              /\ sample'[s] = [id |-> d.id, origin |-> d.owner] /\ active'[s] = d.service
         \/ sample'[s] = NoReading /\ active'[s] = NoName
         \/ sample'[s] = sample[s] /\ active'[s] = active[s] /\ active[s] \notin calls'.invalidate
<1> DEFINE writes == Writes(calls', OtelSerial, s)
           d == Newest(writes)
<1>1. sample'[s] = IF writes # {} THEN Shown(d, s[2])
                   ELSE IF active[s] \in calls'.invalidate THEN NoReading ELSE sample[s]
  BY DEF ExportOtel
<1>2. active'[s] = IF writes # {}
                   THEN IF d.changed[s[2]] = "number" THEN d.service ELSE NoName
                   ELSE IF active[s] \in calls'.invalidate THEN NoName ELSE active[s]
  BY DEF ExportOtel
<1>3. CASE writes # {}
  <2>1. d \in calls'.deliver
    BY <1>3, WritesChosen
  <2>2. d \in Delivery
    BY <2>1 DEF TrackerInv, TypeOK, CallsTypeOK
  <2>3. services'[d.service] = d.owner
    BY <2>1 DEF TrackerInv, OwnerInv, DeliveredUnderOwnName
  <2> HIDE DEF d, writes
  <2> QED
    BY <1>1, <1>2, <1>3, <2>1, <2>2, <2>3 DEF Shown
<1>4. CASE writes = {}
  BY <1>1, <1>2, <1>4
<1> QED
  BY <1>3, <1>4

\* The same for a direct Prometheus child, which keeps its publisher when the
\* value is unavailable.
LEMMA PromStep ==
  ASSUME TrackerInv', ExportProm(calls'), NEW s \in Series
  PROVE  \/ \E d \in calls'.deliver :
              /\ services'[d.service] = d.owner /\ d \in Delivery
              /\ child'[s] \in {[id |-> d.id, origin |-> d.owner], NoReading}
              /\ publisher'[s] = d.service
         \/ child'[s] = NoReading /\ publisher'[s] = NoName
         \/ child'[s] = child[s] /\ publisher'[s] = publisher[s]
              /\ publisher[s] \notin calls'.invalidate
<1> DEFINE writes == Writes(calls', PromSerial, s)
           d == Newest(writes)
<1>1. child'[s] = IF writes # {} THEN Shown(d, s[2])
                  ELSE IF publisher[s] \in calls'.invalidate THEN NoReading ELSE child[s]
  BY DEF ExportProm
<1>2. publisher'[s] = IF writes # {} THEN d.service
                      ELSE IF publisher[s] \in calls'.invalidate THEN NoName ELSE publisher[s]
  BY DEF ExportProm
<1>3. CASE writes # {}
  <2>1. d \in calls'.deliver
    BY <1>3, WritesChosen
  <2>2. d \in Delivery
    BY <2>1 DEF TrackerInv, TypeOK, CallsTypeOK
  <2>3. services'[d.service] = d.owner
    BY <2>1 DEF TrackerInv, OwnerInv, DeliveredUnderOwnName
  <2> HIDE DEF d, writes
  <2> QED
    BY <1>1, <1>2, <1>3, <2>1, <2>2, <2>3 DEF Shown
<1>4. CASE writes = {}
  BY <1>1, <1>2, <1>4
<1> QED
  BY <1>3, <1>4
-----------------------------------------------------------------------------
(* No exporter shows a superseded reading.                                  *)

GaugesInv == GaugesTypeOK /\ SamplesAreOwned /\ NoSupersededReading

\* A name that is neither lost nor invalidated keeps its owner.
LEMMA KeptOwner ==
  ASSUME TrackerInv, Next, ~closed', NEW n \in Name, n \notin calls'.invalidate,
         services[n] # NoConn
  PROVE  services'[n] = services[n]
BY StepInvalidates DEF TrackerInv, LostNames

LEMMA StaysOpen == ASSUME Next, ~closed' PROVE ~closed
BY DEF Next, Listener, Handlers, Environment, SubscribeGlobal, Subscribe, Stop, Tick, Receive,
       Timeout, Rename, Emit, Answer, Advance

LEMMA GaugesTyped ==
  ASSUME TrackerInv, TrackerInv', GaugesTypeOK, PathNext
  PROVE  GaugesTypeOK'
<1>1. ASSUME NEW d \in Delivery
      PROVE  [id |-> d.id, origin |-> d.owner] \in Exported /\ d.service \in Name
  BY DEF Exported, Reading, Delivery
<1>2. ASSUME NEW s \in Series
      PROVE  /\ sample'[s] \in Exported /\ child'[s] \in Exported
             /\ active'[s] \in Name \cup {NoName} /\ publisher'[s] \in Name \cup {NoName}
  <2>1. sample'[s] \in Exported /\ active'[s] \in Name \cup {NoName}
    BY <1>1, OtelStep DEF PathNext, GaugesTypeOK, Exported
  <2>2. child'[s] \in Exported /\ publisher'[s] \in Name \cup {NoName}
    BY <1>1, PromStep DEF PathNext, GaugesTypeOK, Exported
  <2> QED
    BY <2>1, <2>2
<1>3. /\ sample' = [s \in Series |-> sample'[s]] /\ active' = [s \in Series |-> active'[s]]
      /\ child' = [s \in Series |-> child'[s]] /\ publisher' = [s \in Series |-> publisher'[s]]
  BY DEF PathNext, ExportOtel, ExportProm
<1> QED
  BY <1>2, <1>3 DEF GaugesTypeOK

LEMMA GaugesStep ==
  ASSUME TrackerInv, TrackerInv', GaugesInv, PathNext
  PROVE  GaugesInv'
<1>0. Next
  BY DEF PathNext
<1>1. GaugesTypeOK'
  BY GaugesTyped DEF GaugesInv
<1>2. ASSUME NEW d \in Delivery
      PROVE  /\ [id |-> d.id, origin |-> d.owner] # NoReading
             /\ [id |-> d.id, origin |-> d.owner].origin = d.owner
             /\ d.service # NoName
  BY NoConnIsNoConnection, NamesAreOrdered DEF NoReading, Delivery
<1>3. ASSUME NEW s \in Series
      PROVE  /\ active'[s] = NoName <=> sample'[s] = NoReading
             /\ publisher'[s] = NoName => child'[s] = NoReading
  <2>1. active'[s] = NoName <=> sample'[s] = NoReading
    BY <1>2, OtelStep DEF PathNext, GaugesInv, SamplesAreOwned
  <2>2. publisher'[s] = NoName => child'[s] = NoReading
    BY <1>2, PromStep DEF PathNext, GaugesInv, SamplesAreOwned
  <2> QED
    BY <2>1, <2>2
<1>4. ASSUME ~closed', NEW s \in Series, active'[s] # NoName
      PROVE  sample'[s].origin = services'[active'[s]]
  <2>1. CASE \E d \in calls'.deliver :
              /\ services'[d.service] = d.owner /\ d \in Delivery
              /\ sample'[s] = [id |-> d.id, origin |-> d.owner] /\ active'[s] = d.service
    BY <1>2, <2>1
  <2>2. CASE /\ sample'[s] = sample[s] /\ active'[s] = active[s]
             /\ active[s] \notin calls'.invalidate
    <3>1. active[s] \in Name /\ sample[s] \in Exported /\ sample[s] # NoReading
      BY <1>4, <2>2 DEF GaugesInv, GaugesTypeOK, SamplesAreOwned
    <3>2. sample[s].origin = services[active[s]]
      BY <1>0, <1>4, <2>2, StaysOpen DEF GaugesInv, NoSupersededReading
    <3>3. sample[s].origin # NoConn
      BY <3>1, NoConnIsNoConnection DEF Exported, Reading
    <3> QED
      BY <1>0, <1>4, <2>2, <3>1, <3>2, <3>3, KeptOwner
  <2> QED
    BY <1>4, <2>1, <2>2, OtelStep DEF PathNext
<1>5. ASSUME ~closed', NEW s \in Series, child'[s] # NoReading
      PROVE  child'[s].origin = services'[publisher'[s]]
  <2>1. CASE \E d \in calls'.deliver :
              /\ services'[d.service] = d.owner /\ d \in Delivery
              /\ child'[s] \in {[id |-> d.id, origin |-> d.owner], NoReading}
              /\ publisher'[s] = d.service
    BY <1>2, <1>5, <2>1
  <2>2. CASE /\ child'[s] = child[s] /\ publisher'[s] = publisher[s]
             /\ publisher[s] \notin calls'.invalidate
    <3>1. publisher[s] \in Name /\ child[s] \in Exported /\ child[s] # NoReading
      BY <1>5, <2>2 DEF GaugesInv, GaugesTypeOK, SamplesAreOwned
    <3>2. child[s].origin = services[publisher[s]]
      BY <1>0, <1>5, <2>2, StaysOpen DEF GaugesInv, NoSupersededReading
    <3>3. child[s].origin # NoConn
      BY <3>1, NoConnIsNoConnection DEF Exported, Reading
    <3> QED
      BY <1>0, <1>5, <2>2, <3>1, <3>2, <3>3, KeptOwner
  <2> QED
    BY <1>5, <2>1, <2>2, PromStep DEF PathNext
<1> QED
  BY <1>1, <1>3, <1>4, <1>5 DEF GaugesInv, SamplesAreOwned, NoSupersededReading

LEMMA GaugesInit == ASSUME PathInit PROVE GaugesInv
BY DEF PathInit, InitGauges, GaugesInv, GaugesTypeOK, SamplesAreOwned, NoSupersededReading,
       Exported

LEMMA GaugesStutter ==
  ASSUME GaugesInv, UNCHANGED pathVars PROVE GaugesInv'
BY DEF pathVars, vars, trackerVars, ownerVars, otelVars, promVars, GaugesInv, GaugesTypeOK,
       SamplesAreOwned, NoSupersededReading

PathInv == TrackerInv /\ GaugesInv

LEMMA PathInvHolds == PathSpec => []PathInv
<1>1. PathInit => PathInv
  BY TrackerInit, GaugesInit DEF PathInv
<1>2. PathInv /\ [PathNext]_pathVars => PathInv'
  BY TrackerStep, GaugesStep, GaugesStutter DEF PathInv
<1> QED
  BY <1>1, <1>2, PTL DEF PathSpec

\* While the listener runs, neither exporter shows a reading of a connection
\* that the tracker no longer takes for the owner of the publishing name.
THEOREM NoSupersededReadingHolds == PathSpec => []NoSupersededReading
<1>1. PathInv => NoSupersededReading
  BY DEF PathInv, GaugesInv
<1> QED
  BY <1>1, PathInvHolds, PTL

\* Every exported series can be found by the service that published it.
THEOREM SamplesAreOwnedHolds == PathSpec => []SamplesAreOwned
<1>1. PathInv => SamplesAreOwned
  BY DEF PathInv, GaugesInv
<1> QED
  BY <1>1, PathInvHolds, PTL
-----------------------------------------------------------------------------
(* Both exporters show the same.                                            *)

\* With one label for both exporters, a series has the same reading in both,
\* and what OpenTelemetry takes for its publisher Prometheus does too.
Alike ==
  OtelSerial = PromSerial =>
    \A s \in Series :
      /\ sample[s] = child[s]
      /\ active[s] # NoName => publisher[s] = active[s]

LEMMA AlikeStep ==
  ASSUME PathInv, PathInv', Alike, PathNext
  PROVE  Alike'
<1> SUFFICES ASSUME OtelSerial = PromSerial, NEW s \in Series
             PROVE  /\ sample'[s] = child'[s]
                    /\ active'[s] # NoName => publisher'[s] = active'[s]
  BY DEF Alike
<1> DEFINE writes == Writes(calls', OtelSerial, s)
           d == Newest(writes)
<1>1. writes = Writes(calls', PromSerial, s)
  OBVIOUS
<1>2. /\ sample'[s] = IF writes # {} THEN Shown(d, s[2])
                      ELSE IF active[s] \in calls'.invalidate THEN NoReading ELSE sample[s]
      /\ active'[s] = IF writes # {}
                      THEN IF d.changed[s[2]] = "number" THEN d.service ELSE NoName
                      ELSE IF active[s] \in calls'.invalidate THEN NoName ELSE active[s]
  BY DEF PathNext, ExportOtel
<1>3. /\ child'[s] = IF writes # {} THEN Shown(d, s[2])
                     ELSE IF publisher[s] \in calls'.invalidate THEN NoReading ELSE child[s]
      /\ publisher'[s] = IF writes # {} THEN d.service
                         ELSE IF publisher[s] \in calls'.invalidate THEN NoName
                         ELSE publisher[s]
  BY <1>1 DEF PathNext, ExportProm
<1>4. /\ sample[s] = child[s]
      /\ active[s] # NoName => publisher[s] = active[s]
      /\ active[s] = NoName <=> sample[s] = NoReading
  BY DEF Alike, PathInv, GaugesInv, SamplesAreOwned
<1>5. NoName \notin calls'.invalidate
  BY NamesAreOrdered DEF PathInv, TrackerInv, TypeOK, CallsTypeOK
<1> HIDE DEF writes, d
<1> QED
  BY <1>2, <1>3, <1>4, <1>5

LEMMA AlikeInit == ASSUME PathInit PROVE Alike
BY DEF PathInit, InitGauges, Alike

\* Two exporters that label their series alike never disagree on a reading.
THEOREM ExportersAgreeHolds == PathSpec => []ExportersAgree
<1>1. PathInv /\ PathInv' /\ Alike /\ [PathNext]_pathVars => Alike'
  BY AlikeStep DEF Alike, pathVars, otelVars, promVars
<1>2. PathInv /\ Alike => ExportersAgree
  <2>1. ASSUME PathInv, Alike, OtelSerial = PromSerial PROVE sample = child
    BY <2>1 DEF Alike, PathInv, GaugesInv, GaugesTypeOK
  <2> QED
    BY <2>1 DEF ExportersAgree
<1> QED
  BY <1>1, <1>2, AlikeInit, PathInvHolds, PTL DEF PathSpec
-----------------------------------------------------------------------------
(* What an exporter loses, and the order of what it shows.                  *)

\* The signal path's steps are steps of the tracker: all that is proved of the
\* tracker alone holds along the path.
THEOREM PathIsTracker == PathSpec => Spec
<1>1. PathInit => Init
  BY DEF PathInit
<1>2. [PathNext]_pathVars => [Next]_vars
  BY DEF PathNext, pathVars
<1> QED
  BY <1>1, <1>2, PTL DEF PathSpec, Spec

\* A series loses its reading only to an unavailable value or to the loss of
\* its own publisher, for any assignment of serial labels.
THEOREM LostOnlyByItsPublisherHolds == PathSpec => LostOnlyByItsPublisher
<1>1. ASSUME PathInv, PathInv', [PathNext]_pathVars
      PROVE  [\A s \in Series :
                sample[s] # NoReading /\ sample'[s] = NoReading =>
                  \/ active[s] \in calls'.invalidate
                  \/ \E d \in calls'.deliver :
                       s[2] \in DOMAIN d.changed /\ d.changed[s[2]] = "unavailable"]_pathVars
  <2> SUFFICES ASSUME PathNext, NEW s \in Series,
                      sample[s] # NoReading, sample'[s] = NoReading,
                      active[s] \notin calls'.invalidate
               PROVE  \E d \in calls'.deliver :
                        s[2] \in DOMAIN d.changed /\ d.changed[s[2]] = "unavailable"
    BY <1>1
  <2> DEFINE writes == Writes(calls', OtelSerial, s)
             d == Newest(writes)
  <2>1. sample'[s] = IF writes # {} THEN Shown(d, s[2])
                     ELSE IF active[s] \in calls'.invalidate THEN NoReading ELSE sample[s]
    BY DEF PathNext, ExportOtel
  <2>2. writes # {} /\ Shown(d, s[2]) = NoReading
    BY <2>1
  <2>3. d \in calls'.deliver /\ d \in writes /\ d \in Delivery
    BY <1>1, <2>2, WritesChosen DEF PathInv, TrackerInv, TypeOK, CallsTypeOK
  <2>4. s[2] \in DOMAIN d.changed /\ d.changed[s[2]] # "no value"
    BY <2>3 DEF Writes
  <2>5. d.changed[s[2]] # "number"
    <3> HIDE DEF d, writes
    <3> QED
      BY <2>2, <2>3, ShownTyped
  <2>6. d.changed \in Contents
    BY <2>3 DEF Delivery
  <2>7. d.changed[s[2]] = "unavailable"
    <3> HIDE DEF d, writes
    <3> QED
      BY <2>4, <2>5, <2>6, PayloadsHoldItems DEF Item
  <2> QED
    BY <2>3, <2>4, <2>7
<1> QED
  BY <1>1, PathInvHolds, PTL DEF PathSpec, LostOnlyByItsPublisher

\* Every delivery is of a batch that waited or has just arrived, and its sender
\* has an eligible name now.
LEMMA Deliveries ==
  ASSUME TypeOK, Next, NEW e \in calls'.deliver
  PROVE  /\ UNCHANGED subscriptionVars
         /\ SelectService(owners'[e.owner], e.iface) # NoName
         /\ \/ \E b \in pending : b.id = e.id /\ b.owner = e.owner
            \/ \E i \in 1..Len(wire) : wire[i].kind = "items" /\ wire[i].batch.id = e.id
<1>1. calls' # Quiet
  BY DEF Quiet
<1>2. PICK i \in 1..Len(wire) : Receive(i)
  BY <1>1 DEF Next, Listener, Handlers, Environment, SubscribeGlobal, Subscribe, Stop, Tick,
              Timeout, OnFailed, Rename, Emit, Answer, Advance
<1>3. UNCHANGED subscriptionVars
  BY <1>2 DEF Receive
<1>4. ASSUME NEW n \in Name, NEW c \in Owner, SetOwner(n, c)
      PROVE  /\ SelectService(owners'[e.owner], e.iface) # NoName
             /\ \E b \in pending : b.id = e.id /\ b.owner = e.owner
  <2> DEFINE names == owners[c] \cup {n}
  <2>0. ASSUME c = NoConn PROVE FALSE
    <3>1. calls' = [invalidate |-> IF Lost(n, c) THEN {n} ELSE {}, deliver |-> {}]
      BY <1>4, <2>0 DEF SetOwner
    <3> QED
      BY <3>1
  <2>1. /\ c # NoConn
        /\ calls' = [invalidate |-> IF Lost(n, c) THEN {n} ELSE {},
                     deliver |-> {AsDelivery(b, SelectService(names, b.iface))
                                    : b \in Ready(c, names)}]
    BY <1>4, <2>0 DEF SetOwner
  <2>2. PICK b \in Ready(c, names) : e = AsDelivery(b, SelectService(names, b.iface))
    BY <2>1, Zenon
  <2>3. e.id = b.id /\ e.owner = b.owner /\ e.iface = b.iface
    BY <2>2 DEF AsDelivery
  <2>4. b \in pending /\ b.owner = c /\ SelectService(names, b.iface) # NoName
    BY DEF Ready, Fresh
  <2>5. owners'[c] = names
    BY <1>4, <2>1 DEF SetOwner, Reassign, Owner
  <2> HIDE DEF names
  <2> QED
    BY <2>3, <2>4, <2>5
<1>5. ASSUME NEW b \in Batch, wire[i].kind = "items", wire[i].batch = b, OnItems(b)
      PROVE  /\ SelectService(owners'[e.owner], e.iface) # NoName
             /\ wire[i].batch.id = e.id
  <2> DEFINE n == SelectService(owners[b.owner], b.iface)
  <2>1. n # NoName /\ calls' = [invalidate |-> {}, deliver |-> {AsDelivery(b, n)}]
    BY <1>1, <1>5 DEF OnItems
  <2>2. e = AsDelivery(b, n)
    BY <2>1
  <2>3. e.id = b.id /\ e.owner = b.owner /\ e.iface = b.iface
    BY <2>2 DEF AsDelivery
  <2>4. owners' = owners
    BY <1>5 DEF OnItems, ownerVars
  <2> QED
    BY <1>5, <2>1, <2>3, <2>4
<1>6. PICK m \in Message : m = wire[i]
  BY WireMessages
<1>7. ~OnFailed(m.names) /\ ~IgnoreReply /\ ~OnListed(m.names)
  BY <1>1 DEF OnFailed, IgnoreReply, OnListed, Forget
<1>8. \/ m.kind = "items" /\ OnItems(m.batch)
      \/ m.kind = "changed" /\ SetOwner(m.name, m.new)
      \/ m.kind = "found" /\ SetOwner(m.name, m.owner)
  BY <1>1, <1>2, <1>6, <1>7 DEF Receive, OnChanged, OnFound
<1> QED
  BY <1>3, <1>4, <1>5, <1>6, <1>8, MessageKinds

\* What waits has waited before or has just arrived.
LEMMA Waiters ==
  ASSUME TypeOK, Next, NEW b \in pending'
  PROVE  \/ \E x \in pending : x.id = b.id /\ x.owner = b.owner
         \/ \E i \in 1..Len(wire) : wire[i].kind = "items" /\ wire[i].batch.id = b.id
<1>1. CASE pending' \subseteq pending
  BY <1>1
<1>2. CASE Advance
  <2>1. PICK x \in pending : b = [x EXCEPT !.age = Capped(x.age, PendingTTL)]
    BY <1>2 DEF Advance
  <2>2. x \in Queued
    BY DEF TypeOK, QueueTypeOK
  <2>3. b.id = x.id /\ b.owner = x.owner
    BY <2>1, <2>2 DEF Queued
  <2> QED
    BY <2>3
<1>3. ASSUME NEW i \in 1..Len(wire), Receive(i)
      PROVE  \/ pending' \subseteq pending
             \/ \E x \in pending : x.id = b.id /\ x.owner = b.owner
             \/ \E j \in 1..Len(wire) : wire[j].kind = "items" /\ wire[j].batch.id = b.id
  <2>1. \A n, c : SetOwner(n, c) => pending' \subseteq pending
    BY DEF SetOwner, KeepOnly, Remaining, Fresh, queueVars
  <2>2. CASE wire[i].kind = "items" /\ OnItems(wire[i].batch)
    <3>1. PICK a : a = wire[i].batch
      OBVIOUS
    <3>2. Fresh \subseteq pending /\ Evict(Fresh, Size(a)) \subseteq pending
      BY DEF Fresh, Evict, Younger
    <3>3. CASE UNCHANGED pending
      BY <3>3
    <3>4. CASE Enqueue(a)
      <4>1. \/ pending' = Fresh
            \/ pending' = Evict(Fresh, Size(a)) \cup
                 {[id |-> a.id, owner |-> a.owner, iface |-> a.iface,
                   changed |-> a.changed, age |-> 0]}
        BY <3>4 DEF Enqueue, KeepOnly
      <4>2. b \in pending \/ b.id = a.id
        BY <3>2, <4>1
      <4> QED
        BY <2>2, <3>1, <4>2
    <3> QED
      BY <2>2, <3>1, <3>3, <3>4 DEF OnItems, queueVars
  <2>3. CASE ~(wire[i].kind = "items" /\ OnItems(wire[i].batch))
    BY <1>3, <2>1, <2>3 DEF Receive, OnChanged, OnFound, OnListed, OnFailed, IgnoreReply, queueVars
  <2> QED
    BY <2>2, <2>3
<1>4. CASE ~(Advance \/ \E i \in 1..Len(wire) : Receive(i))
  <2>1. pending' \subseteq pending
    BY <1>4 DEF Next, Listener, Handlers, Environment, SubscribeGlobal, Subscribe, Stop, Tick,
                Timeout, OnFailed, Rename, Emit, Answer, KeepOnly, Fresh, queueVars
  <2> QED
    BY <2>1
<1> QED
  BY <1>1, <1>2, <1>3, <1>4

\* What is on the wire was there before or has just been emitted.
LEMMA Travellers ==
  ASSUME TypeOK, Next, NEW j \in 1..Len(wire'), wire'[j].kind = "items"
  PROVE  \/ \E i \in 1..Len(wire) : wire[i].kind = "items" /\ wire[i].batch.id = wire'[j].batch.id
         \/ wire'[j].batch.id = emitted + 1
<1>1. CASE wire' = wire
  BY <1>1
<1>2. CASE \E i \in 1..Len(wire) : wire' = Without(i)
  <2>1. PICK i \in 1..Len(wire) : wire' = Without(i)
    BY <1>2
  <2>2. wire'[j] = wire[Up(i, j)] /\ Up(i, j) \in 1..Len(wire)
    BY <2>1, Removed DEF TypeOK, EnvironmentTypeOK
  <2> QED
    BY <2>2
<1>3. ASSUME NEW m \in Message, wire' = Append(wire, m),
             m.kind = "items" => m.batch.id = emitted + 1
      PROVE  \/ \E i \in 1..Len(wire) :
                  wire[i].kind = "items" /\ wire[i].batch.id = wire'[j].batch.id
             \/ wire'[j].batch.id = emitted + 1
  <2>1. /\ \A k \in 1..Len(wire) : wire'[k] = wire[k]
        /\ wire'[Len(wire')] = m
        /\ j \in 1..Len(wire) \/ j = Len(wire')
    BY <1>3, Appended DEF TypeOK, EnvironmentTypeOK
  <2>2. CASE j \in 1..Len(wire)
    BY <2>1, <2>2
  <2>3. CASE j = Len(wire')
    BY <1>3, <2>1, <2>3
  <2> QED
    BY <2>1, <2>2, <2>3
<1>4. CASE Environment
  <2>1. ASSUME NEW n \in Name, NEW c \in Owner, Rename(n, c)
        PROVE  wire' = wire \/ \E m \in Message : m.kind # "items" /\ wire' = Append(wire, m)
    <3> DEFINE m == [kind |-> "changed", name |-> n, old |-> bus[n], new |-> c]
    <3>1. m \in Message /\ m.kind # "items"
      BY DEF Message, TypeOK, EnvironmentTypeOK
    <3>2. wire' = wire \/ wire' = Append(wire, m)
      BY <2>1 DEF Rename
    <3> HIDE DEF m
    <3> QED
      BY <3>1, <3>2
  <2>2. ASSUME NEW c \in Conn, NEW i \in Iface, NEW content \in Contents, Emit(c, i, content)
        PROVE  \E m \in Message : m.batch.id = emitted + 1 /\ wire' = Append(wire, m)
    <3> DEFINE m == [kind |-> "items", batch |->
                      [id |-> emitted + 1, owner |-> c, iface |-> i, changed |-> content]]
    <3>1. m \in Message /\ m.batch.id = emitted + 1
      BY DEF Message, Batch, TypeOK, EnvironmentTypeOK
    <3>2. wire' = Append(wire, m)
      BY <2>2 DEF Emit
    <3> HIDE DEF m
    <3> QED
      BY <3>1, <3>2
  <2>3. ASSUME NEW names \in Outstanding, Answer(names)
        PROVE  \E m \in Message : m.kind # "items" /\ wire' = Append(wire, m)
    <3>1. names \in SUBSET Name
      BY OutstandingAreNames
    <3>2. names # {} => Least(names) \in Name
      BY <3>1, NamesAreOrdered, LeastProperties
    <3>3. Reply(names) \in Message /\ Reply(names).kind # "items"
      BY <3>1, <3>2 DEF Reply, Message, TypeOK, EnvironmentTypeOK
    <3> QED
      BY <2>3, <3>3 DEF Answer
  <2>4. Advance => wire' = wire
    BY DEF Advance, envVars
  <2> QED
    BY <1>1, <1>3, <1>4, <2>1, <2>2, <2>3, <2>4 DEF Environment
<1>5. CASE Listener
  BY <1>1, <1>5 DEF Listener, SubscribeGlobal, Subscribe, Stop, envVars
<1>6. CASE Handlers
  BY <1>1, <1>2, <1>6, LateAnswer DEF Handlers, Tick, Receive, envVars
<1> QED
  BY <1>4, <1>5, <1>6 DEF Next

\* What a series shows is older than all that waits of its sender and all that
\* is on the wire.
Behind ==
  \A s \in Series : sample[s] # NoReading =>
    /\ sample[s].id <= emitted
    /\ \A b \in pending : b.owner = sample[s].origin => sample[s].id < b.id
    /\ \A i \in 1..Len(wire) : wire[i].kind = "items" => sample[s].id < wire[i].batch.id

OrderInv == PathInv /\ PlacesInv /\ NothingWaitsForAKnownName /\ Behind

\* What is delivered is newer than what its sender has shown.
LEMMA DeliveredIsNewer ==
  ASSUME OrderInv, PathNext, NEW s \in Series, NEW e \in calls'.deliver,
         sample[s] # NoReading, sample[s].origin = e.owner
  PROVE  sample[s].id < e.id
<1>1. TypeOK /\ Next
  BY DEF OrderInv, PathInv, TrackerInv, PathNext
<1>2. \/ \E b \in pending : b.id = e.id /\ b.owner = e.owner
      \/ \E i \in 1..Len(wire) : wire[i].kind = "items" /\ wire[i].batch.id = e.id
  BY <1>1, Deliveries
<1> QED
  BY <1>2 DEF OrderInv, Behind

LEMMA BehindStep ==
  ASSUME OrderInv, PathInv', PlacesInv', NothingWaitsForAKnownName', PathNext,
         \A i, j \in Iface : i = j
  PROVE  Behind'
<1>1. TypeOK /\ TypeOK' /\ TrackerInv' /\ IdsBounded' /\ Next /\ ExportOtel(calls')
  BY DEF OrderInv, PathInv, TrackerInv, PathNext
<1>2. emitted \in Nat /\ emitted' \in Nat /\ emitted <= emitted'
  <2>1. emitted \in Nat
    BY <1>1 DEF TypeOK, EnvironmentTypeOK
  <2>2. emitted' = emitted \/ emitted' = emitted + 1
    <3>1. CASE Environment
      BY <3>1 DEF Environment, Rename, Emit, Answer, Advance, envVars
    <3>2. CASE Listener
      BY <3>2 DEF Listener, SubscribeGlobal, Subscribe, Stop, envVars
    <3>3. CASE Handlers
      BY <3>3 DEF Handlers, Tick, Receive, Timeout, envVars
    <3> QED
      BY <1>1, <3>1, <3>2, <3>3 DEF Next
  <2> QED
    BY <2>1, <2>2
<1>3. ASSUME NEW s \in Series, sample'[s] # NoReading, sample'[s] = sample[s]
      PROVE  /\ sample[s].id <= emitted'
             /\ \A b \in pending' : b.owner = sample[s].origin => sample[s].id < b.id
             /\ \A i \in 1..Len(wire') : wire'[i].kind = "items" => sample[s].id < wire'[i].batch.id
  <2>1. /\ sample[s].id \in Nat /\ sample[s].id <= emitted
        /\ \A b \in pending : b.owner = sample[s].origin => sample[s].id < b.id
        /\ \A i \in 1..Len(wire) : wire[i].kind = "items" => sample[s].id < wire[i].batch.id
    BY <1>3 DEF OrderInv, PathInv, GaugesInv, GaugesTypeOK, Exported, Reading, Behind
  <2>2. ASSUME NEW b \in pending', b.owner = sample[s].origin PROVE sample[s].id < b.id
    BY <1>1, <2>1, <2>2, Waiters
  <2>3. ASSUME NEW i \in 1..Len(wire'), wire'[i].kind = "items"
        PROVE  sample[s].id < wire'[i].batch.id
    <3>1. CASE wire'[i].batch.id = emitted + 1
      BY <1>2, <2>1, <3>1
    <3> QED
      BY <1>1, <2>1, <2>3, <3>1, Travellers
  <2> QED
    BY <1>2, <2>1, <2>2, <2>3
<1>4. ASSUME NEW s \in Series, NEW e \in calls'.deliver, e \in Delivery,
             sample'[s] = [id |-> e.id, origin |-> e.owner]
      PROVE  /\ e.id <= emitted'
             /\ \A b \in pending' : b.owner # e.owner
             /\ \A i \in 1..Len(wire') : wire'[i].kind = "items" => e.id < wire'[i].batch.id
  <2>1. ASSUME NEW b \in pending' PROVE b.owner # e.owner
    <3>1. /\ UNCHANGED subscriptionVars
          /\ SelectService(owners'[e.owner], e.iface) # NoName
      BY <1>1, Deliveries
    <3>2. SelectService(owners[b.owner], b.iface)' = NoName
      BY DEF NothingWaitsForAKnownName
    <3>3. SelectService(owners[b.owner], b.iface)' = SelectService(owners'[b.owner], b.iface)
      BY <3>1 DEF SelectService, Eligible, Global, subscriptionVars
    <3>4. b.iface \in Iface /\ e.iface \in Iface
      BY <1>1, <1>4 DEF TypeOK, QueueTypeOK, Queued, Delivery
    <3>5. b.iface = e.iface
      BY <3>4
    <3> QED
      BY <3>1, <3>2, <3>3, <3>5
  <2>2. e.id <= emitted'
    BY <1>1 DEF IdsBounded
  <2>3. \A i \in 1..Len(wire') : wire'[i].kind = "items" => e.id < wire'[i].batch.id
    BY DEF PlacesInv, Placed
  <2> QED
    BY <2>1, <2>2, <2>3
<1>5. ASSUME NEW s \in Series, sample'[s] # NoReading
      PROVE  /\ sample'[s].id <= emitted'
             /\ \A b \in pending' : b.owner = sample'[s].origin => sample'[s].id < b.id
             /\ \A i \in 1..Len(wire') : wire'[i].kind = "items" => sample'[s].id < wire'[i].batch.id
  <2>1. \/ \E e \in calls'.deliver :
             e \in Delivery /\ sample'[s] = [id |-> e.id, origin |-> e.owner]
        \/ sample'[s] = sample[s]
    BY <1>1, <1>5, OtelStep
  <2>2. CASE sample'[s] = sample[s]
    BY <1>3, <1>5, <2>2
  <2>3. ASSUME NEW e \in calls'.deliver, e \in Delivery,
               sample'[s] = [id |-> e.id, origin |-> e.owner]
        PROVE  /\ sample'[s].id <= emitted'
               /\ \A b \in pending' : b.owner = sample'[s].origin => sample'[s].id < b.id
               /\ \A i \in 1..Len(wire') :
                    wire'[i].kind = "items" => sample'[s].id < wire'[i].batch.id
    <3>1. sample'[s].id = e.id /\ sample'[s].origin = e.owner
      BY <2>3
    <3> QED
      BY <1>4, <2>3, <3>1
  <2> QED
    BY <2>1, <2>2, <2>3
<1> QED
  BY <1>5 DEF Behind

\* With the subscriptions made before the first batch, and for one interface as
\* the program subscribes, an exporter never goes back to an older reading of
\* the same connection, however batches wait, are evicted and replayed.
THEOREM NewestReadingWinsHolds ==
  ASSUME ~SubscribeLate, \A i, j \in Iface : i = j
  PROVE  PathSpec => NewestReadingWins
<1>1. PathInit => Behind
  BY DEF PathInit, InitGauges, Behind
<1>2. ASSUME OrderInv, PathInv', PlacesInv', NothingWaitsForAKnownName', [PathNext]_pathVars
      PROVE  Behind'
  <2>1. CASE UNCHANGED pathVars
    BY <1>2, <2>1 DEF OrderInv, Behind, pathVars, vars, trackerVars, queueVars, envVars, otelVars
  <2> QED
    BY <1>2, <2>1, BehindStep
<1>3. ASSUME OrderInv, PathInv', [PathNext]_pathVars
      PROVE  [\A s \in Series :
                sample'[s].origin = sample[s].origin => sample[s].id <= sample'[s].id]_pathVars
  <2> SUFFICES ASSUME PathNext, NEW s \in Series, sample'[s].origin = sample[s].origin
               PROVE  sample[s].id <= sample'[s].id
    BY <1>3
  <2>1. TrackerInv' /\ ExportOtel(calls')
    BY <1>3 DEF PathInv, PathNext
  <2>2. sample[s] \in Exported /\ sample'[s] \in Exported
    BY <1>3 DEF OrderInv, PathInv, GaugesInv, GaugesTypeOK
  <2>3. CASE sample[s] = NoReading
    BY <2>2, <2>3 DEF NoReading, Exported, Reading
  <2>4. CASE sample[s] # NoReading
    <3>1. sample[s] \in Reading
      BY <2>2, <2>4 DEF Exported
    <3>2. sample[s].origin # NoConn /\ sample[s].id \in Nat
      BY <3>1, NoConnIsNoConnection DEF Reading
    <3>3. sample'[s] # NoReading
      BY <3>2 DEF NoReading
    <3>4. CASE sample'[s] = sample[s]
      BY <3>2, <3>4
    <3>5. ASSUME NEW e \in calls'.deliver, e \in Delivery,
                 sample'[s] = [id |-> e.id, origin |-> e.owner]
          PROVE  sample[s].id <= sample'[s].id
      <4>1. sample'[s].id = e.id /\ sample'[s].origin = e.owner /\ e.id \in Nat
        BY <3>5 DEF Delivery
      <4>2. sample[s].id < e.id
        BY <1>3, <2>4, <4>1, DeliveredIsNewer
      <4> QED
        BY <3>2, <4>1, <4>2
    <3> QED
      BY <2>1, <3>3, <3>4, <3>5, OtelStep
  <2> QED
    BY <2>3, <2>4
<1>4. PathSpec => [](PlacesInv /\ NothingWaitsForAKnownName)
  <2>1. QueueInv => PlacesInv
    BY DEF QueueInv
  <2> QED
    BY <2>1, QueueInduction, NothingWaitsHolds, PathIsTracker, PTL DEF Spec
<1>5. PathInv /\ PlacesInv /\ NothingWaitsForAKnownName /\ Behind => OrderInv
  BY DEF OrderInv
<1> QED
  BY <1>1, <1>2, <1>3, <1>4, <1>5, PathInvHolds, PTL DEF PathSpec, NewestReadingWins
=============================================================================
