---------------------------- MODULE OwnerTracker ----------------------------
(***************************************************************************)
(* ServiceOwnerTracker (src/venus_observability/dbus_owners.py) between    *)
(* the D-Bus daemon and the listener: it maps unique connection names to   *)
(* the well-known Venus names they own, keeps the batches whose sender is  *)
(* not known yet, and asks the daemon again when it has to.                *)
(*                                                                         *)
(* Every handler runs to completion on the GLib thread, so one action is   *)
(* one handler.  The wire holds what the daemon has sent to the process    *)
(* and the GLib loop has not dispatched.  Time is relative: ages and       *)
(* delays stop counting at the threshold the code compares them with.      *)
(***************************************************************************)
EXTENDS Subscriptions, Sequences, FiniteSets, FiniteSetsExt

CONSTANTS Conn,              \* unique connection names (":1.42")
          NoConn,            \* the empty owner
          Contents,          \* payloads a batch can carry: functions on paths
          MaxPendingBatches, MaxPendingItems, PendingTTL, RefreshInterval,
          RetryDelay,        \* the 5.0 of complete()'s error branch
          CallTimeout,       \* timeout=5.0 of call_async
          RepliesInOrder,    \* replies keep their place among the signals
          CallsMayRaise,     \* call_async may raise instead of sending
          SelectGlobal, SelectKeys, \* the subscriptions the embedding program makes
          SubscribeLate,     \* it may make them after batches have arrived
          MaxWire, MaxBatches \* bounds of the model: messages in flight, batches

ASSUME NoConnIsNoConnection == NoConn \notin Conn
ASSUME PayloadsMapPaths ==
  \A b \in Contents : DOMAIN b \subseteq Path /\ IsFiniteSet(DOMAIN b)
ASSUME LimitsAreNatural ==
  /\ MaxPendingBatches \in Nat \ {0}
  /\ MaxPendingItems \in Nat \ {0}
  /\ PendingTTL \in Nat \ {0}
  /\ RetryDelay \in Nat
  /\ RefreshInterval \in Nat
  /\ RetryDelay <= RefreshInterval
  /\ CallTimeout \in Nat
ASSUME SwitchesAreBoolean ==
  {RepliesInOrder, CallsMayRaise, SelectGlobal, SubscribeLate} \subseteq BOOLEAN
ASSUME SelectedKeys == SelectKeys \subseteq Key

VARIABLES services,     \* services: name -> owner, NoConn when absent
          owners,       \* owners: connection -> names, empty when absent
          pending,      \* the deque, as a set ordered by id (arrival)
          pendingItems, \* pending_items
          started,      \* _match and _timer are installed
          closed,       \* _closed; stop() also advances _epoch
          refreshing,   \* _refreshing
          changed,      \* _changed
          listing,      \* a ListNames request is in _requests
          asked,        \* names whose GetNameOwner request is in _requests
          sinceRefresh, \* now - _last_refresh, up to RefreshInterval
          calls         \* deliver and invalidate callbacks of the last handler

\* The environment: the daemon's owners, the messages in flight, the time the
\* outstanding requests have waited, the number of batches emitted so far.
VARIABLES bus, wire, waited, emitted

askVars == <<refreshing, changed, listing, asked, sinceRefresh, waited>>
queueVars == <<pending, pendingItems>>
ownerVars == <<services, owners>>
trackerVars == <<ownerVars, queueVars, askVars, started, closed, calls>>
envVars == <<bus, wire, emitted>>
vars == <<subscriptionVars, trackerVars, envVars>>

Owner == Conn \cup {NoConn}
Batch == [id : Nat \ {0}, owner : Conn, iface : Iface, changed : Contents]
Queued == [id : Nat \ {0}, owner : Conn, iface : Iface, changed : Contents,
           age : 0..PendingTTL]
Delivery == [id : Nat \ {0}, owner : Conn, iface : Iface, changed : Contents,
             service : Name]
Message == [kind : {"changed"}, name : Name, old : Owner, new : Owner]
             \cup [kind : {"listed"}, names : SUBSET Name]
             \cup [kind : {"found"}, name : Name, owner : Owner]
             \cup [kind : {"failed"}, names : SUBSET Name]
             \cup [kind : {"items"}, batch : Batch]

Size(b) == Cardinality(DOMAIN b.changed)
Items(S) == MapThenSumSet(Size, S)
Younger(S, i) == {b \in S : b.id > i}
Quiet == [invalidate |-> {}, deliver |-> {}]

Init ==
  /\ InitSubscriptions
  /\ services = [n \in Name |-> NoConn]
  /\ owners = [c \in Conn |-> {}]
  /\ pending = {} /\ pendingItems = 0
  /\ started = FALSE /\ closed = FALSE
  /\ refreshing = FALSE /\ changed = {} /\ listing = FALSE /\ asked = {}
  /\ sinceRefresh = RefreshInterval
  /\ waited = 0
  /\ calls = Quiet
  /\ bus \in [Name -> Owner]
  /\ wire = <<>>
  /\ emitted = 0
-----------------------------------------------------------------------------
(* Helpers of the handlers.                                                *)

\* now - _last_refresh after an error.  Mutant: the delay with the wrong sign.
CooldownSign == RefreshInterval + RetryDelay
Cooldown == RefreshInterval - RetryDelay

\* _refresh, with the ListNames request it sends.
Refresh ==
  IF closed \/ refreshing \/ sinceRefresh < RefreshInterval
  THEN UNCHANGED askVars
  ELSE \/ /\ refreshing' = TRUE /\ listing' = TRUE
          /\ changed' = {}
          /\ sinceRefresh' = 0 /\ waited' = 0
          /\ UNCHANGED asked
       \/ /\ CallsMayRaise
          /\ changed' = {}
          /\ sinceRefresh' = Cooldown
          /\ UNCHANGED <<refreshing, listing, asked, waited>>

\* _expire: the head of the deque is the oldest batch.
Fresh == {b \in pending : b.age < PendingTTL}

\* The loop of submit: the newest batches that leave room for one of k items.
\* Mutants: the limit is checked off by one; the whole queue is dropped.
FitsOffByOne(S, k) ==
  /\ Cardinality(S) <= MaxPendingBatches
  /\ pendingItems - Items(pending \ S) + k <= MaxPendingItems

Fits(S, k) ==
  /\ Cardinality(S) < MaxPendingBatches
  /\ pendingItems - Items(pending \ S) + k <= MaxPendingItems

EvictAll(S, k) == IF Fits(S, k) THEN S ELSE {}
Evict(S, k) ==
  LET cuts == {0} \cup {b.id : b \in S}
  IN  Younger(S, Least({i \in cuts : Younger(S, i) = {} \/ Fits(Younger(S, i), k)}))

\* Keep the batches of S, without the count of those that left the deque.
KeepOnly(S) ==
  /\ pending' = S
  /\ pendingItems' = pendingItems - Items(pending \ S)

AsDelivery(b, n) ==
  [id |-> b.id, owner |-> b.owner, iface |-> b.iface, changed |-> b.changed,
   service |-> n]

\* _replay: what waits for owner c and now has an eligible name.
\* Mutants: the sender is not compared; the names are read before the new one
\* is added.
ReadyForAnyone(c, names) == {b \in Fresh : SelectService(names, b.iface) # NoName}
ReadyTooEarly(c, names) ==
  {b \in Fresh : b.owner = c /\ SelectService(owners[c], b.iface) # NoName}
Ready(c, names) ==
  {b \in Fresh : b.owner = c /\ SelectService(names, b.iface) # NoName}

\* What _replay retains.  Mutant: the replayed batches stay queued.
RemainingAll(c, names) == Fresh
Remaining(c, names) == Fresh \ Ready(c, names)

\* The two dictionaries after _set_owner(n, c).  Mutant: the previous owner
\* keeps the name in owners.
ReassignKeepsOld(n, c) ==
  /\ services' = [services EXCEPT ![n] = c]
  /\ owners' = [x \in Conn |-> IF x = c THEN owners[x] \cup {n} ELSE owners[x]]

Reassign(n, c) ==
  /\ services' = [services EXCEPT ![n] = c]
  /\ owners' = [x \in Conn |->
       IF x = c THEN owners[x] \cup {n}
       ELSE IF x = services[n] THEN owners[x] \ {n} ELSE owners[x]]

\* Whether _set_owner(n, c) invalidates n.  Mutant: only a vanished owner does.
LostOnlyIfGone(n, c) == services[n] # NoConn /\ c = NoConn
Lost(n, c) == services[n] \notin {NoConn, c}

\* _set_owner(n, c) for an owner, with its replay, and for the empty one.
SetOwner(n, c) ==
  LET names == owners[c] \cup {n}
      service(b) == SelectService(names, b.iface)
      lost == IF Lost(n, c) THEN {n} ELSE {}
  IN  /\ Reassign(n, c)
      /\ IF c = NoConn
         THEN /\ calls' = [invalidate |-> lost, deliver |-> {}]
              /\ UNCHANGED queueVars
         ELSE /\ calls' = [invalidate |-> lost,
                           deliver |-> {AsDelivery(b, service(b)) : b \in Ready(c, names)}]
              /\ KeepOnly(Remaining(c, names))

\* _set_owner(name, "") for every name of gone.
Forget(gone) ==
  /\ services' = [n \in Name |-> IF n \in gone THEN NoConn ELSE services[n]]
  /\ owners' = [c \in Conn |-> owners[c] \ {n \in gone : services[n] = c}]
  /\ calls' = [invalidate |-> {n \in gone : services[n] # NoConn}, deliver |-> {}]

\* complete(): what is left of the requests once one is answered or failed,
\* and how long that has waited.  Mutant: nobody clears _refreshing.
SettleStuck(stillAsked, time) ==
  /\ listing' = FALSE
  /\ asked' = stillAsked
  /\ changed' = IF stillAsked = {} THEN {} ELSE changed
  /\ waited' = IF stillAsked = {} THEN 0 ELSE time
  /\ UNCHANGED refreshing
Settle(stillAsked, time) ==
  /\ listing' = FALSE
  /\ asked' = stillAsked
  /\ refreshing' = (refreshing /\ stillAsked # {})
  /\ changed' = IF stillAsked = {} THEN {} ELSE changed
  /\ waited' = IF stillAsked = {} THEN 0 ELSE time
-----------------------------------------------------------------------------
(* The owner of the listener.                                              *)

\* _install_filter -> start().
StartTracker ==
  /\ started' = (started \/ ~closed)
  /\ IF started \/ closed THEN UNCHANGED askVars ELSE Refresh

MaySubscribe == SubscribeLate \/ emitted = 0

SubscribeGlobal ==
  /\ SelectGlobal /\ MaySubscribe
  /\ RecordGlobal
  /\ StartTracker
  /\ calls' = Quiet
  /\ UNCHANGED <<ownerVars, queueVars, closed, envVars>>

Subscribe(k) ==
  /\ MaySubscribe
  /\ RecordKey(k)
  /\ IF \E j \in subs : j[1] = k[1] /\ j[2] = k[2]
     THEN UNCHANGED <<started, askVars>>
     ELSE StartTracker
  /\ calls' = Quiet
  /\ UNCHANGED <<ownerVars, queueVars, closed, envVars>>

\* _remove_subscriptions -> stop(), once the loop has returned.
Stop ==
  /\ ~closed
  /\ ForgetSubscriptions
  /\ closed' = TRUE
  /\ started' = FALSE
  /\ services' = [n \in Name |-> NoConn]
  /\ owners' = [c \in Conn |-> {}]
  /\ pending' = {} /\ pendingItems' = 0
  /\ listing' = FALSE /\ asked' = {} /\ changed' = {} /\ waited' = 0
  /\ calls' = Quiet
  /\ UNCHANGED <<refreshing, sinceRefresh, envVars>>
-----------------------------------------------------------------------------
(* Handlers on the GLib thread.                                            *)

\* _tick, once a second.  Mutant: it leaves the expiry to later traffic.
TickWithoutExpiry ==
  /\ started
  /\ IF pending # {} THEN Refresh ELSE UNCHANGED askVars
  /\ calls' = Quiet
  /\ UNCHANGED <<subscriptionVars, ownerVars, queueVars, started, closed, envVars>>
Tick ==
  /\ started
  /\ KeepOnly(Fresh)
  /\ IF Fresh # {} THEN Refresh ELSE UNCHANGED askVars
  /\ calls' = Quiet
  /\ UNCHANGED <<subscriptionVars, ownerVars, started, closed, envVars>>

\* submit() for a batch of a sender without an eligible name.
Enqueue(b) ==
  LET kept == Evict(Fresh, Size(b))
  IN  IF Size(b) > MaxPendingItems
      THEN KeepOnly(Fresh) /\ UNCHANGED askVars
      ELSE /\ pending' = kept \cup
                {[id |-> b.id, owner |-> b.owner, iface |-> b.iface,
                  changed |-> b.changed, age |-> 0]}
           /\ pendingItems' = pendingItems - Items(pending \ kept) + Size(b)
           /\ Refresh

\* _message_filter -> submit().
OnItems(b) ==
  LET n == SelectService(owners[b.owner], b.iface)
  IN  /\ IF closed \/ ~filterOn \/ ~Listens(b.iface) \/ DOMAIN b.changed = {}
         THEN calls' = Quiet /\ UNCHANGED <<queueVars, askVars>>
         ELSE IF n # NoName
         THEN /\ calls' = [invalidate |-> {}, deliver |-> {AsDelivery(b, n)}]
              /\ UNCHANGED <<queueVars, askVars>>
         ELSE calls' = Quiet /\ Enqueue(b)
      /\ UNCHANGED ownerVars

\* _name_owner_changed.  Mutants: a lookup under way is trusted for the names
\* that changed already; a stopped tracker still listens.
OnChangedOnce(n, c) ==
  IF closed \/ n \in changed
  THEN calls' = Quiet /\ UNCHANGED <<ownerVars, queueVars, askVars>>
  ELSE /\ SetOwner(n, c)
       /\ changed' = IF refreshing THEN changed \cup {n} ELSE changed
       /\ UNCHANGED <<refreshing, listing, asked, sinceRefresh, waited>>
OnChangedClosed(n, c) ==
  /\ SetOwner(n, c)
  /\ changed' = IF refreshing THEN changed \cup {n} ELSE changed
  /\ UNCHANGED <<refreshing, listing, asked, sinceRefresh, waited>>
OnChanged(n, c) ==
  IF closed
  THEN calls' = Quiet /\ UNCHANGED <<ownerVars, queueVars, askVars>>
  ELSE /\ SetOwner(n, c)
       /\ changed' = IF refreshing THEN changed \cup {n} ELSE changed
       /\ UNCHANGED <<refreshing, listing, asked, sinceRefresh, waited>>

\* The GetNameOwner calls of _listed_names, in the order of the names: they
\* are all sent, or the connection fails under them and the rest raise.
AskFor(names) ==
  \E sent \in {names} \cup
       IF CallsMayRaise THEN {{m \in names : m < n} : n \in names} ELSE {} :
    /\ Settle(sent, 0)
    /\ sinceRefresh' = IF sent = names THEN sinceRefresh ELSE Cooldown

\* _listed_names.
OnListed(present) ==
  /\ Forget(Name \ (present \cup changed))
  /\ AskFor(present \ changed)
  /\ UNCHANGED queueVars

\* _found_owner: a lifecycle signal since ListNames takes precedence.
\* Mutant: the reply always counts.
OnFoundAlways(n, c) ==
  /\ SetOwner(n, c)
  /\ Settle(asked \ {n}, waited)
  /\ UNCHANGED sinceRefresh
OnFound(n, c) ==
  /\ IF n \in changed
     THEN calls' = Quiet /\ UNCHANGED <<ownerVars, queueVars>>
     ELSE SetOwner(n, c)
  /\ Settle(asked \ {n}, waited)
  /\ UNCHANGED sinceRefresh

\* complete(error=...) for ListNames (names = {}) or one GetNameOwner.
OnFailed(names) ==
  /\ Settle(asked \ names, waited)
  /\ sinceRefresh' = Cooldown
  /\ calls' = Quiet
  /\ UNCHANGED <<ownerVars, queueVars>>

\* A reply whose request was cancelled by stop() finds _closed set.
IgnoreReply ==
  /\ calls' = Quiet
  /\ UNCHANGED <<ownerVars, queueVars, askVars>>

IsReply(m) == m.kind \in {"listed", "found", "failed"}

\* Dispatch order: the wire's own, or signals in order and replies anywhere.
MayReceive(i) ==
  \/ i = 1
  \/ /\ ~RepliesInOrder
     /\ IsReply(wire[i]) \/ \A j \in 1..(i - 1) : IsReply(wire[j])

Without(i) == SubSeq(wire, 1, i - 1) \o SubSeq(wire, i + 1, Len(wire))

Receive(i) ==
  LET m == wire[i]
  IN  /\ MayReceive(i)
      /\ \/ m.kind = "items" /\ OnItems(m.batch)
         \/ m.kind = "changed" /\ OnChanged(m.name, m.new)
         \/ IsReply(m) /\ closed /\ IgnoreReply
         \/ m.kind = "listed" /\ ~closed /\ OnListed(m.names)
         \/ m.kind = "found" /\ ~closed /\ OnFound(m.name, m.owner)
         \/ m.kind = "failed" /\ ~closed /\ OnFailed(m.names)
      /\ wire' = Without(i)
      /\ UNCHANGED <<subscriptionVars, started, closed, bus, emitted>>
-----------------------------------------------------------------------------
(* The daemon, the Venus services and the clock.                           *)

\* The messages of the wire that answer the outstanding request for names.
AnswersTo(names) ==
  {i \in 1..Len(wire) :
     \/ names = {} /\ wire[i].kind = "listed"
     \/ wire[i].kind = "found" /\ names = {wire[i].name}
     \/ wire[i].kind = "failed" /\ wire[i].names = names}

\* Outstanding requests, ListNames as the empty set of names.
Outstanding == (IF listing THEN {{}} ELSE {}) \cup {{n} : n \in asked}

\* A name is requested, released, replaced, or lost with its connection.
Rename(n, c) ==
  /\ bus[n] # c
  /\ Len(wire) < MaxWire
  /\ bus' = [bus EXCEPT ![n] = c]
  /\ wire' = IF started
             THEN Append(wire, [kind |-> "changed", name |-> n, old |-> bus[n], new |-> c])
             ELSE wire
  /\ calls' = Quiet
  /\ UNCHANGED <<subscriptionVars, ownerVars, queueVars, askVars, started, closed, emitted>>

\* A service emits ItemsChanged; the daemon routes it by the match rules.
Emit(c, i, content) ==
  /\ emitted < MaxBatches
  /\ Len(wire) < MaxWire
  /\ Routes({n \in Name : bus[n] = c}, i)
  /\ emitted' = emitted + 1
  /\ wire' = Append(wire, [kind |-> "items", batch |->
               [id |-> emitted + 1, owner |-> c, iface |-> i, changed |-> content]])
  /\ calls' = Quiet
  /\ UNCHANGED <<subscriptionVars, ownerVars, queueVars, askVars, started, closed, bus>>

\* The daemon's answer: GetNameOwner of a free name is NameHasNoOwner.
Reply(names) ==
  IF names = {}
  THEN [kind |-> "listed", names |-> {n \in Name : bus[n] # NoConn}]
  ELSE LET n == Least(names)
       IN  IF bus[n] = NoConn THEN [kind |-> "failed", names |-> names]
           ELSE [kind |-> "found", name |-> n, owner |-> bus[n]]

Answer(names) ==
  /\ names \in Outstanding /\ AnswersTo(names) = {}
  /\ wire' = Append(wire, Reply(names))
  /\ calls' = Quiet
  /\ UNCHANGED <<subscriptionVars, ownerVars, queueVars, askVars, started, closed, bus, emitted>>

\* libdbus gives up on a request after CallTimeout and drops its late reply.
Timeout(names) ==
  /\ names \in Outstanding /\ waited = CallTimeout
  /\ OnFailed(names)
  /\ wire' = LET late == AnswersTo(names)
             IN  IF late = {} THEN wire ELSE Without(CHOOSE i \in late : TRUE)
  /\ UNCHANGED <<subscriptionVars, started, closed, bus, emitted>>

Capped(t, top) == IF t < top THEN t + 1 ELSE top

\* The clock; it cannot pass the expiry of an outstanding request's timer.
Advance ==
  /\ Outstanding # {} => waited < CallTimeout
  /\ pending' = {[b EXCEPT !.age = Capped(@, PendingTTL)] : b \in pending}
  /\ sinceRefresh' = Capped(sinceRefresh, RefreshInterval)
  /\ waited' = IF Outstanding = {} THEN waited ELSE waited + 1
  /\ calls' = Quiet
  /\ UNCHANGED <<subscriptionVars, ownerVars, pendingItems, started, closed,
                 refreshing, changed, listing, asked, envVars>>
-----------------------------------------------------------------------------
Listener ==
  \/ SubscribeGlobal
  \/ \E k \in SelectKeys : Subscribe(k)
  \/ Stop

Handlers ==
  \/ Tick
  \/ \E i \in 1..Len(wire) : Receive(i)
  \/ \E names \in Outstanding : Timeout(names)

Environment ==
  \/ \E n \in Name, c \in Owner : Rename(n, c)
  \/ \E c \in Conn, i \in Iface, content \in Contents : Emit(c, i, content)
  \/ \E names \in Outstanding : Answer(names)
  \/ Advance

Next == Listener \/ Handlers \/ Environment

Spec == Init /\ [][Next]_vars

\* GLib dispatches what has arrived and runs its timers, and time passes.
Fairness ==
  /\ WF_vars(Tick)
  /\ WF_vars(\E i \in 1..Len(wire) : Receive(i))
  /\ WF_vars(\E names \in Outstanding : Timeout(names))
  /\ WF_vars(Advance)

FairSpec == Spec /\ Fairness
-----------------------------------------------------------------------------
(* Properties.                                                             *)

\* The type of pendingItems is part of QueueAccounted.
OwnersTypeOK ==
  /\ services \in [Name -> Owner]
  /\ owners \in [Conn -> SUBSET Name]
QueueTypeOK == pending \subseteq Queued
RequestsTypeOK ==
  /\ refreshing \in BOOLEAN /\ listing \in BOOLEAN
  /\ changed \subseteq Name /\ asked \subseteq Name
  /\ sinceRefresh \in 0..RefreshInterval
  /\ waited \in 0..CallTimeout
CallsTypeOK == calls \in [invalidate : SUBSET Name, deliver : SUBSET Delivery]
EnvironmentTypeOK ==
  /\ bus \in [Name -> Owner]
  /\ wire \in Seq(Message)
  /\ emitted \in Nat

TypeOK ==
  /\ SubscriptionsTypeOK /\ OwnersTypeOK /\ QueueTypeOK /\ RequestsTypeOK
  /\ CallsTypeOK /\ EnvironmentTypeOK
  /\ started \in BOOLEAN /\ closed \in BOOLEAN

\* services and owners are two dictionaries maintained by hand: owners[c] is
\* read with [] and must hold exactly the names that services gives to c.
InverseMaps == \A c \in Conn : owners[c] = {n \in Name : services[n] = c}

\* pending_items is maintained by increments in four places; it is what the
\* deque holds, and the deque stays within both of its limits.
QueueAccounted ==
  /\ pendingItems = Items(pending)
  /\ pendingItems <= MaxPendingItems
  /\ Cardinality(pending) <= MaxPendingBatches

\* _refreshing blocks every later refresh, so it must hold exactly while a
\* reply can still clear it; _changed is collected only meanwhile.
NeverStuckRefreshing ==
  /\ ~closed => (refreshing <=> Outstanding # {})
  /\ changed # {} => Outstanding # {}

\* With the subscriptions made before the first batch, no batch waits for a
\* sender that already has an eligible name: whatever resolves it replays it.
NothingWaitsForAKnownName ==
  \A b \in pending : SelectService(owners[b.owner], b.iface) = NoName

\* The holder of n when the message at the head of the wire was sent.
HolderAtHead(n) ==
  LET news == {i \in 1..Len(wire) : wire[i].kind = "changed" /\ wire[i].name = n}
  IN  IF news = {} THEN bus[n] ELSE wire[Least(news)].old

\* Whatever the interleaving of name changes, lookups, failures and retries,
\* a name the tracker attributes to a connection was held by it when the
\* daemon sent what the tracker has read so far.
BelievedIsTrue ==
  \A n \in Name : services[n] # NoConn => services[n] = HolderAtHead(n)

\* When replies may overtake signals or trail them, a name without an unread
\* change is unknown or attributed to its holder: a late GetNameOwner or
\* ListNames reply never overrides a newer lifecycle signal.
SettledBelief ==
  \A n \in Name :
    (\A i \in 1..Len(wire) : wire[i].kind = "changed" => wire[i].name # n)
      => services[n] \in {NoConn, bus[n]}

\* A batch is published under a name of its own sender.
DeliveredUnderOwnName == \A d \in calls.deliver : services[d.service] = d.owner

InWire == {wire[i].batch.id : i \in {j \in 1..Len(wire) : wire[j].kind = "items"}}
InQueue == {b.id : b \in pending}
Delivered(cs) == {d.id : d \in cs.deliver}

\* Batches are never duplicated, and the queue stays in arrival order.
OnePlaceEach ==
  /\ \A b, d \in pending : b.id < d.id => b.age >= d.age
  /\ \A b, d \in pending : b.id = d.id => b = d
  /\ Delivered(calls) \cap InQueue = {}
  /\ \A i \in InWire : \A j \in InQueue \cup Delivered(calls) : j < i

\* A stopped tracker holds nothing, asks nothing and publishes nothing,
\* whatever is still dispatched to it.
StoppedIsInert ==
  closed =>
    /\ \A n \in Name : services[n] = NoConn
    /\ pending = {} /\ Outstanding = {} /\ calls = Quiet

\* A name that changes hands is invalidated in the same step, and only then.
InvalidatedWhenLost ==
  [][~closed' =>
       calls'.invalidate =
         {n \in Name : services[n] # NoConn /\ services'[n] # services[n]}]_vars

\* A batch leaves the queue by being published while fresh, by expiring, or when
\* it and all the younger ones do not fit beside the new batch.
LeavesForAReason ==
  [][\A b \in pending :
       b.id \notin {d.id : d \in pending'} =>
         LET rest == {b} \cup Younger(pending, b.id)
         IN  \/ b.id \in Delivered(calls') /\ b.age < PendingTTL
             \/ b.id \notin Delivered(calls') /\ b.age = PendingTTL
             \/ closed'
             \/ \E new \in pending' \ pending :
                  \/ Cardinality(rest) >= MaxPendingBatches
                  \/ Items(rest) + Size(new) > MaxPendingItems]_vars

\* Every batch that waits is published or dropped in the end, whether the
\* daemon answers or not, and even if no other signal ever arrives.
QueueDrains == \A i \in 1..MaxBatches : (i \in InQueue) ~> (i \notin InQueue)

\* A refresh always ends, so the next unknown sender can start another one.
RefreshEnds == refreshing ~> (~refreshing \/ closed)

\* What the comment in complete() says of the retry after an error: the batches
\* that are queued when a refresh ends in one are fresh when it is repeated.
RetriedWhileFresh ==
  [][Outstanding # {} /\ Outstanding' = {} /\ sinceRefresh' = Cooldown /\ ~closed' =>
       \A b \in pending' : b.age + RetryDelay <= PendingTTL]_vars
=============================================================================
