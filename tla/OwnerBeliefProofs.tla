------------------------- MODULE OwnerBeliefProofs -------------------------
(* What the owner tracker believes, asks and keeps, for every value of the *)
(* constants of OwnerTracker.                                              *)
EXTENDS OwnerTrackerProofs

(* Requests and their answers.                                             *)

\* The request that a reply answers, ListNames as the empty set of names.
Answered(m) == CASE m.kind = "listed" -> {}
                 [] m.kind = "found" -> {m.name}
                 [] OTHER -> m.names

\* Until stop(), a reply on its way answers an outstanding request, which no
\* other reply answers; and ListNames is outstanding alone.
AnswersAwaited ==
  /\ \A i \in 1..Len(wire) : IsReply(wire[i]) => Answered(wire[i]) \in Outstanding
  /\ \A i, j \in 1..Len(wire) :
       IsReply(wire[i]) /\ IsReply(wire[j]) /\ Answered(wire[i]) = Answered(wire[j]) => i = j
RequestsInv == NeverStuckRefreshing /\ (listing => asked = {}) /\ (~closed => AnswersAwaited)

\* Before the first subscription nothing has happened; after stop() nothing does.
Untouched ==
  ~started /\ ~closed =>
    /\ wire = <<>> /\ Outstanding = {} /\ pending = {}
    /\ ~globalSub /\ subs = {}
    /\ \A n \in Name : services[n] = NoConn
LifeInv == StoppedIsInert /\ (closed => ~started) /\ Untouched

(* Names whose holder changes.                                             *)

Change(i, n) == wire[i].kind = "changed" /\ wire[i].name = n

\* The last change on the wire leads to the daemon's owner, and an answer that
\* still counts agrees with it.
LastIsCurrent ==
  started => \A i \in 1..Len(wire) :
    /\ wire[i].kind = "changed"
    /\ \A j \in (i + 1)..Len(wire) : ~Change(j, wire[i].name)
    => wire[i].new = bus[wire[i].name]
FoundIsCurrent ==
  started => \A i \in 1..Len(wire) :
    wire[i].kind = "found" =>
      \/ wire[i].name \in changed
      \/ wire[i].owner = bus[wire[i].name]
      \/ \E j \in 1..Len(wire) : Change(j, wire[i].name)
BeliefInv == RequestsInv /\ LifeInv /\ LastIsCurrent /\ FoundIsCurrent /\ SettledBelief

\* Of a wire w, and the owners h that the daemon has: c held n when the message
\* at place i was sent.
IsChange(m, n) == m.kind = "changed" /\ m.name = n
HeldAt(w, h, i, n, c) ==
  \/ c = h[n] /\ \A j \in i..Len(w) : ~IsChange(w[j], n)
  \/ \E k \in i..Len(w) :
       IsChange(w[k], n) /\ w[k].old = c /\ \A j \in i..(k - 1) : ~IsChange(w[j], n)

\* Every message tells what was true when it was sent.
Truthful(w, h) ==
  \A i \in 1..Len(w) :
    /\ w[i].kind = "found" => HeldAt(w, h, i + 1, w[i].name, w[i].owner)
    /\ w[i].kind = "changed" => HeldAt(w, h, i + 1, w[i].name, w[i].new)
OrderedInv ==
  /\ RequestsInv /\ LifeInv
  /\ started => Truthful(wire, bus)
  /\ \A n \in Name : services[n] # NoConn => HeldAt(wire, bus, 1, n, services[n])

(* Batches.                                                                *)

\* Of a queue P, the deliveries D of the last step and a wire w: the queue is in
\* the order of arrival, nothing is in two places, and what is on the wire comes
\* later than all the rest, in the order of the numbers.
Placed(P, D, w) ==
  /\ \A b, d \in P : (b.id < d.id => b.age >= d.age) /\ (b.id = d.id => b = d)
  /\ \A b \in P : \A d \in D : b.id # d.id
  /\ \A i \in 1..Len(w) : w[i].kind = "items" => \A x \in P \cup D : x.id < w[i].batch.id
  /\ \A i, j \in 1..Len(w) :
       i < j /\ w[i].kind = "items" /\ w[j].kind = "items" => w[i].batch.id < w[j].batch.id
PlacesInv == Placed(pending, calls.deliver, wire)
-----------------------------------------------------------------------------
(* The wire: a message is appended, or one is taken out.                   *)

\* Where the place j of the rest was before i was taken out, and back.
Up(i, j) == IF j < i THEN j ELSE j + 1
Down(i, k) == IF k < i THEN k ELSE k - 1

LEMMA Removed ==
  ASSUME wire \in Seq(Message), NEW i \in 1..Len(wire), wire' = Without(i)
  PROVE  /\ Len(wire) \in Nat \ {0} /\ Len(wire') = Len(wire) - 1
         /\ \A j \in 1..Len(wire') :
              /\ Up(i, j) \in 1..Len(wire) /\ Up(i, j) # i /\ wire'[j] = wire[Up(i, j)]
              /\ Down(i, Up(i, j)) = j
         /\ \A k \in 1..Len(wire) : k # i =>
              /\ Down(i, k) \in 1..Len(wire') /\ Up(i, Down(i, k)) = k
              /\ wire'[Down(i, k)] = wire[k]
<1>1. Len(wire) \in Nat \ {0}
  <2>1. Len(wire) \in Nat
    BY LenProperties
  <2> QED
    BY <2>1
<1>2. /\ Len(wire') = Len(wire) - 1
      /\ \A j \in 1..(Len(wire) - 1) : wire'[j] = IF j < i THEN wire[j] ELSE wire[j + 1]
  BY WithoutTyped
<1>3. ASSUME NEW j \in 1..Len(wire')
      PROVE  /\ Up(i, j) \in 1..Len(wire) /\ Up(i, j) # i /\ wire'[j] = wire[Up(i, j)]
             /\ Down(i, Up(i, j)) = j
  <2>1. j \in 1..(Len(wire) - 1)
    BY <1>2
  <2>2. wire'[j] = IF j < i THEN wire[j] ELSE wire[j + 1]
    BY <1>2, <2>1
  <2> QED
    BY <1>1, <2>1, <2>2 DEF Up, Down
<1>4. ASSUME NEW k \in 1..Len(wire), k # i
      PROVE  Down(i, k) \in 1..Len(wire') /\ Up(i, Down(i, k)) = k
  BY <1>1, <1>2, <1>4 DEF Up, Down
<1>5. ASSUME NEW k \in 1..Len(wire), k # i
      PROVE  wire'[Down(i, k)] = wire[k]
  BY <1>3, <1>4, <1>5
<1> QED
  BY <1>1, <1>2, <1>3, <1>4, <1>5

LEMMA Appended ==
  ASSUME wire \in Seq(Message), NEW m \in Message, wire' = Append(wire, m)
  PROVE  /\ Len(wire) \in Nat /\ Len(wire') = Len(wire) + 1
         /\ \A j \in 1..Len(wire) : j \in 1..Len(wire') /\ wire'[j] = wire[j]
         /\ Len(wire') \in 1..Len(wire') /\ wire'[Len(wire')] = m
         /\ \A j \in 1..Len(wire') : j \in 1..Len(wire) \/ j = Len(wire')
<1>1. Len(wire) \in Nat
  BY LenProperties
<1>2. Len(wire') = Len(wire) + 1 /\ wire'[Len(wire) + 1] = m
      /\ \A j \in 1..Len(wire) : wire'[j] = wire[j]
  BY AppendProperties
<1> QED
  BY <1>1, <1>2

LEMMA WireMessages == TypeOK => \A i \in 1..Len(wire) : wire[i] \in Message
BY ElementOfSeq DEF TypeOK, EnvironmentTypeOK

LEMMA MessageKinds ==
  ASSUME NEW m \in Message
  PROVE  /\ m.kind = "items" => ~IsReply(m) /\ m.batch \in Batch
         /\ m.kind = "changed" =>
              ~IsReply(m) /\ m.name \in Name /\ m.old \in Owner /\ m.new \in Owner
         /\ m.kind = "listed" => IsReply(m) /\ m.names \in SUBSET Name
         /\ m.kind = "found" => IsReply(m) /\ m.name \in Name /\ m.owner \in Owner
         /\ m.kind = "failed" => IsReply(m) /\ m.names \in SUBSET Name
         /\ m.kind \in {"items", "changed", "listed", "found", "failed"}
BY DEF Message, IsReply
-----------------------------------------------------------------------------
(* The requests.                                                           *)

LEMMA AnswersStay ==
  ASSUME TypeOK, AnswersAwaited, Outstanding \subseteq Outstanding',
         wire' = wire \/ \E i \in 1..Len(wire) : wire' = Without(i)
  PROVE  AnswersAwaited'
<1>1. CASE wire' = wire
  BY <1>1 DEF AnswersAwaited
<1>2. ASSUME NEW i \in 1..Len(wire), wire' = Without(i) PROVE AnswersAwaited'
  <2>1. \A j \in 1..Len(wire') :
          /\ Up(i, j) \in 1..Len(wire) /\ Up(i, j) # i /\ wire'[j] = wire[Up(i, j)]
          /\ Down(i, Up(i, j)) = j
    BY <1>2, Removed DEF TypeOK, EnvironmentTypeOK
  <2> QED
    BY <2>1 DEF AnswersAwaited
<1> QED
  BY <1>1, <1>2

\* The answer to one request is taken, or there was none.
LEMMA AnswerTaken ==
  ASSUME TypeOK, AnswersAwaited, NEW gone, Outstanding \ {gone} \subseteq Outstanding',
         \/ wire' = wire /\ \A i \in 1..Len(wire) : IsReply(wire[i]) => Answered(wire[i]) # gone
         \/ \E i \in 1..Len(wire) :
              IsReply(wire[i]) /\ Answered(wire[i]) = gone /\ wire' = Without(i)
  PROVE  AnswersAwaited'
<1>1. CASE wire' = wire /\ \A i \in 1..Len(wire) : IsReply(wire[i]) => Answered(wire[i]) # gone
  BY <1>1 DEF AnswersAwaited
<1>2. ASSUME NEW i \in 1..Len(wire), IsReply(wire[i]), Answered(wire[i]) = gone,
             wire' = Without(i)
      PROVE  AnswersAwaited'
  <2>1. \A j \in 1..Len(wire') :
          /\ Up(i, j) \in 1..Len(wire) /\ Up(i, j) # i /\ wire'[j] = wire[Up(i, j)]
          /\ Down(i, Up(i, j)) = j
    BY <1>2, Removed DEF TypeOK, EnvironmentTypeOK
  <2>2. \A k \in 1..Len(wire) :
          k # i /\ IsReply(wire[k]) => Answered(wire[k]) \in Outstanding'
    BY <1>2 DEF AnswersAwaited
  <2>3. ASSUME NEW j \in 1..Len(wire'), IsReply(wire'[j])
        PROVE  Answered(wire'[j]) \in Outstanding'
    <3>1. PICK k \in 1..Len(wire) : k # i /\ wire'[j] = wire[k]
      BY <2>1
    <3> QED
      BY <2>2, <2>3, <3>1
  <2>4. ASSUME NEW j \in 1..Len(wire'), NEW k \in 1..Len(wire'),
               IsReply(wire'[j]), IsReply(wire'[k]), Answered(wire'[j]) = Answered(wire'[k])
        PROVE  j = k
    <3>1. /\ Up(i, j) \in 1..Len(wire) /\ wire'[j] = wire[Up(i, j)]
          /\ Up(i, k) \in 1..Len(wire) /\ wire'[k] = wire[Up(i, k)]
      BY <2>1
    <3>2. Up(i, j) = Up(i, k)
      BY <2>4, <3>1 DEF AnswersAwaited
    <3> QED
      BY <2>1, <3>2
  <2> QED
    BY <2>3, <2>4 DEF AnswersAwaited
<1> QED
  BY <1>1, <1>2

LEMMA NothingOutstanding == Outstanding = {} => ~listing /\ asked = {}
<1>1. \A n \in asked : {n} \in Outstanding
  BY DEF Outstanding
<1>2. listing => {} \in Outstanding
  BY DEF Outstanding
<1> QED
  BY <1>1, <1>2

LEMMA RefreshRequests ==
  ASSUME TypeOK, RequestsInv, Refresh, closed' = closed
  PROVE  NeverStuckRefreshing' /\ (listing' => asked' = {}) /\ Outstanding \subseteq Outstanding'
<1>1. CASE UNCHANGED askVars
  <2>1. Outstanding' = Outstanding
    BY <1>1 DEF askVars, Outstanding
  <2> QED
    BY <1>1, <2>1 DEF askVars, RequestsInv, NeverStuckRefreshing
<1>2. CASE ~closed /\ ~refreshing /\ refreshing' = TRUE /\ listing' = TRUE /\ changed' = {}
           /\ UNCHANGED asked
  <2>1. Outstanding = {} /\ {} \in Outstanding'
    BY <1>2 DEF RequestsInv, NeverStuckRefreshing, Outstanding
  <2>2. asked = {}
    BY <2>1, NothingOutstanding
  <2> QED
    BY <1>2, <2>1, <2>2 DEF NeverStuckRefreshing
<1>3. CASE changed' = {} /\ UNCHANGED <<refreshing, listing, asked>>
  <2>1. Outstanding' = Outstanding
    BY <1>3 DEF Outstanding
  <2> QED
    BY <1>3, <2>1 DEF RequestsInv, NeverStuckRefreshing
<1> QED
  BY <1>1, <1>2, <1>3 DEF Refresh

LEMMA SettleRequests ==
  ASSUME TypeOK, RequestsInv, ~closed, closed' = closed, NEW names \in Outstanding,
         NEW time, Settle(asked \ names, time)
  PROVE  NeverStuckRefreshing' /\ ~listing' /\ Outstanding \ {names} \subseteq Outstanding'
<1>1. refreshing
  BY DEF RequestsInv, NeverStuckRefreshing
<1>2. Outstanding' = {{n} : n \in asked \ names}
  BY DEF Settle, Outstanding
<1>3. NeverStuckRefreshing'
  BY <1>1, <1>2 DEF Settle, NeverStuckRefreshing
<1>4. Outstanding \ {names} \subseteq Outstanding'
  BY <1>2 DEF Outstanding, RequestsInv
<1> QED
  BY <1>3, <1>4 DEF Settle

LEMMA ListedRequests ==
  ASSUME TypeOK, RequestsInv, ~closed, closed' = closed, {} \in Outstanding,
         NEW sent, Settle(sent, 0)
  PROVE  NeverStuckRefreshing' /\ ~listing' /\ Outstanding \ {{}} \subseteq Outstanding'
<1>1. refreshing /\ asked = {}
  BY DEF RequestsInv, NeverStuckRefreshing, Outstanding
<1>2. Outstanding' = {{n} : n \in sent}
  BY DEF Settle, Outstanding
<1>3. Outstanding \subseteq {{}}
  BY <1>1 DEF Outstanding
<1> QED
  BY <1>1, <1>2, <1>3 DEF Settle, NeverStuckRefreshing

LEMMA RefreshAnswers ==
  ASSUME TypeOK, RequestsInv, Refresh \/ UNCHANGED askVars, closed' = closed,
         wire' = wire \/ \E i \in 1..Len(wire) : wire' = Without(i)
  PROVE  RequestsInv'
<1>1. NeverStuckRefreshing' /\ (listing' => asked' = {}) /\ Outstanding \subseteq Outstanding'
  <2>1. CASE UNCHANGED askVars
    <3>1. Outstanding' = Outstanding
      BY <2>1 DEF askVars, Outstanding
    <3> QED
      BY <2>1, <3>1 DEF askVars, RequestsInv, NeverStuckRefreshing
  <2> QED
    BY <2>1, RefreshRequests
<1>2. ~closed => AnswersAwaited'
  BY <1>1, AnswersStay DEF RequestsInv
<1> QED
  BY <1>1, <1>2 DEF RequestsInv

\* A message is dispatched.
LEMMA ReceiveRequests ==
  ASSUME TypeOK, RequestsInv, NEW i \in 1..Len(wire), Receive(i)
  PROVE  RequestsInv'
<1> DEFINE m == wire[i]
<1>0. /\ m \in Message /\ closed' = closed /\ wire' = Without(i)
  BY WireMessages DEF Receive
<1>1. CASE m.kind = "items" /\ OnItems(m.batch)
  <2>1. Refresh \/ UNCHANGED askVars
    BY <1>1 DEF OnItems, Enqueue
  <2> QED
    BY <1>0, <2>1, RefreshAnswers
<1>2. CASE IsReply(m) /\ closed /\ IgnoreReply
  BY <1>0, <1>2, RefreshAnswers DEF IgnoreReply
<1>3. CASE m.kind = "changed" /\ OnChanged(m.name, m.new)
  <2>1. CASE UNCHANGED askVars
    BY <1>0, <2>1, RefreshAnswers
  <2>2. CASE ~closed /\ changed' = (IF refreshing THEN changed \cup {m.name} ELSE changed)
             /\ UNCHANGED <<refreshing, listing, asked>>
    <3>1. Outstanding' = Outstanding
      BY <2>2 DEF Outstanding
    <3>2. AnswersAwaited'
      BY <1>0, <2>2, <3>1, AnswersStay DEF RequestsInv
    <3> QED
      BY <1>0, <2>2, <3>1, <3>2 DEF RequestsInv, NeverStuckRefreshing
  <2> QED
    BY <1>3, <2>1, <2>2 DEF OnChanged
<1>4. ASSUME ~closed, IsReply(m),
             \/ m.kind = "listed" /\ OnListed(m.names)
             \/ m.kind = "found" /\ OnFound(m.name, m.owner)
             \/ m.kind = "failed" /\ OnFailed(m.names)
      PROVE  RequestsInv'
  <2>1. Answered(m) \in Outstanding
    BY <1>4 DEF RequestsInv, AnswersAwaited
  <2>2. NeverStuckRefreshing' /\ ~listing' /\ Outstanding \ {Answered(m)} \subseteq Outstanding'
    <3>1. CASE m.kind = "listed" /\ OnListed(m.names)
      <4>1. Answered(m) = {}
        BY <3>1 DEF Answered
      <4>2. PICK sent : Settle(sent, 0)
        BY <3>1, Zenon DEF OnListed, AskFor
      <4> QED
        BY <1>0, <1>4, <2>1, <4>1, <4>2, ListedRequests
    <3>2. CASE m.kind = "found" /\ OnFound(m.name, m.owner)
      <4>1. Answered(m) = {m.name} /\ Settle(asked \ {m.name}, waited)
        BY <3>2 DEF Answered, OnFound
      <4> QED
        BY <1>0, <1>4, <2>1, <4>1, SettleRequests
    <3>3. CASE m.kind = "failed" /\ OnFailed(m.names)
      <4>1. Answered(m) = m.names /\ Settle(asked \ m.names, waited)
        BY <3>3 DEF Answered, OnFailed
      <4> QED
        BY <1>0, <1>4, <2>1, <4>1, SettleRequests
    <3> QED
      BY <1>4, <3>1, <3>2, <3>3
  <2>3. AnswersAwaited'
    BY <1>0, <1>4, <2>2, AnswerTaken DEF RequestsInv
  <2> QED
    BY <2>2, <2>3 DEF RequestsInv
<1> QED
  BY <1>0, <1>1, <1>2, <1>3, <1>4, MessageKinds DEF Receive

LEMMA AnswersToAnswered ==
  ASSUME TypeOK, NEW names \in Outstanding, NEW i \in 1..Len(wire)
  PROVE  i \in AnswersTo(names) <=> IsReply(wire[i]) /\ Answered(wire[i]) = names
<1>1. wire[i] \in Message
  BY WireMessages
<1> QED
  BY <1>1, MessageKinds DEF AnswersTo, Answered, IsReply

\* What a timeout does to the wire.
LEMMA LateAnswer ==
  ASSUME TypeOK, NEW names \in Outstanding, Timeout(names)
  PROVE  \/ /\ wire' = wire
            /\ \A i \in 1..Len(wire) : IsReply(wire[i]) => Answered(wire[i]) # names
         \/ \E i \in 1..Len(wire) :
              IsReply(wire[i]) /\ Answered(wire[i]) = names /\ wire' = Without(i)
<1> DEFINE late == AnswersTo(names)
<1>1. late \subseteq 1..Len(wire)
  BY DEF AnswersTo
<1>2. CASE late = {}
  BY <1>2, AnswersToAnswered DEF Timeout
<1>3. CASE late # {}
  <2> DEFINE i == CHOOSE i \in late : TRUE
  <2>1. i \in late /\ wire' = Without(i)
    BY <1>3 DEF Timeout
  <2> HIDE DEF i
  <2> QED
    BY <1>1, <2>1, AnswersToAnswered
<1> QED
  BY <1>2, <1>3

LEMMA TimeoutRequests ==
  ASSUME TypeOK, RequestsInv, ~closed, NEW names \in Outstanding, Timeout(names)
  PROVE  RequestsInv'
<1>1. closed' = closed /\ Settle(asked \ names, waited)
  BY DEF Timeout, OnFailed
<1>2. NeverStuckRefreshing' /\ ~listing' /\ Outstanding \ {names} \subseteq Outstanding'
  BY <1>1, SettleRequests
<1>3. AnswersAwaited'
  BY <1>2, LateAnswer, AnswerTaken DEF RequestsInv
<1> QED
  BY <1>2, <1>3 DEF RequestsInv

\* A message that answers nothing, or the first answer to a request.
LEMMA AppendRequests ==
  ASSUME TypeOK, RequestsInv, UNCHANGED askVars, closed' = closed,
         NEW m \in Message, wire' = Append(wire, m),
         IsReply(m) =>
           /\ Answered(m) \in Outstanding
           /\ \A i \in 1..Len(wire) : IsReply(wire[i]) => Answered(wire[i]) # Answered(m)
  PROVE  RequestsInv'
<1>1. Outstanding' = Outstanding
  BY DEF askVars, Outstanding
<1>2. /\ \A j \in 1..Len(wire) : j \in 1..Len(wire') /\ wire'[j] = wire[j]
      /\ Len(wire') \in 1..Len(wire') /\ wire'[Len(wire')] = m
      /\ \A j \in 1..Len(wire') : j \in 1..Len(wire) \/ j = Len(wire')
  BY Appended DEF TypeOK, EnvironmentTypeOK
<1>3. AnswersAwaited => AnswersAwaited'
  BY <1>1, <1>2 DEF AnswersAwaited
<1> QED
  BY <1>1, <1>3 DEF RequestsInv, NeverStuckRefreshing, askVars

LEMMA EnvironmentRequests ==
  ASSUME TypeOK, RequestsInv, Environment
  PROVE  RequestsInv'
<1>1. ASSUME NEW n \in Name, NEW c \in Owner, Rename(n, c) PROVE RequestsInv'
  <2> DEFINE m == [kind |-> "changed", name |-> n, old |-> bus[n], new |-> c]
  <2>1. m \in Message /\ ~IsReply(m)
    BY DEF Message, IsReply, TypeOK, EnvironmentTypeOK
  <2>2. UNCHANGED askVars /\ closed' = closed /\ (wire' = wire \/ wire' = Append(wire, m))
    BY <1>1 DEF Rename
  <2> HIDE DEF m
  <2> QED
    BY <2>1, <2>2, AppendRequests, RefreshAnswers
<1>2. ASSUME NEW c \in Conn, NEW i \in Iface, NEW content \in Contents, Emit(c, i, content)
      PROVE  RequestsInv'
  <2> DEFINE m == [kind |-> "items", batch |->
                    [id |-> emitted + 1, owner |-> c, iface |-> i, changed |-> content]]
  <2>1. m \in Message /\ ~IsReply(m)
    BY DEF Message, Batch, IsReply, TypeOK, EnvironmentTypeOK
  <2>2. UNCHANGED askVars /\ closed' = closed /\ wire' = Append(wire, m)
    BY <1>2 DEF Emit
  <2> HIDE DEF m
  <2> QED
    BY <2>1, <2>2, AppendRequests
<1>3. ASSUME NEW names \in Outstanding, Answer(names) PROVE RequestsInv'
  <2>1. Reply(names) \in Message /\ Answered(Reply(names)) = names
    <3>1. names \in SUBSET Name
      BY OutstandingAreNames
    <3>2. CASE names = {}
      BY <3>2 DEF Reply, Message, Answered
    <3>3. CASE names # {}
      <4>1. Least(names) \in names
        BY <3>1, <3>3, NamesAreOrdered, LeastProperties
      <4>2. names = {Least(names)}
        BY <3>3, <4>1 DEF Outstanding
      <4> QED
        BY <3>1, <3>3, <4>1, <4>2 DEF Reply, Message, Answered, TypeOK, EnvironmentTypeOK
    <3> QED
      BY <3>2, <3>3
  <2>2. \A i \in 1..Len(wire) : IsReply(wire[i]) => Answered(wire[i]) # names
    BY <1>3, AnswersToAnswered DEF Answer
  <2>3. UNCHANGED askVars /\ closed' = closed /\ wire' = Append(wire, Reply(names))
    BY <1>3 DEF Answer
  <2> QED
    BY <2>1, <2>2, <2>3, AppendRequests
<1>4. ASSUME Advance PROVE RequestsInv'
  <2>1. UNCHANGED <<closed, refreshing, changed, listing, asked, wire>>
    BY <1>4 DEF Advance, envVars
  <2>2. Outstanding' = Outstanding
    BY <2>1 DEF Outstanding
  <2>3. AnswersAwaited => AnswersAwaited'
    BY <2>1, <2>2 DEF AnswersAwaited
  <2> QED
    BY <2>1, <2>2, <2>3 DEF RequestsInv, NeverStuckRefreshing
<1> QED
  BY <1>1, <1>2, <1>3, <1>4 DEF Environment
-----------------------------------------------------------------------------
(* Before the first subscription, and after stop().                        *)

\* A tracker that has been started and not stopped.
LEMMA RunningIsFree ==
  ASSUME started', ~closed' PROVE LifeInv'
BY DEF LifeInv, StoppedIsInert, Untouched

LEMMA ReceiveLife ==
  ASSUME TypeOK, LifeInv, NEW i \in 1..Len(wire), Receive(i)
  PROVE  LifeInv' /\ (~closed => started)
<1>1. UNCHANGED <<started, closed>> /\ wire[i] \in Message
  BY WireMessages DEF Receive
<1>2. ~closed => started
  BY DEF LifeInv, Untouched
<1>3. CASE closed
  <2>1. UNCHANGED <<services, pending, listing, asked>> /\ calls' = Quiet
    BY <1>1, <1>3, MessageKinds
       DEF Receive, OnItems, OnChanged, IgnoreReply, ownerVars, queueVars, askVars
  <2>2. Outstanding' = Outstanding
    BY <2>1 DEF Outstanding
  <2> QED
    BY <1>1, <1>2, <1>3, <2>1, <2>2 DEF LifeInv, StoppedIsInert, Untouched
<1> QED
  BY <1>1, <1>2, <1>3, RunningIsFree DEF TypeOK

LEMMA SubscribeLife ==
  ASSUME TypeOK, LifeInv, SubscribeGlobal \/ \E k \in SelectKeys : Subscribe(k)
  PROVE  /\ LifeInv' /\ (Refresh \/ UNCHANGED askVars) /\ closed' = closed
         /\ UNCHANGED <<ownerVars, queueVars, envVars>> /\ calls' = Quiet
<1>1. UNCHANGED <<ownerVars, queueVars, closed, envVars>> /\ calls' = Quiet
  BY DEF SubscribeGlobal, Subscribe
<1>2. CASE StartTracker
  <2>1. started' = (started \/ ~closed) /\ (closed => UNCHANGED askVars)
        /\ (Refresh \/ UNCHANGED askVars)
    BY <1>2 DEF StartTracker
  <2>2. CASE closed
    <3>1. UNCHANGED <<services, pending, closed>> /\ ~started'
      BY <1>1, <2>1, <2>2 DEF LifeInv, ownerVars, queueVars
    <3>2. Outstanding' = Outstanding
      BY <2>1, <2>2 DEF askVars, Outstanding
    <3> QED
      BY <1>1, <2>1, <2>2, <3>1, <3>2 DEF LifeInv, StoppedIsInert, Untouched
  <2> QED
    BY <1>1, <2>1, <2>2, RunningIsFree
<1>3. CASE UNCHANGED <<started, askVars>> /\ subs # {}
  <2>1. closed \/ started
    BY <1>3 DEF LifeInv, Untouched, TypeOK
  <2>2. Outstanding' = Outstanding /\ UNCHANGED <<services, pending, closed, started>>
    BY <1>1, <1>3 DEF askVars, Outstanding, ownerVars, queueVars
  <2> QED
    BY <1>1, <1>3, <2>1, <2>2 DEF LifeInv, StoppedIsInert, Untouched
<1> QED
  BY <1>1, <1>2, <1>3 DEF SubscribeGlobal, Subscribe

LEMMA StopLife ==
  ASSUME TypeOK, RequestsInv, LifeInv, Stop
  PROVE  RequestsInv' /\ LifeInv'
<1>1. Outstanding' = {}
  BY DEF Stop, Outstanding
<1> QED
  BY <1>1 DEF Stop, LifeInv, StoppedIsInert, Untouched, RequestsInv, NeverStuckRefreshing

LEMMA EnvironmentLife ==
  ASSUME TypeOK, LifeInv, Environment
  PROVE  LifeInv'
<1>1. /\ UNCHANGED <<globalSub, subs, services, started, closed, listing, asked>>
      /\ calls' = Quiet
      /\ pending = {} => pending' = {}
  BY DEF Environment, Rename, Emit, Answer, Advance, subscriptionVars, ownerVars, queueVars,
         askVars
<1>2. Outstanding' = Outstanding
  BY <1>1 DEF Outstanding
<1>3. ~started /\ ~closed => wire' = wire
  <2> SUFFICES ASSUME ~started, ~closed PROVE wire' = wire
    OBVIOUS
  <2>1. ASSUME NEW n \in Name, NEW c \in Owner, Rename(n, c) PROVE wire' = wire
    BY <2>1 DEF Rename
  <2>2. ASSUME NEW c \in Conn, NEW i \in Iface, NEW content \in Contents, Emit(c, i, content)
        PROVE  FALSE
    BY <2>2 DEF Emit, Routes, Global, LifeInv, Untouched
  <2>3. Outstanding = {}
    BY DEF LifeInv, Untouched
  <2>4. CASE Advance
    BY <2>4 DEF Advance, envVars
  <2> QED
    BY <2>1, <2>2, <2>3, <2>4 DEF Environment
<1> QED
  BY <1>1, <1>2, <1>3 DEF LifeInv, StoppedIsInert, Untouched

LEMMA TickLife ==
  ASSUME TypeOK, LifeInv, Tick
  PROVE  /\ LifeInv' /\ (Refresh \/ UNCHANGED askVars) /\ closed' = closed /\ wire' = wire
         /\ started /\ ~closed
BY RunningIsFree DEF Tick, LifeInv, envVars

LEMMA TimeoutLife ==
  ASSUME TypeOK, LifeInv, NEW names \in Outstanding, Timeout(names)
  PROVE  LifeInv' /\ ~closed /\ started
<1>1. UNCHANGED <<started, closed>>
  BY DEF Timeout
<1>2. ~closed /\ started
  BY DEF LifeInv, StoppedIsInert, Untouched, TypeOK
<1> QED
  BY <1>1, <1>2, RunningIsFree

RequestsLife == RequestsInv /\ LifeInv

LEMMA RequestsLifeStep ==
  ASSUME TypeOK, RequestsLife, [Next]_vars
  PROVE  RequestsLife'
<1> USE DEF RequestsLife
<1>1. CASE SubscribeGlobal \/ \E k \in SelectKeys : Subscribe(k)
  BY <1>1, SubscribeLife, RefreshAnswers DEF envVars
<1>2. CASE Stop
  BY <1>2, StopLife
<1>3. ASSUME NEW i \in 1..Len(wire), Receive(i) PROVE RequestsLife'
  BY <1>3, ReceiveLife, ReceiveRequests
<1>4. CASE Tick
  BY <1>4, TickLife, RefreshAnswers
<1>5. ASSUME NEW names \in Outstanding, Timeout(names) PROVE RequestsLife'
  BY <1>5, TimeoutLife, TimeoutRequests
<1>6. CASE Environment
  BY <1>6, EnvironmentLife, EnvironmentRequests
<1>7. CASE UNCHANGED vars
  <2>1. /\ UNCHANGED askVars /\ UNCHANGED <<closed, started, wire, services, pending, globalSub,
                                            subs, calls>>
    BY <1>7 DEF vars, trackerVars, ownerVars, queueVars, envVars, subscriptionVars
  <2>2. Outstanding' = Outstanding
    BY <2>1 DEF askVars, Outstanding
  <2>3. LifeInv'
    BY <2>1, <2>2 DEF LifeInv, StoppedIsInert, Untouched
  <2> QED
    BY <2>1, <2>3, RefreshAnswers
<1> QED
  BY <1>1, <1>2, <1>3, <1>4, <1>5, <1>6, <1>7 DEF Next, Listener, Handlers

LEMMA RequestsLifeInit == ASSUME Init PROVE RequestsLife
<1>1. /\ listing = FALSE /\ asked = {} /\ changed = {} /\ refreshing = FALSE /\ wire = <<>>
      /\ ~globalSub /\ subs = {} /\ pending = {} /\ ~started /\ ~closed
      /\ \A n \in Name : services[n] = NoConn
  BY DEF Init, InitSubscriptions
<1>2. Outstanding = {} /\ Len(wire) = 0
  BY <1>1 DEF Outstanding
<1> QED
  BY <1>1, <1>2 DEF RequestsLife, RequestsInv, NeverStuckRefreshing, LifeInv, StoppedIsInert,
                    Untouched, AnswersAwaited

\* _refreshing is set exactly while a request is out whose answer, error or
\* timeout clears it, so it never blocks the refreshes to come.
THEOREM NeverStuckHolds == Spec => []NeverStuckRefreshing
<1>1. Init => TypeOK /\ RequestsLife
  BY InitTyped, RequestsLifeInit
<1>2. TypeOK /\ RequestsLife /\ [Next]_vars => (TypeOK /\ RequestsLife)'
  BY StepTyped, RequestsLifeStep
<1>3. RequestsLife => NeverStuckRefreshing
  BY DEF RequestsLife, RequestsInv
<1> QED
  BY <1>1, <1>2, <1>3, PTL DEF Spec

\* After stop() the tracker holds no owner and no batch, has no request out and
\* calls nobody back, whatever is still dispatched to it.
THEOREM StoppedIsInertHolds == Spec => []StoppedIsInert
<1>1. Init => TypeOK /\ RequestsLife
  BY InitTyped, RequestsLifeInit
<1>2. TypeOK /\ RequestsLife /\ [Next]_vars => (TypeOK /\ RequestsLife)'
  BY StepTyped, RequestsLifeStep
<1>3. RequestsLife => StoppedIsInert
  BY DEF RequestsLife, LifeInv
<1> QED
  BY <1>1, <1>2, <1>3, PTL DEF Spec
-----------------------------------------------------------------------------
(* Late and early answers never override a newer change.                    *)

Unread(n) == \E j \in 1..Len(wire) : Change(j, n)

LEMMA SettledByName ==
  /\ SettledBelief <=> \A n \in Name : Unread(n) \/ services[n] \in {NoConn, bus[n]}
  /\ SettledBelief' <=> \A n \in Name : Unread(n)' \/ services'[n] \in {NoConn, bus'[n]}
BY DEF SettledBelief, Unread, Change

\* A dispatch takes an answer or a batch, or the first of the changes.
LEMMA LastStays ==
  ASSUME TypeOK, LastIsCurrent, bus' = bus, started' => started,
         \/ wire' = wire
         \/ \E i \in 1..Len(wire) :
              /\ wire' = Without(i)
              /\ wire[i].kind # "changed" \/ \A j \in 1..(i - 1) : wire[j].kind # "changed"
  PROVE  LastIsCurrent'
<1>1. CASE wire' = wire
  BY <1>1 DEF LastIsCurrent, Change
<1>2. ASSUME NEW i \in 1..Len(wire), wire' = Without(i),
             wire[i].kind # "changed" \/ \A j \in 1..(i - 1) : wire[j].kind # "changed"
      PROVE  LastIsCurrent'
  <2> SUFFICES ASSUME started', NEW j \in 1..Len(wire'), NEW n, wire'[j].name = n,
                      wire'[j].kind = "changed", \A k \in (j + 1)..Len(wire') : ~Change(k, n)'
               PROVE  wire'[j].new = bus'[n]
    BY DEF LastIsCurrent, Change
  <2>1. /\ Len(wire) \in Nat \ {0} /\ Len(wire') = Len(wire) - 1
        /\ Up(i, j) \in 1..Len(wire) /\ Up(i, j) # i /\ wire'[j] = wire[Up(i, j)]
        /\ \A k \in 1..Len(wire) : k # i =>
             /\ Down(i, k) \in 1..Len(wire') /\ wire'[Down(i, k)] = wire[k]
    BY <1>2, Removed DEF TypeOK, EnvironmentTypeOK
  <2>2. ASSUME NEW k \in (Up(i, j) + 1)..Len(wire) PROVE ~Change(k, n)
    <3>1. k \in 1..Len(wire) /\ Up(i, j) < k
      BY <2>1
    <3>2. CASE k = i
      BY <1>2, <2>1, <3>1, <3>2 DEF Change
    <3>3. CASE k # i
      <4>1. Down(i, k) \in (j + 1)..Len(wire')
        BY <2>1, <3>1, <3>3 DEF Up, Down
      <4>2. wire'[Down(i, k)] = wire[k]
        BY <2>1, <3>1, <3>3
      <4> QED
        BY <4>1, <4>2 DEF Change
    <3> QED
      BY <3>2, <3>3
  <2> QED
    BY <2>1, <2>2 DEF LastIsCurrent
<1> QED
  BY <1>1, <1>2

LEMMA UnreadStays ==
  ASSUME TypeOK, NEW n,
         \/ wire' = wire
         \/ \E i \in 1..Len(wire) : wire' = Without(i) /\ ~Change(i, n)
  PROVE  Unread(n) => Unread(n)'
<1>1. ASSUME NEW i \in 1..Len(wire), wire' = Without(i), ~Change(i, n), NEW k \in 1..Len(wire),
             Change(k, n)
      PROVE  Unread(n)'
  <2>1. Down(i, k) \in 1..Len(wire') /\ wire'[Down(i, k)] = wire[k]
    BY <1>1, Removed DEF TypeOK, EnvironmentTypeOK
  <2> QED
    BY <1>1, <2>1 DEF Unread, Change
<1> QED
  BY <1>1 DEF Unread, Change

\* An answer on the wire still tells nothing wrong.
LEMMA FoundStays ==
  ASSUME TypeOK, FoundIsCurrent, bus' = bus, started' => started,
         wire' = wire \/ \E i \in 1..Len(wire) : wire' = Without(i),
         \A n \in Name : Unread(n) =>
           Unread(n)' \/ n \in changed' \/ \A j \in 1..Len(wire') : ~IsReply(wire'[j]),
         changed \subseteq changed' \/ \A j \in 1..Len(wire') : ~IsReply(wire'[j])
  PROVE  FoundIsCurrent'
<1> SUFFICES ASSUME started', NEW j \in 1..Len(wire'), wire'[j].kind = "found",
                    NEW n, wire'[j].name = n
             PROVE  n \in changed' \/ wire'[j].owner = bus'[n] \/ Unread(n)'
  BY DEF FoundIsCurrent, Unread, Change
<1>1. PICK k \in 1..Len(wire) : wire'[j] = wire[k]
  <2>1. CASE wire' = wire
    BY <2>1
  <2>2. CASE \E i \in 1..Len(wire) : wire' = Without(i)
    BY <2>2, Removed DEF TypeOK, EnvironmentTypeOK
  <2> QED
    BY <2>1, <2>2
<1>2. IsReply(wire'[j]) /\ n \in Name
  BY <1>1, WireMessages, MessageKinds DEF IsReply
<1>3. n \in changed \/ wire[k].owner = bus[n] \/ Unread(n)
  BY <1>1 DEF FoundIsCurrent, Unread
<1> QED
  BY <1>1, <1>2, <1>3

\* _refresh forgets the changes only when no answer is awaited, and so does
\* complete().
LEMMA RefreshForgets ==
  ASSUME TypeOK, RequestsInv, ~closed, Refresh \/ UNCHANGED askVars
  PROVE  changed \subseteq changed' \/ \A j \in 1..Len(wire) : ~IsReply(wire[j])
<1>1. CASE changed' = changed
  BY <1>1
<1>2. CASE ~refreshing
  BY <1>2 DEF RequestsInv, NeverStuckRefreshing, AnswersAwaited
<1> QED
  BY <1>1, <1>2 DEF Refresh, askVars

LEMMA SettleForgets ==
  ASSUME RequestsInv', ~closed', NEW still, NEW time, Settle(still, time)
  PROVE  changed \subseteq changed' \/ \A j \in 1..Len(wire') : ~IsReply(wire'[j])
<1>1. CASE still = {}
  <2>1. Outstanding' = {}
    BY <1>1 DEF Settle, Outstanding
  <2> QED
    BY <2>1 DEF RequestsInv, AnswersAwaited
<1>2. CASE still # {}
  BY <1>2 DEF Settle
<1> QED
  BY <1>1, <1>2

\* What _set_owner and the forgetting of names do to services.
LEMMA SetOwnerServices ==
  ASSUME TypeOK, NEW n \in Name, NEW c \in Owner, SetOwner(n, c)
  PROVE  services'[n] = c /\ \A m \in Name : m # n => services'[m] = services[m]
BY DEF SetOwner, Reassign, TypeOK, OwnersTypeOK

\* Steps that take nothing but an answer or a batch from the wire, and believe
\* nothing new.
LEMMA BelievesLess ==
  ASSUME TypeOK, LastIsCurrent, FoundIsCurrent, SettledBelief, bus' = bus, started' => started,
         \/ wire' = wire
         \/ \E i \in 1..Len(wire) : wire' = Without(i) /\ wire[i].kind # "changed",
         changed \subseteq changed' \/ \A j \in 1..Len(wire') : ~IsReply(wire'[j]),
         \A n \in Name : services'[n] \in {NoConn, services[n]}
                           \/ services'[n] = bus[n] \/ Unread(n)
  PROVE  LastIsCurrent' /\ FoundIsCurrent' /\ SettledBelief'
<1>1. LastIsCurrent'
  BY LastStays
<1>2. ASSUME NEW n \in Name PROVE Unread(n) => Unread(n)'
  BY UnreadStays DEF Change
<1>3. FoundIsCurrent'
  BY <1>2, FoundStays
<1>4. SettledBelief'
  BY <1>2, SettledByName
<1> QED
  BY <1>1, <1>3, <1>4

LEMMA ReceiveBelief ==
  ASSUME TypeOK, BeliefInv, RequestsInv', NEW i \in 1..Len(wire), Receive(i)
  PROVE  LastIsCurrent' /\ FoundIsCurrent' /\ SettledBelief'
<1> DEFINE m == wire[i]
<1>0. /\ m \in Message /\ wire' = Without(i) /\ MayReceive(i)
      /\ UNCHANGED <<bus, started, closed>>
  BY WireMessages DEF Receive
<1> USE DEF BeliefInv
<1>1. CASE closed
  <2>1. ~started /\ UNCHANGED services /\ \A n \in Name : services[n] = NoConn
    BY <1>0, <1>1, MessageKinds
       DEF Receive, LifeInv, StoppedIsInert, OnItems, OnChanged, IgnoreReply, ownerVars
  <2> QED
    BY <1>0, <2>1, SettledByName DEF LastIsCurrent, FoundIsCurrent
<1>2. CASE ~closed /\ m.kind = "items" /\ OnItems(m.batch)
  <2>1. (Refresh \/ UNCHANGED askVars) /\ UNCHANGED services
    BY <1>2 DEF OnItems, Enqueue, ownerVars
  <2>2. changed \subseteq changed' \/ \A j \in 1..Len(wire) : ~IsReply(wire[j])
    BY <1>2, <2>1, RefreshForgets
  <2>3. (\A j \in 1..Len(wire) : ~IsReply(wire[j])) => \A j \in 1..Len(wire') : ~IsReply(wire'[j])
    BY <1>0, Removed DEF TypeOK, EnvironmentTypeOK
  <2> QED
    BY <1>0, <1>2, <2>1, <2>2, <2>3, BelievesLess
<1>3. ASSUME ~closed, IsReply(m),
             \/ m.kind = "listed" /\ OnListed(m.names)
             \/ m.kind = "found" /\ OnFound(m.name, m.owner)
             \/ m.kind = "failed" /\ OnFailed(m.names)
      PROVE  LastIsCurrent' /\ FoundIsCurrent' /\ SettledBelief'
  <2>1. \E still, time : Settle(still, time)
    BY <1>3, Zenon DEF OnListed, AskFor, OnFound, OnFailed
  <2>2. changed \subseteq changed' \/ \A j \in 1..Len(wire') : ~IsReply(wire'[j])
    BY <1>0, <1>3, <2>1, SettleForgets
  <2>3. ASSUME NEW n \in Name
        PROVE  services'[n] \in {NoConn, services[n]} \/ services'[n] = bus[n] \/ Unread(n)
    <3>1. CASE m.kind = "listed" /\ OnListed(m.names)
      BY <3>1 DEF OnListed, Forget
    <3>2. CASE m.kind = "found" /\ OnFound(m.name, m.owner)
      <4>1. started
        BY <1>3, ReceiveLife, <1>0 DEF LifeInv, Untouched
      <4>2. m.name \in changed \/ m.owner = bus[m.name] \/ Unread(m.name)
        BY <3>2, <4>1 DEF FoundIsCurrent, Unread
      <4>3. m.name \in Name /\ m.owner \in Owner
        BY <1>0, <3>2, MessageKinds
      <4>4. CASE m.name \in changed
        BY <3>2, <4>4 DEF OnFound, ownerVars
      <4>5. CASE m.name \notin changed
        <5>1. services'[m.name] = m.owner
              /\ \A x \in Name : x # m.name => services'[x] = services[x]
          BY <3>2, <4>3, <4>5, SetOwnerServices DEF OnFound
        <5> QED
          BY <4>2, <4>5, <5>1
      <4> QED
        BY <4>4, <4>5
    <3>3. CASE m.kind = "failed" /\ OnFailed(m.names)
      BY <3>3 DEF OnFailed, ownerVars
    <3> QED
      BY <1>3, <3>1, <3>2, <3>3
  <2>4. m.kind # "changed"
    BY <1>3 DEF IsReply
  <2> QED
    BY <1>0, <2>2, <2>3, <2>4, BelievesLess
<1>4. CASE ~closed /\ m.kind = "changed" /\ OnChanged(m.name, m.new)
  <2>1. /\ m.name \in Name /\ m.new \in Owner /\ ~IsReply(m)
    BY <1>0, <1>4, MessageKinds
  <2>0. PICK n \in Name : n = m.name
    BY <2>1
  <2>2. /\ services'[n] = m.new /\ \A x \in Name : x # n => services'[x] = services[x]
        /\ changed' = (IF refreshing THEN changed \cup {n} ELSE changed)
    BY <1>4, <2>1, <2>0, SetOwnerServices DEF OnChanged
  <2>3. \A j \in 1..(i - 1) : IsReply(wire[j]) /\ wire[j].kind # "changed"
    <3>1. i = 1 \/ \A j \in 1..(i - 1) : IsReply(wire[j])
      BY <1>0, <2>1 DEF MayReceive
    <3> QED
      BY <3>1 DEF IsReply
  <2>4. LastIsCurrent'
    BY <1>0, <2>3, LastStays
  <2>5. started
    BY <1>4, ReceiveLife
  <2>6. ASSUME NEW x \in Name, x # n PROVE Unread(x) => Unread(x)'
    <3>1. ~Change(i, x)
      BY <2>6, <2>0 DEF Change
    <3> QED
      BY <1>0, <3>1, UnreadStays
  <2>7. n \in changed' \/ \A j \in 1..Len(wire') : ~IsReply(wire'[j])
    <3>1. CASE refreshing
      BY <2>2, <3>1
    <3>2. CASE ~refreshing
      <4>1. \A j \in 1..Len(wire) : ~IsReply(wire[j])
        BY <1>4, <3>2 DEF RequestsInv, NeverStuckRefreshing, AnswersAwaited
      <4> QED
        BY <1>0, <4>1, Removed DEF TypeOK, EnvironmentTypeOK
    <3> QED
      BY <3>1, <3>2
  <2>8. FoundIsCurrent'
    <3>1. \A x \in Name : Unread(x) =>
            Unread(x)' \/ x \in changed' \/ \A j \in 1..Len(wire') : ~IsReply(wire'[j])
      BY <2>6, <2>7
    <3>2. changed \subseteq changed'
      BY <2>2
    <3> QED
      BY <1>0, <3>1, <3>2, FoundStays
  <2>9. Unread(n)' \/ m.new = bus[n]
    <3>1. CASE \A k \in (i + 1)..Len(wire) : ~Change(k, n)
      BY <1>4, <2>5, <2>0, <3>1 DEF LastIsCurrent
    <3>2. ASSUME NEW k \in (i + 1)..Len(wire), Change(k, n) PROVE Unread(n)'
      <4>1. k \in 1..Len(wire) /\ k # i
        BY <3>2, Removed, <1>0 DEF TypeOK, EnvironmentTypeOK
      <4>2. Down(i, k) \in 1..Len(wire') /\ wire'[Down(i, k)] = wire[k]
        BY <1>0, <4>1, Removed DEF TypeOK, EnvironmentTypeOK
      <4> QED
        BY <3>2, <4>2 DEF Unread, Change
    <3> QED
      BY <3>1, <3>2
  <2>10. SettledBelief'
    BY <1>0, <2>2, <2>6, <2>9, SettledByName
  <2> QED
    BY <2>4, <2>8, <2>10
<1> QED
  BY <1>0, <1>1, <1>2, <1>3, <1>4, MessageKinds DEF Receive, IsReply

LEMMA HandlersBelief ==
  ASSUME TypeOK, BeliefInv, RequestsInv', Handlers
  PROVE  LastIsCurrent' /\ FoundIsCurrent' /\ SettledBelief'
<1> USE DEF BeliefInv
<1>1. CASE Tick
  <2>1. changed \subseteq changed' \/ \A j \in 1..Len(wire) : ~IsReply(wire[j])
    BY <1>1, TickLife, RefreshForgets
  <2>2. UNCHANGED <<bus, wire, services, started>>
    BY <1>1 DEF Tick, envVars, ownerVars
  <2> QED
    BY <2>1, <2>2, BelievesLess
<1>2. ASSUME NEW names \in Outstanding, Timeout(names)
      PROVE  LastIsCurrent' /\ FoundIsCurrent' /\ SettledBelief'
  <2>1. UNCHANGED <<bus, services, started, closed>> /\ ~closed
    BY <1>2, TimeoutLife DEF Timeout, OnFailed, ownerVars
  <2>2. Settle(asked \ names, waited)
    BY <1>2 DEF Timeout, OnFailed
  <2>3. changed \subseteq changed' \/ \A j \in 1..Len(wire') : ~IsReply(wire'[j])
    BY <2>1, <2>2, SettleForgets
  <2>4. \/ wire' = wire
        \/ \E i \in 1..Len(wire) : wire' = Without(i) /\ wire[i].kind # "changed"
    BY <1>2, LateAnswer DEF IsReply
  <2> QED
    BY <2>1, <2>3, <2>4, BelievesLess
<1> QED
  BY <1>1, <1>2, ReceiveBelief DEF Handlers

\* A message is sent: a change, or one that tells what is so now.
LEMMA AppendBelief ==
  ASSUME TypeOK, LastIsCurrent, FoundIsCurrent, SettledBelief,
         UNCHANGED <<services, changed, started>>,
         NEW m \in Message, wire' = Append(wire, m),
         \/ m.kind # "changed" /\ bus' = bus
         \/ /\ m.kind = "changed" /\ m.new = bus'[m.name]
            /\ \A n \in Name : n # m.name => bus'[n] = bus[n],
         m.kind = "found" => m.owner = bus'[m.name]
  PROVE  LastIsCurrent' /\ FoundIsCurrent' /\ SettledBelief'
<1>1. /\ Len(wire) \in Nat /\ Len(wire') = Len(wire) + 1
      /\ \A j \in 1..Len(wire) : j \in 1..Len(wire') /\ wire'[j] = wire[j]
      /\ Len(wire') \in 1..Len(wire') /\ wire'[Len(wire')] = m
      /\ \A j \in 1..Len(wire') : j \in 1..Len(wire) \/ j = Len(wire')
  BY Appended DEF TypeOK, EnvironmentTypeOK
<1>2. \A n \in Name : Unread(n) => Unread(n)'
  BY <1>1 DEF Unread, Change
<1>3. \A n \in Name : bus'[n] = bus[n] \/ Unread(n)'
  BY <1>1 DEF Unread, Change
<1>4. LastIsCurrent'
  <2> SUFFICES ASSUME started', NEW j \in 1..Len(wire'), NEW n, wire'[j].name = n,
                      wire'[j].kind = "changed", \A k \in (j + 1)..Len(wire') : ~Change(k, n)'
               PROVE  wire'[j].new = bus'[n]
    BY DEF LastIsCurrent, Change
  <2>1. CASE j = Len(wire')
    BY <1>1, <2>1
  <2>2. CASE j \in 1..Len(wire)
    <3>1. Len(wire') \in (j + 1)..Len(wire')
      BY <1>1, <2>2
    <3>2. ~(m.kind = "changed" /\ m.name = n)
      BY <1>1, <3>1 DEF Change
    <3>3. \A k \in (j + 1)..Len(wire) : ~Change(k, n)
      <4> SUFFICES ASSUME NEW k \in (j + 1)..Len(wire) PROVE ~Change(k, n)
        OBVIOUS
      <4>1. k \in (j + 1)..Len(wire') /\ k \in 1..Len(wire)
        BY <1>1, <2>2
      <4> QED
        BY <1>1, <4>1 DEF Change
    <3>4. wire[j] = wire'[j] /\ wire[j].name \in Name
      BY <1>1, <2>2, WireMessages, MessageKinds
    <3>5. wire[j].new = bus[n]
      BY <2>2, <3>3, <3>4 DEF LastIsCurrent
    <3> QED
      BY <3>2, <3>4, <3>5
  <2> QED
    BY <1>1, <2>1, <2>2
<1>5. FoundIsCurrent'
  <2> SUFFICES ASSUME started', NEW j \in 1..Len(wire'), wire'[j].kind = "found",
                      NEW n, wire'[j].name = n
               PROVE  n \in changed' \/ wire'[j].owner = bus'[n] \/ Unread(n)'
    BY DEF FoundIsCurrent, Unread, Change
  <2>1. CASE j = Len(wire')
    BY <1>1, <2>1
  <2>2. CASE j \in 1..Len(wire)
    <3>1. wire[j] = wire'[j] /\ n \in Name
      BY <1>1, <2>2, WireMessages, MessageKinds
    <3>2. n \in changed \/ wire[j].owner = bus[n] \/ Unread(n)
      BY <2>2, <3>1 DEF FoundIsCurrent, Unread
    <3> QED
      BY <1>2, <1>3, <3>1, <3>2
  <2> QED
    BY <1>1, <2>1, <2>2
<1>6. SettledBelief'
  BY <1>2, <1>3, SettledByName
<1> QED
  BY <1>4, <1>5, <1>6

LEMMA EnvironmentBelief ==
  ASSUME TypeOK, BeliefInv, Environment
  PROVE  LastIsCurrent' /\ FoundIsCurrent' /\ SettledBelief'
<1> USE DEF BeliefInv
<1>1. ASSUME NEW n \in Name, NEW c \in Owner, Rename(n, c)
      PROVE  LastIsCurrent' /\ FoundIsCurrent' /\ SettledBelief'
  <2> DEFINE m == [kind |-> "changed", name |-> n, old |-> bus[n], new |-> c]
  <2>1. m \in Message /\ m.kind = "changed" /\ m.name = n /\ m.new = c
    BY DEF Message, TypeOK, EnvironmentTypeOK
  <2>2. /\ UNCHANGED <<services, changed, started, closed>>
        /\ bus'[n] = c /\ \A x \in Name : x # n => bus'[x] = bus[x]
        /\ wire' = IF started THEN Append(wire, m) ELSE wire
    BY <1>1 DEF Rename, ownerVars, askVars, TypeOK, EnvironmentTypeOK
  <2> HIDE DEF m
  <2>3. CASE started
    BY <2>1, <2>2, <2>3, AppendBelief
  <2>4. CASE ~started
    <3>1. \A x \in Name : services[x] = NoConn
      BY <2>4 DEF LifeInv, StoppedIsInert, Untouched
    <3> QED
      BY <2>2, <2>4, <3>1, SettledByName DEF LastIsCurrent, FoundIsCurrent
  <2> QED
    BY <2>3, <2>4
<1>2. ASSUME NEW c \in Conn, NEW i \in Iface, NEW content \in Contents, Emit(c, i, content)
      PROVE  LastIsCurrent' /\ FoundIsCurrent' /\ SettledBelief'
  <2> DEFINE m == [kind |-> "items", batch |->
                    [id |-> emitted + 1, owner |-> c, iface |-> i, changed |-> content]]
  <2>1. m \in Message /\ m.kind = "items"
    BY DEF Message, Batch, TypeOK, EnvironmentTypeOK
  <2>2. UNCHANGED <<services, changed, started, bus>> /\ wire' = Append(wire, m)
    BY <1>2 DEF Emit, ownerVars, askVars
  <2> HIDE DEF m
  <2> QED
    BY <2>1, <2>2, AppendBelief
<1>3. ASSUME NEW names \in Outstanding, Answer(names)
      PROVE  LastIsCurrent' /\ FoundIsCurrent' /\ SettledBelief'
  <2> DEFINE m == Reply(names)
  <2>1. m \in Message /\ m.kind # "changed" /\ (m.kind = "found" => m.owner = bus[m.name])
    <3>1. names \in SUBSET Name
      BY OutstandingAreNames
    <3>2. names # {} => Least(names) \in Name
      BY <3>1, NamesAreOrdered, LeastProperties
    <3> QED
      BY <3>1, <3>2 DEF Reply, Message, TypeOK, EnvironmentTypeOK
  <2>2. UNCHANGED <<services, changed, started, bus>> /\ wire' = Append(wire, m)
    BY <1>3 DEF Answer, ownerVars, askVars
  <2> HIDE DEF m
  <2> QED
    BY <2>1, <2>2, AppendBelief
<1>4. CASE Advance
  <2>1. UNCHANGED <<services, changed, started, bus, wire>>
    BY <1>4 DEF Advance, ownerVars, envVars
  <2> QED
    BY <2>1, BelievesLess
<1> QED
  BY <1>1, <1>2, <1>3, <1>4 DEF Environment

LEMMA ListenerBelief ==
  ASSUME TypeOK, BeliefInv, Listener
  PROVE  LastIsCurrent' /\ FoundIsCurrent' /\ SettledBelief'
<1> USE DEF BeliefInv
<1>1. CASE Stop
  <2>1. ~started' /\ \A n \in Name : services'[n] = NoConn
    BY <1>1 DEF Stop
  <2> QED
    BY <2>1, SettledByName DEF LastIsCurrent, FoundIsCurrent
<1>2. CASE SubscribeGlobal \/ \E k \in SelectKeys : Subscribe(k)
  <2>1. /\ LifeInv' /\ (Refresh \/ UNCHANGED askVars) /\ closed' = closed
        /\ UNCHANGED <<services, bus, wire>>
    BY <1>2, SubscribeLife DEF ownerVars, envVars
  <2>2. CASE ~started
    <3>1. started' => Len(wire') = 0
      BY <2>1, <2>2 DEF LifeInv, Untouched
    <3>2. SettledBelief'
      BY <2>1 DEF SettledBelief
    <3> QED
      BY <3>1, <3>2 DEF LastIsCurrent, FoundIsCurrent
  <2>3. CASE started
    <3>1. ~closed
      BY <2>3 DEF LifeInv
    <3>2. changed \subseteq changed' \/ \A j \in 1..Len(wire') : ~IsReply(wire'[j])
      BY <2>1, <3>1, RefreshForgets
    <3> QED
      BY <2>1, <2>3, <3>2, BelievesLess
  <2> QED
    BY <2>2, <2>3
<1> QED
  BY <1>1, <1>2 DEF Listener

LEMMA BeliefStep ==
  ASSUME TypeOK, BeliefInv, [Next]_vars
  PROVE  BeliefInv'
<1>1. RequestsInv' /\ LifeInv'
  BY RequestsLifeStep DEF BeliefInv, RequestsLife
<1>2. CASE UNCHANGED vars
  <2>1. UNCHANGED <<services, changed, started, bus, wire>>
    BY <1>2 DEF vars, trackerVars, ownerVars, askVars, envVars
  <2> QED
    BY <1>1, <2>1, BelievesLess DEF BeliefInv
<1> QED
  BY <1>1, <1>2, HandlersBelief, EnvironmentBelief, ListenerBelief DEF Next, BeliefInv

LEMMA BeliefInit == ASSUME Init PROVE BeliefInv
<1>1. ~started /\ \A n \in Name : services[n] = NoConn
  BY DEF Init
<1> QED
  BY <1>1, RequestsLifeInit, SettledByName
     DEF BeliefInv, RequestsLife, LastIsCurrent, FoundIsCurrent

\* Whether replies overtake signals or trail them: a name without an unread
\* change is unknown to the tracker or attributed to its holder.
THEOREM SettledBeliefHolds == Spec => []SettledBelief
<1>1. Init => TypeOK /\ BeliefInv
  BY InitTyped, BeliefInit
<1>2. TypeOK /\ BeliefInv /\ [Next]_vars => (TypeOK /\ BeliefInv)'
  BY StepTyped, BeliefStep
<1>3. BeliefInv => SettledBelief
  BY DEF BeliefInv
<1> QED
  BY <1>1, <1>2, <1>3, PTL DEF Spec
-----------------------------------------------------------------------------
(* With replies in their place, the tracker believes what was true.         *)

\* w without what was at place i.
LEMMA HeldRemoved ==
  ASSUME NEW w, NEW v, NEW h, Len(w) \in Nat, NEW i \in 1..Len(w), Len(v) = Len(w) - 1,
         \A j \in 1..Len(v) : v[j] = IF j < i THEN w[j] ELSE w[j + 1],
         NEW p \in 1..(Len(w) + 1), NEW n, NEW c, HeldAt(w, h, p, n, c)
  PROVE  /\ i < p => HeldAt(v, h, p - 1, n, c)
         /\ p <= i /\ ~IsChange(w[i], n) => HeldAt(v, h, p, n, c)
<1> DEFINE q == IF p <= i THEN p ELSE p - 1
<1>0. SUFFICES ASSUME i < p \/ ~IsChange(w[i], n) PROVE HeldAt(v, h, q, n, c)
  OBVIOUS
<1>1. ASSUME NEW top \in p..(Len(w) + 1), \A j \in p..(top - 1) : ~IsChange(w[j], n),
             NEW j \in q..Len(v), Up(i, j) < top
      PROVE  ~IsChange(v[j], n)
  <2>1. j \in 1..Len(v) /\ Up(i, j) \in p..(top - 1)
    BY <1>1 DEF Up
  <2>2. v[j] = w[Up(i, j)]
    BY <2>1 DEF Up
  <2> QED
    BY <1>1, <2>1, <2>2
<1>2. CASE c = h[n] /\ \A j \in p..Len(w) : ~IsChange(w[j], n)
  <2>1. ASSUME NEW j \in q..Len(v) PROVE ~IsChange(v[j], n)
    <3>1. Up(i, j) < Len(w) + 1 /\ Len(w) + 1 \in p..(Len(w) + 1) /\ Len(w) + 1 - 1 = Len(w)
      BY DEF Up
    <3> QED
      BY <1>1, <1>2, <3>1
  <2> QED
    BY <1>2, <2>1 DEF HeldAt
<1>3. ASSUME NEW k \in p..Len(w), IsChange(w[k], n), w[k].old = c,
             \A j \in p..(k - 1) : ~IsChange(w[j], n)
      PROVE  HeldAt(v, h, q, n, c)
  <2>1. k \in 1..Len(w) /\ k # i
    BY <1>0, <1>3
  <2>2. PICK d \in q..Len(v) : d = Down(i, k)
    BY <1>3, <2>1 DEF Down
  <2>3. v[d] = w[k]
    BY <2>1, <2>2 DEF Down
  <2>4. ASSUME NEW j \in q..(d - 1) PROVE ~IsChange(v[j], n)
    <3>1. k \in p..(Len(w) + 1) /\ j \in q..Len(v) /\ Up(i, j) < k
      BY <1>3, <2>1, <2>2 DEF Up, Down
    <3> QED
      BY <1>1, <1>3, <3>1
  <2> HIDE DEF q
  <2> QED
    BY <1>3, <2>2, <2>3, <2>4 DEF HeldAt
<1> QED
  BY <1>2, <1>3 DEF HeldAt

LEMMA TruthfulRemoved ==
  ASSUME NEW w, NEW v, NEW h, Len(w) \in Nat, NEW i \in 1..Len(w), Len(v) = Len(w) - 1,
         \A j \in 1..Len(v) : v[j] = IF j < i THEN w[j] ELSE w[j + 1],
         i = 1 \/ w[i].kind # "changed", Truthful(w, h)
  PROVE  Truthful(v, h)
<1>1. ASSUME NEW j \in 1..Len(v), NEW n, v[j].name = n, NEW c,
             \/ v[j].kind = "found" /\ v[j].owner = c
             \/ v[j].kind = "changed" /\ v[j].new = c
      PROVE  HeldAt(v, h, j + 1, n, c)
  <2>1. PICK k \in 1..Len(w) : k = Up(i, j)
    BY DEF Up
  <2>2. v[j] = w[k]
    BY <2>1 DEF Up
  <2>3. HeldAt(w, h, k + 1, n, c)
    BY <1>1, <2>2 DEF Truthful
  <2>4. PICK p \in 1..(Len(w) + 1) : p = k + 1
    OBVIOUS
  <2>5. /\ i < p => HeldAt(v, h, p - 1, n, c)
        /\ p <= i /\ ~IsChange(w[i], n) => HeldAt(v, h, p, n, c)
    BY <2>3, <2>4, HeldRemoved
  <2>6. \/ p = j + 1 /\ p <= i /\ ~IsChange(w[i], n)
        \/ p - 1 = j + 1 /\ i < p
    BY <2>1, <2>4 DEF Up, IsChange
  <2> QED
    BY <2>5, <2>6
<1>2. ASSUME NEW j \in 1..Len(v), v[j].kind = "found"
      PROVE  HeldAt(v, h, j + 1, v[j].name, v[j].owner)
  BY <1>1, <1>2
<1>3. ASSUME NEW j \in 1..Len(v), v[j].kind = "changed"
      PROVE  HeldAt(v, h, j + 1, v[j].name, v[j].new)
  BY <1>1, <1>3
<1> QED
  BY <1>2, <1>3 DEF Truthful

\* w with a message m at its end.
LEMMA HeldAppended ==
  ASSUME NEW w, NEW v, NEW h, NEW g, NEW m, Len(w) \in Nat, Len(v) = Len(w) + 1,
         \A j \in 1..Len(w) : v[j] = w[j], v[Len(w) + 1] = m,
         NEW p \in 1..(Len(w) + 1), NEW n, NEW c, HeldAt(w, h, p, n, c),
         IF IsChange(m, n) THEN m.old = h[n] ELSE g[n] = h[n]
  PROVE  HeldAt(v, g, p, n, c)
<1>1. ASSUME NEW k \in p..Len(w), IsChange(w[k], n), w[k].old = c,
             \A j \in p..(k - 1) : ~IsChange(w[j], n)
      PROVE  HeldAt(v, g, p, n, c)
  <2>1. k \in p..Len(v) /\ v[k] = w[k] /\ \A j \in p..(k - 1) : v[j] = w[j]
    OBVIOUS
  <2> QED
    BY <1>1, <2>1 DEF HeldAt
<1>2. CASE c = h[n] /\ \A j \in p..Len(w) : ~IsChange(w[j], n)
  <2>1. \A j \in p..Len(w) : ~IsChange(v[j], n)
    BY <1>2
  <2>2. CASE IsChange(m, n)
    <3>1. /\ Len(w) + 1 \in p..Len(v) /\ Len(w) + 1 - 1 = Len(w)
          /\ IsChange(v[Len(w) + 1], n) /\ v[Len(w) + 1].old = c
      BY <1>2, <2>2
    <3> QED
      BY <2>1, <3>1 DEF HeldAt
  <2>3. CASE ~IsChange(m, n)
    <3>1. \A j \in p..Len(v) : j \in p..Len(w) \/ j = Len(w) + 1
      OBVIOUS
    <3> QED
      BY <1>2, <2>1, <2>3, <3>1 DEF HeldAt
  <2> QED
    BY <2>2, <2>3
<1> QED
  BY <1>1, <1>2 DEF HeldAt

LEMMA TruthfulAppended ==
  ASSUME NEW w, NEW v, NEW h, NEW g, NEW m, Len(w) \in Nat, Len(v) = Len(w) + 1,
         \A j \in 1..Len(w) : v[j] = w[j], v[Len(w) + 1] = m, Truthful(w, h),
         \A j \in 1..Len(w) : w[j].kind \in {"found", "changed"} => w[j].name \in Name,
         \A n \in Name : IF IsChange(m, n) THEN m.old = h[n] ELSE g[n] = h[n],
         m.kind = "found" => m.owner = g[m.name],
         m.kind = "changed" => m.new = g[m.name]
  PROVE  Truthful(v, g)
<1>1. ASSUME NEW j \in 1..Len(v), NEW n, v[j].name = n, NEW c,
             \/ v[j].kind = "found" /\ v[j].owner = c
             \/ v[j].kind = "changed" /\ v[j].new = c
      PROVE  HeldAt(v, g, j + 1, n, c)
  <2>1. CASE j \in 1..Len(w)
    <3>1. HeldAt(w, h, j + 1, n, c) /\ n \in Name
      BY <1>1, <2>1 DEF Truthful
    <3>2. j + 1 \in 1..(Len(w) + 1)
      BY <2>1
    <3> QED
      BY <3>1, <3>2, HeldAppended
  <2>2. CASE j = Len(w) + 1
    <3>1. c = g[n] /\ \A k \in (j + 1)..Len(v) : FALSE
      BY <1>1, <2>2
    <3> QED
      BY <3>1 DEF HeldAt
  <2> QED
    BY <2>1, <2>2
<1>2. ASSUME NEW j \in 1..Len(v), v[j].kind = "found"
      PROVE  HeldAt(v, g, j + 1, v[j].name, v[j].owner)
  BY <1>1, <1>2
<1>3. ASSUME NEW j \in 1..Len(v), v[j].kind = "changed"
      PROVE  HeldAt(v, g, j + 1, v[j].name, v[j].new)
  BY <1>1, <1>3
<1> QED
  BY <1>2, <1>3 DEF Truthful

\* The holder that HolderAtHead picks.
LEMMA HeldAtHead ==
  ASSUME TypeOK, NEW n \in Name, NEW c, HeldAt(wire, bus, 1, n, c)
  PROVE  c = HolderAtHead(n)
<1> DEFINE news == {i \in 1..Len(wire) : wire[i].kind = "changed" /\ wire[i].name = n}
<1>1. \A i \in 1..Len(wire) : i \in news <=> IsChange(wire[i], n)
  BY DEF IsChange
<1>2. news \in SUBSET Nat /\ HolderAtHead(n) = IF news = {} THEN bus[n] ELSE wire[Least(news)].old
  BY DEF HolderAtHead
<1>3. Len(wire) \in Nat /\ \A i \in news : i \in 1..Len(wire)
  BY LenProperties DEF TypeOK, EnvironmentTypeOK
<1> HIDE DEF news
<1>4. CASE c = bus[n] /\ \A j \in 1..Len(wire) : ~IsChange(wire[j], n)
  BY <1>1, <1>2, <1>3, <1>4
<1>5. ASSUME NEW k \in 1..Len(wire), IsChange(wire[k], n), wire[k].old = c,
             \A j \in 1..(k - 1) : ~IsChange(wire[j], n)
      PROVE  c = HolderAtHead(n)
  <2>1. Least(news) \in news /\ Least(news) <= k
    BY <1>1, <1>2, <1>5, LeastProperties
  <2>2. Least(news) \notin 1..(k - 1)
    BY <1>1, <1>3, <1>5, <2>1
  <2>3. Least(news) = k
    BY <1>3, <2>1, <2>2
  <2> QED
    BY <1>1, <1>2, <1>5, <2>3
<1> QED
  BY <1>4, <1>5 DEF HeldAt

\* The wire as the lemmas on sequences want it.
LEMMA WireRemoved ==
  ASSUME TypeOK, NEW i \in 1..Len(wire), wire' = Without(i)
  PROVE  /\ Len(wire) \in Nat /\ Len(wire') = Len(wire) - 1
         /\ \A j \in 1..Len(wire') : wire'[j] = IF j < i THEN wire[j] ELSE wire[j + 1]
<1>1. /\ Len(wire') = Len(wire) - 1
      /\ \A j \in 1..(Len(wire) - 1) : wire'[j] = IF j < i THEN wire[j] ELSE wire[j + 1]
  BY WithoutTyped DEF TypeOK, EnvironmentTypeOK
<1> QED
  BY <1>1, LenProperties DEF TypeOK, EnvironmentTypeOK

\* The tracker learns from the head of the wire.
LEMMA ReceiveOrdered ==
  ASSUME TypeOK, OrderedInv, RepliesInOrder, NEW i \in 1..Len(wire), Receive(i), ~closed
  PROVE  /\ i = 1 /\ started
         /\ \A n \in Name :
              \/ services'[n] = NoConn
              \/ services'[n] = services[n] /\ ~IsChange(wire[1], n)
              \/ /\ wire[1].kind = "found" /\ n = wire[1].name
                 /\ services'[n] = wire[1].owner
              \/ IsChange(wire[1], n) /\ services'[n] = wire[1].new
<1>1. i = 1 /\ wire[1] \in Message
  BY WireMessages DEF Receive, MayReceive
<1>2. PICK m : m = wire[1]
  OBVIOUS
<1>3. started
  BY ReceiveLife DEF OrderedInv
<1>4. CASE m.kind = "items" /\ OnItems(m.batch)
  BY <1>1, <1>2, <1>3, <1>4 DEF OnItems, IsChange, ownerVars
<1>5. CASE m.kind = "changed" /\ OnChanged(m.name, m.new)
  <2>1. m.name \in Name /\ m.new \in Owner
    BY <1>1, <1>2, <1>5, MessageKinds
  <2>2. services'[m.name] = m.new /\ \A x \in Name : x # m.name => services'[x] = services[x]
    BY <1>5, <2>1, SetOwnerServices DEF OnChanged
  <2> QED
    BY <1>1, <1>2, <1>3, <1>5, <2>1, <2>2 DEF IsChange
<1>6. CASE m.kind = "listed" /\ OnListed(m.names)
  BY <1>1, <1>2, <1>3, <1>6 DEF OnListed, Forget, IsChange
<1>7. CASE m.kind = "found" /\ OnFound(m.name, m.owner)
  <2>1. m.name \in Name /\ m.owner \in Owner
    BY <1>1, <1>2, <1>7, MessageKinds
  <2>2. \/ UNCHANGED services
        \/ /\ services'[m.name] = m.owner
           /\ \A x \in Name : x # m.name => services'[x] = services[x]
    BY <1>7, <2>1, SetOwnerServices DEF OnFound, ownerVars
  <2> QED
    BY <1>1, <1>2, <1>3, <1>7, <2>1, <2>2 DEF IsChange
<1>8. CASE m.kind = "failed" /\ OnFailed(m.names)
  BY <1>1, <1>2, <1>3, <1>8 DEF OnFailed, IsChange, ownerVars
<1> QED
  BY <1>1, <1>2, <1>4, <1>5, <1>6, <1>7, <1>8 DEF Receive

LEMMA HandlersOrdered ==
  ASSUME TypeOK, OrderedInv, RepliesInOrder, RequestsInv', LifeInv', Handlers
  PROVE  OrderedInv'
<1> USE DEF OrderedInv
<1>1. CASE closed'
  <2>1. ~started' /\ \A n \in Name : services'[n] = NoConn
    BY <1>1 DEF LifeInv, StoppedIsInert
  <2> QED
    BY <2>1
<1>2. CASE Tick
  <2>1. UNCHANGED <<bus, wire, services, started>>
    BY <1>2 DEF Tick, envVars, ownerVars
  <2> QED
    BY <2>1
<1>3. ASSUME NEW names \in Outstanding, Timeout(names) PROVE OrderedInv'
  <2>1. UNCHANGED <<bus, services, started, closed>> /\ started
    BY <1>3, TimeoutLife DEF Timeout, OnFailed, ownerVars
  <2>2. CASE wire' = wire
    BY <2>1, <2>2
  <2>3. ASSUME NEW i \in 1..Len(wire), IsReply(wire[i]), wire' = Without(i)
        PROVE  OrderedInv'
    <3>1. wire[i].kind # "changed" /\ \A n \in Name : ~IsChange(wire[i], n)
      BY <2>3 DEF IsReply, IsChange
    <3>2. Truthful(wire', bus)
      BY <2>1, <2>3, <3>1, WireRemoved, TruthfulRemoved
    <3>3. ASSUME NEW n \in Name, NEW c, HeldAt(wire, bus, 1, n, c)
          PROVE  HeldAt(wire', bus, 1, n, c)
      <4>1. 1 \in 1..(Len(wire) + 1) /\ 1 <= i
        BY <2>3, WireRemoved
      <4> QED
        BY <2>3, <3>1, <3>3, <4>1, WireRemoved, HeldRemoved
    <3> QED
      BY <2>1, <3>2, <3>3
  <2> QED
    BY <1>3, <2>2, <2>3, LateAnswer
<1>4. ASSUME NEW i \in 1..Len(wire), Receive(i), ~closed' PROVE OrderedInv'
  <2>1. UNCHANGED <<bus, started, closed>> /\ wire' = Without(i)
    BY <1>4 DEF Receive
  <2>2. i = 1 /\ started
    BY <1>4, <2>1, ReceiveOrdered
  <2>3. /\ Len(wire) \in Nat /\ Len(wire') = Len(wire) - 1 /\ 1 \in 1..Len(wire)
        /\ \A j \in 1..Len(wire') : wire'[j] = IF j < 1 THEN wire[j] ELSE wire[j + 1]
    BY <2>1, <2>2, WireRemoved
  <2>4. Truthful(wire, bus) /\ Truthful(wire', bus)
    BY <2>2, <2>3, TruthfulRemoved
  <2>5. ASSUME NEW n \in Name, services'[n] # NoConn
        PROVE  HeldAt(wire', bus, 1, n, services'[n])
    <3>1. PICK one \in 1..(Len(wire) + 1), two \in 1..(Len(wire) + 1) : one = 1 /\ two = 2
      BY <2>3
    <3>2. CASE services'[n] = services[n] /\ ~IsChange(wire[1], n)
      <4>1. HeldAt(wire, bus, one, n, services'[n]) /\ one <= 1
        BY <2>5, <3>1, <3>2
      <4>2. one <= 1 /\ ~IsChange(wire[1], n) => HeldAt(wire', bus, one, n, services'[n])
        BY <2>3, <4>1, HeldRemoved
      <4> QED
        BY <3>1, <3>2, <4>1, <4>2
    <3>3. CASE HeldAt(wire, bus, 1 + 1, n, services'[n])
      <4>1. HeldAt(wire, bus, two, n, services'[n]) /\ 1 < two /\ two - 1 = 1
        BY <3>1, <3>3
      <4>2. 1 < two => HeldAt(wire', bus, two - 1, n, services'[n])
        BY <2>3, <4>1, HeldRemoved
      <4> QED
        BY <4>1, <4>2
    <3>4. \/ services'[n] = services[n] /\ ~IsChange(wire[1], n)
          \/ HeldAt(wire, bus, 1 + 1, n, services'[n])
      BY <1>4, <2>1, <2>2, <2>3, <2>4, <2>5, ReceiveOrdered DEF Truthful, IsChange
    <3> QED
      BY <3>2, <3>3, <3>4
  <2> QED
    BY <2>1, <2>4, <2>5
<1> QED
  BY <1>1, <1>2, <1>3, <1>4 DEF Handlers

\* A message is sent: a change, or one that tells what is so now.
LEMMA AppendOrdered ==
  ASSUME TypeOK, OrderedInv, RequestsInv', LifeInv', UNCHANGED <<services, started>>,
         NEW m \in Message, wire' = Append(wire, m),
         \A n \in Name : IF IsChange(m, n) THEN m.old = bus[n] ELSE bus'[n] = bus[n],
         m.kind = "found" => m.owner = bus'[m.name],
         m.kind = "changed" => m.new = bus'[m.name]
  PROVE  OrderedInv'
<1>1. /\ Len(wire) \in Nat /\ Len(wire') = Len(wire) + 1
      /\ \A j \in 1..Len(wire) : wire'[j] = wire[j]
      /\ wire'[Len(wire) + 1] = m
  BY Appended DEF TypeOK, EnvironmentTypeOK
<1>2. \A j \in 1..Len(wire) : wire[j].kind \in {"found", "changed"} => wire[j].name \in Name
  BY WireMessages, MessageKinds
<1>3. ASSUME Truthful(wire, bus) PROVE Truthful(wire', bus')
  <2>1. PICK w, v, h, g : w = wire /\ v = wire' /\ h = bus /\ g = bus'
    OBVIOUS
  <2>2. /\ Len(w) \in Nat /\ Len(v) = Len(w) + 1
        /\ \A j \in 1..Len(w) : v[j] = w[j]
        /\ v[Len(w) + 1] = m
        /\ \A j \in 1..Len(w) : w[j].kind \in {"found", "changed"} => w[j].name \in Name
        /\ \A n \in Name : IF IsChange(m, n) THEN m.old = h[n] ELSE g[n] = h[n]
        /\ m.kind = "found" => m.owner = g[m.name]
        /\ m.kind = "changed" => m.new = g[m.name]
        /\ Truthful(w, h)
    BY <1>1, <1>2, <1>3, <2>1
  <2>3. Truthful(v, g)
    BY <2>2, TruthfulAppended
  <2> QED
    BY <2>1, <2>3
<1>4. ASSUME NEW n \in Name, NEW c, HeldAt(wire, bus, 1, n, c)
      PROVE  HeldAt(wire', bus', 1, n, c)
  <2>1. 1 \in 1..(Len(wire) + 1)
    BY <1>1
  <2> QED
    BY <1>1, <1>4, <2>1, HeldAppended
<1> QED
  BY <1>3, <1>4 DEF OrderedInv

LEMMA EnvironmentOrdered ==
  ASSUME TypeOK, OrderedInv, RequestsInv', LifeInv', Environment
  PROVE  OrderedInv'
<1>1. ASSUME NEW n \in Name, NEW c \in Owner, Rename(n, c) PROVE OrderedInv'
  <2> DEFINE m == [kind |-> "changed", name |-> n, old |-> bus[n], new |-> c]
  <2>1. m \in Message /\ m.kind = "changed" /\ m.name = n /\ m.new = c /\ m.old = bus[n]
    BY DEF Message, TypeOK, EnvironmentTypeOK
  <2>2. /\ UNCHANGED <<services, started>>
        /\ bus'[n] = c /\ \A x \in Name : x # n => bus'[x] = bus[x]
        /\ wire' = IF started THEN Append(wire, m) ELSE wire
    BY <1>1 DEF Rename, ownerVars, TypeOK, EnvironmentTypeOK
  <2> HIDE DEF m
  <2>3. CASE started
    <3>1. \A x \in Name : IF IsChange(m, x) THEN m.old = bus[x] ELSE bus'[x] = bus[x]
      BY <2>1, <2>2 DEF IsChange
    <3> QED
      BY <2>1, <2>2, <2>3, <3>1, AppendOrdered
  <2>4. CASE ~started
    <3>1. \A x \in Name : services'[x] = NoConn
      BY <2>2, <2>4 DEF OrderedInv, LifeInv, StoppedIsInert, Untouched
    <3> QED
      BY <2>2, <2>4, <3>1 DEF OrderedInv
  <2> QED
    BY <2>3, <2>4
<1>2. ASSUME NEW c \in Conn, NEW i \in Iface, NEW content \in Contents, Emit(c, i, content)
      PROVE  OrderedInv'
  <2> DEFINE m == [kind |-> "items", batch |->
                    [id |-> emitted + 1, owner |-> c, iface |-> i, changed |-> content]]
  <2>1. m \in Message /\ m.kind = "items"
    BY DEF Message, Batch, TypeOK, EnvironmentTypeOK
  <2>2. UNCHANGED <<services, started, bus>> /\ wire' = Append(wire, m)
    BY <1>2 DEF Emit, ownerVars
  <2> HIDE DEF m
  <2> QED
    BY <2>1, <2>2, AppendOrdered DEF IsChange
<1>3. ASSUME NEW names \in Outstanding, Answer(names) PROVE OrderedInv'
  <2> DEFINE m == Reply(names)
  <2>1. m \in Message /\ m.kind # "changed" /\ (m.kind = "found" => m.owner = bus[m.name])
    <3>1. names \in SUBSET Name
      BY OutstandingAreNames
    <3>2. names # {} => Least(names) \in Name
      BY <3>1, NamesAreOrdered, LeastProperties
    <3> QED
      BY <3>1, <3>2 DEF Reply, Message, TypeOK, EnvironmentTypeOK
  <2>2. UNCHANGED <<services, started, bus>> /\ wire' = Append(wire, m)
    BY <1>3 DEF Answer, ownerVars
  <2> HIDE DEF m
  <2> QED
    BY <2>1, <2>2, AppendOrdered DEF IsChange
<1>4. CASE Advance
  <2>1. UNCHANGED <<services, started, bus, wire>>
    BY <1>4 DEF Advance, ownerVars, envVars
  <2> QED
    BY <2>1 DEF OrderedInv
<1> QED
  BY <1>1, <1>2, <1>3, <1>4 DEF Environment

LEMMA ListenerOrdered ==
  ASSUME TypeOK, OrderedInv, RequestsInv', LifeInv', Listener
  PROVE  OrderedInv'
<1>1. CASE Stop
  <2>1. ~started' /\ \A n \in Name : services'[n] = NoConn
    BY <1>1 DEF Stop
  <2> QED
    BY <2>1 DEF OrderedInv
<1>2. CASE SubscribeGlobal \/ \E k \in SelectKeys : Subscribe(k)
  <2>1. closed' = closed /\ UNCHANGED <<services, bus, wire>>
    BY <1>2, SubscribeLife DEF OrderedInv, ownerVars, envVars
  <2>2. CASE ~started /\ started'
    <3>1. Len(wire') = 0
      BY <2>1, <2>2 DEF OrderedInv, LifeInv, Untouched
    <3>2. Truthful(wire', bus')
      BY <3>1 DEF Truthful
    <3> QED
      BY <2>1, <3>2 DEF OrderedInv
  <2> QED
    BY <2>1, <2>2 DEF OrderedInv
<1> QED
  BY <1>1, <1>2 DEF Listener

LEMMA OrderedStep ==
  ASSUME TypeOK, OrderedInv, RepliesInOrder, [Next]_vars
  PROVE  OrderedInv'
<1>1. RequestsInv' /\ LifeInv'
  BY RequestsLifeStep DEF OrderedInv, RequestsLife
<1>2. CASE UNCHANGED vars
  <2>1. UNCHANGED <<services, started, bus, wire>>
    BY <1>2 DEF vars, trackerVars, ownerVars, envVars
  <2> QED
    BY <1>1, <2>1 DEF OrderedInv
<1> QED
  BY <1>1, <1>2, HandlersOrdered, EnvironmentOrdered, ListenerOrdered DEF Next

\* When GLib dispatches replies in their place among the signals, a name that
\* the tracker attributes to a connection was held by it when the daemon sent
\* what has been read so far, whatever the changes, lookups, failures and retries.
THEOREM BelievedIsTrueHolds == ASSUME RepliesInOrder PROVE Spec => []BelievedIsTrue
<1>1. Init => TypeOK /\ OrderedInv
  <2>1. Init => ~started /\ \A n \in Name : services[n] = NoConn
    BY DEF Init
  <2> QED
    BY <2>1, InitTyped, RequestsLifeInit DEF OrderedInv, RequestsLife
<1>2. TypeOK /\ OrderedInv /\ [Next]_vars => (TypeOK /\ OrderedInv)'
  BY StepTyped, OrderedStep
<1>3. TypeOK /\ OrderedInv => BelievedIsTrue
  BY HeldAtHead DEF OrderedInv, BelievedIsTrue
<1> QED
  BY <1>1, <1>2, <1>3, PTL DEF Spec
-----------------------------------------------------------------------------
(* Without late subscriptions nothing waits for a name that is known.       *)

LEMMA SelectsNothing ==
  ASSUME NEW names \in SUBSET Name, NEW i
  PROVE  SelectService(names, i) = NoName <=> Eligible(names, i) = {}
<1>1. Eligible(names, i) \in SUBSET Nat /\ Eligible(names, i) \subseteq Name
  BY NamesAreOrdered DEF Eligible
<1>2. Eligible(names, i) # {} => Least(Eligible(names, i)) \in Name
  BY <1>1, LeastProperties
<1> QED
  BY <1>2, NamesAreOrdered DEF SelectService

\* Fewer names have fewer eligible ones.
LEMMA SelectsLess ==
  ASSUME NEW S \in SUBSET Name, NEW T \in SUBSET S, NEW i, SelectService(S, i) = NoName
  PROVE  SelectService(T, i) = NoName
<1>1. Eligible(S, i) = {} /\ T \in SUBSET Name
  BY SelectsNothing
<1>2. Eligible(T, i) = {}
  BY <1>1 DEF Eligible
<1> QED
  BY <1>1, <1>2, SelectsNothing

\* What waits stays waiting as long as no sender gets a name.
LEMMA WaitingStays ==
  ASSUME TypeOK, NothingWaitsForAKnownName, UNCHANGED subscriptionVars,
         \A c \in Conn : owners'[c] \subseteq owners[c],
         \A b \in pending' : \E d \in pending : d.owner = b.owner /\ d.iface = b.iface
  PROVE  NothingWaitsForAKnownName'
<1>1. ASSUME NEW b \in pending'
      PROVE  SelectService(owners'[b.owner], b.iface) = NoName
  <2>1. PICK d \in pending : d.owner = b.owner /\ d.iface = b.iface
    OBVIOUS
  <2>2. d.owner \in Conn /\ owners[d.owner] \in SUBSET Name
    BY DEF TypeOK, QueueTypeOK, Queued, OwnersTypeOK
  <2>3. SelectService(owners[d.owner], d.iface) = NoName
    BY DEF NothingWaitsForAKnownName
  <2>4. owners'[d.owner] \in SUBSET owners[d.owner]
    BY <2>2
  <2> QED
    BY <2>1, <2>2, <2>3, <2>4, SelectsLess
<1>2. ASSUME NEW b \in pending'
      PROVE  SelectService(owners[b.owner], b.iface)' = SelectService(owners'[b.owner], b.iface)
  BY DEF SelectService, Eligible, Global, subscriptionVars
<1> QED
  BY <1>1, <1>2 DEF NothingWaitsForAKnownName

\* A sender that gets a name has what waits for it replayed.
LEMMA SetOwnerWaits ==
  ASSUME TypeOK, NothingWaitsForAKnownName, UNCHANGED subscriptionVars,
         NEW n \in Name, NEW c \in Owner, SetOwner(n, c)
  PROVE  NothingWaitsForAKnownName'
<1>1. /\ \A x \in Conn : x # c => owners'[x] \subseteq owners[x]
      /\ c \in Conn => owners'[c] = owners[c] \cup {n}
  BY DEF SetOwner, Reassign, TypeOK, OwnersTypeOK
<1>2. CASE c = NoConn
  <2>1. UNCHANGED pending
    BY <1>2 DEF SetOwner, queueVars
  <2> QED
    BY <1>1, <1>2, <2>1, NoConnIsNoConnection, WaitingStays
<1>3. CASE c # NoConn
  <2>1. pending' = {b \in Fresh : b \notin Ready(c, owners[c] \cup {n})} /\ c \in Conn
    BY <1>3 DEF SetOwner, KeepOnly, Remaining, Owner
  <2>2. ASSUME NEW b \in pending'
        PROVE  SelectService(owners'[b.owner], b.iface) = NoName
    <3>1. b \in Fresh /\ b \in pending /\ b \notin Ready(c, owners[c] \cup {n})
      BY <2>1 DEF Fresh
    <3>2. b.owner \in Conn /\ owners[b.owner] \in SUBSET Name
      BY <3>1 DEF TypeOK, QueueTypeOK, Queued, OwnersTypeOK
    <3>3. CASE b.owner = c
      BY <1>1, <2>1, <3>1, <3>3 DEF Ready
    <3>4. CASE b.owner # c
      <4>1. SelectService(owners[b.owner], b.iface) = NoName
        BY <3>1 DEF NothingWaitsForAKnownName
      <4>2. owners'[b.owner] \in SUBSET owners[b.owner]
        BY <1>1, <3>2, <3>4
      <4> QED
        BY <3>2, <4>1, <4>2, SelectsLess
    <3> QED
      BY <3>3, <3>4
  <2>3. ASSUME NEW b \in pending'
        PROVE  SelectService(owners[b.owner], b.iface)' = SelectService(owners'[b.owner], b.iface)
    BY DEF SelectService, Eligible, Global, subscriptionVars
  <2> QED
    BY <2>2, <2>3 DEF NothingWaitsForAKnownName
<1> QED
  BY <1>2, <1>3

\* A batch that is queued has a sender without an eligible name.
LEMMA OnItemsWaits ==
  ASSUME TypeOK, NothingWaitsForAKnownName, UNCHANGED subscriptionVars,
         NEW b \in Batch, OnItems(b)
  PROVE  NothingWaitsForAKnownName'
<1>1. UNCHANGED owners
  BY DEF OnItems, ownerVars
<1>2. CASE UNCHANGED queueVars
  BY <1>1, <1>2, WaitingStays DEF queueVars
<1>3. CASE SelectService(owners[b.owner], b.iface) = NoName /\ Enqueue(b)
  <2>1. Fresh \subseteq pending /\ Evict(Fresh, Size(b)) \subseteq pending
    BY DEF Fresh, Evict, Younger
  <2>2. ASSUME NEW x \in pending'
        PROVE  x \in pending \/ (x.owner = b.owner /\ x.iface = b.iface)
    <3>1. CASE Size(b) > MaxPendingItems
      BY <1>3, <2>1, <2>2, <3>1 DEF Enqueue, KeepOnly
    <3>2. CASE ~(Size(b) > MaxPendingItems)
      BY <1>3, <2>1, <2>2, <3>2 DEF Enqueue
    <3> QED
      BY <3>1, <3>2
  <2>3. ASSUME NEW x \in pending' PROVE SelectService(owners[x.owner], x.iface) = NoName
    BY <1>3, <2>2 DEF NothingWaitsForAKnownName
  <2>4. ASSUME NEW x \in pending'
        PROVE  SelectService(owners[x.owner], x.iface)' = SelectService(owners[x.owner], x.iface)
    BY <1>1 DEF SelectService, Eligible, Global, subscriptionVars
  <2> QED
    BY <2>3, <2>4 DEF NothingWaitsForAKnownName
<1> QED
  BY <1>2, <1>3 DEF OnItems

LEMMA HandlersWait ==
  ASSUME TypeOK, NothingWaitsForAKnownName, Handlers
  PROVE  NothingWaitsForAKnownName'
<1>1. CASE Tick
  <2>1. pending' \subseteq pending /\ UNCHANGED <<owners, subscriptionVars>>
    BY <1>1 DEF Tick, KeepOnly, Fresh, ownerVars
  <2> QED
    BY <2>1, WaitingStays
<1>2. ASSUME NEW names \in Outstanding, Timeout(names) PROVE NothingWaitsForAKnownName'
  <2>1. UNCHANGED <<pending, owners, subscriptionVars>>
    BY <1>2 DEF Timeout, OnFailed, ownerVars, queueVars
  <2> QED
    BY <2>1, WaitingStays
<1>3. ASSUME NEW i \in 1..Len(wire), Receive(i) PROVE NothingWaitsForAKnownName'
  <2>0. PICK m \in Message : m = wire[i]
    BY WireMessages
  <2>1. UNCHANGED subscriptionVars
    BY <1>3 DEF Receive
  <2>2. CASE UNCHANGED <<pending, owners>>
    BY <2>1, <2>2, WaitingStays
  <2>3. CASE m.kind = "items" /\ OnItems(m.batch)
    BY <2>1, <2>3, MessageKinds, OnItemsWaits
  <2>4. CASE m.kind = "changed" /\ OnChanged(m.name, m.new)
    BY <2>1, <2>2, <2>4, MessageKinds, SetOwnerWaits DEF OnChanged, ownerVars, queueVars
  <2>5. CASE m.kind = "listed" /\ OnListed(m.names)
    <3>1. UNCHANGED pending /\ \A c \in Conn : owners'[c] \subseteq owners[c]
      BY <2>5 DEF OnListed, Forget, queueVars
    <3> QED
      BY <2>1, <3>1, WaitingStays
  <2>6. CASE m.kind = "found" /\ OnFound(m.name, m.owner)
    BY <2>1, <2>2, <2>6, MessageKinds, SetOwnerWaits DEF OnFound, ownerVars, queueVars
  <2>7. CASE m.kind = "failed" /\ OnFailed(m.names)
    BY <2>2, <2>7 DEF OnFailed, ownerVars, queueVars
  <2>8. CASE IgnoreReply
    BY <2>2, <2>8 DEF IgnoreReply, ownerVars, queueVars
  <2> QED
    BY <1>3, <2>0, <2>3, <2>4, <2>5, <2>6, <2>7, <2>8 DEF Receive
<1> QED
  BY <1>1, <1>2, <1>3 DEF Handlers

\* The subscriptions change only before the first batch, when nothing waits.
LEMMA WaitingStep ==
  ASSUME TypeOK, IdsBounded, NothingWaitsForAKnownName, ~SubscribeLate, [Next]_vars
  PROVE  NothingWaitsForAKnownName'
<1>1. CASE SubscribeGlobal \/ \E k \in SelectKeys : Subscribe(k)
  <2>1. emitted = 0 /\ UNCHANGED pending
    BY <1>1 DEF SubscribeGlobal, Subscribe, MaySubscribe, queueVars
  <2>2. pending' = {}
    BY <2>1 DEF IdsBounded, TypeOK, QueueTypeOK, Queued
  <2> QED
    BY <2>2 DEF NothingWaitsForAKnownName
<1>2. CASE Stop
  BY <1>2 DEF Stop, NothingWaitsForAKnownName
<1>3. CASE Environment
  <2>1. UNCHANGED <<owners, subscriptionVars>>
    BY <1>3 DEF Environment, Rename, Emit, Answer, Advance, ownerVars
  <2>2. \A b \in pending' : \E d \in pending : d.owner = b.owner /\ d.iface = b.iface
    <3>1. CASE UNCHANGED pending
      BY <3>1
    <3>2. CASE Advance
      BY <3>2 DEF Advance, TypeOK, QueueTypeOK, Queued
    <3> QED
      BY <1>3, <3>1, <3>2 DEF Environment, Rename, Emit, Answer, queueVars
  <2> QED
    BY <2>1, <2>2, WaitingStays
<1>4. CASE UNCHANGED vars
  BY <1>4, WaitingStays DEF vars, trackerVars, ownerVars, queueVars
<1> QED
  BY <1>1, <1>2, <1>3, <1>4, HandlersWait DEF Next, Listener

\* With the subscriptions made before the first batch, no batch waits for a
\* sender that has an eligible name: whatever resolves the sender replays it.
THEOREM NothingWaitsHolds == ASSUME ~SubscribeLate PROVE Spec => []NothingWaitsForAKnownName
<1>1. Init => TypeOK /\ IdsBounded /\ NothingWaitsForAKnownName
  BY InitTyped, InitBounded DEF Init, NothingWaitsForAKnownName
<1>2. TypeOK /\ IdsBounded /\ NothingWaitsForAKnownName /\ [Next]_vars
        => (TypeOK /\ IdsBounded /\ NothingWaitsForAKnownName)'
  BY StepTyped, StepBounded, WaitingStep
<1> QED
  BY <1>1, <1>2, PTL DEF Spec
-----------------------------------------------------------------------------
(* Every batch is in one place, and the queue keeps the order of arrival.   *)

LEMMA PlacedApart == PlacesInv => OnePlaceEach
<1> SUFFICES ASSUME PlacesInv PROVE OnePlaceEach
  OBVIOUS
<1>1. \A b, d \in pending : (b.id < d.id => b.age >= d.age) /\ (b.id = d.id => b = d)
  BY DEF PlacesInv, Placed
<1>2. Delivered(calls) \cap InQueue = {}
  BY DEF PlacesInv, Placed, Delivered, InQueue
<1>3. \A i \in InWire : \A j \in InQueue \cup Delivered(calls) : j < i
  BY DEF PlacesInv, Placed, Delivered, InQueue, InWire
<1> QED
  BY <1>1, <1>2, <1>3 DEF OnePlaceEach

\* What leaves the queue is delivered or gone.
LEMMA PlacedLeaves ==
  ASSUME NEW P, NEW D, NEW w, Placed(P, D, w), NEW Q \in SUBSET P, NEW E,
         \A e \in E : \E x \in P : x \notin Q /\ x.id = e.id
  PROVE  Placed(Q, E, w)
<1>1. \A b \in Q : \A d \in E : b.id # d.id
  BY DEF Placed
<1>2. ASSUME NEW i \in 1..Len(w), w[i].kind = "items", NEW x \in Q \cup E
      PROVE  x.id < w[i].batch.id
  <2>1. PICK y \in P : y.id = x.id
    OBVIOUS
  <2> QED
    BY <1>2, <2>1 DEF Placed
<1> QED
  BY <1>1, <1>2 DEF Placed

\* A message is taken from the wire.
LEMMA PlacedRemoved ==
  ASSUME NEW P, NEW D, NEW w, NEW v, Placed(P, D, w), Len(w) \in Nat, NEW i \in 1..Len(w),
         Len(v) = Len(w) - 1, \A j \in 1..Len(v) : v[j] = IF j < i THEN w[j] ELSE w[j + 1]
  PROVE  Placed(P, D, v)
<1>1. \A j \in 1..Len(v) : Up(i, j) \in 1..Len(w) /\ v[j] = w[Up(i, j)]
  BY DEF Up
<1>2. \A j, k \in 1..Len(v) : j < k => Up(i, j) < Up(i, k)
  BY DEF Up
<1> HIDE DEF Up
<1>3. ASSUME NEW j \in 1..Len(v), v[j].kind = "items", NEW x \in P \cup D
      PROVE  x.id < v[j].batch.id
  BY <1>1, <1>3 DEF Placed
<1>4. ASSUME NEW j \in 1..Len(v), NEW k \in 1..Len(v), j < k,
             v[j].kind = "items", v[k].kind = "items"
      PROVE  v[j].batch.id < v[k].batch.id
  <2>1. PICK a \in 1..Len(w), b \in 1..Len(w) : a < b /\ v[j] = w[a] /\ v[k] = w[b]
    BY <1>1, <1>2, <1>4
  <2> QED
    BY <1>4, <2>1 DEF Placed
<1> QED
  BY <1>3, <1>4 DEF Placed

\* The first batch of the wire, with number k, is delivered or dropped, or it is
\* queued as the batch new behind what is left of the queue.
LEMMA PlacedArrives ==
  ASSUME NEW P, NEW D, NEW w, NEW v, NEW Q, NEW E, NEW new, NEW k \in Nat,
         NEW i \in 1..Len(w), Placed(P, D, w), Len(w) \in Nat,
         Len(v) = Len(w) - 1, \A j \in 1..Len(v) : v[j] = IF j < i THEN w[j] ELSE w[j + 1],
         w[i].kind = "items", \A j \in 1..(i - 1) : w[j].kind # "items",
         w[i].batch.id = k, \A x \in P : x.id \in Nat /\ x.age \in Nat,
         new.id = k, new.age = 0,
         \/ Q \subseteq P /\ \A e \in E : e.id = k
         \/ E = {} /\ \A x \in Q : x \in P \/ x = new
  PROVE  Placed(Q, E, v)
<1>1. Placed(P, {}, w)
  BY PlacedLeaves
<1>2. Placed(P, {}, v)
  BY <1>1, PlacedRemoved
<1>3. \A x \in P : x.id < k /\ x.id # k
  BY DEF Placed
<1>4. ASSUME NEW j \in 1..Len(v), v[j].kind = "items"
      PROVE  k < v[j].batch.id
  <2>1. Up(i, j) \in 1..Len(w) /\ v[j] = w[Up(i, j)] /\ Up(i, j) # i
    BY DEF Up
  <2>2. ~(Up(i, j) < i)
    BY <1>4, <2>1
  <2>3. i < Up(i, j)
    BY <2>1, <2>2
  <2> QED
    BY <1>4, <2>1, <2>3 DEF Placed
<1>5. CASE Q \subseteq P /\ \A e \in E : e.id = k
  BY <1>2, <1>3, <1>4, <1>5 DEF Placed
<1>6. CASE E = {} /\ \A x \in Q : x \in P \/ x = new
  <2>1. \A b, d \in P : (b.id < d.id => b.age >= d.age) /\ (b.id = d.id => b = d)
    BY <1>2 DEF Placed
  <2>2. \A b \in P : b.age >= new.age /\ ~(new.id < b.id) /\ b.id # new.id
    BY <1>3
  <2>3. ~(new.id < new.id)
    OBVIOUS
  <2>4. \A b, d \in Q : (b.id < d.id => b.age >= d.age) /\ (b.id = d.id => b = d)
    BY <1>6, <2>1, <2>2, <2>3
  <2> QED
    BY <1>2, <1>4, <1>6, <2>4 DEF Placed
<1> QED
  BY <1>5, <1>6

\* A message is sent; a batch gets the next number.
LEMMA PlacedAppended ==
  ASSUME NEW P, NEW D, NEW w, NEW v, NEW m, NEW top \in Nat, Placed(P, D, w), Len(w) \in Nat,
         Len(v) = Len(w) + 1, \A j \in 1..Len(w) : v[j] = w[j], v[Len(w) + 1] = m,
         m.kind = "items" => m.batch.id = top + 1,
         \A x \in P \cup D : x.id \in Nat /\ x.id <= top,
         \A j \in 1..Len(w) : w[j].kind = "items" => w[j].batch.id \in Nat /\ w[j].batch.id <= top
  PROVE  Placed(P, D, v)
<1>1. \A j \in 1..Len(v) : (j \in 1..Len(w) /\ v[j] = w[j]) \/ (j = Len(w) + 1 /\ v[j] = m)
  OBVIOUS
<1>2. ASSUME NEW j \in 1..Len(v), v[j].kind = "items", NEW x \in P \cup D
      PROVE  x.id < v[j].batch.id
  <2>1. CASE j \in 1..Len(w)
    BY <1>2, <2>1 DEF Placed
  <2>2. CASE j = Len(w) + 1
    BY <1>2, <2>2
  <2> QED
    BY <1>1, <2>1, <2>2
<1>3. ASSUME NEW j \in 1..Len(v), NEW k \in 1..Len(v), j < k,
             v[j].kind = "items", v[k].kind = "items"
      PROVE  v[j].batch.id < v[k].batch.id
  <2>1. j \in 1..Len(w) /\ v[j] = w[j]
    BY <1>3
  <2>2. CASE k \in 1..Len(w)
    BY <1>3, <2>1, <2>2 DEF Placed
  <2>3. CASE k = Len(w) + 1
    BY <1>3, <2>1, <2>3
  <2> QED
    BY <1>1, <2>2, <2>3
<1> QED
  BY <1>2, <1>3 DEF Placed

LEMMA WirePlaces ==
  ASSUME TypeOK, NEW P, NEW D, Placed(P, D, wire),
         wire' = wire \/ \E i \in 1..Len(wire) : wire' = Without(i)
  PROVE  Placed(P, D, wire')
<1>1. ASSUME NEW i \in 1..Len(wire), wire' = Without(i) PROVE Placed(P, D, wire')
  BY <1>1, WireRemoved, PlacedRemoved
<1> QED
  BY <1>1

\* Steps that deliver nothing and queue nothing.
LEMMA PlacesShrink ==
  ASSUME TypeOK, PlacesInv, pending' \subseteq pending, calls'.deliver = {},
         wire' = wire \/ \E i \in 1..Len(wire) : wire' = Without(i)
  PROVE  PlacesInv'
<1>1. Placed(pending', {}, wire)
  BY PlacedLeaves DEF PlacesInv
<1>2. Placed(pending', {}, wire')
  BY <1>1, WirePlaces
<1> QED
  BY <1>2 DEF PlacesInv

\* What is replayed leaves the queue.
LEMMA SetOwnerPlaces ==
  ASSUME TypeOK, PlacesInv, NEW n \in Name, NEW c \in Owner, SetOwner(n, c)
  PROVE  Placed(pending', calls'.deliver, wire)
<1>1. CASE c = NoConn
  <2>1. calls'.deliver = {} /\ pending' = pending
    BY <1>1 DEF SetOwner, queueVars
  <2> QED
    BY <2>1, PlacedLeaves DEF PlacesInv
<1>2. CASE c # NoConn
  <2> DEFINE names == owners[c] \cup {n}
  <2>1. calls' = [invalidate |-> IF Lost(n, c) THEN {n} ELSE {},
                  deliver |-> {AsDelivery(b, SelectService(names, b.iface))
                                 : b \in Ready(c, names)}]
        /\ pending' = Remaining(c, names)
    BY <1>2 DEF SetOwner, KeepOnly
  <2>2. calls'.deliver = {AsDelivery(b, SelectService(names, b.iface)) : b \in Ready(c, names)}
    BY <2>1, Zenon
  <2>3. /\ pending' \in SUBSET pending
        /\ \A b \in Ready(c, names) : b \in pending /\ b \notin pending'
    BY <2>1 DEF Remaining, Ready, Fresh
  <2>4. ASSUME NEW e \in calls'.deliver
        PROVE  \E x \in pending : x \notin pending' /\ x.id = e.id
    <3>1. PICK b \in Ready(c, names) : e = AsDelivery(b, SelectService(names, b.iface))
      BY <2>2
    <3>2. e.id = b.id
      BY <3>1 DEF AsDelivery
    <3> QED
      BY <2>3, <3>2
  <2> QED
    BY <2>3, <2>4, PlacedLeaves DEF PlacesInv
<1> QED
  BY <1>1, <1>2

\* The oldest batch of the wire arrives.
LEMMA OnItemsPlaces ==
  ASSUME TypeOK, PlacesInv, NEW i \in 1..Len(wire), wire[i].kind = "items",
         MayReceive(i), wire' = Without(i), OnItems(wire[i].batch)
  PROVE  PlacesInv'
<1>1. PICK b \in Batch : b = wire[i].batch
  BY WireMessages, MessageKinds
<1>2. \A j \in 1..(i - 1) : wire[j].kind # "items"
  <2>1. i = 1 \/ \A j \in 1..(i - 1) : IsReply(wire[j])
    BY DEF MayReceive, IsReply
  <2> QED
    BY <2>1 DEF IsReply
<1>3. \A x \in pending : x.id \in Nat /\ x.age \in Nat
  BY LimitsAreNatural DEF TypeOK, QueueTypeOK, Queued
<1>4. PICK new : new = [id |-> b.id, owner |-> b.owner, iface |-> b.iface,
                        changed |-> b.changed, age |-> 0]
  OBVIOUS
<1>5. ASSUME NEW Q, NEW E,
            \/ Q \subseteq pending /\ \A e \in E : e.id = b.id
            \/ E = {} /\ \A x \in Q : x \in pending \/ x = new
     PROVE  Placed(Q, E, wire')
  <2>1. /\ b.id \in Nat /\ wire[i].batch.id = b.id /\ new.id = b.id /\ new.age = 0
    BY <1>1, <1>4 DEF Batch
  <2>2. /\ Len(wire) \in Nat /\ Len(wire') = Len(wire) - 1
        /\ \A j \in 1..Len(wire') : wire'[j] = IF j < i THEN wire[j] ELSE wire[j + 1]
    BY WireRemoved
  <2> QED
    BY <1>2, <1>3, <1>5, <2>1, <2>2, PlacedArrives DEF PlacesInv
<1>6. CASE calls' = Quiet /\ UNCHANGED queueVars
  BY <1>6, PlacesShrink DEF Quiet, queueVars
<1>7. CASE /\ UNCHANGED queueVars
           /\ calls' = [invalidate |-> {}, deliver |->
                {AsDelivery(b, SelectService(owners[b.owner], b.iface))}]
  <2>1. PICK d : d = AsDelivery(b, SelectService(owners[b.owner], b.iface))
    OBVIOUS
  <2>2. d.id = b.id /\ calls'.deliver = {d} /\ pending' = pending
    BY <1>7, <2>1 DEF AsDelivery, queueVars
  <2> QED
    BY <1>5, <2>2 DEF PlacesInv
<1>8. CASE calls' = Quiet /\ Enqueue(b)
  <2>1. Fresh \subseteq pending /\ Evict(Fresh, Size(b)) \subseteq pending
    BY DEF Fresh, Evict, Younger
  <2>2. CASE Size(b) > MaxPendingItems
    BY <1>8, <2>1, <2>2, PlacesShrink DEF Enqueue, KeepOnly, Quiet
  <2>3. CASE ~(Size(b) > MaxPendingItems)
    <3>1. pending' = Evict(Fresh, Size(b)) \cup {new} /\ calls'.deliver = {}
      BY <1>4, <1>8, <2>3 DEF Enqueue, Quiet
    <3> QED
      BY <1>5, <2>1, <3>1 DEF PlacesInv
  <2> QED
    BY <2>2, <2>3
<1> QED
  BY <1>1, <1>6, <1>7, <1>8 DEF OnItems

LEMMA ReceivePlaces ==
  ASSUME TypeOK, PlacesInv, NEW i \in 1..Len(wire), Receive(i)
  PROVE  PlacesInv'
<1>0. PICK m \in Message : m = wire[i]
  BY WireMessages
<1>1. wire' = Without(i) /\ MayReceive(i)
  BY DEF Receive
<1>2. CASE pending' \subseteq pending /\ calls' = Quiet
  BY <1>1, <1>2, PlacesShrink DEF Quiet
<1>3. CASE Placed(pending', calls'.deliver, wire)
  BY <1>1, <1>3, WirePlaces DEF PlacesInv
<1>4. CASE m.kind = "items" /\ OnItems(m.batch)
  BY <1>0, <1>1, <1>4, OnItemsPlaces
<1>5. CASE m.kind = "changed" /\ OnChanged(m.name, m.new)
  BY <1>2, <1>3, <1>5, MessageKinds, SetOwnerPlaces DEF OnChanged, queueVars
<1>6. CASE m.kind = "listed" /\ OnListed(m.names)
  <2>1. pending' = pending /\ calls'.deliver = {}
    BY <1>6 DEF OnListed, Forget, queueVars
  <2> QED
    BY <1>1, <2>1, PlacesShrink
<1>7. CASE m.kind = "found" /\ OnFound(m.name, m.owner)
  BY <1>2, <1>3, <1>7, MessageKinds, SetOwnerPlaces DEF OnFound, queueVars
<1>8. CASE m.kind = "failed" /\ OnFailed(m.names)
  BY <1>2, <1>8 DEF OnFailed, queueVars
<1>9. CASE IgnoreReply
  BY <1>2, <1>9 DEF IgnoreReply, queueVars
<1> QED
  BY <1>0, <1>4, <1>5, <1>6, <1>7, <1>8, <1>9 DEF Receive

\* A message is sent, and the handlers are quiet.
LEMMA AppendPlaces ==
  ASSUME TypeOK, PlacesInv, IdsBounded, NEW m \in Message, wire' = Append(wire, m),
         UNCHANGED pending, calls' = Quiet,
         m.kind = "items" => m.batch.id = emitted + 1
  PROVE  PlacesInv'
<1>1. /\ Len(wire) \in Nat /\ Len(wire') = Len(wire) + 1
      /\ \A j \in 1..Len(wire) : wire'[j] = wire[j]
      /\ wire'[Len(wire) + 1] = m
  BY Appended DEF TypeOK, EnvironmentTypeOK
<1>2. Placed(pending, {}, wire)
  BY PlacedLeaves DEF PlacesInv
<1>3. /\ emitted \in Nat
      /\ \A x \in pending : x.id \in Nat /\ x.id <= emitted
  BY DEF TypeOK, EnvironmentTypeOK, QueueTypeOK, Queued, IdsBounded
<1>4. ASSUME NEW j \in 1..Len(wire), wire[j].kind = "items"
      PROVE  wire[j].batch.id \in Nat /\ wire[j].batch.id <= emitted
  <2>1. wire[j].batch \in Batch
    BY <1>4, WireMessages, MessageKinds
  <2> QED
    BY <1>4, <2>1 DEF Batch, IdsBounded
<1>5. Placed(pending, {}, wire')
  BY <1>1, <1>2, <1>3, <1>4, PlacedAppended
<1> QED
  BY <1>5 DEF PlacesInv, Quiet

LEMMA EnvironmentPlaces ==
  ASSUME TypeOK, PlacesInv, IdsBounded, Environment
  PROVE  PlacesInv'
<1>1. ASSUME NEW n \in Name, NEW c \in Owner, Rename(n, c) PROVE PlacesInv'
  <2> DEFINE m == [kind |-> "changed", name |-> n, old |-> bus[n], new |-> c]
  <2>1. m \in Message /\ m.kind # "items"
    BY DEF Message, TypeOK, EnvironmentTypeOK
  <2>2. UNCHANGED pending /\ calls' = Quiet /\ (wire' = wire \/ wire' = Append(wire, m))
    BY <1>1 DEF Rename, queueVars
  <2> HIDE DEF m
  <2> QED
    BY <2>1, <2>2, AppendPlaces, PlacesShrink DEF Quiet
<1>2. ASSUME NEW c \in Conn, NEW i \in Iface, NEW content \in Contents, Emit(c, i, content)
      PROVE  PlacesInv'
  <2> DEFINE m == [kind |-> "items", batch |->
                    [id |-> emitted + 1, owner |-> c, iface |-> i, changed |-> content]]
  <2>1. m \in Message /\ m.batch.id = emitted + 1
    BY DEF Message, Batch, TypeOK, EnvironmentTypeOK
  <2>2. UNCHANGED pending /\ calls' = Quiet /\ wire' = Append(wire, m)
    BY <1>2 DEF Emit, queueVars
  <2> HIDE DEF m
  <2> QED
    BY <2>1, <2>2, AppendPlaces
<1>3. ASSUME NEW names \in Outstanding, Answer(names) PROVE PlacesInv'
  <2>1. Reply(names) \in Message /\ Reply(names).kind # "items"
    <3>1. names \in SUBSET Name
      BY OutstandingAreNames
    <3>2. names # {} => Least(names) \in Name
      BY <3>1, NamesAreOrdered, LeastProperties
    <3> QED
      BY <3>1, <3>2 DEF Reply, Message, TypeOK, EnvironmentTypeOK
  <2>2. UNCHANGED pending /\ calls' = Quiet /\ wire' = Append(wire, Reply(names))
    BY <1>3 DEF Answer, queueVars
  <2> QED
    BY <2>1, <2>2, AppendPlaces
<1>4. ASSUME Advance PROVE PlacesInv'
  <2>1. Placed(pending, {}, wire) /\ wire' = wire /\ calls'.deliver = {}
    BY <1>4, PlacedLeaves DEF PlacesInv, Advance, Quiet, envVars
  <2>2. ASSUME NEW x \in pending'
        PROVE  \E b \in pending : x = [b EXCEPT !.age = Capped(b.age, PendingTTL)]
    BY <1>4 DEF Advance
  <2>3. ASSUME NEW b \in pending
        PROVE  /\ b.age \in Nat /\ b.age <= PendingTTL /\ b.id \in Nat
               /\ [b EXCEPT !.age = Capped(b.age, PendingTTL)].id = b.id
               /\ [b EXCEPT !.age = Capped(b.age, PendingTTL)].age = Capped(b.age, PendingTTL)
    BY LimitsAreNatural DEF TypeOK, QueueTypeOK, Queued
  <2>4. \A s, t \in 0..PendingTTL : s >= t => Capped(s, PendingTTL) >= Capped(t, PendingTTL)
    BY LimitsAreNatural DEF Capped
  <2>5. ASSUME NEW x \in pending', NEW y \in pending'
        PROVE  (x.id < y.id => x.age >= y.age) /\ (x.id = y.id => x = y)
    <3>1. PICK b \in pending, d \in pending :
            /\ x = [b EXCEPT !.age = Capped(b.age, PendingTTL)]
            /\ y = [d EXCEPT !.age = Capped(d.age, PendingTTL)]
      BY <2>2
    <3>2. x.id = b.id /\ y.id = d.id /\ x.age = Capped(b.age, PendingTTL)
          /\ y.age = Capped(d.age, PendingTTL) /\ b.age \in 0..PendingTTL /\ d.age \in 0..PendingTTL
      BY <2>3, <3>1, LimitsAreNatural
    <3>3. (b.id < d.id => b.age >= d.age) /\ (b.id = d.id => b = d)
      BY <2>1 DEF Placed
    <3>4. ASSUME x.id < y.id PROVE x.age >= y.age
      BY <2>4, <3>2, <3>3, <3>4
    <3>5. ASSUME x.id = y.id PROVE x = y
      BY <3>1, <3>2, <3>3, <3>5
    <3> QED
      BY <3>4, <3>5
  <2>6. ASSUME NEW i \in 1..Len(wire), wire[i].kind = "items", NEW x \in pending'
        PROVE  x.id < wire[i].batch.id
    <3>1. PICK b \in pending : x.id = b.id
      BY <2>2, <2>3
    <3> QED
      BY <2>1, <2>6, <3>1 DEF Placed
  <2>7. Placed(pending', {}, wire)
    BY <2>1, <2>5, <2>6 DEF Placed
  <2> QED
    BY <2>1, <2>7 DEF PlacesInv
<1> QED
  BY <1>1, <1>2, <1>3, <1>4 DEF Environment

LEMMA PlacesStep ==
  ASSUME TypeOK, PlacesInv, IdsBounded, [Next]_vars
  PROVE  PlacesInv'
<1>1. CASE pending' \subseteq pending /\ calls' = Quiet /\ wire' = wire
  BY <1>1, PlacesShrink DEF Quiet
<1>2. CASE Listener
  BY <1>1, <1>2 DEF Listener, SubscribeGlobal, Subscribe, Stop, queueVars, envVars
<1>3. CASE Tick
  BY <1>1, <1>3 DEF Tick, KeepOnly, Fresh, envVars
<1>4. ASSUME NEW names \in Outstanding, Timeout(names) PROVE PlacesInv'
  <2>1. pending' = pending /\ calls' = Quiet
    BY <1>4 DEF Timeout, OnFailed, queueVars
  <2> QED
    BY <1>4, <2>1, LateAnswer, PlacesShrink DEF Quiet
<1>5. CASE UNCHANGED vars
  BY <1>5 DEF vars, trackerVars, queueVars, envVars, PlacesInv
<1> QED
  BY <1>2, <1>3, <1>4, <1>5, ReceivePlaces, EnvironmentPlaces DEF Next, Handlers

\* Batches are never duplicated, and the queue stays in the order of arrival,
\* whatever is evicted, replayed, reordered with the replies or late.
THEOREM OnePlaceEachHolds == Spec => []OnePlaceEach
<1>1. Init => TypeOK /\ IdsBounded /\ PlacesInv
  <2>1. Init => PlacesInv
    BY DEF Init, PlacesInv, Placed, Quiet
  <2> QED
    BY <2>1, InitTyped, InitBounded
<1>2. TypeOK /\ IdsBounded /\ PlacesInv /\ [Next]_vars => (TypeOK /\ IdsBounded /\ PlacesInv)'
  BY StepTyped, StepBounded, PlacesStep
<1> QED
  BY <1>1, <1>2, PlacedApart, PTL DEF Spec
-----------------------------------------------------------------------------
(* The count of the queued items, and the limits of the queue.              *)

Accounted == IsFiniteSet(pending) /\ QueueAccounted

LEMMA QueuedSizes ==
  ASSUME TypeOK
  PROVE  /\ \A b \in pending : Size(b) \in Nat
         /\ \A b \in Batch : Size(b) \in Nat
BY PayloadsMapPaths, FS_CardinalityType DEF TypeOK, QueueTypeOK, Queued, Batch, Size

\* KeepOnly counts right.
LEMMA KeptAccounted ==
  ASSUME TypeOK, Accounted, NEW S \in SUBSET pending
  PROVE  /\ IsFiniteSet(S) /\ Cardinality(S) \in Nat /\ Cardinality(S) <= MaxPendingBatches
         /\ Items(S) \in Nat /\ pendingItems - Items(pending \ S) = Items(S)
         /\ Items(S) <= MaxPendingItems
<1>1. /\ IsFiniteSet(S) /\ Cardinality(S) \in Nat /\ Cardinality(S) <= Cardinality(pending)
      /\ IsFiniteSet(pending) /\ Cardinality(pending) \in Nat
      /\ IsFiniteSet(pending \ S)
  BY FS_Subset, FS_CardinalityType DEF Accounted
<1>2. /\ \A b \in S : Size(b) \in Nat
      /\ \A b \in pending \ S : Size(b) \in Nat
      /\ \A b \in pending : Size(b) \in Nat
  BY QueuedSizes
<1>3. Items(S) \in Nat /\ Items(pending \ S) \in Nat /\ Items(pending) \in Nat
  BY <1>1, <1>2, ItemsNumber
<1>4. Items(pending) = Items(S) + Items(pending \ S)
  BY <1>1, <1>2, ItemsLeft
<1> QED
  BY <1>1, <1>3, <1>4, LimitsAreNatural DEF Accounted, QueueAccounted

LEMMA KeepOnlyAccounted ==
  ASSUME TypeOK, Accounted, NEW S \in SUBSET pending, KeepOnly(S)
  PROVE  Accounted'
BY KeptAccounted DEF KeepOnly, Accounted, QueueAccounted

LEMMA Greatest ==
  ASSUME NEW S \in SUBSET Nat, S # {}, NEW top \in Nat, \A s \in S : s <= top
  PROVE  \E m \in S : \A s \in S : s <= m
<1> DEFINE T == {n \in Nat : \E s \in S : n = top - s}
<1>1. \A s \in S : top - s \in T
  OBVIOUS
<1>2. PICK n \in T : \A t \in T : n <= t
  BY <1>1, LeastProperties
<1>3. PICK m \in S : n = top - m
  OBVIOUS
<1>4. ASSUME NEW s \in S PROVE s <= m
  <2>1. n <= top - s
    BY <1>1, <1>2
  <2> QED
    BY <1>3, <2>1
<1> QED
  BY <1>4

\* The loop of submit stops at the first batch whose successors fit.
LEMMA EvictStops ==
  ASSUME TypeOK, IdsBounded, NEW S \in SUBSET pending, NEW k \in Nat
  PROVE  \E cut \in {0} \cup {b.id : b \in S} :
           /\ Evict(S, k) = Younger(S, cut)
           /\ Evict(S, k) = {} \/ Fits(Evict(S, k), k)
           /\ \A i \in {0} \cup {b.id : b \in S} :
                i < cut => Younger(S, i) # {} /\ ~Fits(Younger(S, i), k)
<1> DEFINE cuts == {0} \cup {b.id : b \in S}
           enough == {i \in cuts : Younger(S, i) = {} \/ Fits(Younger(S, i), k)}
<1>1. cuts \in SUBSET Nat /\ emitted \in Nat /\ \A i \in cuts : i <= emitted
  BY DEF TypeOK, QueueTypeOK, Queued, EnvironmentTypeOK, IdsBounded
<1>2. PICK m \in cuts : \A i \in cuts : i <= m
  <2>1. 0 \in cuts
    OBVIOUS
  <2> HIDE DEF cuts
  <2> QED
    BY <1>1, <2>1, Greatest
<1>3. Younger(S, m) = {}
  <2>1. \A b \in S : b.id \in cuts /\ b.id <= m
    BY <1>2
  <2>2. \A b \in S : b.id \in Nat
    BY DEF TypeOK, QueueTypeOK, Queued
  <2>3. m \in Nat
    BY <1>1
  <2> HIDE DEF cuts
  <2> QED
    BY <2>1, <2>2, <2>3 DEF Younger
<1>4. m \in enough /\ enough \in SUBSET Nat
  BY <1>1, <1>3
<1>5. Evict(S, k) = Younger(S, Least(enough))
  BY DEF Evict
<1>6. Least(enough) \in enough /\ \A i \in enough : Least(enough) <= i
  <2> HIDE DEF enough
  <2> QED
    BY <1>4, LeastProperties
<1>7. PICK cut \in enough : cut = Least(enough) /\ \A i \in enough : cut <= i
  BY <1>6
<1>8. cut \in Nat /\ \A i \in cuts : i < cut => i \notin enough
  <2> HIDE DEF cuts, enough
  <2> QED
    BY <1>1, <1>4, <1>7
<1> QED
  BY <1>5, <1>7, <1>8

LEMMA EnqueueAccounted ==
  ASSUME TypeOK, IdsBounded, Accounted, NEW b \in Batch, Enqueue(b),
         \A x \in pending : x.id # b.id
  PROVE  Accounted'
<1>1. Fresh \in SUBSET pending /\ Size(b) \in Nat
  BY QueuedSizes DEF Fresh
<1>2. CASE Size(b) > MaxPendingItems
  BY <1>1, <1>2, KeepOnlyAccounted DEF Enqueue
<1>3. CASE ~(Size(b) > MaxPendingItems)
  <2>1. PICK kept \in SUBSET pending :
          kept = Evict(Fresh, Size(b)) /\ (kept = {} \/ Fits(kept, Size(b)))
    <3>1. Evict(Fresh, Size(b)) \in SUBSET pending
      BY DEF Evict, Younger, Fresh
    <3> QED
      BY <1>1, <3>1, EvictStops
  <2>2. PICK new : new = [id |-> b.id, owner |-> b.owner, iface |-> b.iface,
                          changed |-> b.changed, age |-> 0]
    OBVIOUS
  <2>3. /\ pending' = kept \cup {new}
        /\ pendingItems' = pendingItems - Items(pending \ kept) + Size(b)
    BY <1>3, <2>1, <2>2 DEF Enqueue
  <2>4. /\ IsFiniteSet(kept) /\ Cardinality(kept) \in Nat /\ Items(kept) \in Nat
        /\ pendingItems - Items(pending \ kept) = Items(kept)
    BY KeptAccounted
  <2>5. /\ IsFiniteSet(pending') /\ Cardinality(pending') <= Cardinality(kept) + 1
    <3>1. /\ IsFiniteSet(kept \cup {new})
          /\ Cardinality(kept \cup {new}) =
               IF new \in kept THEN Cardinality(kept) ELSE Cardinality(kept) + 1
      BY <2>4, FS_AddElement
    <3> QED
      BY <2>3, <2>4, <3>1
  <2>6. Size(new) = Size(b)
    BY <2>2 DEF Size
  <2>7. Items(pending') = Items(kept) + Size(b)
    <3>1. \A x \in pending' : Size(x) \in Nat
      BY <1>1, <2>3, <2>6, QueuedSizes
    <3>2. new \notin kept
      BY <2>1, <2>2
    <3>3. pending' \ {new} = kept
      BY <2>3, <3>2
    <3> QED
      BY <2>3, <2>4, <2>5, <2>6, <3>1, <3>3, ItemsOneLess
  <2>8. Cardinality(kept) < MaxPendingBatches /\ Items(kept) + Size(b) <= MaxPendingItems
    <3>1. CASE kept = {}
      <4>1. Cardinality(kept) = 0 /\ Items(kept) = 0
        BY <2>4, <3>1, FS_EmptySet, ItemsPick
      <4> QED
        BY <1>1, <1>3, <4>1, LimitsAreNatural
    <3>2. CASE Fits(kept, Size(b))
      BY <2>4, <3>2 DEF Fits
    <3> QED
      BY <2>1, <3>1, <3>2
  <2>9. Cardinality(pending') \in Nat
    BY <2>5, FS_CardinalityType
  <2> QED
    BY <1>1, <2>3, <2>4, <2>5, <2>7, <2>8, <2>9, LimitsAreNatural DEF Accounted, QueueAccounted
<1> QED
  BY <1>2, <1>3

\* The clock does not change what the queue holds.
Aged(b) == [b EXCEPT !.age = Capped(@, PendingTTL)]

LEMMA AgedItems ==
  ASSUME TypeOK, IsFiniteSet(pending), \A b, d \in pending : b.id = d.id => b = d,
         NEW S \in SUBSET pending
  PROVE  /\ IsFiniteSet({Aged(b) : b \in S})
         /\ Cardinality({Aged(b) : b \in S}) <= Cardinality(S)
         /\ Items({Aged(b) : b \in S}) = Items(S)
<1> DEFINE Image(s) == {Aged(b) : b \in s}
           Good == {n \in Nat : \A s \in SUBSET pending :
                      Cardinality(s) = n => Items(Image(s)) = Items(s)}
<1>0. \A s \in SUBSET pending : IsFiniteSet(s) /\ Cardinality(s) \in Nat
  BY FS_Subset, FS_CardinalityType
<1>1. \A b \in pending : Aged(b).id = b.id /\ Size(Aged(b)) = Size(b) /\ Size(b) \in Nat
  BY QueuedSizes DEF Aged, Size, TypeOK, QueueTypeOK, Queued
<1>2. ASSUME NEW s \in SUBSET pending
      PROVE  IsFiniteSet(Image(s)) /\ Cardinality(Image(s)) <= Cardinality(s)
  <2>1. PICK f : f = [b \in s |-> Aged(b)]
    OBVIOUS
  <2>2. f \in Surjection(s, Image(s))
    BY <2>1 DEF Surjection
  <2> HIDE DEF Image
  <2> QED
    BY <1>0, <2>2, FS_Surjection
<1>3. 0 \in Good
  <2>1. ASSUME NEW s \in SUBSET pending, Cardinality(s) = 0
        PROVE  Items(Image(s)) = Items(s)
    <3>1. s = {} /\ Image(s) = {}
      BY <1>0, <2>1, FS_EmptySet
    <3> QED
      BY <3>1
  <2> QED
    BY <2>1
<1>4. ASSUME NEW n \in Good PROVE n + 1 \in Good
  <2>1. ASSUME NEW s \in SUBSET pending, Cardinality(s) = n + 1
        PROVE  Items(Image(s)) = Items(s)
    <3>1. n \in Nat /\ s # {}
      <4>1. n \in Nat
        OBVIOUS
      <4> QED
        BY <2>1, <4>1, FS_EmptySet
    <3>2. PICK x \in s : TRUE
      BY <3>1
    <3>3. PICK r \in SUBSET pending : r = s \ {x}
      OBVIOUS
    <3>4. Cardinality(r) = n
      <4>1. IsFiniteSet(s) /\ Cardinality(s) \in Nat /\ Cardinality(r) = Cardinality(s) - 1
        BY <1>0, <3>2, <3>3, OneLess, FS_Subset, FS_CardinalityType
      <4> QED
        BY <2>1, <3>1, <4>1
    <3>5. Items(Image(r)) = Items(r)
      BY <3>4
    <3>6. Items(s) = Size(x) + Items(r)
      <4>1. \A b \in s : Size(b) \in Nat
        BY <1>1
      <4> QED
        BY <1>0, <3>3, <4>1, ItemsOneLess
    <3>7. Image(s) \ {Aged(x)} = Image(r) /\ Aged(x) \in Image(s)
      <4>1. \A b \in s : b # x => Aged(b) # Aged(x)
        BY <1>1
      <4> QED
        BY <3>3, <4>1
    <3>8. Items(Image(s)) = Size(Aged(x)) + Items(Image(r))
      <4>1. \A y \in Image(s) : Size(y) \in Nat
        BY <1>1
      <4>2. IsFiniteSet(Image(s))
        BY <1>2
      <4> HIDE DEF Image
      <4> QED
        BY <3>7, <4>1, <4>2, ItemsOneLess
    <3> HIDE DEF Good, Image
    <3> QED
      BY <1>1, <3>5, <3>6, <3>8
  <2> HIDE DEF Image
  <2> QED
    BY <2>1
<1>5. \A n \in Nat : n \in Good
  <2>1. Good \in SUBSET Nat
    OBVIOUS
  <2> HIDE DEF Good
  <2> QED
    BY <1>3, <1>4, <2>1, Numbers
<1> QED
  BY <1>0, <1>2, <1>5

LEMMA AdvanceAccounted ==
  ASSUME TypeOK, PlacesInv, Accounted, Advance
  PROVE  Accounted'
<1>1. \A b, d \in pending : b.id = d.id => b = d
  BY DEF PlacesInv, Placed
<1>2. pending' = {Aged(b) : b \in pending} /\ pendingItems' = pendingItems
  BY DEF Advance, Aged
<1>3. /\ IsFiniteSet(pending') /\ Cardinality(pending') <= Cardinality(pending)
      /\ Items(pending') = Items(pending)
  BY <1>1, <1>2, AgedItems DEF Accounted
<1>4. Cardinality(pending') \in Nat /\ Cardinality(pending) \in Nat
  BY <1>3, FS_CardinalityType DEF Accounted
<1> QED
  BY <1>2, <1>3, <1>4, LimitsAreNatural DEF Accounted, QueueAccounted

LEMMA SetOwnerAccounted ==
  ASSUME TypeOK, Accounted, NEW n \in Name, NEW c \in Owner, SetOwner(n, c)
  PROVE  Accounted'
<1>1. CASE UNCHANGED queueVars
  BY <1>1 DEF queueVars, Accounted, QueueAccounted
<1>2. CASE KeepOnly(Remaining(c, owners[c] \cup {n}))
  <2>1. Remaining(c, owners[c] \cup {n}) \in SUBSET pending
    BY DEF Remaining, Fresh
  <2> QED
    BY <1>2, <2>1, KeepOnlyAccounted
<1> QED
  BY <1>1, <1>2 DEF SetOwner

LEMMA ReceiveAccounted ==
  ASSUME TypeOK, IdsBounded, PlacesInv, Accounted, NEW i \in 1..Len(wire), Receive(i)
  PROVE  Accounted'
<1>0. PICK m \in Message : m = wire[i]
  BY WireMessages
<1>1. CASE UNCHANGED queueVars
  BY <1>1 DEF queueVars, Accounted, QueueAccounted
<1>2. CASE m.kind = "items" /\ OnItems(m.batch)
  <2>1. m.batch \in Batch /\ \A x \in pending : x.id # m.batch.id
    <3>1. m.batch \in Batch /\ \A x \in pending : x.id < m.batch.id
      BY <1>0, <1>2, MessageKinds DEF PlacesInv, Placed
    <3> QED
      BY <3>1 DEF Batch, TypeOK, QueueTypeOK, Queued
  <2>2. CASE Enqueue(m.batch)
    BY <2>1, <2>2, EnqueueAccounted
  <2> QED
    BY <1>1, <1>2, <2>2 DEF OnItems
<1>3. CASE m.kind = "changed" /\ OnChanged(m.name, m.new)
  BY <1>1, <1>3, MessageKinds, SetOwnerAccounted DEF OnChanged
<1>4. CASE m.kind = "found" /\ OnFound(m.name, m.owner)
  BY <1>1, <1>4, MessageKinds, SetOwnerAccounted DEF OnFound
<1>5. CASE OnListed(m.names) \/ OnFailed(m.names) \/ IgnoreReply
  BY <1>1, <1>5 DEF OnListed, OnFailed, IgnoreReply
<1> QED
  BY <1>0, <1>2, <1>3, <1>4, <1>5 DEF Receive

LEMMA AccountedStep ==
  ASSUME TypeOK, IdsBounded, PlacesInv, Accounted, [Next]_vars
  PROVE  Accounted'
<1>1. CASE UNCHANGED queueVars
  BY <1>1 DEF queueVars, Accounted, QueueAccounted
<1>2. CASE Stop
  <2>1. pending' = {} /\ pendingItems' = 0 /\ Items({}) = 0 /\ Cardinality({}) = 0
        /\ IsFiniteSet({})
    BY <1>2, ItemsPick, FS_EmptySet DEF Stop
  <2> QED
    BY <2>1, LimitsAreNatural DEF Accounted, QueueAccounted
<1>3. CASE Tick
  <2>1. Fresh \in SUBSET pending
    BY DEF Fresh
  <2> QED
    BY <1>3, <2>1, KeepOnlyAccounted DEF Tick
<1>4. CASE Environment
  BY <1>1, <1>4, AdvanceAccounted DEF Environment, Rename, Emit, Answer
<1>5. ASSUME NEW names \in Outstanding, Timeout(names) PROVE Accounted'
  BY <1>1, <1>5 DEF Timeout, OnFailed
<1>6. CASE UNCHANGED vars
  BY <1>1, <1>6 DEF vars, trackerVars
<1>7. CASE SubscribeGlobal \/ \E k \in SelectKeys : Subscribe(k)
  BY <1>1, <1>7 DEF SubscribeGlobal, Subscribe
<1> QED
  BY <1>2, <1>3, <1>4, <1>5, <1>6, <1>7, ReceiveAccounted DEF Next, Listener, Handlers

QueueInv == TypeOK /\ IdsBounded /\ PlacesInv /\ Accounted

LEMMA QueueInduction ==
  /\ Init => QueueInv
  /\ QueueInv /\ [Next]_vars => QueueInv'
<1>1. ASSUME Init PROVE QueueInv
  <2>1. PlacesInv
    BY <1>1 DEF Init, PlacesInv, Placed, Quiet
  <2>2. Accounted
    <3>1. pending = {} /\ pendingItems = 0 /\ Items({}) = 0 /\ Cardinality({}) = 0
          /\ IsFiniteSet({})
      BY <1>1, ItemsPick, FS_EmptySet DEF Init
    <3> QED
      BY <3>1, LimitsAreNatural DEF Accounted, QueueAccounted
  <2> QED
    BY <1>1, <2>1, <2>2, InitTyped, InitBounded DEF QueueInv
<1>2. ASSUME QueueInv, [Next]_vars PROVE QueueInv'
  BY <1>2, StepTyped, StepBounded, PlacesStep, AccountedStep DEF QueueInv
<1> QED
  BY <1>1, <1>2

\* pending_items, which four places keep by increments, is what the deque holds,
\* and the deque stays within both of its limits.
THEOREM QueueAccountedHolds == Spec => []QueueAccounted
<1>1. QueueInv => QueueAccounted
  BY DEF QueueInv, Accounted
<1> QED
  BY <1>1, QueueInduction, PTL DEF Spec

\* Why a batch leaves the queue.
Reason(b) ==
  LET rest == {b} \cup Younger(pending, b.id)
  IN  \/ b.id \in Delivered(calls') /\ b.age < PendingTTL
      \/ b.id \notin Delivered(calls') /\ b.age = PendingTTL
      \/ closed'
      \/ \E new \in pending' \ pending :
           \/ Cardinality(rest) >= MaxPendingBatches
           \/ Items(rest) + Size(new) > MaxPendingItems

LEMMA StaleOrFresh ==
  ASSUME TypeOK, NEW b \in pending
  PROVE  b \in Fresh \/ b.age = PendingTTL
BY LimitsAreNatural DEF TypeOK, QueueTypeOK, Queued, Fresh

LEMMA ExpiryLeaves ==
  ASSUME TypeOK, Fresh \subseteq pending', calls'.deliver = {},
         NEW b \in pending, b.id \notin {d.id : d \in pending'}
  PROVE  Reason(b)
<1>1. b \notin Fresh
  OBVIOUS
<1>2. Delivered(calls') = {}
  BY DEF Delivered
<1> QED
  BY <1>1, <1>2, StaleOrFresh DEF Reason

\* What is younger than a fresh batch is fresh.
LEMMA YoungerIsFresh ==
  ASSUME TypeOK, PlacesInv, NEW b \in Fresh
  PROVE  /\ {b} \cup Younger(pending, b.id) \in SUBSET pending
         /\ {b} \cup Younger(pending, b.id) = {x \in Fresh : b.id <= x.id}
<1>1. b \in pending /\ b.age < PendingTTL
  BY DEF Fresh
<1>2. \A x \in pending : /\ x.id \in Nat /\ x.age \in Nat
                         /\ b.id < x.id => b.age >= x.age
                         /\ b.id = x.id => b = x
  BY <1>1, LimitsAreNatural DEF TypeOK, QueueTypeOK, Queued, PlacesInv, Placed
<1>3. \A x \in pending : b.id < x.id => x \in Fresh
  BY <1>1, <1>2, LimitsAreNatural DEF Fresh
<1>4. \A x : x \in Younger(pending, b.id) <=> x \in pending /\ b.id < x.id
  BY <1>1, <1>2 DEF Younger
<1>5. \A x : x \in {b} \cup Younger(pending, b.id) <=> x \in Fresh /\ b.id <= x.id
  BY <1>1, <1>2, <1>3, <1>4 DEF Fresh
<1> QED
  BY <1>1, <1>4, <1>5

LEMMA EvictionLeaves ==
  ASSUME QueueInv, NEW a \in Batch, Enqueue(a), calls' = Quiet, \A x \in pending : x.id # a.id,
         NEW b \in pending, b.id \notin {d.id : d \in pending'}
  PROVE  Reason(b)
<1> USE DEF QueueInv
<1>1. calls'.deliver = {} /\ Delivered(calls') = {}
  BY DEF Quiet, Delivered
<1>2. CASE Size(a) > MaxPendingItems
  BY <1>1, <1>2, ExpiryLeaves DEF Enqueue, KeepOnly
<1>3. CASE b \notin Fresh
  BY <1>1, <1>3, StaleOrFresh DEF Reason
<1>4. CASE ~(Size(a) > MaxPendingItems) /\ b \in Fresh
  <2>0. PICK k \in Nat : k = Size(a)
    BY QueuedSizes
  <2>1. Fresh \in SUBSET pending /\ \A x \in pending : x.id \in Nat /\ x.id > 0
    BY DEF Fresh, TypeOK, QueueTypeOK, Queued
  <2>2. PICK new : new = [id |-> a.id, owner |-> a.owner, iface |-> a.iface,
                          changed |-> a.changed, age |-> 0]
    OBVIOUS
  <2>3. pending' = Evict(Fresh, k) \cup {new} /\ new \notin pending /\ Size(new) = k
    BY <1>4, <2>0, <2>2 DEF Enqueue, Size
  <2> DEFINE cuts == {0} \cup {x.id : x \in Fresh}
  <2>4. PICK cut \in cuts :
          /\ Evict(Fresh, k) = Younger(Fresh, cut)
          /\ \A i \in cuts : i < cut => ~Fits(Younger(Fresh, i), k)
    BY <2>1, EvictStops
  <2>5. cuts \in SUBSET Nat /\ b.id \in cuts /\ 0 \in cuts /\ b.id > 0
    BY <1>4, <2>1
  <2>6. b.id <= cut
    <3>1. b \notin Younger(Fresh, cut)
      BY <2>3, <2>4
    <3>2. cut \in Nat /\ b.id \in Nat
      BY <2>1, <2>4, <2>5
    <3> QED
      BY <1>4, <3>1, <3>2 DEF Younger
  <2>7. PICK i \in cuts : i < b.id /\ \A j \in cuts : j < b.id => j <= i
    <3> DEFINE lower == {j \in cuts : j < b.id}
    <3>1. lower \in SUBSET Nat /\ 0 \in lower /\ b.id \in Nat /\ \A j \in lower : j <= b.id
      BY <2>5
    <3>2. \E m \in lower : \A j \in lower : j <= m
      <4> HIDE DEF lower
      <4> QED
        BY <3>1, Greatest
    <3> QED
      BY <3>2
  <2>8. Younger(Fresh, i) = {x \in Fresh : b.id <= x.id}
    <3>1. \A x \in Fresh : x.id \in cuts /\ x.id \in Nat
      BY <2>1
    <3>2. i \in Nat /\ b.id \in Nat
      BY <2>5, <2>7
    <3> HIDE DEF cuts
    <3>3. \A x \in Fresh : x.id > i <=> b.id <= x.id
      BY <2>7, <3>1, <3>2
    <3> QED
      BY <3>3 DEF Younger
  <2>9. PICK rest \in SUBSET pending :
          rest = {b} \cup Younger(pending, b.id) /\ rest = Younger(Fresh, i)
    BY <1>4, <2>8, YoungerIsFresh
  <2>10. i < cut
    <3>1. cut \in Nat /\ b.id \in Nat /\ i \in Nat
      BY <2>1, <2>4, <2>5, <2>7
    <3> HIDE DEF cuts
    <3> QED
      BY <2>6, <2>7, <3>1
  <2>11. ~Fits(rest, k)
    BY <2>4, <2>9, <2>10
  <2>12. /\ Cardinality(rest) \in Nat /\ Items(rest) \in Nat
         /\ pendingItems - Items(pending \ rest) = Items(rest)
    BY KeptAccounted
  <2>13. Cardinality(rest) >= MaxPendingBatches \/ Items(rest) + Size(new) > MaxPendingItems
    BY <2>3, <2>11, <2>12, LimitsAreNatural DEF Fits
  <2>14. new \in pending' \ pending
    BY <2>3
  <2> HIDE DEF cuts
  <2> QED
    BY <2>9, <2>13, <2>14 DEF Reason
<1> QED
  BY <1>2, <1>3, <1>4

LEMMA ReplayLeaves ==
  ASSUME QueueInv, NEW n \in Name, NEW c \in Owner, SetOwner(n, c),
         NEW b \in pending, b.id \notin {d.id : d \in pending'}
  PROVE  Reason(b)
<1> USE DEF QueueInv
<1>1. c # NoConn
  BY DEF SetOwner, queueVars
<1>2. PICK names : names = owners[c] \cup {n}
  OBVIOUS
<1>3. calls' = [invalidate |-> IF Lost(n, c) THEN {n} ELSE {},
                deliver |-> {AsDelivery(x, SelectService(names, x.iface))
                               : x \in Ready(c, names)}]
      /\ pending' = Remaining(c, names)
  BY <1>1, <1>2 DEF SetOwner, KeepOnly
<1>4. calls'.deliver = {AsDelivery(x, SelectService(names, x.iface)) : x \in Ready(c, names)}
  BY <1>3, Zenon
<1>5. \A x : AsDelivery(x, SelectService(names, x.iface)).id = x.id
  BY DEF AsDelivery
<1>6. \A y : y \in Delivered(calls') <=> \E x \in Ready(c, names) : y = x.id
  BY <1>4, <1>5 DEF Delivered
<1>7. b \notin pending' /\ \A x \in pending : x.id = b.id => x = b
  BY DEF PlacesInv, Placed
<1>8. Ready(c, names) \subseteq Fresh /\ Fresh \subseteq pending
  BY DEF Ready, Fresh
<1>9. CASE b \in Fresh
  <2>1. b \in Ready(c, names) /\ b.age < PendingTTL
    BY <1>3, <1>7, <1>9 DEF Remaining, Fresh
  <2> QED
    BY <1>6, <2>1 DEF Reason
<1>10. CASE b \notin Fresh
  <2>1. b.id \notin Delivered(calls')
    BY <1>6, <1>7, <1>8, <1>10
  <2> QED
    BY <1>10, <2>1, StaleOrFresh DEF Reason
<1> QED
  BY <1>9, <1>10

LEMMA StepLeaves ==
  ASSUME QueueInv, [Next]_vars, NEW b \in pending, b.id \notin {d.id : d \in pending'}
  PROVE  Reason(b)
<1> USE DEF QueueInv
<1>1. ~UNCHANGED pending
  OBVIOUS
<1>2. ~Advance
  <2>1. ASSUME Advance PROVE FALSE
    <3>1. Aged(b) \in pending'
      BY <2>1 DEF Advance, Aged
    <3>2. Aged(b).id = b.id
      BY DEF Aged, TypeOK, QueueTypeOK, Queued
    <3> QED
      BY <3>1, <3>2
  <2> QED
    BY <2>1
<1>3. ~Environment
  BY <1>1, <1>2 DEF Environment, Rename, Emit, Answer, queueVars
<1>4. ~(SubscribeGlobal \/ \E k \in SelectKeys : Subscribe(k)) /\ ~UNCHANGED vars
  BY <1>1 DEF SubscribeGlobal, Subscribe, vars, trackerVars, queueVars
<1>5. CASE Stop
  BY <1>5 DEF Stop, Reason
<1>6. CASE Tick
  BY <1>6, ExpiryLeaves DEF Tick, KeepOnly, Quiet
<1>7. ~\E names \in Outstanding : Timeout(names)
  BY <1>1 DEF Timeout, OnFailed, queueVars
<1>8. ASSUME NEW i \in 1..Len(wire), Receive(i) PROVE Reason(b)
  <2>0. PICK m \in Message : m = wire[i]
    BY WireMessages
  <2>1. CASE m.kind = "items" /\ OnItems(m.batch)
    <3>1. m.batch \in Batch /\ \A x \in pending : x.id < m.batch.id
      BY <2>0, <2>1, MessageKinds DEF PlacesInv, Placed
    <3>2. \A x \in pending : x.id # m.batch.id
      BY <3>1 DEF Batch, TypeOK, QueueTypeOK, Queued
    <3>3. Enqueue(m.batch) /\ calls' = Quiet
      BY <1>1, <2>1 DEF OnItems, queueVars
    <3> QED
      BY <3>1, <3>2, <3>3, EvictionLeaves
  <2>2. CASE m.kind = "changed" /\ OnChanged(m.name, m.new)
    BY <1>1, <2>2, MessageKinds, ReplayLeaves DEF OnChanged, queueVars
  <2>3. CASE m.kind = "found" /\ OnFound(m.name, m.owner)
    BY <1>1, <2>3, MessageKinds, ReplayLeaves DEF OnFound, queueVars
  <2>4. ~OnListed(m.names) /\ ~OnFailed(m.names) /\ ~IgnoreReply
    BY <1>1 DEF OnListed, OnFailed, IgnoreReply, queueVars
  <2> QED
    BY <1>8, <2>0, <2>1, <2>2, <2>3, <2>4 DEF Receive
<1> QED
  BY <1>3, <1>4, <1>5, <1>6, <1>7, <1>8 DEF Next, Listener, Handlers

\* A batch leaves the queue by being published while fresh, by expiring, at
\* stop(), or when it and all the younger ones do not fit beside a new batch: the
\* loop of submit evicts no more than it has to.
THEOREM LeavesForAReasonHolds == Spec => LeavesForAReason
<1>1. QueueInv /\ [Next]_vars =>
        [\A b \in pending : b.id \notin {d.id : d \in pending'} =>
           LET rest == {b} \cup Younger(pending, b.id)
           IN  \/ b.id \in Delivered(calls') /\ b.age < PendingTTL
               \/ b.id \notin Delivered(calls') /\ b.age = PendingTTL
               \/ closed'
               \/ \E new \in pending' \ pending :
                    \/ Cardinality(rest) >= MaxPendingBatches
                    \/ Items(rest) + Size(new) > MaxPendingItems]_vars
  BY StepLeaves DEF Reason
<1> QED
  BY <1>1, QueueInduction, PTL DEF Spec, LeavesForAReason
=============================================================================
