-------------------------- MODULE AlertRelayProofs --------------------------
(* Theorems about the alert relay, for any number of threads, groups,      *)
(* chats and alerts.                                                       *)
EXTENDS AlertRelay, TLAPS, FiniteSetTheorems

Alerts == UNION UNION {Batches[g] : g \in Groups}
Payloads == [group : Groups \cup {NoGroup}, edition : Nat, alerts : SUBSET Alerts]
Stages == {"idle", "posted", "banners", "digest", "answer"}
Refusals == {400, 404, 408, 413}

TypeInv ==
  /\ abandoned \subseteq Handlers /\ online \in BOOLEAN
  /\ current \in [Groups -> Payloads]
  /\ wanted \subseteq Groups
  /\ waiting \in [Groups -> Handlers \cup {NoHandler}]
  /\ stage \in [Handlers -> Stages]
  /\ webhook \in [Handlers -> Payloads]
  /\ todo \in [Handlers -> SUBSET Channels]
  /\ tried \in [Handlers -> SUBSET Channels]
  /\ told \in [Handlers ->
                 SUBSET [source : {a.source : a \in Alerts},
                         status : {a.status : a \in Alerts},
                         rules : SUBSET {a.rule : a \in Alerts}]]
  /\ code \in [Handlers -> {0, 200, 500} \cup Refusals]
  /\ retained \in Payloads

(* What a request has had for effects, by how far its thread is.           *)
Untouched(h) == todo[h] = {} /\ told[h] = {} /\ tried[h] = {}
Announced(h) == Valid(webhook[h]) /\ told[h] = Coalesce(webhook[h].alerts)
Progress(h) ==
  /\ stage[h] \in {"idle", "posted"} => Untouched(h)
  /\ stage[h] = "banners" => Untouched(h) /\ Valid(webhook[h])
  /\ stage[h] = "digest" =>
       Announced(h) /\ (told[h] # {} => todo[h] \cup tried[h] = Channels)
  /\ stage[h] = "answer" =>
       \/ code[h] \in Refusals /\ told[h] = {} /\ tried[h] = {}
       \/ code[h] = 500 /\ Announced(h)
       \/ code[h] = 200 /\ Announced(h) /\ (told[h] # {} => tried[h] = Channels)

(* Of the requests of a group, Grafana waits for the newest: unless it     *)
(* gave up on a request, the group waits for its thread, and no other one  *)
(* that is served, nor the snapshot, is newer.                             *)
Newest(h) ==
  /\ waiting[webhook[h].group] = h
  /\ retained.group = webhook[h].group => retained.edition <= webhook[h].edition
  /\ \A k \in Handlers :
       stage[k] # "idle" /\ webhook[k].group = webhook[h].group
         => webhook[k].edition <= webhook[h].edition
Serves(h) ==
  stage[h] # "idle" =>
    /\ webhook[h].group \in Groups
    /\ webhook[h].edition <= current[webhook[h].group].edition
    /\ h \notin abandoned => Newest(h)
Snapshots ==
  /\ \A g \in Groups : current[g].group = g
  /\ retained.group \in Groups =>
       retained.edition <= current[retained.group].edition

IInv == TypeInv /\ Snapshots /\ \A h \in Handlers : Progress(h) /\ Serves(h)

-----------------------------------------------------------------------------
(* The operators.                                                          *)

\* What the checks of do_POST answer to a request with defects.
LEMMA RefusalIsRefusal ==
  ASSUME NEW defects PROVE Refusal(defects) \in {0} \cup Refusals
<1> DEFINE failing == {i \in DOMAIN Checks : Checks[i].defect \in defects}
<1>1. DOMAIN Checks = 1 .. 6
  BY DEF Checks
<1>2. \A i \in 1 .. 6 : Checks[i].answer \in Refusals
  <2>0. /\ Checks[1].answer = 404 /\ Checks[2].answer = 400
        /\ Checks[3].answer = 400 /\ Checks[4].answer = 413
        /\ Checks[5].answer = 408 /\ Checks[6].answer = 400
    BY DEF Checks
  <2>1. ASSUME NEW i \in 1 .. 6 PROVE Checks[i].answer \in Refusals
    <3>1. i = 1 \/ i = 2 \/ i = 3 \/ i = 4 \/ i = 5 \/ i = 6
      OBVIOUS
    <3> QED
      BY <2>0, <3>1 DEF Refusals
  <2> QED
    BY <2>1
<1>3. CASE failing = {}
  BY <1>3 DEF Refusal
<1>4. CASE failing # {}
  <2> HIDE DEF failing
  <2>1. failing \subseteq 1 .. 6
    BY <1>1 DEF failing
  <2>2. \E i \in failing : \A j \in failing : i <= j
    <3>1. PICK k \in failing : TRUE
      BY <1>4
    <3>2. \/ 1 \in failing \/ 2 \in failing \/ 3 \in failing
          \/ 4 \in failing \/ 5 \in failing \/ 6 \in failing
      <4>1. k = 1 \/ k = 2 \/ k = 3 \/ k = 4 \/ k = 5 \/ k = 6
        BY <2>1
      <4> QED
        BY <4>1
    <3>3. CASE 1 \in failing
      BY <2>1, <3>3
    <3>4. CASE 1 \notin failing /\ 2 \in failing
      BY <2>1, <3>4
    <3>5. CASE 1 \notin failing /\ 2 \notin failing /\ 3 \in failing
      BY <2>1, <3>5
    <3>6. CASE /\ 1 \notin failing /\ 2 \notin failing /\ 3 \notin failing
               /\ 4 \in failing
      BY <2>1, <3>6
    <3>7. CASE /\ 1 \notin failing /\ 2 \notin failing /\ 3 \notin failing
               /\ 4 \notin failing /\ 5 \in failing
      BY <2>1, <3>7
    <3>8. CASE /\ 1 \notin failing /\ 2 \notin failing /\ 3 \notin failing
               /\ 4 \notin failing /\ 5 \notin failing /\ 6 \in failing
      BY <2>1, <3>8
    <3> QED
      BY <3>2, <3>3, <3>4, <3>5, <3>6, <3>7, <3>8
  <2>3. Refusal(defects) =
          Checks[CHOOSE i \in failing : \A j \in failing : i <= j].answer
    BY <1>4 DEF Refusal, failing
  <2> QED
    BY <1>2, <2>1, <2>2, <2>3
<1> QED
  BY <1>3, <1>4

LEMMA CoalesceTyped ==
  ASSUME NEW alerts \in SUBSET Alerts
  PROVE  Coalesce(alerts) \subseteq
           [source : {a.source : a \in Alerts}, status : {a.status : a \in Alerts},
            rules : SUBSET {a.rule : a \in Alerts}]
<1> SUFFICES ASSUME NEW a \in alerts
             PROVE  [source |-> a.source, status |-> a.status,
                     rules |-> {b.rule : b \in Affected(a, alerts)}] \in
           [source : {c.source : c \in Alerts}, status : {c.status : c \in Alerts},
            rules : SUBSET {c.rule : c \in Alerts}]
  BY DEF Coalesce
<1>1. Affected(a, alerts) \subseteq Alerts
  BY DEF Affected
<1> QED
  BY <1>1

\* coalesce_datasource_alerts: every alert is in exactly one notification, a
\* source is in one for each status, and nothing else is announced.
LEMMA CoalesceAnnouncesOnce ==
  ASSUME NEW h \in Handlers, told[h] = Coalesce(webhook[h].alerts)
  PROVE  AnnouncedOnce(h)
<1> DEFINE alerts == webhook[h].alerts
           Note(a) == [source |-> a.source, status |-> a.status,
                       rules |-> {b.rule : b \in Affected(a, alerts)}]
<1>1. told[h] = {Note(a) : a \in alerts}
  BY DEF Coalesce
<1>2. \A a \in alerts : a \in Affected(a, alerts)
  BY DEF Affected
<1>3. \A a \in alerts : \A b \in Affected(a, alerts) :
        b \in alerts /\ b.source = a.source /\ b.status = a.status
  BY DEF Affected
<1>4. ASSUME NEW m \in told[h], NEW n \in told[h], m.source = n.source,
             m.status = n.status,
             m.source # NoSource \/ \E rule : rule \in m.rules /\ rule \in n.rules
      PROVE  m = n
  <2>1. PICK a \in alerts : m = Note(a)
    BY <1>1
  <2>2. PICK b \in alerts : n = Note(b)
    BY <1>1
  <2>3. a.source = b.source /\ a.status = b.status
    BY <1>4, <2>1, <2>2
  <2>4. CASE a.source # NoSource
    <3>1. Affected(a, alerts) = Affected(b, alerts)
      BY <2>3, <2>4 DEF Affected
    <3> QED
      BY <2>1, <2>2, <2>3, <3>1
  <2>5. CASE a.source = NoSource
    <3>1. m.rules = {a.rule} /\ n.rules = {b.rule}
      BY <2>1, <2>2, <2>3, <2>5 DEF Affected
    <3>2. a.rule = b.rule
      BY <1>4, <2>1, <2>5, <3>1
    <3> QED
      BY <2>1, <2>2, <2>3, <3>1, <3>2
  <2> QED
    BY <2>4, <2>5
<1>5. ASSUME NEW a \in alerts
      PROVE  Cardinality({n \in told[h] : /\ a.rule \in n.rules
                                          /\ n.source = a.source
                                          /\ n.status = a.status}) = 1
  <2>1. /\ Note(a) \in told[h] /\ a.rule \in Note(a).rules
        /\ Note(a).source = a.source /\ Note(a).status = a.status
    BY <1>1, <1>2
  <2>2. ASSUME NEW n \in told[h], a.rule \in n.rules, n.source = a.source,
               n.status = a.status
        PROVE  n = Note(a)
    <3> HIDE DEF Note
    <3> QED
      BY <1>4, <2>1, <2>2
  <2>3. {n \in told[h] : /\ a.rule \in n.rules /\ n.source = a.source
                         /\ n.status = a.status} = {Note(a)}
    <3> HIDE DEF Note
    <3> QED
      BY <2>1, <2>2
  <2> QED
    BY <2>3, FS_Singleton
<1>6. ASSUME NEW n \in told[h], NEW rule \in n.rules
      PROVE  \E a \in alerts : /\ a.rule = rule /\ a.source = n.source
                               /\ a.status = n.status
  <2>1. PICK a \in alerts : n = Note(a)
    BY <1>1
  <2>2. PICK b \in Affected(a, alerts) : rule = b.rule
    BY <2>1
  <2> QED
    BY <1>3, <2>1, <2>2
<1>7. \A m, n \in told[h] :
        m.source = n.source /\ m.status = n.status /\ m.source # NoSource => m = n
  BY <1>4
<1> QED
  BY <1>5, <1>6, <1>7 DEF AnnouncedOnce

-----------------------------------------------------------------------------
(* The steps of a thread.                                                  *)

LEMMA BatchAlerts ==
  ASSUME NEW g \in Groups, NEW alerts \in Batches[g]
  PROVE  alerts \in SUBSET Alerts
BY DEF Alerts

LEMMA NoPayloadTyped == NoPayload \in Payloads
BY DEF NoPayload, Payload, Payloads

\* A thread changes its own request only, never what Grafana wants to
\* deliver; it is given back when it answers or ends without an answer.
LEMMA HandlerEffect ==
  ASSUME TypeInv, NEW h \in Handlers, HandlerStep(h)
  PROVE  /\ UNCHANGED <<current, online>>
         /\ \A k \in Handlers : k # h =>
              /\ stage'[k] = stage[k] /\ webhook'[k] = webhook[k]
              /\ todo'[k] = todo[k] /\ told'[k] = told[k]
              /\ tried'[k] = tried[k] /\ code'[k] = code[k]
              /\ k \in abandoned' <=> k \in abandoned
         /\ stage[h] # "idle"
         /\ \/ webhook' = webhook /\ waiting' = waiting /\ abandoned' = abandoned
            \/ /\ stage'[h] = "idle" /\ retained' = retained
               /\ \A g \in Groups : waiting'[g] = waiting[g] \/ waiting[g] = h
         /\ \/ retained' = retained
            \/ /\ stage[h] = "digest" /\ stage'[h] = "answer"
               /\ retained' = webhook[h] /\ webhook' = webhook
<1>1. CASE Accept(h)
  BY <1>1 DEF Accept, Goto, grafana, TypeInv
<1>2. CASE Refuse(h)
  BY <1>2 DEF Refuse, AnswerWith, Goto, grafana, TypeInv
<1>3. CASE PublishAlerts(h)
  BY <1>3 DEF PublishAlerts, Goto, grafana, TypeInv
<1>4. ASSUME NEW channel \in Channels, Deliver(h, channel)
      PROVE  /\ UNCHANGED <<abandoned, current, online, webhook, waiting, retained>>
             /\ stage[h] = "digest"
             /\ \A k \in Handlers : k # h =>
                  /\ stage'[k] = stage[k] /\ webhook'[k] = webhook[k]
                  /\ todo'[k] = todo[k] /\ told'[k] = told[k]
                  /\ tried'[k] = tried[k] /\ code'[k] = code[k]
  BY <1>4 DEF Deliver, NextChannel, AnswerWith, Goto, grafana, TypeInv
<1>5. CASE PublishSnapshot(h)
  BY <1>5 DEF PublishSnapshot, AnswerWith, Goto, grafana, TypeInv
<1>6. CASE Respond(h)
  <2>1. \A g \in Groups : waiting'[g] = waiting[g] \/ waiting[g] = h
    BY <1>6 DEF Respond, Hear, TypeInv
  <2> QED
    BY <1>6, <2>1 DEF Respond, Free, Goto, TypeInv
<1>7. ASSUME NEW channel \in Channels, UnreadableReply(h, channel)
      PROVE  /\ UNCHANGED <<current, online, retained>> /\ stage[h] = "digest"
             /\ \A k \in Handlers : k # h =>
                  /\ stage'[k] = stage[k] /\ webhook'[k] = webhook[k]
                  /\ todo'[k] = todo[k] /\ told'[k] = told[k]
                  /\ tried'[k] = tried[k] /\ code'[k] = code[k]
                  /\ k \in abandoned' <=> k \in abandoned
             /\ \/ UNCHANGED <<abandoned, webhook, waiting>>
                \/ /\ stage'[h] = "idle"
                   /\ \A g \in Groups : waiting'[g] = waiting[g] \/ waiting[g] = h
  <2>1. /\ stage[h] = "digest" /\ UNCHANGED <<current, online, retained>>
        /\ \/ AnswerWith(h, 500) /\ UNCHANGED <<grafana, webhook, todo, told, tried>>
           \/ /\ Free(h)
              /\ waiting' = IF waiting[webhook[h].group] = h
                            THEN [waiting EXCEPT ![webhook[h].group] = NoHandler]
                            ELSE waiting
    BY <1>7 DEF UnreadableReply, NextChannel, grafana
  <2>2. CASE AnswerWith(h, 500) /\ UNCHANGED <<grafana, webhook, todo, told, tried>>
    BY <2>1, <2>2 DEF AnswerWith, Goto, grafana, TypeInv
  <2>3. ASSUME Free(h),
               waiting' = IF waiting[webhook[h].group] = h
                          THEN [waiting EXCEPT ![webhook[h].group] = NoHandler]
                          ELSE waiting
        PROVE  /\ stage'[h] = "idle"
               /\ \A g \in Groups : waiting'[g] = waiting[g] \/ waiting[g] = h
               /\ \A k \in Handlers : k # h =>
                    /\ stage'[k] = stage[k] /\ webhook'[k] = webhook[k]
                    /\ todo'[k] = todo[k] /\ told'[k] = told[k]
                    /\ tried'[k] = tried[k] /\ code'[k] = code[k]
                    /\ k \in abandoned' <=> k \in abandoned
    <3>1. \A g \in Groups : waiting'[g] = waiting[g] \/ waiting[g] = h
      BY <2>3 DEF TypeInv
    <3> QED
      BY <2>3, <3>1 DEF Free, Goto, TypeInv
  <2> QED
    BY <2>1, <2>2, <2>3
<1> QED
  BY <1>1, <1>2, <1>3, <1>4, <1>5, <1>6, <1>7 DEF HandlerStep

LEMMA HandlerTyped ==
  ASSUME TypeInv, NEW h \in Handlers, HandlerStep(h)
  PROVE  TypeInv'
<1>1. CASE Accept(h)
  BY <1>1 DEF Accept, Goto, grafana, TypeInv, Stages
<1>2. CASE Refuse(h)
  <2>1. PICK defects \in SUBSET Defects :
          \/ Refusal(defects) # 0 /\ AnswerWith(h, Refusal(defects))
          \/ AnswerWith(h, 400)
    BY <1>2 DEF Refuse
  <2>2. PICK answer \in Refusals : AnswerWith(h, answer)
    BY <2>1, RefusalIsRefusal DEF Refusals
  <2> QED
    BY <1>2, <2>2 DEF Refuse, AnswerWith, Goto, grafana, TypeInv, Stages
<1>3. CASE PublishAlerts(h)
  <2>1. Coalesce(webhook[h].alerts) \subseteq
          [source : {a.source : a \in Alerts}, status : {a.status : a \in Alerts},
           rules : SUBSET {a.rule : a \in Alerts}]
    BY CoalesceTyped DEF TypeInv, Payloads
  <2> QED
    BY <1>3, <2>1 DEF PublishAlerts, Goto, grafana, TypeInv, Stages
<1>4. ASSUME NEW channel \in Channels, Deliver(h, channel) PROVE TypeInv'
  BY <1>4 DEF Deliver, NextChannel, AnswerWith, Goto, grafana, TypeInv, Stages
<1>5. CASE PublishSnapshot(h)
  BY <1>5 DEF PublishSnapshot, AnswerWith, Goto, grafana, TypeInv, Stages
<1>6. CASE Respond(h)
  <2>1. wanted' \subseteq Groups /\ waiting' \in [Groups -> Handlers \cup {NoHandler}]
    BY <1>6 DEF Respond, Hear, TypeInv
  <2> QED
    BY <1>6, <2>1, NoPayloadTyped DEF Respond, Free, Goto, TypeInv, Stages
<1>7. ASSUME NEW channel \in Channels, UnreadableReply(h, channel) PROVE TypeInv'
  <2>1. CASE AnswerWith(h, 500) /\ UNCHANGED <<grafana, webhook, todo, told, tried>>
    BY <1>7, <2>1 DEF UnreadableReply, AnswerWith, Goto, grafana, TypeInv, Stages
  <2>2. CASE Free(h) /\ UNCHANGED <<current, wanted>>
                     /\ waiting' = IF waiting[webhook[h].group] = h
                                   THEN [waiting EXCEPT ![webhook[h].group] = NoHandler]
                                   ELSE waiting
    <3>1. waiting' \in [Groups -> Handlers \cup {NoHandler}]
      BY <2>2 DEF TypeInv
    <3>2. UNCHANGED <<online, retained>>
      BY <1>7 DEF UnreadableReply
    <3> QED
      BY <2>2, <3>1, <3>2, NoPayloadTyped DEF Free, Goto, TypeInv, Stages
  <2> QED
    BY <1>7, <2>1, <2>2 DEF UnreadableReply
<1> QED
  BY <1>1, <1>2, <1>3, <1>4, <1>5, <1>6, <1>7 DEF HandlerStep

LEMMA HandlerProgress ==
  ASSUME TypeInv, NEW h \in Handlers, HandlerStep(h), Progress(h)
  PROVE  Progress(h)'
<1>1. CASE Accept(h)
  BY <1>1 DEF Accept, Goto, TypeInv, Progress, Untouched, Valid
<1>2. CASE Refuse(h)
  <2>1. PICK answer \in Refusals : AnswerWith(h, answer)
    BY <1>2, RefusalIsRefusal DEF Refuse, Refusals
  <2>2. stage'[h] = "answer" /\ code'[h] = answer
    BY <2>1 DEF AnswerWith, Goto, TypeInv
  <2> QED
    BY <1>2, <2>2 DEF Refuse, Progress, Untouched
<1>3. CASE PublishAlerts(h)
  <2>1. /\ stage'[h] = "digest" /\ told'[h] = Coalesce(webhook[h].alerts)
        /\ todo'[h] = IF webhook[h].alerts = {} THEN {} ELSE Channels
        /\ webhook' = webhook /\ tried' = tried
    BY <1>3 DEF PublishAlerts, Goto, TypeInv
  <2>2. webhook[h].alerts = {} => told'[h] = {}
    BY <2>1 DEF Coalesce
  <2>3. Valid(webhook[h]) /\ tried[h] = {}
    BY <1>3 DEF PublishAlerts, Progress, Untouched
  <2> QED
    BY <2>1, <2>2, <2>3 DEF Progress, Announced
<1>4. ASSUME NEW channel \in Channels, Deliver(h, channel) PROVE Progress(h)'
  <2>1. stage[h] = "digest" /\ channel \in todo[h] /\ UNCHANGED <<webhook, told>>
    BY <1>4 DEF Deliver, NextChannel
  <2>2. Announced(h)' /\ (told[h] # {} => todo[h] \cup tried[h] = Channels)
    BY <2>1 DEF Progress, Announced
  <2>3. CASE Buildable(channel, webhook[h])
    <3>1. /\ stage'[h] = "digest" /\ todo'[h] = todo[h] \ {channel}
          /\ tried'[h] = tried[h] \cup {channel}
      BY <1>4, <2>1, <2>3 DEF Deliver, TypeInv
    <3>2. todo'[h] \cup tried'[h] = todo[h] \cup tried[h]
      BY <2>1, <3>1
    <3> QED
      BY <2>1, <2>2, <3>1, <3>2 DEF Progress
  <2>4. CASE ~Buildable(channel, webhook[h])
    <3>1. stage'[h] = "answer" /\ code'[h] = 500
      BY <1>4, <2>4 DEF Deliver, AnswerWith, Goto, TypeInv
    <3> QED
      BY <2>2, <3>1 DEF Progress
  <2> QED
    BY <2>3, <2>4
<1>5. CASE PublishSnapshot(h)
  <2>1. /\ stage[h] = "digest" /\ todo[h] = {} /\ UNCHANGED <<webhook, told, tried>>
        /\ stage'[h] = "answer" /\ code'[h] = 200
    BY <1>5 DEF PublishSnapshot, AnswerWith, Goto, TypeInv
  <2>2. Announced(h)' /\ (told[h] # {} => tried[h] = Channels)
    BY <2>1 DEF Progress, Announced
  <2> QED
    BY <2>1, <2>2 DEF Progress
<1>6. CASE Respond(h)
  <2>1. stage'[h] = "idle" /\ todo'[h] = {} /\ told'[h] = {} /\ tried'[h] = {}
    BY <1>6 DEF Respond, Free, Goto, TypeInv
  <2> QED
    BY <2>1 DEF Progress, Untouched
<1>7. ASSUME NEW channel \in Channels, UnreadableReply(h, channel)
      PROVE  Progress(h)'
  <2>1. stage[h] = "digest"
    BY <1>7 DEF UnreadableReply, NextChannel
  <2>2. CASE AnswerWith(h, 500) /\ UNCHANGED <<grafana, webhook, todo, told, tried>>
    <3>1. stage'[h] = "answer" /\ code'[h] = 500 /\ UNCHANGED <<webhook, told>>
      BY <2>2 DEF AnswerWith, Goto, TypeInv
    <3> QED
      BY <2>1, <3>1 DEF Progress, Announced
  <2>3. CASE Free(h)
    <3>1. stage'[h] = "idle" /\ todo'[h] = {} /\ told'[h] = {} /\ tried'[h] = {}
      BY <2>3 DEF Free, Goto, TypeInv
    <3> QED
      BY <3>1 DEF Progress, Untouched
  <2> QED
    BY <1>7, <2>2, <2>3 DEF UnreadableReply
<1> QED
  BY <1>1, <1>2, <1>3, <1>4, <1>5, <1>6, <1>7 DEF HandlerStep

\* A thread keeps what Grafana, the snapshot and the other threads rely on.
LEMMA HandlerServes ==
  ASSUME IInv, NEW h \in Handlers, HandlerStep(h)
  PROVE  Snapshots' /\ \A k \in Handlers : Serves(k)'
<1>1. TypeInv /\ Snapshots /\ Serves(h) /\ stage[h] # "idle" /\ current' = current
  BY HandlerEffect DEF IInv
<1>2. retained' = retained \/ retained' = webhook[h]
  BY <1>1, HandlerEffect
<1>3. Snapshots'
  BY <1>1, <1>2 DEF Snapshots, Serves
<1>4. \A k \in Handlers : stage'[k] # "idle" =>
        stage[k] # "idle" /\ webhook'[k] = webhook[k]
  <2>1. \A k \in Handlers : k # h =>
          stage'[k] = stage[k] /\ webhook'[k] = webhook[k]
    BY <1>1, HandlerEffect
  <2>2. stage'[h] # "idle" => webhook' = webhook
    BY <1>1, HandlerEffect
  <2> QED
    BY <1>1, <2>1, <2>2
<1>5. ASSUME NEW k \in Handlers, stage'[k] # "idle", k \notin abandoned'
      PROVE  Newest(k)'
  <2>1. k \notin abandoned /\ waiting'[webhook[k].group] = waiting[webhook[k].group]
    <3>1. CASE k = h
      BY <1>1, <1>5, <3>1, HandlerEffect
    <3>2. CASE k # h
      <4>1. k \notin abandoned
        BY <1>1, <1>5, <3>2, HandlerEffect
      <4>2. waiting[webhook[k].group] = k /\ webhook[k].group \in Groups
        BY <1>4, <1>5, <4>1 DEF IInv, Serves, Newest
      <4>3. \/ waiting' = waiting
            \/ \A g \in Groups : waiting'[g] = waiting[g] \/ waiting[g] = h
        BY <1>1, HandlerEffect
      <4> QED
        BY <3>2, <4>1, <4>2, <4>3
    <3> QED
      BY <3>1, <3>2
  <2>2. Newest(k)
    BY <1>4, <1>5, <2>1 DEF IInv, Serves
  <2>3. retained'.group = webhook[k].group => retained'.edition <= webhook[k].edition
    <3>1. CASE retained' = retained
      BY <2>2, <3>1 DEF Newest
    <3>2. CASE retained' = webhook[h]
      BY <1>1, <2>2, <3>2 DEF Newest
    <3> QED
      BY <1>2, <3>1, <3>2
  <2>4. webhook'[k] = webhook[k]
    BY <1>4, <1>5
  <2>5. \A j \in Handlers :
          stage'[j] # "idle" /\ webhook'[j].group = webhook[k].group
            => webhook'[j].edition <= webhook[k].edition
    BY <1>4, <2>2 DEF Newest
  <2> QED
    BY <2>1, <2>2, <2>3, <2>4, <2>5 DEF Newest
<1>6. ASSUME NEW k \in Handlers PROVE Serves(k)'
  <2>1. Serves(k)
    BY DEF IInv
  <2> QED
    BY <1>1, <1>4, <1>5, <2>1 DEF Serves
<1> QED
  BY <1>3, <1>6

LEMMA HandlerKeeps ==
  ASSUME IInv, NEW h \in Handlers, HandlerStep(h)
  PROVE  IInv'
<1>1. TypeInv'
  BY HandlerTyped DEF IInv
<1>2. Snapshots' /\ \A k \in Handlers : Serves(k)'
  BY HandlerServes
<1>3. ASSUME NEW k \in Handlers, k # h PROVE Progress(k)'
  <2>1. /\ stage'[k] = stage[k] /\ webhook'[k] = webhook[k]
        /\ todo'[k] = todo[k] /\ told'[k] = told[k]
        /\ tried'[k] = tried[k] /\ code'[k] = code[k]
    BY <1>3, HandlerEffect DEF IInv
  <2> QED
    BY <2>1 DEF IInv, Progress, Untouched, Announced
<1>4. Progress(h)'
  BY HandlerProgress DEF IInv
<1> QED
  BY <1>1, <1>2, <1>3, <1>4 DEF IInv

-----------------------------------------------------------------------------
(* Grafana and the connection.                                             *)

LEMMA PostKeeps ==
  ASSUME IInv, NEW h \in Handlers, NEW g \in Groups, Post(h, g)
  PROVE  IInv'
<1>1. TypeInv /\ Snapshots
  BY DEF IInv
<1>2. /\ stage[h] = "idle" /\ waiting[g] = NoHandler
      /\ stage' = [stage EXCEPT ![h] = "posted"]
      /\ webhook' = [webhook EXCEPT ![h] = current[g]]
      /\ waiting' = [waiting EXCEPT ![g] = h]
      /\ UNCHANGED <<abandoned, current, wanted, online, todo, told, tried, code,
                     retained>>
  BY DEF Post, Goto
<1>3. TypeInv'
  BY <1>1, <1>2 DEF TypeInv, Stages
<1>4. Snapshots'
  BY <1>1, <1>2 DEF Snapshots
<1>5. ASSUME NEW k \in Handlers PROVE Progress(k)' /\ Serves(k)'
  <2>1. Progress(k) /\ Serves(k) /\ Progress(h)
    BY DEF IInv
  <2>2. CASE k = h
    <3>1. stage'[k] = "posted" /\ webhook'[k] = current[g] /\ waiting'[g] = k
      BY <1>1, <1>2, <2>2 DEF TypeInv
    <3>2. current[g].group = g /\ current[g].edition \in Nat
      BY <1>1 DEF Snapshots, TypeInv, Payloads
    <3>3. Progress(k)'
      BY <1>2, <2>1, <2>2, <3>1 DEF Progress, Untouched
    <3>4. \A j \in Handlers :
            stage'[j] # "idle" /\ webhook'[j].group = g
              => webhook'[j].edition <= current[g].edition
      <4>1. \A j \in Handlers : j # h =>
              stage'[j] = stage[j] /\ webhook'[j] = webhook[j]
        BY <1>1, <1>2 DEF TypeInv
      <4> QED
        BY <2>2, <3>1, <3>2, <4>1 DEF IInv, Serves
    <3>5. Newest(k)'
      BY <1>1, <1>2, <3>1, <3>2, <3>4 DEF Newest, Snapshots
    <3>6. Serves(k)'
      BY <1>2, <3>1, <3>2, <3>5 DEF Serves
    <3> QED
      BY <3>3, <3>6
  <2>3. CASE k # h
    <3>1. stage'[k] = stage[k] /\ webhook'[k] = webhook[k]
      BY <1>1, <1>2, <2>3 DEF TypeInv
    <3>2. Progress(k)'
      BY <1>2, <2>1, <3>1 DEF Progress, Untouched, Announced
    <3>3. ASSUME stage[k] # "idle", k \notin abandoned PROVE Newest(k)'
      <4>1. Newest(k)
        BY <2>1, <3>3 DEF Serves
      <4>2. webhook[k].group # g
        BY <1>2, <4>1, RelayAssumption DEF Newest
      <4>3. current[g].group = g
        BY <1>1 DEF Snapshots
      <4>4. \A j \in Handlers :
              stage'[j] # "idle" /\ webhook'[j].group = webhook[k].group
                => webhook'[j].edition <= webhook[k].edition
        <5>1. \A j \in Handlers : j # h =>
                stage'[j] = stage[j] /\ webhook'[j] = webhook[j]
          BY <1>1, <1>2 DEF TypeInv
        <5>2. webhook'[h] = current[g]
          BY <1>1, <1>2 DEF TypeInv
        <5> QED
          BY <4>1, <4>2, <4>3, <5>1, <5>2 DEF Newest
      <4>5. waiting'[webhook[k].group] = waiting[webhook[k].group]
        BY <1>1, <1>2, <4>2 DEF TypeInv
      <4> QED
        BY <1>2, <3>1, <4>1, <4>4, <4>5 DEF Newest
    <3>4. Serves(k)'
      BY <1>2, <2>1, <3>1, <3>3 DEF Serves
    <3> QED
      BY <3>2, <3>4
  <2> QED
    BY <2>2, <2>3
<1> QED
  BY <1>3, <1>4, <1>5 DEF IInv

LEMMA ChangeKeeps ==
  ASSUME IInv, NEW g \in Groups, NEW alerts \in Batches[g], Change(g, alerts)
  PROVE  IInv'
<1>1. TypeInv /\ Snapshots
  BY DEF IInv
<1>2. /\ current' = [current EXCEPT ![g] =
                       Payload(g, current[g].edition + 1, alerts)]
      /\ wanted' = wanted \cup {g}
      /\ UNCHANGED <<abandoned, waiting, online, stage, webhook, todo, told, tried,
                     code, retained>>
  BY DEF Change, work
<1>3. current[g].edition \in Nat /\ retained.edition \in Nat
  BY <1>1 DEF TypeInv, Payloads
<1>4. Payload(g, current[g].edition + 1, alerts) \in Payloads
  BY <1>3, BatchAlerts DEF Payload, Payloads
<1>5. TypeInv'
  BY <1>1, <1>2, <1>4 DEF TypeInv
<1>6. \A k \in Groups : /\ current'[k].group = k
                        /\ current'[k].edition \in Nat /\ current[k].edition \in Nat
                        /\ current[k].edition <= current'[k].edition
  <2>1. ASSUME NEW k \in Groups, k # g PROVE current'[k] = current[k]
    BY <1>1, <1>2, <2>1 DEF TypeInv
  <2>2. /\ current'[g].group = g
        /\ current'[g].edition = current[g].edition + 1
    BY <1>1, <1>2 DEF TypeInv, Payload
  <2>3. \A k \in Groups : current[k].group = k /\ current[k].edition \in Nat
    BY <1>1 DEF Snapshots, TypeInv, Payloads
  <2> QED
    BY <2>1, <2>2, <2>3
<1>7. Snapshots'
  BY <1>1, <1>2, <1>3, <1>6 DEF Snapshots
<1>8. ASSUME NEW h \in Handlers PROVE Progress(h)' /\ Serves(h)'
  <2>1. Progress(h) /\ Serves(h) /\ webhook[h].edition \in Nat
    BY <1>1 DEF IInv, TypeInv, Payloads
  <2>2. Progress(h)'
    BY <1>2, <2>1 DEF Progress, Untouched, Announced
  <2>3. Serves(h)'
    BY <1>2, <1>6, <2>1 DEF Serves, Newest
  <2> QED
    BY <2>2, <2>3
<1> QED
  BY <1>5, <1>7, <1>8 DEF IInv

LEMMA GiveUpKeeps ==
  ASSUME IInv, NEW g \in Groups, GiveUp(g)
  PROVE  IInv'
<1>1. TypeInv /\ Snapshots
  BY DEF IInv
<1>2. /\ waiting[g] # NoHandler
      /\ abandoned' = abandoned \cup {waiting[g]}
      /\ waiting' = [waiting EXCEPT ![g] = NoHandler]
      /\ UNCHANGED <<current, wanted, online, work, retained>>
  BY DEF GiveUp
<1>3. TypeInv'
  <2>1. waiting[g] \in Handlers
    BY <1>1, <1>2 DEF TypeInv
  <2> QED
    BY <1>1, <1>2, <2>1 DEF TypeInv, work
<1>4. Snapshots'
  BY <1>1, <1>2 DEF Snapshots
<1>5. ASSUME NEW h \in Handlers PROVE Progress(h)' /\ Serves(h)'
  <2>1. Progress(h) /\ Serves(h)
    BY DEF IInv
  <2>2. Progress(h)'
    BY <1>2, <2>1 DEF work, Progress, Untouched, Announced
  <2>3. ASSUME stage[h] # "idle", h \notin abandoned' PROVE Newest(h)'
    <3>1. Newest(h) /\ h # waiting[g]
      BY <1>2, <2>1, <2>3 DEF Serves
    <3>2. waiting'[webhook[h].group] = waiting[webhook[h].group]
      BY <1>1, <1>2, <2>1, <2>3, <3>1 DEF Newest, Serves, TypeInv
    <3> QED
      BY <1>2, <3>1, <3>2 DEF Newest, work
  <2>4. Serves(h)'
    BY <1>2, <2>1, <2>3 DEF Serves, work
  <2> QED
    BY <2>2, <2>4
<1> QED
  BY <1>3, <1>4, <1>5 DEF IInv

LEMMA QuietKeeps ==
  ASSUME IInv, OnConnect \/ OnDisconnect \/ UNCHANGED vars
  PROVE  IInv'
<1>1. UNCHANGED <<grafana, work, retained>> /\ online' \in BOOLEAN /\ TypeInv
  BY DEF OnConnect, OnDisconnect, vars, IInv, TypeInv
<1>2. TypeInv' /\ Snapshots'
  BY <1>1 DEF IInv, TypeInv, Snapshots, grafana, work
<1>3. ASSUME NEW h \in Handlers PROVE Progress(h)' /\ Serves(h)'
  <2>1. Progress(h) /\ Serves(h)
    BY DEF IInv
  <2>2. Progress(h)'
    BY <1>1, <2>1 DEF work, Progress, Untouched, Announced
  <2>3. Serves(h)'
    BY <1>1, <2>1 DEF grafana, work, Serves, Newest
  <2> QED
    BY <2>2, <2>3
<1> QED
  BY <1>2, <1>3 DEF IInv

LEMMA RelayKeeps == IInv /\ [Next]_vars => IInv'
BY HandlerKeeps, PostKeeps, ChangeKeeps, GiveUpKeeps, QuietKeeps DEF Next

LEMMA RelayInit == Init => IInv
<1> SUFFICES ASSUME Init PROVE IInv
  OBVIOUS
<1>1. TypeInv
  <2>1. current \in [Groups -> Payloads]
    BY DEF Init, Payload, Payloads
  <2> QED
    BY <2>1, NoPayloadTyped DEF Init, TypeInv, Stages
<1>2. Snapshots
  <2>1. retained.group = NoGroup
    BY DEF Init, NoPayload, Payload
  <2> QED
    BY <2>1, RelayAssumption DEF Init, Snapshots, Payload
<1>3. \A h \in Handlers : Progress(h) /\ Serves(h)
  BY DEF Init, Progress, Untouched, Serves
<1> QED
  BY <1>1, <1>2, <1>3 DEF IInv

\* Every state of the relay is typed, every request has had the effects of
\* its stage, and the requests of a group follow one another.
THEOREM RelayInvariant == Spec => []IInv
<1> QED
  BY RelayInit, RelayKeeps, PTL DEF Spec

\* What do_POST answers is what publish_alerts has done, whatever the alerts
\* are: nothing at all after a refusal, every alert announced once after any
\* other answer, and every channel tried after a 200.
THEOREM AnswersTellEffects == Spec => []AnswerTellsEffects
<1>1. IInv => AnswerTellsEffects
  <2> SUFFICES ASSUME IInv, NEW h \in Handlers, stage[h] = "answer"
               PROVE  IF code[h] \in 400 .. 499 THEN told[h] = {} /\ tried[h] = {}
                      ELSE /\ \A a \in webhook[h].alerts : a.valid
                           /\ AnnouncedOnce(h)
                           /\ code[h] = 200 /\ told[h] # {} => tried[h] = Channels
    BY DEF AnswerTellsEffects
  <2>1. \/ code[h] \in Refusals /\ told[h] = {} /\ tried[h] = {}
        \/ code[h] = 500 /\ Announced(h)
        \/ code[h] = 200 /\ Announced(h) /\ (told[h] # {} => tried[h] = Channels)
    BY DEF IInv, Progress
  <2>2. Announced(h) => AnnouncedOnce(h) /\ \A a \in webhook[h].alerts : a.valid
    BY CoalesceAnnouncesOnce DEF Announced, Valid
  <2>3. Refusals \subseteq 400 .. 499
    BY DEF Refusals
  <2>4. CASE code[h] \in 400 .. 499
    <3>1. code[h] # 500 /\ code[h] # 200
      BY <2>4
    <3> QED
      BY <2>1, <2>4, <3>1
  <2>5. CASE code[h] \notin 400 .. 499
    <3>1. code[h] \notin Refusals
      BY <2>3, <2>5
    <3>2. 500 # 200
      OBVIOUS
    <3>3. Announced(h) /\ (code[h] = 200 => (told[h] # {} => tried[h] = Channels))
      BY <2>1, <3>1, <3>2
    <3> QED
      BY <2>2, <2>5, <3>3
  <2> QED
    BY <2>4, <2>5
<1> QED
  BY <1>1, RelayInvariant, PTL

\* A request that Grafana still waits for never puts an older edition of its
\* group in the place of a newer one in the snapshot (publish_alerts), however
\* many requests of the group Grafana gave up on are served beside it.
THEOREM SnapshotsMoveOn == Spec => NoOlderSnapshot
<1>1. IInv /\ [Next]_vars =>
        [\A h \in Handlers \ abandoned :
           /\ stage[h] = "digest" /\ stage'[h] = "answer"
           /\ retained'.group = retained.group
           => retained'.edition >= retained.edition]_vars
  <2> SUFFICES ASSUME IInv, Next, NEW h \in Handlers \ abandoned,
                      stage[h] = "digest", stage'[h] = "answer",
                      retained'.group = retained.group
               PROVE  retained'.edition >= retained.edition
    OBVIOUS
  <2>1. TypeInv /\ retained.edition \in Nat
    BY DEF IInv, TypeInv, Payloads
  <2>2. CASE retained' = retained
    BY <2>1, <2>2
  <2>3. ASSUME NEW k \in Handlers, HandlerStep(k), retained' # retained
        PROVE  retained'.edition >= retained.edition
    <3>1. stage'[k] # stage[k] /\ retained' = webhook[k]
      BY <2>1, <2>3, HandlerEffect
    <3>2. k = h
      BY <2>1, <2>3, HandlerEffect
    <3>3. Newest(h) /\ webhook[h].edition \in Nat
      BY <2>1 DEF IInv, Serves, TypeInv, Payloads
    <3> QED
      BY <2>1, <3>1, <3>2, <3>3 DEF Newest
  <2>4. \/ \E k \in Handlers : HandlerStep(k)
        \/ retained' = retained
    BY DEF Next, Post, Change, GiveUp, OnConnect, OnDisconnect
  <2> QED
    BY <2>2, <2>3, <2>4
<1> QED
  BY <1>1, RelayInvariant, PTL DEF Spec, NoOlderSnapshot
=============================================================================
