----------------------------- MODULE AlertRelay -----------------------------
(***************************************************************************)
(* The alert relay (alert-mqtt-bridge/relay.py): threads of an HTTP server *)
(* turn webhooks of Grafana into MQTT notifications, one digest by email   *)
(* and Telegram, and a retained snapshot.                                  *)
(*                                                                         *)
(* A step is what a thread does up to its next network call.  Grafana is   *)
(* external: per alert group it posts what is current, waits for the       *)
(* answer, posts again after a 5xx, and may stop waiting.                  *)
(***************************************************************************)
EXTENDS Naturals, FiniteSets

CONSTANTS
  Handlers,     \* threads of the server; a thread serves one request
  NoHandler,
  Groups,       \* alert groups of Grafana
  NoGroup,
  Batches,      \* bound: group -> sets of alerts it may consist of
  NoSource,     \* data source of an alert that is not about a failed one
  Chats,        \* Telegram chats; none when the channel is off
  MailOn,       \* SMTP_HOST and SMTP_TO are set
  Editions      \* bound: group -> changes of its alerts

ASSUME RelayAssumption ==
  /\ NoHandler \notin Handlers /\ NoGroup \notin Groups
  /\ MailOn \in BOOLEAN /\ "mail" \notin Chats /\ Editions \in [Groups -> Nat]

VARIABLES
  abandoned,    \* threads whose answer Grafana has stopped waiting for
  current,      \* group -> payload Grafana wants to deliver
  wanted,       \* groups whose payload is still to be delivered
  waiting,      \* group -> thread whose answer Grafana waits for
  online,       \* the MQTT client is connected
  stage,        \* thread -> where it is
  webhook,      \* thread -> payload it received
  todo,         \* thread -> channels its digest still goes to
  told,         \* thread -> notifications handed to the MQTT client
  tried,        \* thread -> channels attempted
  code,         \* thread -> answer
  retained      \* payload whose snapshot subscribers find

grafana == <<abandoned, current, wanted, waiting>>
work == <<stage, webhook, todo, told, tried, code>>
vars == <<grafana, online, work, retained>>

(* An alert is [rule, source, status, text, valid]; a source is the name   *)
(* of the alert (an error, or no data) with the data source it is about.   *)
Payload(g, edition, alerts) ==
  [group |-> g, edition |-> edition, alerts |-> alerts]
NoPayload == Payload(NoGroup, 0, {})

Init ==
  /\ abandoned = {}
  /\ current = [g \in Groups |-> Payload(g, 0, {})]
  /\ wanted = {} /\ waiting = [g \in Groups |-> NoHandler]
  /\ online = FALSE
  /\ stage = [h \in Handlers |-> "idle"]
  /\ webhook = [h \in Handlers |-> NoPayload]
  /\ todo = [h \in Handlers |-> {}] /\ told = [h \in Handlers |-> {}]
  /\ tried = [h \in Handlers |-> {}] /\ code = [h \in Handlers |-> 0]
  /\ retained = NoPayload

-----------------------------------------------------------------------------
(* coalesce_datasource_alerts: an alert about a data source joins the      *)
(* others with its source and status; any other one stays alone.           *)

(* Bug: firing and resolved alerts of a source are mixed. *)
AffectedInAnyState(a, alerts) ==
  IF a.source = NoSource THEN {a} ELSE {b \in alerts : b.source = a.source}
Affected(a, alerts) ==
  IF a.source = NoSource THEN {a}
  ELSE {b \in alerts : b.source = a.source /\ b.status = a.status}
Coalesce(alerts) ==
  {[source |-> a.source, status |-> a.status,
    rules |-> {b.rule : b \in Affected(a, alerts)}] : a \in alerts}

Channels == (IF MailOn THEN {"mail"} ELSE {}) \cup Chats

(* A message with a lone surrogate cannot be encoded; the summary of a     *)
(* single alert becomes the subject, which may not have two lines.         *)
Buildable(channel, payload) ==
  /\ \A a \in payload.alerts : a.text # "surrogate"
  /\ channel = "mail" =>
       ~ \E a \in payload.alerts : /\ payload.alerts = {a}
                                  /\ a.source = NoSource /\ a.text = "two lines"
Sendable(payload) == \A channel \in Channels : Buildable(channel, payload)

(* do_POST up to publish_alerts: the first failing check answers.          *)
Checks == <<[defect |-> "path", answer |-> 404],
            [defect |-> "length headers", answer |-> 400],
            [defect |-> "length digits", answer |-> 400],
            [defect |-> "length", answer |-> 413],
            [defect |-> "slow body", answer |-> 408],
            [defect |-> "short body", answer |-> 400]>>
Defects == {Checks[i].defect : i \in DOMAIN Checks}
Refusal(defects) ==
  LET failing == {i \in DOMAIN Checks : Checks[i].defect \in defects}
  IN IF failing = {} THEN 0
     ELSE Checks[CHOOSE i \in failing : \A j \in failing : i <= j].answer

(* _validate_payload: the whole batch, before any effect.                  *)
Valid(payload) == \A a \in payload.alerts : a.valid

Goto(h, next) == stage' = [stage EXCEPT ![h] = next]
AnswerWith(h, answer) ==
  Goto(h, "answer") /\ code' = [code EXCEPT ![h] = answer]

Accept(h) ==
  /\ stage[h] = "posted" /\ Valid(webhook[h])
  /\ Goto(h, "banners")
  /\ UNCHANGED <<grafana, online, webhook, todo, told, tried, code, retained>>

Refuse(h) ==
  /\ stage[h] = "posted"
  /\ \E answer \in {Refusal(defects) : defects \in SUBSET Defects} :
       \/ answer # 0 /\ AnswerWith(h, answer)
       \/ answer = 0 /\ ~Valid(webhook[h]) /\ AnswerWith(h, 400)
  /\ UNCHANGED <<grafana, online, webhook, todo, told, tried, retained>>

-----------------------------------------------------------------------------
(* publish_alerts.                                                         *)

(* Every notification is handed to the MQTT client, fire and forget; the   *)
(* digest follows unless the batch is empty.                               *)
PublishAlerts(h) ==
  /\ stage[h] = "banners"
  /\ Goto(h, "digest")
  /\ told' = [told EXCEPT ![h] = Coalesce(webhook[h].alerts)]
  /\ todo' = [todo EXCEPT ![h] = IF webhook[h].alerts = {} THEN {} ELSE Channels]
  /\ UNCHANGED <<grafana, online, webhook, tried, code, retained>>

(* send_email, then send_telegram to each chat.                            *)
NextChannel(h, channel) ==
  /\ stage[h] = "digest" /\ channel \in todo[h]
  /\ channel = "mail" \/ "mail" \notin todo[h]

(* A delivery that fails with an error of the connection, of TLS or of the *)
(* SMTP or HTTP status is logged (lines 89, 165); a message that cannot be *)
(* built raises ValueError out of the request, which is answered.          *)
Deliver(h, channel) ==
  /\ NextChannel(h, channel)
  /\ IF Buildable(channel, webhook[h])
     THEN /\ todo' = [todo EXCEPT ![h] = @ \ {channel}]
          /\ tried' = [tried EXCEPT ![h] = @ \cup {channel}]
          /\ UNCHANGED <<stage, code>>
     ELSE AnswerWith(h, 500) /\ UNCHANGED <<todo, tried>>
  /\ UNCHANGED <<grafana, online, webhook, told, retained>>

(* Bug: the answer depends on the connection to the broker. *)
SnapshotOrFail(h) ==
  /\ stage[h] = "digest" /\ todo[h] = {}
  /\ retained' = IF online THEN webhook[h] ELSE retained
  /\ AnswerWith(h, IF online THEN 200 ELSE 500)
  /\ UNCHANGED <<grafana, online, webhook, todo, told, tried>>
(* The retained message, with QoS 0: lost while the client is offline.     *)
PublishSnapshot(h) ==
  /\ stage[h] = "digest" /\ todo[h] = {}
  /\ retained' = IF online THEN webhook[h] ELSE retained
  /\ AnswerWith(h, 200)
  /\ UNCHANGED <<grafana, online, webhook, todo, told, tried>>

(* The answer reaches Grafana if it still waits; the thread ends.          *)
Hear(g, answer, payload) ==
  /\ waiting' = [waiting EXCEPT ![g] = NoHandler]
  /\ wanted' = IF answer < 500 /\ payload = current[g] THEN wanted \ {g} ELSE wanted
Free(h) ==
  /\ Goto(h, "idle")
  /\ webhook' = [webhook EXCEPT ![h] = NoPayload]
  /\ todo' = [todo EXCEPT ![h] = {}] /\ told' = [told EXCEPT ![h] = {}]
  /\ tried' = [tried EXCEPT ![h] = {}] /\ code' = [code EXCEPT ![h] = 0]
  /\ abandoned' = abandoned \ {h}

(* Bug: the server answers before it dispatches the notifications. *)
RespondFirst(h) ==
  LET g == webhook[h].group IN
  \/ /\ stage[h] = "answer" /\ Free(h)
     /\ IF waiting[g] = h THEN Hear(g, code[h], webhook[h])
        ELSE UNCHANGED <<wanted, waiting>>
     /\ UNCHANGED <<current, online, retained>>
  \/ /\ stage[h] = "banners" /\ waiting[g] = h
     /\ Hear(g, 200, webhook[h])
     /\ UNCHANGED <<abandoned, current, online, work, retained>>
Respond(h) ==
  LET g == webhook[h].group IN
  /\ stage[h] = "answer" /\ Free(h)
  /\ IF waiting[g] = h THEN Hear(g, code[h], webhook[h])
     ELSE UNCHANGED <<wanted, waiting>>
  /\ UNCHANGED <<current, online, retained>>

(* A reply that the client library cannot make sense of is not one of the  *)
(* errors that are logged.  A challenge of the mail server that is not     *)
(* base64 and a redirect of Telegram's to no URL raise ValueError, which   *)
(* is answered.  A malformed status line and a body that is cut short      *)
(* raise HTTPException: the thread ends without an answer, the remaining   *)
(* chats and the snapshot are skipped, and the connection is closed.       *)
UnreadableReply(h, channel) ==
  LET g == webhook[h].group IN
  /\ NextChannel(h, channel) /\ Buildable(channel, webhook[h])
  /\ \/ /\ AnswerWith(h, 500)
        /\ UNCHANGED <<grafana, webhook, todo, told, tried>>
     \/ /\ channel \in Chats /\ Free(h)
        /\ waiting' = IF waiting[g] = h THEN [waiting EXCEPT ![g] = NoHandler]
                      ELSE waiting
        /\ UNCHANGED <<current, wanted>>
  /\ UNCHANGED <<online, retained>>

-----------------------------------------------------------------------------
(* Grafana and the MQTT connection.                                        *)

Change(g, alerts) ==
  /\ current[g].edition < Editions[g]
  /\ current' = [current EXCEPT ![g] =
                   Payload(g, current[g].edition + 1, alerts)]
  /\ wanted' = wanted \cup {g}
  /\ UNCHANGED <<abandoned, waiting, online, work, retained>>

Post(h, g) ==
  /\ g \in wanted /\ waiting[g] = NoHandler /\ stage[h] = "idle"
  /\ Goto(h, "posted")
  /\ webhook' = [webhook EXCEPT ![h] = current[g]]
  /\ waiting' = [waiting EXCEPT ![g] = h]
  /\ UNCHANGED <<abandoned, current, wanted, online, todo, told, tried, code,
                 retained>>

GiveUp(g) ==
  /\ waiting[g] # NoHandler
  /\ abandoned' = abandoned \cup {waiting[g]}
  /\ waiting' = [waiting EXCEPT ![g] = NoHandler]
  /\ UNCHANGED <<current, wanted, online, work, retained>>

OnConnect == ~online /\ online' = TRUE /\ UNCHANGED <<grafana, work, retained>>
OnDisconnect == online /\ online' = FALSE /\ UNCHANGED <<grafana, work, retained>>

HandlerStep(h) ==
  \/ Accept(h) \/ Refuse(h) \/ PublishAlerts(h)
  \/ \E channel \in Channels : Deliver(h, channel) \/ UnreadableReply(h, channel)
  \/ PublishSnapshot(h) \/ Respond(h)

Next ==
  \/ \E h \in Handlers : HandlerStep(h)
  \/ \E h \in Handlers, g \in Groups : Post(h, g)
  \/ \E g \in Groups : \E alerts \in Batches[g] : Change(g, alerts)
  \/ \E g \in Groups : GiveUp(g)
  \/ OnConnect \/ OnDisconnect

(* Threads run, and every call they make has a timeout; Grafana repeats    *)
(* what was not delivered.                                                 *)
Fairness ==
  /\ \A h \in Handlers : WF_vars(HandlerStep(h))
  /\ \A g \in Groups : SF_vars(\E h \in Handlers : Post(h, g))
Spec == Init /\ [][Next]_vars /\ Fairness

-----------------------------------------------------------------------------
(* Properties.                                                             *)

(* The answer tells Grafana what happened (do_POST, publish_alerts).  A    *)
(* refused batch had no effect at all.  After any other answer every alert *)
(* of the batch was announced once, no source (name and data source) twice *)
(* for one status, and after a 200 every channel was tried as well.  It    *)
(* says nothing of a request that ends without an answer.                  *)
AnnouncedOnce(h) ==
  /\ \A a \in webhook[h].alerts :
       Cardinality({n \in told[h] : /\ a.rule \in n.rules
                                    /\ n.source = a.source
                                    /\ n.status = a.status}) = 1
  /\ \A m, n \in told[h] :
       m.source = n.source /\ m.status = n.status /\ m.source # NoSource => m = n
  /\ \A n \in told[h], rule \in UNION {m.rules : m \in told[h]} :
       rule \in n.rules => \E a \in webhook[h].alerts :
                             /\ a.rule = rule /\ a.source = n.source
                             /\ a.status = n.status
AnswerTellsEffects ==
  \A h \in Handlers :
    stage[h] = "answer" =>
      IF code[h] \in 400 .. 499 THEN told[h] = {} /\ tried[h] = {}
      ELSE /\ \A a \in webhook[h].alerts : a.valid
           /\ AnnouncedOnce(h)
           /\ code[h] = 200 /\ told[h] # {} => tried[h] = Channels

(* A request that Grafana has not given up on never puts an older edition  *)
(* of its group in the place of a newer one in the snapshot, though others *)
(* of the group, abandoned ones included, are served beside it             *)
(* (publish_alerts, in threads of ThreadingHTTPServer).                    *)
NoOlderSnapshot ==
  [][\A h \in Handlers \ abandoned :
       /\ stage[h] = "digest" /\ stage'[h] = "answer"
       /\ retained'.group = retained.group
       => retained'.edition >= retained.edition]_vars

(* Grafana does not have to repeat a group for ever, whatever connection,  *)
(* status or message fails, and whoever gave up before, unless a message   *)
(* cannot be built from it or replies keep being unreadable (send_email,   *)
(* send_telegram, publish_alerts).                                         *)
Patience == <>[][\A g \in Groups : ~GiveUp(g)]_vars
RepliesAreReadable ==
  <>[][\A h \in Handlers, channel \in Channels : ~UnreadableReply(h, channel)]_vars
Settle == \A g \in Groups : g \in wanted ~> g \notin wanted \/ ~Sendable(current[g])
GroupsSettle == Patience /\ RepliesAreReadable => Settle

(* relay.py:77 and 153, "Best-effort.": the same whatever the replies are. *)
BestEffort == Patience => Settle
=============================================================================
