----------------------------- MODULE Connectors -----------------------------
(***************************************************************************)
(* One connector of the gateway, from its row to its events: the routes    *)
(* that create, change and delete it, the lifecycle that stops and starts  *)
(* its subscription or its timer, the RabbitMQ driver with its reconnects, *)
(* the polls that overlap each other and the webhook that is answered      *)
(* before it is processed (apps/gateway, packages/connector-worker).       *)
(*                                                                         *)
(* Storage is SQLite in the process and answers at once, so one action is  *)
(* a stretch between two waits for something else: the broker, the server  *)
(* that is polled, the processing of an event, a timer.  Nothing catches a *)
(* rejected promise without a handler: it ends the process.                *)
(***************************************************************************)
EXTENDS Naturals, FiniteSets

CONSTANTS
  Types,               \* connector types that occur
  Requests, Boot,      \* requests to the routes, and the start of the gateway
  Subs, NoSub,         \* bound: subscriptions the driver opens
  Messages,            \* messages of the queue, or calls of the webhook
  Polls,               \* bound: polls that wait at once
  MaxEdits,            \* bound: updates of the row
  MaxContent,          \* bound: versions of what is polled
  MaxCloses,           \* bound: connections that the broker closes
  MaxFaults            \* bound: calls that fail, and crashes

ASSUME ConnectorsAssumption ==
  /\ Types \subseteq {"queue", "polling", "webhook"}
  /\ Boot \notin Requests /\ NoSub \notin Subs
  /\ {MaxEdits, MaxCloses, MaxFaults} \subseteq Nat /\ MaxContent \in Nat \ {0}

VARIABLES
  type, requeue,       \* Connector.type, requeueOnFailure
  secret, sender,      \* a webhook's secret; per message, how it is signed
  \* storage
  row, enabled, ver,   \* "absent", "stored", "deleted"; enabled; version of the row
  \* the process and its requests
  up, req,             \* per request: place, subscription, and the row it goes by
  subscriptions,       \* QueueConnector.subscriptions
  timer,               \* PollingConnector.timers: the version that is polled, or 0
  \* the RabbitMQ driver
  stage, closed,       \* per subscription: its connection; close() was called
  \* the broker, and the handlers at work
  msg, work, processed,
  \* polling
  content, state,      \* what is served; PollingConnector.states
  poll, events,        \* polls that wait; events made of each content, by this process
  \* what happened
  raced,               \* calls of the lifecycle, or polls, crossed each other or a reconnect
  closes, faults

row_    == <<type, requeue, secret, sender, row, enabled, ver>>
life    == <<up, req, subscriptions, timer>>
driver  == <<stage, closed>>
broker  == <<msg, work, processed>>
polling == <<content, state, poll, events>>
bounds  == <<raced, closes, faults>>
vars    == <<row_, life, driver, broker, polling, bounds>>

\* A webhook is signed over the bytes JSON.stringify would write, or over the
\* same value formatted in another way, or with another secret, or not at all.
Senders == {"signed", "reformatted", "forged", "unsigned"}

Callers == Requests \cup {Boot}
Idle    == [pc |-> "idle", sub |-> NoSub, on |-> FALSE, ver |-> 0]
Resting == [pc |-> "idle", got |-> 0]
Quiet   == \A r \in Callers : req[r].pc = "idle"

Init ==
  /\ type \in Types
  /\ requeue \in IF type = "queue" THEN BOOLEAN ELSE {FALSE}
  /\ secret \in IF type = "webhook" THEN BOOLEAN ELSE {FALSE}
  /\ sender \in [Messages -> IF type = "webhook" THEN Senders ELSE {"unsigned"}]
  /\ row = "absent" /\ enabled = FALSE /\ ver = 0
  /\ up = TRUE /\ req = [r \in Callers |-> Idle] /\ subscriptions = NoSub /\ timer = 0
  /\ stage = [s \in Subs |-> "free"] /\ closed = [s \in Subs |-> FALSE]
  /\ msg = [m \in Messages |-> "ready"] /\ work = {} /\ processed = [m \in Messages |-> 0]
  /\ content = 1 /\ state = 0 /\ poll = [p \in Polls |-> Resting]
  /\ events = [c \in 1..MaxContent |-> 0]
  /\ raced = FALSE /\ closes = 0 /\ faults = 0

-----------------------------------------------------------------------------
(* Broken connections and the end of the process.                          *)

\* The broker takes back what the channel of s has not acknowledged; the
\* handlers that work on it do not notice.
Requeued(s) ==
  /\ msg' = [m \in Messages |-> IF [m |-> m, s |-> s, live |-> TRUE] \in work
                                THEN "ready" ELSE msg[m]]
  /\ work' = {IF w.s = s THEN [w EXCEPT !.live = FALSE] ELSE w : w \in work}

\* The gateway ends: what is in memory is lost, and with it the webhooks that
\* were answered and not yet processed.
Down ==
  /\ up' = FALSE
  /\ req' = [r \in Callers |-> Idle] /\ subscriptions' = NoSub /\ timer' = 0
  /\ stage' = [s \in Subs |-> "free"] /\ closed' = [s \in Subs |-> FALSE]
  /\ msg' = [m \in Messages |-> IF msg[m] # "held" THEN msg[m]
                                ELSE IF type = "webhook" THEN "lost" ELSE "ready"]
  /\ work' = {}
  /\ state' = 0 /\ poll' = [p \in Polls |-> Resting] /\ events' = [c \in 1..MaxContent |-> 0]
  /\ raced' = FALSE

Fault == faults < MaxFaults /\ faults' = faults + 1

Crash ==
  /\ up /\ Fault /\ Down
  /\ UNCHANGED <<row_, processed, content, closes>>

-----------------------------------------------------------------------------
(* The lifecycle: sync stops what runs and starts what the row asks for.   *)

\* PollingConnector.stop and start: a timer that runs is left alone.
StopPolling == 0

StartPolling(t, v) == IF t # 0 THEN t ELSE v

\* subscribe of the driver begins to open a connection.
Subscribe(r, on, v, st) ==
  \E s \in Subs :
    /\ st[s] = "free" /\ ~closed[s]
    /\ stage' = [st EXCEPT ![s] = "opening"]
    /\ req' = [req EXCEPT ![r] = [pc |-> "subscribing", sub |-> s, on |-> on, ver |-> v]]

Start_keepsTimer(r, on, v, st) ==
  /\ timer' = (IF on /\ type = "polling" THEN StartPolling(timer, v) ELSE timer)
  /\ IF on /\ type = "queue" THEN Subscribe(r, on, v, st)
     ELSE req' = [req EXCEPT ![r] = Idle] /\ stage' = st

\* Second half of sync, by the row the caller read; st are the connections.
Start(r, on, v, st) ==
  /\ timer' = (IF on /\ type = "polling" THEN StartPolling(StopPolling, v) ELSE StopPolling)
  /\ IF on /\ type = "queue" THEN Subscribe(r, on, v, st)
     ELSE req' = [req EXCEPT ![r] = Idle] /\ stage' = st

\* subscription.close() of the driver: cleanup closes a connection that is
\* open; one that is being reopened is not known yet.
CloseSubscription(s) ==
  /\ closed' = [closed EXCEPT ![s] = TRUE]
  /\ stage' = [stage EXCEPT ![s] = IF @ = "open" THEN "quitting" ELSE @]

\* First half of sync and of stop: QueueConnector.stop waits for the close.
Sync(r, on, v) ==
  /\ raced' = (raced \/ (type = "queue" /\ ~Quiet))
  /\ IF subscriptions # NoSub
     THEN /\ CloseSubscription(subscriptions)
          /\ req' = [req EXCEPT ![r] = [pc |-> "closing", sub |-> subscriptions, on |-> on, ver |-> v]]
          /\ UNCHANGED timer
     ELSE Start(r, on, v, stage) /\ UNCHANGED closed

\* The close has been answered; the entry is deleted, whoever's it is by now.
Stopped(r) ==
  LET s == req[r].sub IN
  /\ req[r].pc = "closing"
  /\ IF stage[s] = "quitting" THEN Requeued(s) ELSE UNCHANGED <<msg, work>>
  /\ subscriptions' = NoSub
  /\ Start(r, req[r].on, req[r].ver,
           [stage EXCEPT ![s] = IF @ = "quitting" THEN "free" ELSE @])
  /\ UNCHANGED <<row_, up, closed, processed, polling, bounds>>

\* The close is refused, or the connection drops under it: there is no
\* consumer any more, but the entry stays, and sync ends with the error before
\* it starts anything.  Nothing reconnects, for the subscription is closed; the
\* next sync finds nothing to close and deletes the entry.
CloseFails(r) ==
  LET s == req[r].sub IN
  /\ req[r].pc = "closing" /\ stage[s] = "quitting" /\ Fault
  /\ Requeued(s)
  /\ stage' = [stage EXCEPT ![s] = "free"]
  /\ req' = [req EXCEPT ![r] = Idle]
  /\ UNCHANGED <<row_, up, subscriptions, timer, closed, processed, polling, raced, closes>>

Subscribed(r) ==
  /\ req[r].pc = "subscribing"
  /\ stage' = [stage EXCEPT ![req[r].sub] = "open"]
  /\ subscriptions' = req[r].sub
  /\ req' = [req EXCEPT ![r] = Idle]
  /\ UNCHANGED <<row_, up, timer, closed, broker, polling, bounds>>

\* The request is answered with an error, the start of the gateway goes on.
SubscribeFails(r) ==
  /\ req[r].pc = "subscribing" /\ Fault
  /\ stage' = [stage EXCEPT ![req[r].sub] = "free"]
  /\ req' = [req EXCEPT ![r] = Idle]
  /\ UNCHANGED <<row_, up, subscriptions, timer, closed, broker, polling, raced, closes>>

-----------------------------------------------------------------------------
(* The routes, and the start of the gateway.                               *)

Serving(r) == up /\ r \in Requests /\ req[r].pc = "idle" /\ req[Boot].pc = "idle"

\* The repository: a new row is enabled; an update merges what it is given.
CreateRow == row' = "stored" /\ enabled' = TRUE /\ ver' = 1

UpdateRow == enabled' \in BOOLEAN /\ ver' = ver + 1 /\ UNCHANGED row

DeleteRow == row' = "deleted" /\ UNCHANGED <<enabled, ver>>

CreateConnector(r) ==
  /\ Serving(r) /\ row = "absent"
  /\ CreateRow
  /\ Sync(r, TRUE, 1)
  /\ UNCHANGED <<type, requeue, secret, sender, up, subscriptions, broker, polling, closes, faults>>

UpdateConnector(r) ==
  /\ Serving(r) /\ row = "stored" /\ ver <= MaxEdits
  /\ UpdateRow
  /\ Sync(r, enabled', ver')
  /\ UNCHANGED <<type, requeue, secret, sender, up, subscriptions, broker, polling, closes, faults>>

DeleteConnector(r) ==
  /\ Serving(r) /\ row = "stored"
  /\ DeleteRow
  /\ Sync(r, FALSE, 0)
  /\ UNCHANGED <<type, requeue, secret, sender, up, subscriptions, broker, polling, closes, faults>>

\* createConnectorRuntime: every enabled connector is synced before the
\* gateway listens.
BootGateway ==
  /\ ~up /\ up' = TRUE
  /\ IF row = "stored" /\ enabled THEN Start(Boot, TRUE, ver, stage)
     ELSE UNCHANGED <<timer, stage, req>>
  /\ UNCHANGED <<row_, subscriptions, closed, broker, polling, bounds>>

-----------------------------------------------------------------------------
(* The RabbitMQ driver.                                                    *)

ConnectionCloses_only(s) ==
  /\ stage[s] = "open" /\ closes < MaxCloses
  /\ closes' = closes + 1
  /\ stage' = [stage EXCEPT ![s] = "free"]
  /\ Requeued(s)
  /\ UNCHANGED <<row_, life, closed, processed, polling, raced, faults>>

\* The close handler schedules a reconnect unless the subscription was closed.
ConnectionCloses(s) ==
  /\ stage[s] = "open" /\ closes < MaxCloses
  /\ closes' = closes + 1
  /\ stage' = [stage EXCEPT ![s] = IF closed[s] THEN "free" ELSE "waiting"]
  /\ Requeued(s)
  /\ UNCHANGED <<row_, life, closed, processed, polling, raced, faults>>

\* The timer looks at `closed`; openSubscription does not look again.
Reconnect(s) ==
  /\ stage[s] = "waiting"
  /\ stage' = [stage EXCEPT ![s] = IF closed[s] THEN "free" ELSE "reopening"]
  /\ UNCHANGED <<row_, life, closed, broker, polling, bounds>>

Reopened(s) ==
  /\ stage[s] = "reopening"
  /\ stage' = [stage EXCEPT ![s] = "open"]
  /\ raced' = (raced \/ closed[s])
  /\ UNCHANGED <<row_, life, closed, broker, polling, closes, faults>>

\* Nobody waits for the reconnect: its error ends the process.
ReopenFails(s) ==
  /\ stage[s] = "reopening" /\ Fault /\ Down
  /\ UNCHANGED <<row_, processed, content, closes>>

Consume_autoAck(s, m) ==
  /\ stage[s] = "open" /\ msg[m] = "ready" /\ type = "queue"
  /\ msg' = [msg EXCEPT ![m] = "acked"]
  /\ work' = work \cup {[m |-> m, s |-> s, live |-> TRUE]}
  /\ UNCHANGED <<row_, life, driver, processed, polling, bounds>>

\* A message is delivered and its processing begins; one that is not JSON is
\* refused without being requeued.
Consume(s, m) ==
  /\ stage[s] = "open" /\ msg[m] = "ready" /\ type = "queue"
  /\ \/ /\ msg' = [msg EXCEPT ![m] = "held"]
        /\ work' = work \cup {[m |-> m, s |-> s, live |-> TRUE]}
        /\ UNCHANGED faults
     \/ Fault /\ msg' = [msg EXCEPT ![m] = "dropped"] /\ UNCHANGED work
  /\ UNCHANGED <<row_, life, driver, processed, polling, raced, closes>>

\* The event was processed and is acknowledged, or it failed and is refused.
Answer(w, ok) ==
  /\ msg' = [msg EXCEPT ![w.m] = IF ok THEN "acked" ELSE IF requeue THEN "ready" ELSE "dropped"]
  /\ work' = work \ {w}

\* The handler of QueueConnector: on a channel that is gone neither ack nor
\* the nacks that answer its error succeed, and the last error ends the process.
Handle(w) ==
  /\ w \in work
  /\ \E ok \in BOOLEAN :
       /\ IF ok THEN UNCHANGED faults ELSE Fault
       /\ processed' = [processed EXCEPT ![w.m] = IF ok THEN @ + 1 ELSE @]
       /\ IF w.live
          THEN Answer(w, ok) /\ UNCHANGED <<life, driver, state, poll, events, raced>>
          ELSE Down
  /\ UNCHANGED <<row_, content, closes>>

-----------------------------------------------------------------------------
(* Polling and webhooks.                                                   *)

ContentChanges ==
  /\ type = "polling" /\ content < MaxContent /\ content' = content + 1
  /\ UNCHANGED <<row_, life, driver, broker, state, poll, events, bounds>>

\* The interval fires although an earlier poll may wait for its answer.
Poll(p) ==
  /\ timer # 0 /\ poll[p].pc = "idle"
  /\ poll' = [poll EXCEPT ![p] = [pc |-> "fetching", got |-> 0]]
  /\ raced' = (raced \/ \E o \in Polls : poll[o].pc # "idle")
  /\ UNCHANGED <<row_, life, driver, broker, content, state, events, closes, faults>>

Fetched(p) ==
  /\ poll[p].pc = "fetching"
  /\ poll' = [poll EXCEPT ![p] = [pc |-> "answered", got |-> content]]
  /\ UNCHANGED <<row_, life, driver, broker, content, state, events, bounds>>

IsUnchanged_known(previous, next) == previous # 0

\* isUnchanged: etag, date or hash of the answer stand for its content.
IsUnchanged(previous, next) == previous # 0 /\ previous = next

Compare(p) ==
  /\ poll[p].pc = "answered"
  /\ poll' = [poll EXCEPT ![p] = IF IsUnchanged(state, @.got) THEN Resting
                                 ELSE [@ EXCEPT !.pc = "processing"]]
  /\ UNCHANGED <<row_, life, driver, broker, content, state, events, bounds>>

\* The state is stored after the event was processed.
PollDone(p) ==
  /\ poll[p].pc = "processing"
  /\ state' = poll[p].got
  /\ events' = [events EXCEPT ![poll[p].got] = IF @ < 2 THEN @ + 1 ELSE 2]
  /\ poll' = [poll EXCEPT ![p] = Resting]
  /\ UNCHANGED <<row_, life, driver, broker, content, bounds>>

\* A request that fails, a status that is not ok, an event that fails: the
\* interval's callback drops the promise, and its error ends the process.
PollFails(p) ==
  /\ poll[p].pc \in {"fetching", "processing"} /\ Fault /\ Down
  /\ UNCHANGED <<row_, processed, content, closes>>

\* validateSignature: the HMAC of the body the route hands over.
ValidateSignature(m) == sender[m] = "signed"

\* validateWebhook: the body is serialised again from what was parsed, so a
\* signature over other bytes of the same value is refused.
ValidateWebhook(m) == secret => ValidateSignature(m)

\* The webhook route: refused with 401, or answered with 202 and then processed.
AcceptWebhook(m) ==
  /\ type = "webhook" /\ up /\ req[Boot].pc = "idle" /\ row = "stored" /\ enabled /\ msg[m] = "ready"
  /\ msg' = [msg EXCEPT ![m] = IF ValidateWebhook(m) THEN "held" ELSE "dropped"]
  /\ UNCHANGED <<row_, life, driver, work, processed, polling, bounds>>

\* handleWebhook, in the background; an error is logged.
HandleWebhook(m) ==
  /\ type = "webhook" /\ msg[m] = "held"
  /\ \/ /\ msg' = [msg EXCEPT ![m] = "acked"]
        /\ processed' = [processed EXCEPT ![m] = @ + 1] /\ UNCHANGED faults
     \/ Fault /\ msg' = [msg EXCEPT ![m] = "dropped"] /\ UNCHANGED processed
  /\ UNCHANGED <<row_, life, driver, work, polling, raced, closes>>

-----------------------------------------------------------------------------
Lifecycle(r) ==
  \/ Stopped(r) \/ CloseFails(r) \/ Subscribed(r) \/ SubscribeFails(r)
  \/ CreateConnector(r) \/ UpdateConnector(r) \/ DeleteConnector(r)

Driver(s) == ConnectionCloses(s) \/ Reconnect(s) \/ Reopened(s) \/ ReopenFails(s)

Polling(p) == Poll(p) \/ Fetched(p) \/ Compare(p) \/ PollDone(p) \/ PollFails(p)

Webhook(m) == AcceptWebhook(m) \/ HandleWebhook(m)

Next ==
  \/ Crash \/ BootGateway \/ ContentChanges
  \/ \E r \in Callers : Lifecycle(r)
  \/ \E s \in Subs : Driver(s) \/ \E m \in Messages : Consume(s, m)
  \/ \E w \in work : Handle(w)
  \/ \E p \in Polls : Polling(p)
  \/ \E m \in Messages : Webhook(m)

\* Calls that wait are answered, timers fire, and the process is started
\* again; nothing is assumed of the operators.
Fairness ==
  /\ WF_vars(BootGateway)
  /\ \A r \in Callers : WF_vars(Stopped(r) \/ Subscribed(r))
  /\ \A s \in Subs : WF_vars(Reconnect(s)) /\ WF_vars(Reopened(s))
  /\ \A s \in Subs, m \in Messages : WF_vars(Consume(s, m))
  /\ WF_vars(\E w \in work : Handle(w))
  /\ \A p \in Polls : WF_vars(Poll(p)) /\ WF_vars(Fetched(p)) /\ WF_vars(Compare(p)) /\ WF_vars(PollDone(p))
  /\ \A m \in Messages : WF_vars(HandleWebhook(m))

Spec == Init /\ [][Next]_vars /\ Fairness

-----------------------------------------------------------------------------
\* The values the variables take.
TypeOK ==
  /\ type \in Types /\ {requeue, secret} \subseteq BOOLEAN /\ sender \in [Messages -> Senders]
  /\ enabled \in BOOLEAN /\ up \in BOOLEAN
  /\ row \in {"absent", "stored", "deleted"} /\ ver \in 0..(MaxEdits + 1)
  /\ req \in [Callers -> [pc : {"idle", "closing", "subscribing"}, sub : Subs \cup {NoSub},
                          on : BOOLEAN, ver : 0..(MaxEdits + 1)]]
  /\ subscriptions \in Subs \cup {NoSub} /\ timer \in 0..(MaxEdits + 1)
  /\ stage \in [Subs -> {"free", "opening", "open", "quitting", "waiting", "reopening"}]
  /\ closed \in [Subs -> BOOLEAN]
  /\ msg \in [Messages -> {"ready", "held", "acked", "dropped", "lost"}]
  /\ work \subseteq [m : Messages, s : Subs, live : BOOLEAN] /\ processed \in [Messages -> Nat]
  /\ content \in 1..MaxContent /\ state \in 0..MaxContent /\ events \in [1..MaxContent -> 0..2]
  /\ poll \in [Polls -> [pc : {"idle", "fetching", "answered", "processing"}, got : 0..MaxContent]]
  /\ raced \in BOOLEAN /\ closes \in 0..MaxCloses /\ faults \in 0..MaxFaults

\* As long as no two calls of the lifecycle overlap, and none closes a
\* subscription that is reconnecting, nothing is consumed over a connection
\* that a later stop would not close (connectorLifecycle, QueueConnector.stop).
ConsumersAreTracked ==
  ~raced => \A s \in Subs : stage[s] = "open" => s = subscriptions

\* There is an entry in the map, and it is not one whose close failed.
HasSubscription == subscriptions # NoSub /\ ~closed[subscriptions]

\* Between calls that did not overlap the gateway runs what the row says: a
\* polling connector its own version, through crashes too, a queue connector a
\* subscription that is not closed unless a call failed, a disabled or deleted
\* one neither: a close that failed leaves its entry behind, but no consumer
\* (connectorLifecycle, QueueConnector.stop).
RunsWhatIsStored ==
  up /\ Quiet /\ (type = "queue" => ~raced) =>
    /\ timer = (IF type = "polling" /\ row = "stored" /\ enabled THEN ver ELSE 0)
    /\ type = "queue" /\ row = "stored" /\ enabled /\ faults = 0 =>
         HasSubscription
    /\ ~(row = "stored" /\ enabled) =>
         /\ subscriptions = NoSub \/ closed[subscriptions]
         /\ \A s \in Subs : stage[s] # "open"

\* The types, and what runs between the calls of the lifecycle.
ConnectorInv == TypeOK /\ ConsumersAreTracked /\ RunsWhatIsStored

\* A message is acknowledged only after its event was processed, whatever
\* crash or closed connection comes between, and processed twice only if a
\* channel or the process was lost (QueueConnector.start, createQueueMessage).
\* With a secret only what is signed with it is processed (validateWebhook).
AckedWasProcessed ==
  \A m \in Messages :
    /\ msg[m] = "acked" => processed[m] > 0
    /\ secret /\ processed[m] > 0 => sender[m] = "signed"
    /\ processed[m] > 1 => closes + faults > 0 \/ ver > 1 \/ row = "deleted"

\* Polls that do not overlap make at most one event of each content that is
\* served, in the life of the process (PollingConnector.poll).
OneEventPerChange == ~raced => \A c \in 1..MaxContent : events[c] < 2

\* What becomes of messages and of polled contents.
EventInv == AckedWasProcessed /\ OneEventPerChange

\* In the end the state that is stored is the content that is served, although
\* polls overlap and a late answer may overwrite a newer state.
SettlesOnLatest == <>[](timer = 0 \/ state = content)

\* A message that waits is consumed as long as there is a subscription that
\* nobody closed, over connections that close and are reopened (recover of the
\* RabbitMQ driver).  One whose close failed is in the map and consumes nothing.
WaitingIsConsumed ==
  \A m \in Messages : msg[m] = "ready" /\ HasSubscription ~> msg[m] # "ready" \/ ~HasSubscription
=============================================================================
