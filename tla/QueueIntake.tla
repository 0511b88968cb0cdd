----------------------------- MODULE QueueIntake -----------------------------
(***************************************************************************)
(* From a Redis stream to agent runs: the consume loop and the recovery of *)
(* RedisQueueDriver, the message handler of QueueConnector and the retries *)
(* of EventProcessor (packages/connector-worker), for one queue connector  *)
(* of the gateway.                                                         *)
(*                                                                         *)
(* Every client the driver opens has a consume loop of its own, and a loop *)
(* goes on with the batch it has read when its client is replaced.  One    *)
(* action is the stretch of a loop between two awaits.                     *)
(***************************************************************************)
EXTENDS Naturals, FiniteSets

CONSTANTS
  Payloads, NoPayload,
  Entries, NoEntry,    \* bound: stream entries, republished ones included
  Clients, NoClient,   \* bound: clients the driver opens
  BatchSize,           \* RedisQueueConfig.batchSize
  MaxRetries,          \* RetryPolicy.maxRetries
  MaxFaults,           \* bound: calls to the broker, the storage and the agents that fail
  MaxCloses,           \* bound: close events of clients
  MaxStops             \* bound: subscriptions closed by an operator, and crashes

ASSUME QueueIntakeAssumption ==
  /\ NoPayload \notin Payloads
  /\ NoEntry \notin Entries
  /\ NoClient \notin Clients
  /\ BatchSize \in Nat
  /\ MaxRetries \in Nat
  /\ MaxFaults \in Nat
  /\ MaxCloses \in Nat
  /\ MaxStops \in Nat

VARIABLES
  \* the connector and its messages
  onFailure,             \* requeueOnFailure, else a deadLetterStream, or neither
  wanted,                \* payloads that pass the connector's filters
  malformed,             \* payloads that are not JSON
  \* the broker
  entry,                 \* "none", "ready", "pending" (read, not acknowledged), "acked"
  payloadOf,             \* the payload of each entry
  dead,                  \* payloads in the dead letter stream
  \* the gateway's storage
  events,                \* final statuses that event rows of a payload have had
  runs,                  \* runs submitted for a payload
  \* the driver
  subscribed,            \* QueueConnector holds a subscription
  client,                \* the client that is in use
  shut,                  \* clients whose subscription has been closed
  quit,                  \* clients that have been closed
  timers,                \* reconnects that are scheduled
  \* the consume loop of each client: place, batch, entry and attempt
  pc, batch, cur, attempt, nacks,
  \* bounds
  faults, closes, stops

config  == <<onFailure, wanted, malformed>>
broker  == <<entry, payloadOf, dead>>
storage == <<events, runs>>
driver  == <<subscribed, client, shut, quit, timers>>
work    == <<cur, attempt, nacks>>
loops   == <<pc, batch, work>>
vars    == <<config, broker, storage, driver, loops, faults, closes, stops>>

Pc == {"none", "opening", "loop", "reading", "next", "create", "filtered", "transform",
       "submit", "record", "failing", "failingRetryable", "ack", "del", "publish",
       "nackAck", "nackDel", "ended"}

OnFailure == {"requeue", "deadLetter", "drop"}

ConfigOK ==
  /\ onFailure \in OnFailure
  /\ wanted \in SUBSET Payloads /\ malformed \in SUBSET Payloads

BrokerOK ==
  /\ entry \in [Entries -> {"none", "ready", "pending", "acked"}]
  /\ payloadOf \in [Entries -> Payloads \cup {NoPayload}]
  /\ dead \in SUBSET Payloads

StorageOK ==
  /\ events \in [Payloads -> SUBSET {"filtered", "submitted", "failed"}]
  /\ runs \in [Payloads -> Nat]

DriverOK ==
  /\ subscribed \in BOOLEAN
  /\ client \in Clients \cup {NoClient}
  /\ shut \in SUBSET Clients
  /\ quit \in SUBSET Clients
  /\ timers \in Nat

LoopsOK ==
  /\ pc \in [Clients -> Pc]
  /\ batch \in [Clients -> SUBSET Entries]
  /\ cur \in [Clients -> Entries \cup {NoEntry}]
  /\ attempt \in [Clients -> 1..(MaxRetries + 1)]
  /\ nacks \in [Clients -> 0..2]

BoundsOK == faults \in 0..MaxFaults /\ closes \in 0..MaxCloses /\ stops \in 0..MaxStops

TypeOK == ConfigOK /\ BrokerOK /\ StorageOK /\ DriverOK /\ LoopsOK /\ BoundsOK

Init ==
  /\ onFailure \in OnFailure
  /\ malformed \in SUBSET Payloads /\ wanted \in SUBSET (Payloads \ malformed)
  /\ entry = [e \in Entries |-> "none"]
  /\ payloadOf = [e \in Entries |-> NoPayload]
  /\ dead = {}
  /\ events = [p \in Payloads |-> {}]
  /\ runs = [p \in Payloads |-> 0]
  /\ subscribed = FALSE
  /\ client = NoClient
  /\ shut = {}
  /\ quit = {}
  /\ timers = 0
  /\ pc = [c \in Clients |-> "none"]
  /\ batch = [c \in Clients |-> {}]
  /\ cur = [c \in Clients |-> NoEntry]
  /\ attempt = [c \in Clients |-> 1]
  /\ nacks = [c \in Clients |-> 0]
  /\ faults = 0
  /\ closes = 0
  /\ stops = 0

-----------------------------------------------------------------------------
Throws   == faults < MaxFaults /\ faults' = faults + 1
Succeeds == UNCHANGED faults

(* Commands of a client that has been closed are rejected.                  *)
BrokerThrows(c)   == (c \in quit /\ Succeeds) \/ (c \notin quit /\ Throws)
BrokerSucceeds(c) == c \notin quit /\ Succeeds

GoTo(c, place) == pc' = [pc EXCEPT ![c] = place]
Payload(c) == payloadOf[cur[c]]

(* XADD                                                                     *)
AddEntry(p) ==
  \E e \in Entries :
    /\ entry[e] = "none"
    /\ entry' = [entry EXCEPT ![e] = "ready"]
    /\ payloadOf' = [payloadOf EXCEPT ![e] = p]

(* eventRepo.update with a final status                                     *)
SaveEvent(c, status) == events' = [events EXCEPT ![Payload(c)] = @ \cup {status}]

(* A producer adds a message to the stream.  The consumer group is created  *)
(* by the first client, and begins with the entries that come after ("$").  *)
Publish(p) ==
  /\ \E c \in Clients : pc[c] \notin {"none", "opening"}
  /\ \A e \in Entries : payloadOf[e] # p
  /\ AddEntry(p)
  /\ UNCHANGED <<config, dead, storage, driver, loops, faults, closes, stops>>

-----------------------------------------------------------------------------
(* Subscriptions.                                                           *)

(* QueueConnector.start calls subscribe, which opens a client; the gateway  *)
(* is taken to start a connector only when it is stopped.                   *)
Subscribe(c) ==
  /\ ~subscribed
  /\ \A d \in Clients : pc[d] = "opening" => d \in shut
  /\ pc[c] = "none"
  /\ GoTo(c, "opening")
  /\ UNCHANGED <<config, broker, storage, driver, batch, work, faults, closes, stops>>

(* openSubscription, after its awaits: the new client becomes the one in    *)
(* use, whether or not there is another, and its loop starts.  If the       *)
(* subscription was closed meanwhile the loop ends at once.                 *)
Opened(c) ==
  /\ pc[c] = "opening"
  /\ \/ /\ c \notin shut
        /\ client' = c
        /\ subscribed' = TRUE
        /\ GoTo(c, "loop")
     \/ c \in shut /\ GoTo(c, "ended") /\ UNCHANGED <<client, subscribed>>
  /\ UNCHANGED <<config, broker, storage, shut, quit, timers, batch, work, faults, closes,
                 stops>>

(* The process goes down: everything but the broker and the storage is lost.*)
Down ==
  /\ subscribed' = FALSE
  /\ client' = NoClient
  /\ timers' = 0
  /\ pc' = [c \in Clients |-> IF pc[c] \in {"none", "opening"} THEN "none" ELSE "ended"]
  /\ batch' = [c \in Clients |-> {}]
  /\ cur' = [c \in Clients |-> NoEntry]
  /\ attempt' = [c \in Clients |-> 1]
  /\ nacks' = [c \in Clients |-> 0]
  /\ shut' = {c \in Clients : pc[c] \notin {"none", "opening"}}
  /\ UNCHANGED quit

(* openSubscription throws: subscribe passes it on, a reconnect has nobody  *)
(* to handle the rejection.                                                 *)
OpenFails(c) ==
  /\ pc[c] = "opening"
  /\ Throws
  /\ \/ /\ ~subscribed /\ c \notin shut
        /\ GoTo(c, "none")
        /\ UNCHANGED <<driver, batch, work>>
     \/ (subscribed \/ c \in shut) /\ Down
  /\ UNCHANGED <<config, broker, storage, closes, stops>>

Crash ==
  /\ stops < MaxStops
  /\ stops' = stops + 1
  /\ Down
  /\ UNCHANGED <<config, broker, storage, faults, closes>>

(* Mutant: the client that went away is not replaced.                       *)
Recover_not(c) == c \in Clients /\ UNCHANGED timers

(* recover: with the default scheduler the recovering flag is down again    *)
(* before the timer fires, so every call schedules a reconnect.             *)
Recover(c) == timers' = IF c \in shut THEN timers ELSE timers + 1

Reconnect(c) ==
  /\ timers > 0
  /\ timers' = timers - 1
  /\ pc[c] = "none"
  /\ GoTo(c, "opening")
  /\ UNCHANGED <<config, broker, storage, subscribed, client, shut, quit, batch, work,
                 faults, closes, stops>>

(* The close handler of a client, registered until the subscription closes. *)
ClientCloses(c) ==
  /\ closes < MaxCloses
  /\ closes' = closes + 1
  /\ pc[c] \notin {"none", "opening"}
  /\ c \notin shut
  /\ client' = IF client = c THEN NoClient ELSE client
  /\ Recover(c)
  /\ UNCHANGED <<config, broker, storage, subscribed, shut, quit, loops, faults, stops>>

(* The client in use is closed; others the driver has opened are not.       *)
Cleanup ==
  /\ client' = NoClient
  /\ quit' = quit \cup ({client} \cap Clients)

(* QueueConnector.stop: the subscription is closed.  Scheduled reconnects   *)
(* find it so.  A client whose quit is refused is closed as well; the entry *)
(* it leaves in the connector's map is in Connectors (CloseFails).          *)
Stop ==
  /\ subscribed
  /\ stops < MaxStops
  /\ stops' = stops + 1
  /\ subscribed' = FALSE
  /\ shut' = shut \cup {c \in Clients : pc[c] # "none"}
  /\ Cleanup
  /\ timers' = 0
  /\ UNCHANGED <<config, broker, storage, loops, faults, closes>>

-----------------------------------------------------------------------------
(* The consume loop.                                                        *)
LoopTest(c) ==
  /\ pc[c] = "loop"
  /\ GoTo(c, IF client = c /\ c \notin shut THEN "reading" ELSE "ended")
  /\ UNCHANGED <<config, broker, storage, driver, batch, work, faults, closes, stops>>

(* The loop is given up with the entries it has not come to; a loop whose   *)
(* client is the one in use has it replaced.                                *)
Abandon(c) ==
  /\ GoTo(c, "ended")
  /\ batch' = [batch EXCEPT ![c] = {}]
  /\ cur' = [cur EXCEPT ![c] = NoEntry]
  /\ \/ client = c /\ client' = NoClient /\ Recover(c)
     \/ client # c /\ UNCHANGED <<client, timers>>
  /\ attempt' = [attempt EXCEPT ![c] = 1]
  /\ nacks' = [nacks EXCEPT ![c] = 0]
  /\ UNCHANGED <<subscribed, shut, quit>>

Ready == {e \in Entries : entry[e] = "ready"}

(* What XREADGROUP with the id ">" may return: entries that no consumer has *)
(* been given, and none only when there are none.                           *)
Readable == {S \in SUBSET Ready : Cardinality(S) <= BatchSize /\ (S = {} => Ready = {})}

(* Mutant: entries that are pending are read once more.                     *)
Readable_pending ==
  {S \in SUBSET {e \in Entries : entry[e] \in {"ready", "pending"}} :
     Cardinality(S) <= BatchSize}

Take(S) == entry' = [e \in Entries |-> IF e \in S THEN "pending" ELSE entry[e]]

(* Mutant: the driver asks for its pending entries, too.                    *)
Read_pending(c) ==
  /\ pc[c] = "reading"
  /\ \E S \in Readable_pending :
       /\ Take(S)
       /\ batch' = [batch EXCEPT ![c] = S]
  /\ GoTo(c, "next")
  /\ UNCHANGED <<config, payloadOf, dead, storage, driver, work, faults, closes, stops>>

(* readGroup.  When it throws, the broker may have answered nevertheless.   *)
Read(c) ==
  /\ pc[c] = "reading"
  /\ \E S \in Readable :
       \/ /\ Succeeds
          /\ Take(S)
          /\ batch' = [batch EXCEPT ![c] = S]
          /\ GoTo(c, "next")
          /\ UNCHANGED <<driver, work>>
       \/ Throws /\ Take(S) /\ Abandon(c)
       \/ Throws /\ UNCHANGED entry /\ Abandon(c)
  /\ UNCHANGED <<config, payloadOf, dead, storage, closes, stops>>

(* The next entry of the batch.  A payload that does not parse throws.      *)
NextEntry(c) ==
  /\ pc[c] = "next"
  /\ \/ batch[c] = {} /\ GoTo(c, "loop") /\ UNCHANGED <<driver, batch, work>>
     \/ \E e \in batch[c] :
          \/ payloadOf[e] \in malformed /\ Abandon(c)
          \/ /\ payloadOf[e] \notin malformed
             /\ batch' = [batch EXCEPT ![c] = @ \ {e}]
             /\ cur' = [cur EXCEPT ![c] = e]
             /\ GoTo(c, "create")
             /\ UNCHANGED <<driver, attempt, nacks>>
  /\ UNCHANGED <<config, broker, storage, faults, closes, stops>>

-----------------------------------------------------------------------------
PassesFilters(c) == Payload(c) \in wanted

(* EventProcessor.processEventAttempt.  Errors of the storage have no code  *)
(* that shouldRetry knows.                                                  *)
CreateEvent(c) ==
  /\ pc[c] = "create"
  /\ \/ Succeeds /\ GoTo(c, IF PassesFilters(c) THEN "transform" ELSE "filtered")
     \/ Throws /\ GoTo(c, "failing")
  /\ UNCHANGED <<config, broker, storage, driver, batch, work, closes, stops>>

MarkFiltered(c) ==
  /\ pc[c] = "filtered"
  /\ \/ Succeeds /\ SaveEvent(c, "filtered") /\ GoTo(c, "ack")
     \/ Throws /\ GoTo(c, "failing") /\ UNCHANGED events
  /\ UNCHANGED <<config, broker, runs, driver, batch, work, closes, stops>>

(* The payload is transformed, which may throw, and the input stored.       *)
SaveInput(c) ==
  /\ pc[c] = "transform"
  /\ \/ Succeeds /\ GoTo(c, "submit")
     \/ Throws /\ GoTo(c, "failing")
  /\ UNCHANGED <<config, broker, storage, driver, batch, work, closes, stops>>

Submit(c) ==
  /\ pc[c] = "submit"
  /\ \/ /\ Succeeds
        /\ runs' = [runs EXCEPT ![Payload(c)] = @ + 1]
        /\ GoTo(c, "record")
     \/ /\ Throws
        /\ \E place \in {"failing", "failingRetryable"} : GoTo(c, place)
        /\ UNCHANGED runs
  /\ UNCHANGED <<config, broker, events, driver, batch, work, closes, stops>>

RecordRun(c) ==
  /\ pc[c] = "record"
  /\ \/ Succeeds /\ SaveEvent(c, "submitted") /\ GoTo(c, "ack")
     \/ Throws /\ GoTo(c, "failing") /\ UNCHANGED events
  /\ UNCHANGED <<config, broker, runs, driver, batch, work, closes, stops>>

(* The handler of QueueConnector, or the loop itself, gives the entry back. *)
Nack(c, n) ==
  /\ GoTo(c, "publish")
  /\ nacks' = [nacks EXCEPT ![c] = n]

TriesAgain(c) == pc[c] = "failingRetryable" /\ attempt[c] <= MaxRetries

(* The catch block: the failure is stored, and a retryable one tried again  *)
(* after a delay.                                                           *)
MarkFailed(c) ==
  /\ pc[c] \in {"failing", "failingRetryable"}
  /\ \/ /\ Succeeds
        /\ SaveEvent(c, "failed")
        /\ \/ /\ TriesAgain(c)
              /\ attempt' = [attempt EXCEPT ![c] = @ + 1]
              /\ GoTo(c, "create")
              /\ UNCHANGED nacks
           \/ ~TriesAgain(c) /\ Nack(c, 1) /\ UNCHANGED attempt
     \/ Throws /\ Nack(c, 1) /\ UNCHANGED <<events, attempt>>
  /\ UNCHANGED <<config, broker, runs, driver, batch, cur, closes, stops>>

-----------------------------------------------------------------------------
(* acknowledgeAndDelete after success; an error is answered with nack.      *)
XAck(c) == entry' = [entry EXCEPT ![cur[c]] = "acked"]

(* The loop is done with its entry.                                         *)
Leave(c) ==
  /\ GoTo(c, "next")
  /\ cur' = [cur EXCEPT ![c] = NoEntry]
  /\ attempt' = [attempt EXCEPT ![c] = 1]
  /\ nacks' = [nacks EXCEPT ![c] = 0]

Ack(c) ==
  /\ pc[c] = "ack"
  /\ \/ BrokerSucceeds(c) /\ XAck(c) /\ GoTo(c, "del") /\ UNCHANGED nacks
     \/ BrokerThrows(c) /\ Nack(c, 1) /\ (UNCHANGED entry \/ (c \notin quit /\ XAck(c)))
  /\ UNCHANGED <<config, payloadOf, dead, storage, driver, batch, cur, attempt, closes,
                 stops>>

(* What is acknowledged is not read again, whether it is deleted or not.    *)
Del(c) ==
  /\ pc[c] = "del"
  /\ \/ BrokerSucceeds(c) /\ Leave(c)
     \/ BrokerThrows(c) /\ Nack(c, 1) /\ UNCHANGED <<cur, attempt>>
  /\ UNCHANGED <<config, broker, storage, driver, batch, closes, stops>>

(* nack throws: the loop tries it a second time, and then gives up.         *)
NackFails(c) ==
  /\ BrokerThrows(c)
  /\ \/ nacks[c] = 1 /\ Nack(c, 2) /\ UNCHANGED <<driver, batch, cur, attempt>>
     \/ nacks[c] # 1 /\ Abandon(c)

Republish(c) == onFailure = "requeue" /\ AddEntry(Payload(c)) /\ UNCHANGED dead

DeadLetter(c) ==
  /\ onFailure = "deadLetter"
  /\ dead' = dead \cup {Payload(c)}
  /\ UNCHANGED <<entry, payloadOf>>

(* Mutant: an error of publish is swallowed.                                *)
NackPublish_swallows(c) ==
  /\ pc[c] = "publish"
  /\ Republish(c) \/ DeadLetter(c) \/ UNCHANGED broker
  /\ GoTo(c, "nackAck")
  /\ UNCHANGED <<config, storage, driver, batch, work, faults, closes, stops>>

(* nack: republished, dead lettered or dropped, in this order, and only     *)
(* then acknowledged and deleted.                                           *)
NackPublish(c) ==
  /\ pc[c] = "publish"
  /\ \/ /\ BrokerSucceeds(c)
        /\ Republish(c) \/ DeadLetter(c)
        /\ GoTo(c, "nackAck")
        /\ UNCHANGED <<driver, batch, work>>
     \/ /\ onFailure = "drop"
        /\ GoTo(c, "nackAck")
        /\ UNCHANGED <<broker, driver, batch, work, faults>>
     \/ /\ onFailure # "drop"
        /\ NackFails(c)
        /\ UNCHANGED broker \/ (c \notin quit /\ (Republish(c) \/ DeadLetter(c)))
  /\ UNCHANGED <<config, storage, closes, stops>>

NackAck(c) ==
  /\ pc[c] = "nackAck"
  /\ \/ /\ BrokerSucceeds(c)
        /\ XAck(c)
        /\ GoTo(c, "nackDel")
        /\ UNCHANGED <<driver, batch, work>>
     \/ NackFails(c) /\ (UNCHANGED entry \/ (c \notin quit /\ XAck(c)))
  /\ UNCHANGED <<config, payloadOf, dead, storage, closes, stops>>

NackDel(c) ==
  /\ pc[c] = "nackDel"
  /\ \/ BrokerSucceeds(c) /\ Leave(c) /\ UNCHANGED <<driver, batch>>
     \/ NackFails(c)
  /\ UNCHANGED <<config, broker, storage, closes, stops>>

-----------------------------------------------------------------------------
LoopStep(c) ==
  \/ LoopTest(c) \/ Read(c) \/ NextEntry(c) \/ CreateEvent(c) \/ MarkFiltered(c)
  \/ SaveInput(c) \/ Submit(c) \/ RecordRun(c) \/ MarkFailed(c) \/ Ack(c) \/ Del(c)
  \/ NackPublish(c) \/ NackAck(c) \/ NackDel(c)

Next ==
  \/ \E p \in Payloads : Publish(p)
  \/ \E c \in Clients :
       \/ Subscribe(c) \/ Opened(c) \/ OpenFails(c) \/ Reconnect(c) \/ ClientCloses(c)
       \/ LoopStep(c)
  \/ Stop
  \/ Crash

Spec == Init /\ [][Next]_vars

(* The event loop gets to every continuation and timer; the gateway starts  *)
(* its connectors.  Producers, operators and failures owe nothing.          *)
Fairness ==
  /\ WF_vars(\E c \in Clients : Subscribe(c))
  /\ WF_vars(\E c \in Clients : Reconnect(c))
  /\ \A c \in Clients : WF_vars(Opened(c)) /\ WF_vars(LoopStep(c))

FairSpec == Spec /\ Fairness

-----------------------------------------------------------------------------
Handled(p) == runs[p] > 0 \/ "filtered" \in events[p] \/ p \in dead

Stored(e, p) == payloadOf[e] = p /\ entry[e] \in {"ready", "pending"}

(* With requeueing or a dead letter stream configured, no message vanishes, *)
(* whatever fails in whatever order, over reconnects, stops and crashes: it *)
(* is in the stream still, or in the dead letter stream, or was filtered or *)
(* submitted (redis-queue-driver.ts 281-309, queue-connector.ts 38-45).     *)
NothingLost ==
  onFailure # "drop" =>
    \A e \in Entries : entry[e] # "none" =>
      Handled(payloadOf[e]) \/ \E f \in Entries : Stored(f, payloadOf[e])

(* The inductive invariant behind it.  Loops at work have their entry,      *)
(* entries that are ready are in nobody's hands,                            *)
Working == Pc \ {"none", "opening", "loop", "reading", "next", "ended"}

InHand ==
  \A c \in Clients :
    /\ pc[c] \in Working => cur[c] \in Entries
    /\ cur[c] \in Entries => entry[cur[c]] \notin {"none", "ready"}
    /\ \A e \in batch[c] : entry[e] \notin {"none", "ready"}

EntriesHavePayloads == \A e \in Entries : entry[e] # "none" => payloadOf[e] \in Payloads

(* what a loop records and acknowledges has been handled,                   *)
AckedIsHandled ==
  \A c \in Clients : pc[c] \in {"record", "ack", "del"} => Handled(Payload(c))

(* and of every message that has not, one entry is left that nobody is      *)
(* about to discard.                                                        *)
Discards(c, e) == cur[c] = e /\ pc[c] \in {"nackAck", "nackDel"}

Kept(e) == entry[e] \in {"ready", "pending"} /\ \A c \in Clients : ~Discards(c, e)

OneIsKept ==
  onFailure # "drop" =>
    \A e \in Entries : entry[e] # "none" =>
      Handled(payloadOf[e]) \/ \E f \in Entries : Kept(f) /\ payloadOf[f] = payloadOf[e]

IntakeInv == TypeOK /\ InHand /\ EntriesHavePayloads /\ AckedIsHandled /\ OneIsKept

(* A message is submitted twice only after some call failed: reconnects,    *)
(* replaced clients, stops and crashes alone never repeat one.              *)
DuplicatesNeedFaults == \A p \in Payloads : faults = 0 => runs[p] <= 1

(* Recovery: while nothing else fails, disconnects do not keep a message of *)
(* the stream from being handled (docs/api/connectors.md 110).              *)
Waiting(p) == \E e \in Entries : payloadOf[e] = p /\ entry[e] = "ready"

WaitingIsHandled ==
  \A p \in Payloads :
    malformed = {} /\ Waiting(p) ~> Handled(p) \/ faults > 0 \/ stops > 0
=============================================================================
