-------------------------- MODULE QueueIntakeProofs --------------------------
(***************************************************************************)
(* Proofs about the intake of queue messages, for any number of messages,  *)
(* entries, clients, failures, reconnects, stops and crashes.              *)
(***************************************************************************)
EXTENDS QueueIntake, TLAPS

USE DEF config, broker, storage, driver, work, loops

-----------------------------------------------------------------------------
(* Type correctness.                                                        *)

(* A loop at work has an entry that has been read, with its payload.        *)
LEMMA WorkHasEntry ==
  ASSUME InHand, EntriesHavePayloads, NEW c \in Clients, pc[c] \in Working
  PROVE  /\ cur[c] \in Entries
         /\ entry[cur[c]] \notin {"none", "ready"}
         /\ Payload(c) \in Payloads
  BY DEF InHand, EntriesHavePayloads, Payload

LEMMA FirstAttempt == 1 \in 1..(MaxRetries + 1)
  BY QueueIntakeAssumption

LEMMA FaultsBounded ==
  ASSUME BoundsOK, Throws \/ Succeeds, UNCHANGED <<closes, stops>> PROVE BoundsOK'
  BY QueueIntakeAssumption DEF Throws, Succeeds, BoundsOK

LEMMA BrokerFaults ==
  ASSUME NEW c \in Clients, BrokerThrows(c) \/ BrokerSucceeds(c) PROVE Throws \/ Succeeds
  BY DEF BrokerThrows, BrokerSucceeds

LEMMA TypeInit == Init => TypeOK
<1> SUFFICES ASSUME Init PROVE TypeOK OBVIOUS
<1>1. ConfigOK BY DEF Init, ConfigOK
<1>2. BrokerOK BY DEF Init, BrokerOK
<1>3. StorageOK
  <2>1. events \in [Payloads -> SUBSET {"filtered", "submitted", "failed"}] BY DEF Init
  <2> QED BY <2>1 DEF Init, StorageOK
<1>4. DriverOK BY DEF Init, DriverOK
<1>5. LoopsOK
  <2>1. batch \in [Clients -> SUBSET Entries] BY DEF Init
  <2>2. pc \in [Clients -> Pc] BY DEF Init, Pc
  <2> QED BY <2>1, <2>2, FirstAttempt DEF Init, LoopsOK
<1>6. BoundsOK BY QueueIntakeAssumption DEF Init, BoundsOK
<1> QED BY <1>1, <1>2, <1>3, <1>4, <1>5, <1>6 DEF TypeOK

LEMMA AddEntryType ==
  ASSUME BrokerOK, NEW p \in Payloads, AddEntry(p), UNCHANGED dead PROVE BrokerOK'
  BY DEF BrokerOK, AddEntry

LEMMA GoToType ==
  ASSUME LoopsOK, NEW c \in Clients, NEW place \in Pc, GoTo(c, place),
         UNCHANGED <<batch, work>>
  PROVE  LoopsOK'
  BY DEF LoopsOK, GoTo

LEMMA AbandonType ==
  ASSUME LoopsOK, DriverOK, NEW c \in Clients, Abandon(c) PROVE LoopsOK' /\ DriverOK'
<1>1. pc' \in [Clients -> Pc] BY DEF Abandon, GoTo, Pc, LoopsOK
<1>2. batch' \in [Clients -> SUBSET Entries] BY DEF Abandon, LoopsOK
<1>3. LoopsOK' BY <1>1, <1>2, FirstAttempt DEF Abandon, LoopsOK
<1>4. DriverOK' BY DEF Abandon, Recover, DriverOK
<1> QED BY <1>3, <1>4

LEMMA DownType ==
  ASSUME DriverOK, Down PROVE LoopsOK' /\ DriverOK'
<1>1. pc' \in [Clients -> Pc] BY DEF Down, Pc
<1>2. batch' \in [Clients -> SUBSET Entries] BY DEF Down
<1>3. LoopsOK' BY <1>1, <1>2, FirstAttempt DEF Down, LoopsOK
<1>4. DriverOK' BY DEF Down, DriverOK
<1> QED BY <1>3, <1>4

LEMMA NackType ==
  ASSUME LoopsOK, NEW c \in Clients, NEW n \in 0..2, Nack(c, n),
         UNCHANGED <<batch, cur, attempt>>
  PROVE  LoopsOK'
  BY DEF Nack, GoTo, LoopsOK, Pc

LEMMA LeaveType ==
  ASSUME LoopsOK, NEW c \in Clients, Leave(c), UNCHANGED batch PROVE LoopsOK'
  BY FirstAttempt DEF Leave, GoTo, LoopsOK, Pc

LEMMA NackFailsType ==
  ASSUME LoopsOK, DriverOK, BoundsOK, NEW c \in Clients, NackFails(c),
         UNCHANGED <<closes, stops>>
  PROVE  LoopsOK' /\ DriverOK' /\ BoundsOK'
<1>1. BoundsOK' BY FaultsBounded, BrokerFaults DEF NackFails
<1>2. CASE Nack(c, 2) /\ UNCHANGED <<driver, batch, cur, attempt>>
  <2>1. LoopsOK' BY <1>2, NackType
  <2> QED BY <1>1, <1>2, <2>1 DEF DriverOK
<1>3. CASE Abandon(c)
  BY <1>1, <1>3, AbandonType
<1> QED BY <1>2, <1>3 DEF NackFails

(* The steps that publishing again or to the dead letter stream shares.     *)
LEMMA RepublishType ==
  ASSUME BrokerOK, NEW c \in Clients, Payload(c) \in Payloads,
         Republish(c) \/ DeadLetter(c)
  PROVE  BrokerOK'
<1>1. CASE Republish(c) BY <1>1, AddEntryType DEF Republish
<1>2. CASE DeadLetter(c) BY <1>2 DEF DeadLetter, BrokerOK
<1> QED BY <1>1, <1>2

(* The steps of a loop.                                                     *)
LEMMA TypeLoopStep ==
  ASSUME TypeOK, InHand, EntriesHavePayloads, NEW c \in Clients, LoopStep(c)
  PROVE  TypeOK'
<1> USE DEF TypeOK
<1> SUFFICES ASSUME TRUE PROVE
      ConfigOK' /\ BrokerOK' /\ StorageOK' /\ DriverOK' /\ LoopsOK' /\ BoundsOK'
  OBVIOUS
<1>0. ConfigOK'
  BY DEF ConfigOK, LoopStep, LoopTest, Read, NextEntry, CreateEvent, MarkFiltered, SaveInput,
         Submit, RecordRun, MarkFailed, Ack, Del, NackPublish, NackAck, NackDel
<1>1. CASE LoopTest(c)
  <2>1. LoopsOK' BY <1>1, GoToType DEF LoopTest, Pc
  <2> QED BY <1>0, <1>1, <2>1 DEF LoopTest, BrokerOK, StorageOK, DriverOK, BoundsOK
<1>2. CASE Read(c)
  <2>1. PICK S \in Readable :
          \/ /\ Succeeds /\ Take(S) /\ batch' = [batch EXCEPT ![c] = S]
             /\ GoTo(c, "next") /\ UNCHANGED <<driver, work>>
          \/ Throws /\ (Take(S) \/ UNCHANGED entry) /\ Abandon(c)
    BY <1>2 DEF Read
  <2>2. S \in SUBSET Entries BY <2>1 DEF Readable, Ready
  <2>3. BrokerOK' BY <1>2, <2>1 DEF Read, Take, BrokerOK
  <2>4. LoopsOK' /\ DriverOK'
    <3>1. CASE Abandon(c) BY <3>1, AbandonType
    <3>2. CASE /\ batch' = [batch EXCEPT ![c] = S]
               /\ GoTo(c, "next") /\ UNCHANGED <<driver, work>>
      BY <3>2, <2>2 DEF LoopsOK, DriverOK, GoTo, Pc
    <3> QED BY <3>1, <3>2, <2>1
  <2>5. BoundsOK' BY <1>2, FaultsBounded DEF Read
  <2> QED BY <1>0, <1>2, <2>3, <2>4, <2>5 DEF Read, StorageOK
<1>3. CASE NextEntry(c)
  <2>1. LoopsOK' /\ DriverOK'
    <3>1. CASE Abandon(c) BY <3>1, AbandonType
    <3>2. CASE batch[c] = {} /\ GoTo(c, "loop") /\ UNCHANGED <<driver, batch, work>>
      <4>1. LoopsOK' BY <3>2, GoToType DEF Pc
      <4> QED BY <3>2, <4>1 DEF DriverOK
    <3>3. ASSUME NEW e \in batch[c],
                 batch' = [batch EXCEPT ![c] = @ \ {e}],
                 cur' = [cur EXCEPT ![c] = e], GoTo(c, "create"),
                 UNCHANGED <<driver, attempt, nacks>>
          PROVE  LoopsOK' /\ DriverOK'
      <4>1. e \in Entries BY DEF LoopsOK
      <4> QED BY <3>3, <4>1 DEF LoopsOK, DriverOK, GoTo, Pc
    <3> QED BY <1>3, <3>1, <3>2, <3>3 DEF NextEntry
  <2> QED BY <1>0, <1>3, <2>1 DEF NextEntry, BrokerOK, StorageOK, BoundsOK
<1>4. CASE CreateEvent(c)
  <2>1. LoopsOK' BY <1>4, GoToType DEF CreateEvent, Pc
  <2>2. BoundsOK' BY <1>4, FaultsBounded DEF CreateEvent
  <2> QED BY <1>0, <1>4, <2>1, <2>2 DEF CreateEvent, BrokerOK, StorageOK, DriverOK
<1>5. CASE MarkFiltered(c)
  <2>1. LoopsOK' BY <1>5, GoToType DEF MarkFiltered, Pc
  <2>2. BoundsOK' BY <1>5, FaultsBounded DEF MarkFiltered
  <2>3. StorageOK' BY <1>5 DEF MarkFiltered, SaveEvent, StorageOK
  <2> QED BY <1>0, <1>5, <2>1, <2>2, <2>3 DEF MarkFiltered, BrokerOK, DriverOK
<1>6. CASE SaveInput(c)
  <2>1. LoopsOK' BY <1>6, GoToType DEF SaveInput, Pc
  <2>2. BoundsOK' BY <1>6, FaultsBounded DEF SaveInput
  <2> QED BY <1>0, <1>6, <2>1, <2>2 DEF SaveInput, BrokerOK, StorageOK, DriverOK
<1>7. CASE Submit(c)
  <2>1. LoopsOK' BY <1>7, GoToType DEF Submit, Pc
  <2>2. BoundsOK' BY <1>7, FaultsBounded DEF Submit
  <2>3. StorageOK' BY <1>7 DEF Submit, StorageOK
  <2> QED BY <1>0, <1>7, <2>1, <2>2, <2>3 DEF Submit, BrokerOK, DriverOK
<1>8. CASE RecordRun(c)
  <2>1. LoopsOK' BY <1>8, GoToType DEF RecordRun, Pc
  <2>2. BoundsOK' BY <1>8, FaultsBounded DEF RecordRun
  <2>3. StorageOK' BY <1>8 DEF RecordRun, SaveEvent, StorageOK
  <2> QED BY <1>0, <1>8, <2>1, <2>2, <2>3 DEF RecordRun, BrokerOK, DriverOK
<1>9. CASE MarkFailed(c)
  <2>1. LoopsOK'
    <3>1. CASE Nack(c, 1) /\ UNCHANGED attempt
      BY <1>9, <3>1, NackType DEF MarkFailed
    <3>2. CASE /\ TriesAgain(c) /\ attempt' = [attempt EXCEPT ![c] = @ + 1]
               /\ GoTo(c, "create") /\ UNCHANGED nacks
      <4>1. attempt[c] + 1 \in 1..(MaxRetries + 1)
        BY <3>2, QueueIntakeAssumption DEF TriesAgain, LoopsOK
      <4> QED BY <1>9, <3>2, <4>1 DEF MarkFailed, LoopsOK, GoTo, Pc
    <3> QED BY <1>9, <3>1, <3>2 DEF MarkFailed
  <2>2. BoundsOK' BY <1>9, FaultsBounded DEF MarkFailed
  <2>3. StorageOK' BY <1>9 DEF MarkFailed, SaveEvent, StorageOK
  <2> QED BY <1>0, <1>9, <2>1, <2>2, <2>3 DEF MarkFailed, BrokerOK, DriverOK
<1>10. CASE Ack(c)
  <2>1. LoopsOK'
    <3>1. CASE Nack(c, 1) BY <1>10, <3>1, NackType DEF Ack
    <3>2. CASE GoTo(c, "del") /\ UNCHANGED nacks BY <1>10, <3>2, GoToType DEF Ack, Pc
    <3> QED BY <1>10, <3>1, <3>2 DEF Ack
  <2>2. BoundsOK' BY <1>10, FaultsBounded, BrokerFaults DEF Ack
  <2>3. BrokerOK' BY <1>10 DEF Ack, XAck, BrokerOK
  <2> QED BY <1>0, <1>10, <2>1, <2>2, <2>3 DEF Ack, StorageOK, DriverOK
<1>11. CASE Del(c)
  <2>1. LoopsOK' BY <1>11, NackType, LeaveType DEF Del
  <2>2. BoundsOK' BY <1>11, FaultsBounded, BrokerFaults DEF Del
  <2> QED BY <1>0, <1>11, <2>1, <2>2 DEF Del, BrokerOK, StorageOK, DriverOK
<1>12. CASE NackPublish(c)
  <2>1. Payload(c) \in Payloads BY <1>12, WorkHasEntry DEF NackPublish, Working, Pc
  <2>2. CASE NackFails(c) /\ (UNCHANGED broker \/ Republish(c) \/ DeadLetter(c))
    <3>1. LoopsOK' /\ DriverOK' /\ BoundsOK' BY <1>12, <2>2, NackFailsType DEF NackPublish
    <3>2. BrokerOK' BY <2>1, <2>2, RepublishType DEF BrokerOK
    <3> QED BY <1>0, <1>12, <3>1, <3>2 DEF NackPublish, StorageOK
  <2>3. CASE /\ BrokerSucceeds(c) /\ (Republish(c) \/ DeadLetter(c)) /\ GoTo(c, "nackAck")
             /\ UNCHANGED <<driver, batch, work>>
    <3>1. LoopsOK' BY <2>3, GoToType DEF Pc
    <3>2. BoundsOK' BY <1>12, <2>3, FaultsBounded, BrokerFaults DEF NackPublish
    <3>3. BrokerOK' BY <2>1, <2>3, RepublishType
    <3> QED BY <1>0, <1>12, <2>3, <3>1, <3>2, <3>3 DEF NackPublish, StorageOK, DriverOK
  <2>4. CASE GoTo(c, "nackAck") /\ UNCHANGED <<broker, driver, batch, work, faults>>
    <3>1. LoopsOK' BY <2>4, GoToType DEF Pc
    <3> QED BY <1>0, <1>12, <2>4, <3>1 DEF NackPublish, BrokerOK, StorageOK, DriverOK, BoundsOK
  <2> QED BY <1>12, <2>2, <2>3, <2>4 DEF NackPublish
<1>13. CASE NackAck(c)
  <2>1. BrokerOK' BY <1>13 DEF NackAck, XAck, BrokerOK
  <2>2. LoopsOK' /\ DriverOK' /\ BoundsOK'
    <3>1. CASE NackFails(c) BY <1>13, <3>1, NackFailsType DEF NackAck
    <3>2. CASE BrokerSucceeds(c) /\ GoTo(c, "nackDel") /\ UNCHANGED <<driver, batch, work>>
      <4>1. LoopsOK' BY <3>2, GoToType DEF Pc
      <4>2. BoundsOK' BY <1>13, <3>2, FaultsBounded, BrokerFaults DEF NackAck
      <4> QED BY <3>2, <4>1, <4>2 DEF DriverOK
    <3> QED BY <1>13, <3>1, <3>2 DEF NackAck
  <2> QED BY <1>0, <1>13, <2>1, <2>2 DEF NackAck, StorageOK
<1>14. CASE NackDel(c)
  <2>1. LoopsOK' /\ DriverOK' /\ BoundsOK'
    <3>1. CASE NackFails(c) BY <1>14, <3>1, NackFailsType DEF NackDel
    <3>2. CASE BrokerSucceeds(c) /\ Leave(c) /\ UNCHANGED <<driver, batch>>
      <4>1. LoopsOK' BY <3>2, LeaveType
      <4>2. BoundsOK' BY <1>14, <3>2, FaultsBounded, BrokerFaults DEF NackDel
      <4> QED BY <3>2, <4>1, <4>2 DEF DriverOK
    <3> QED BY <1>14, <3>1, <3>2 DEF NackDel
  <2> QED BY <1>0, <1>14, <2>1 DEF NackDel, BrokerOK, StorageOK
<1> QED BY <1>1, <1>2, <1>3, <1>4, <1>5, <1>6, <1>7, <1>8, <1>9, <1>10, <1>11, <1>12, <1>13,
           <1>14 DEF LoopStep

(* The other steps of a client.                                             *)
LEMMA TypeClientStep ==
  ASSUME TypeOK, NEW c \in Clients,
         Subscribe(c) \/ Opened(c) \/ OpenFails(c) \/ Reconnect(c) \/ ClientCloses(c)
  PROVE  TypeOK'
<1> USE DEF TypeOK
<1>0. ConfigOK' /\ BrokerOK' /\ StorageOK'
  BY DEF ConfigOK, BrokerOK, StorageOK, Subscribe, Opened, OpenFails, Reconnect, ClientCloses
<1>1. CASE Subscribe(c)
  <2>1. LoopsOK' BY <1>1, GoToType DEF Subscribe, Pc
  <2> QED BY <1>0, <1>1, <2>1 DEF Subscribe, DriverOK, BoundsOK
<1>2. CASE Opened(c)
  <2>1. LoopsOK' BY <1>2, GoToType DEF Opened, Pc
  <2>2. DriverOK' BY <1>2 DEF Opened, DriverOK
  <2> QED BY <1>0, <1>2, <2>1, <2>2 DEF Opened, BoundsOK
<1>3. CASE OpenFails(c)
  <2>1. BoundsOK' BY <1>3, FaultsBounded DEF OpenFails
  <2>2. CASE GoTo(c, "none") /\ UNCHANGED <<driver, batch, work>>
    <3>1. LoopsOK' BY <2>2, GoToType DEF Pc
    <3> QED BY <1>0, <2>1, <2>2, <3>1 DEF DriverOK
  <2>3. CASE Down BY <1>0, <2>1, <2>3, DownType
  <2> QED BY <1>3, <2>2, <2>3 DEF OpenFails
<1>4. CASE Reconnect(c)
  <2>1. LoopsOK' BY <1>4, GoToType DEF Reconnect, Pc
  <2>2. DriverOK' BY <1>4 DEF Reconnect, DriverOK
  <2> QED BY <1>0, <1>4, <2>1, <2>2 DEF Reconnect, BoundsOK
<1>5. CASE ClientCloses(c)
  <2>1. DriverOK' BY <1>5 DEF ClientCloses, Recover, DriverOK
  <2>2. BoundsOK' BY <1>5, QueueIntakeAssumption DEF ClientCloses, BoundsOK
  <2> QED BY <1>0, <1>5, <2>1, <2>2 DEF ClientCloses, LoopsOK
<1> QED BY <1>1, <1>2, <1>3, <1>4, <1>5

LEMMA TypeStep ==
  ASSUME TypeOK, InHand, EntriesHavePayloads, [Next]_vars PROVE TypeOK'
<1>1. ASSUME NEW p \in Payloads, Publish(p) PROVE TypeOK'
  <2>1. BrokerOK' BY <1>1, AddEntryType DEF Publish, TypeOK
  <2> QED BY <1>1, <2>1
          DEF Publish, TypeOK, ConfigOK, StorageOK, DriverOK, LoopsOK, BoundsOK
<1>2. ASSUME NEW c \in Clients,
             Subscribe(c) \/ Opened(c) \/ OpenFails(c) \/ Reconnect(c) \/ ClientCloses(c)
      PROVE  TypeOK'
  BY <1>2, TypeClientStep
<1>3. ASSUME NEW c \in Clients, LoopStep(c) PROVE TypeOK' BY <1>3, TypeLoopStep
<1>4. CASE Stop
  <2>1. DriverOK' BY <1>4 DEF Stop, Cleanup, TypeOK, DriverOK
  <2>2. BoundsOK' BY <1>4, QueueIntakeAssumption DEF Stop, TypeOK, BoundsOK
  <2> QED BY <1>4, <2>1, <2>2 DEF Stop, TypeOK, ConfigOK, BrokerOK, StorageOK, LoopsOK
<1>5. CASE Crash
  <2>1. LoopsOK' /\ DriverOK' BY <1>5, DownType DEF Crash, TypeOK
  <2>2. BoundsOK' BY <1>5, QueueIntakeAssumption DEF Crash, TypeOK, BoundsOK
  <2> QED BY <1>5, <2>1, <2>2 DEF Crash, TypeOK, ConfigOK, BrokerOK, StorageOK
<1>6. CASE UNCHANGED vars
  BY <1>6 DEF vars, TypeOK, ConfigOK, BrokerOK, StorageOK, DriverOK, LoopsOK, BoundsOK
<1> QED BY <1>1, <1>2, <1>3, <1>4, <1>5, <1>6 DEF Next

-----------------------------------------------------------------------------
(* What every step does to the entries of the stream: a loop touches only   *)
(* the entries it has, and what it adds is new.                             *)

Added(e) == entry[e] = "none" /\ entry'[e] = "ready" /\ payloadOf'[e] \in Payloads

Held(e) == payloadOf'[e] = payloadOf[e] /\ entry'[e] \notin {"none", "ready"}

EntryMoves ==
  \A e \in Entries :
    \/ entry'[e] = entry[e] /\ payloadOf'[e] = payloadOf[e]
    \/ entry[e] = "none" /\ Added(e)
    \/ entry[e] # "none" /\ Held(e)

LEMMA AddMoves ==
  ASSUME BrokerOK, NEW p \in Payloads, AddEntry(p) PROVE EntryMoves
  BY DEF BrokerOK, AddEntry, EntryMoves, Added

LEMMA XAckMoves ==
  ASSUME BrokerOK, NEW c \in Clients, cur[c] \in Entries, entry[cur[c]] # "none",
         XAck(c), UNCHANGED payloadOf
  PROVE  EntryMoves
  BY DEF BrokerOK, XAck, EntryMoves, Held

LEMMA RepublishMoves ==
  ASSUME BrokerOK, NEW c \in Clients, Payload(c) \in Payloads, Republish(c) \/ DeadLetter(c)
  PROVE  EntryMoves
<1>1. CASE Republish(c) BY <1>1, AddMoves DEF Republish
<1>2. CASE DeadLetter(c) BY <1>2 DEF DeadLetter, EntryMoves
<1> QED BY <1>1, <1>2

LEMMA EntryStep ==
  ASSUME TypeOK, InHand, EntriesHavePayloads, [Next]_vars PROVE EntryMoves
<1> USE DEF TypeOK
<1>1. CASE UNCHANGED <<entry, payloadOf>> BY <1>1 DEF EntryMoves
<1>2. ASSUME NEW p \in Payloads, Publish(p) PROVE EntryMoves
  BY <1>2, AddMoves DEF Publish
<1>3. ASSUME NEW c \in Clients, LoopStep(c) PROVE EntryMoves
  <2>1. CASE Read(c)
    <3>1. PICK S \in Readable : Take(S) \/ UNCHANGED entry BY <2>1 DEF Read
    <3>2. \A e \in S : entry[e] = "ready" BY DEF Readable, Ready
    <3> QED BY <2>1, <3>1, <3>2 DEF Read, Take, EntryMoves, Held, BrokerOK
  <2>2. CASE Ack(c) \/ NackAck(c)
    <3>1. cur[c] \in Entries /\ entry[cur[c]] # "none"
      BY <2>2, WorkHasEntry DEF Ack, NackAck, Working, Pc
    <3>2. UNCHANGED payloadOf /\ (UNCHANGED entry \/ XAck(c)) BY <2>2 DEF Ack, NackAck
    <3> QED BY <1>1, <3>1, <3>2, XAckMoves
  <2>3. CASE NackPublish(c)
    <3>1. Payload(c) \in Payloads BY <2>3, WorkHasEntry DEF NackPublish, Working, Pc
    <3>2. UNCHANGED broker \/ Republish(c) \/ DeadLetter(c) BY <2>3 DEF NackPublish
    <3> QED BY <1>1, <3>1, <3>2, RepublishMoves
  <2>4. CASE \/ LoopTest(c) \/ NextEntry(c) \/ CreateEvent(c) \/ MarkFiltered(c)
             \/ SaveInput(c) \/ Submit(c) \/ RecordRun(c) \/ MarkFailed(c) \/ Del(c)
             \/ NackDel(c)
    BY <1>1, <2>4 DEF LoopTest, NextEntry, CreateEvent, MarkFiltered, SaveInput, Submit,
                      RecordRun, MarkFailed, Del, NackDel
  <2> QED BY <1>3, <2>1, <2>2, <2>3, <2>4 DEF LoopStep
<1>4. ASSUME NEW c \in Clients,
             Subscribe(c) \/ Opened(c) \/ OpenFails(c) \/ Reconnect(c) \/ ClientCloses(c)
      PROVE  EntryMoves
  BY <1>1, <1>4 DEF Subscribe, Opened, OpenFails, Reconnect, ClientCloses
<1>5. CASE Stop \/ Crash BY <1>1, <1>5 DEF Stop, Crash
<1>6. CASE UNCHANGED vars BY <1>1, <1>6 DEF vars
<1> QED BY <1>2, <1>3, <1>4, <1>5, <1>6 DEF Next

LEMMA PayloadsStep ==
  ASSUME EntriesHavePayloads, EntryMoves PROVE EntriesHavePayloads'
  BY DEF EntriesHavePayloads, EntryMoves, Added, Held

-----------------------------------------------------------------------------
(* What every step does to the loops.                                       *)

(* Loop d goes on with an entry it had, or with none.                       *)
KeepsHands(d) ==
  /\ pc'[d] \in Working => cur'[d] \in Entries
  /\ cur'[d] \in Entries => cur'[d] = cur[d] \/ cur'[d] \in batch[d]
  /\ \A e \in batch'[d] : e \in batch[d] \/ (e \in Entries /\ entry'[e] \notin {"none", "ready"})

LEMMA SameHands ==
  ASSUME InHand, NEW d \in Clients, pc'[d] = pc[d], cur'[d] = cur[d], batch'[d] = batch[d]
  PROVE  KeepsHands(d)
  BY DEF InHand, KeepsHands

LEMMA AbandonHands ==
  ASSUME LoopsOK, InHand, NEW c \in Clients, Abandon(c), NEW d \in Clients PROVE KeepsHands(d)
<1>1. CASE d # c BY <1>1, SameHands DEF Abandon, GoTo, LoopsOK
<1>2. CASE d = c
  BY <1>2, QueueIntakeAssumption DEF Abandon, GoTo, LoopsOK, KeepsHands, Working
<1> QED BY <1>1, <1>2

LEMMA DownHands ==
  ASSUME Down, NEW d \in Clients PROVE KeepsHands(d)
  BY QueueIntakeAssumption DEF Down, KeepsHands, Working

LEMMA GoToHands ==
  ASSUME LoopsOK, InHand, NEW c \in Clients, pc[c] \in Working, NEW place \in Pc, GoTo(c, place),
         UNCHANGED <<batch, cur>>, NEW d \in Clients
  PROVE  KeepsHands(d)
  BY DEF GoTo, LoopsOK, InHand, KeepsHands

LEMMA LeaveHands ==
  ASSUME LoopsOK, InHand, NEW c \in Clients, Leave(c), UNCHANGED batch, NEW d \in Clients
  PROVE  KeepsHands(d)
<1>1. CASE d # c BY <1>1, SameHands DEF Leave, GoTo, LoopsOK
<1>2. CASE d = c
  BY <1>2, QueueIntakeAssumption DEF Leave, GoTo, LoopsOK, KeepsHands, Working
<1> QED BY <1>1, <1>2

LEMMA NackFailsHands ==
  ASSUME LoopsOK, InHand, NEW c \in Clients, pc[c] \in Working, NackFails(c), NEW d \in Clients
  PROVE  KeepsHands(d)
<1>1. CASE Nack(c, 2) /\ UNCHANGED <<batch, cur>> BY <1>1, GoToHands DEF Nack, Pc
<1>2. CASE Abandon(c) BY <1>2, AbandonHands
<1> QED BY <1>1, <1>2 DEF NackFails

LEMMA HandsStep ==
  ASSUME TypeOK, InHand, EntriesHavePayloads, [Next]_vars, NEW d \in Clients
  PROVE  KeepsHands(d)
<1> USE DEF TypeOK
<1>1. ASSUME NEW p \in Payloads, Publish(p) PROVE KeepsHands(d)
  BY <1>1, SameHands DEF Publish
<1>2. ASSUME NEW c \in Clients, LoopStep(c) PROVE KeepsHands(d)
  <2>1. CASE LoopTest(c)
    BY <2>1, SameHands DEF LoopTest, GoTo, LoopsOK, InHand, KeepsHands, Working
  <2>2. CASE Read(c)
    <3>1. PICK S \in Readable :
            \/ /\ Take(S) /\ batch' = [batch EXCEPT ![c] = S]
               /\ GoTo(c, "next") /\ UNCHANGED cur
            \/ Abandon(c)
      BY <2>2 DEF Read
    <3>2. CASE Abandon(c) BY <3>2, AbandonHands
    <3>3. CASE /\ Take(S) /\ batch' = [batch EXCEPT ![c] = S]
               /\ GoTo(c, "next") /\ UNCHANGED cur
      <4>1. S \subseteq Entries BY DEF Readable, Ready
      <4>2. \A e \in S : entry'[e] = "pending" BY <3>3, <4>1 DEF Take
      <4>3. CASE d # c BY <3>3, <4>3, SameHands DEF GoTo, LoopsOK
      <4>4. CASE d = c
        BY <3>3, <4>1, <4>2, <4>4 DEF GoTo, LoopsOK, KeepsHands, Working
      <4> QED BY <4>3, <4>4
    <3> QED BY <3>1, <3>2, <3>3
  <2>3. CASE NextEntry(c)
    <3>1. CASE Abandon(c) BY <3>1, AbandonHands
    <3>2. CASE GoTo(c, "loop") /\ UNCHANGED <<batch, cur>>
      BY <3>2 DEF GoTo, LoopsOK, InHand, KeepsHands, Working
    <3>3. ASSUME NEW e \in batch[c],
                 batch' = [batch EXCEPT ![c] = @ \ {e}],
                 cur' = [cur EXCEPT ![c] = e], GoTo(c, "create")
          PROVE  KeepsHands(d)
      <4>1. CASE d # c BY <3>3, <4>1, SameHands DEF GoTo, LoopsOK
      <4>2. CASE d = c BY <3>3, <4>2 DEF GoTo, LoopsOK, KeepsHands
      <4> QED BY <4>1, <4>2
    <3> QED BY <2>3, <3>1, <3>2, <3>3 DEF NextEntry
  <2>4. CASE CreateEvent(c) \/ MarkFiltered(c) \/ SaveInput(c) \/ Submit(c) \/ RecordRun(c)
    <3>1. pc[c] \in Working
      BY <2>4 DEF CreateEvent, MarkFiltered, SaveInput, Submit, RecordRun, Working, Pc
    <3>2. UNCHANGED <<batch, cur>> /\ \E place \in Pc : GoTo(c, place)
      BY <2>4 DEF CreateEvent, MarkFiltered, SaveInput, Submit, RecordRun, Pc
    <3> QED BY <3>1, <3>2, GoToHands
  <2>5. CASE MarkFailed(c) \/ Ack(c)
    <3>1. pc[c] \in Working BY <2>5 DEF MarkFailed, Ack, Working, Pc
    <3>2. UNCHANGED <<batch, cur>> /\ \E place \in Pc : GoTo(c, place)
      BY <2>5 DEF MarkFailed, Ack, Nack, Pc
    <3> QED BY <3>1, <3>2, GoToHands
  <2>6. CASE Del(c)
    <3>1. CASE Leave(c) BY <2>6, <3>1, LeaveHands DEF Del
    <3>2. CASE Nack(c, 1) /\ UNCHANGED cur
      <4>1. pc[c] \in Working /\ "publish" \in Pc BY <2>6 DEF Del, Working, Pc
      <4> QED BY <2>6, <3>2, <4>1, GoToHands DEF Del, Nack
    <3> QED BY <2>6, <3>1, <3>2 DEF Del
  <2>7. CASE NackPublish(c)
    <3>1. pc[c] \in Working /\ "nackAck" \in Pc BY <2>7 DEF NackPublish, Working, Pc
    <3>2. CASE NackFails(c) BY <3>1, <3>2, NackFailsHands
    <3>3. CASE GoTo(c, "nackAck") /\ UNCHANGED <<batch, cur>> BY <3>1, <3>3, GoToHands
    <3> QED BY <2>7, <3>2, <3>3 DEF NackPublish
  <2>8. CASE NackAck(c)
    <3>1. pc[c] \in Working /\ "nackDel" \in Pc BY <2>8 DEF NackAck, Working, Pc
    <3>2. CASE NackFails(c) BY <3>1, <3>2, NackFailsHands
    <3>3. CASE GoTo(c, "nackDel") /\ UNCHANGED <<batch, cur>> BY <3>1, <3>3, GoToHands
    <3> QED BY <2>8, <3>2, <3>3 DEF NackAck
  <2>9. CASE NackDel(c)
    <3>1. pc[c] \in Working BY <2>9 DEF NackDel, Working, Pc
    <3>2. CASE NackFails(c) BY <3>1, <3>2, NackFailsHands
    <3>3. CASE Leave(c) /\ UNCHANGED batch BY <3>3, LeaveHands
    <3> QED BY <2>9, <3>2, <3>3 DEF NackDel
  <2> QED BY <1>2, <2>1, <2>2, <2>3, <2>4, <2>5, <2>6, <2>7, <2>8, <2>9 DEF LoopStep
<1>3. ASSUME NEW c \in Clients, Subscribe(c) \/ Opened(c) \/ Reconnect(c) PROVE KeepsHands(d)
  BY <1>3 DEF Subscribe, Opened, Reconnect, GoTo, LoopsOK, InHand, KeepsHands, Working
<1>4. ASSUME NEW c \in Clients, OpenFails(c) PROVE KeepsHands(d)
  <2>1. CASE Down BY <2>1, DownHands
  <2>2. CASE GoTo(c, "none") /\ UNCHANGED <<batch, cur>>
    BY <2>2 DEF GoTo, LoopsOK, InHand, KeepsHands, Working
  <2> QED BY <1>4, <2>1, <2>2 DEF OpenFails
<1>5. ASSUME NEW c \in Clients, ClientCloses(c) PROVE KeepsHands(d)
  BY <1>5, SameHands DEF ClientCloses
<1>6. CASE Stop BY <1>6, SameHands DEF Stop
<1>7. CASE Crash BY <1>7, DownHands DEF Crash
<1>8. CASE UNCHANGED vars BY <1>8, SameHands DEF vars
<1> QED BY <1>1, <1>2, <1>3, <1>4, <1>5, <1>6, <1>7, <1>8 DEF Next

LEMMA InHandStep ==
  ASSUME TypeOK, InHand, EntryMoves, \A d \in Clients : KeepsHands(d) PROVE InHand'
<1> SUFFICES ASSUME NEW d \in Clients
             PROVE  /\ pc'[d] \in Working => cur'[d] \in Entries
                    /\ cur'[d] \in Entries => entry'[cur'[d]] \notin {"none", "ready"}
                    /\ \A e \in batch'[d] : entry'[e] \notin {"none", "ready"}
  BY DEF InHand
<1>1. KeepsHands(d) OBVIOUS
<1>2. batch[d] \subseteq Entries BY DEF TypeOK, LoopsOK
<1>3. \A e \in Entries :
        entry[e] \notin {"none", "ready"} => entry'[e] \notin {"none", "ready"}
  BY DEF EntryMoves, Held, Added
<1> QED BY <1>1, <1>2, <1>3 DEF KeepsHands, InHand

-----------------------------------------------------------------------------
(* Messages that have been handled stay so.                                 *)
LEMMA HandledStep ==
  ASSUME TypeOK, InHand, EntriesHavePayloads, [Next]_vars, NEW p \in Payloads, Handled(p)
  PROVE  Handled(p)'
<1> USE DEF TypeOK
<1>1. CASE UNCHANGED <<storage, dead>> BY <1>1 DEF Handled
<1>2. ASSUME NEW q \in Payloads, Publish(q) PROVE Handled(p)'
  BY <1>1, <1>2 DEF Publish
<1>3. ASSUME NEW c \in Clients, LoopStep(c) PROVE Handled(p)'
  <2>1. CASE MarkFiltered(c) \/ RecordRun(c) \/ MarkFailed(c)
    BY <2>1 DEF MarkFiltered, RecordRun, MarkFailed, SaveEvent, Handled, StorageOK
  <2>2. CASE Submit(c) BY <2>2 DEF Submit, Handled, StorageOK
  <2>3. CASE NackPublish(c) BY <2>3 DEF NackPublish, Republish, DeadLetter, Handled
  <2>4. CASE \/ LoopTest(c) \/ Read(c) \/ NextEntry(c) \/ CreateEvent(c) \/ SaveInput(c)
             \/ Ack(c) \/ Del(c) \/ NackAck(c) \/ NackDel(c)
    BY <1>1, <2>4 DEF LoopTest, Read, NextEntry, CreateEvent, SaveInput, Ack, Del, NackAck,
                      NackDel
  <2> QED BY <1>3, <2>1, <2>2, <2>3, <2>4 DEF LoopStep
<1>4. ASSUME NEW c \in Clients,
             Subscribe(c) \/ Opened(c) \/ OpenFails(c) \/ Reconnect(c) \/ ClientCloses(c)
      PROVE  Handled(p)'
  BY <1>1, <1>4 DEF Subscribe, Opened, OpenFails, Reconnect, ClientCloses
<1>5. CASE Stop \/ Crash BY <1>1, <1>5 DEF Stop, Crash
<1>6. CASE UNCHANGED vars BY <1>1, <1>6 DEF vars
<1> QED BY <1>2, <1>3, <1>4, <1>5, <1>6 DEF Next

Acknowledging == {"record", "ack", "del"}

LEMMA AckedStep ==
  ASSUME TypeOK, InHand, EntriesHavePayloads, AckedIsHandled, [Next]_vars
  PROVE  AckedIsHandled'
<1> SUFFICES ASSUME NEW d \in Clients, pc'[d] \in Acknowledging PROVE Handled(Payload(d))'
  BY DEF AckedIsHandled, Acknowledging
<1> USE DEF TypeOK, Acknowledging
<1>0. ASSUME pc[d] \in Acknowledging, cur'[d] = cur[d] PROVE Handled(Payload(d))'
  <2>1. cur[d] \in Entries /\ entry[cur[d]] # "none" /\ Payload(d) \in Payloads
    BY <1>0, WorkHasEntry DEF Working, Pc
  <2>2. Handled(Payload(d)) BY <1>0 DEF AckedIsHandled
  <2>3. Payload(d)' = Payload(d) BY <1>0, <2>1, EntryStep DEF EntryMoves, Held, Added, Payload
  <2>4. \A p \in Payloads : Handled(p) => Handled(p)' BY HandledStep
  <2> QED BY <2>1, <2>2, <2>3, <2>4 DEF Handled
<1>1. CASE UNCHANGED <<pc, cur>> BY <1>0, <1>1
<1>2. ASSUME NEW p \in Payloads, Publish(p) PROVE Handled(Payload(d))'
  BY <1>1, <1>2 DEF Publish
<1>3. ASSUME NEW c \in Clients, LoopStep(c) PROVE Handled(Payload(d))'
  <2>1. CASE d # c
    <3>1. pc'[d] = pc[d] /\ cur'[d] = cur[d]
      <4>1. CASE \/ LoopTest(c) \/ Read(c) \/ NextEntry(c) \/ CreateEvent(c)
                 \/ MarkFiltered(c) \/ SaveInput(c) \/ Submit(c) \/ RecordRun(c)
        BY <2>1, <4>1 DEF LoopTest, Read, NextEntry, CreateEvent, MarkFiltered, SaveInput,
                          Submit, RecordRun, Abandon, GoTo, LoopsOK
      <4>2. CASE \/ MarkFailed(c) \/ Ack(c) \/ Del(c) \/ NackPublish(c) \/ NackAck(c)
                 \/ NackDel(c)
        BY <2>1, <4>2 DEF MarkFailed, Ack, Del, NackPublish, NackAck, NackDel, NackFails,
                          Nack, Leave, Abandon, GoTo, LoopsOK
      <4> QED BY <1>3, <4>1, <4>2 DEF LoopStep
    <3> QED BY <1>0, <2>1, <3>1
  <2>2. CASE d = c
    <3>1. CASE MarkFiltered(c)
      <4>1. cur[c] \in Entries /\ Payload(c) \in Payloads
        BY <3>1, WorkHasEntry DEF MarkFiltered, Working, Pc
      <4>2. Payload(c)' = Payload(c) BY <3>1 DEF MarkFiltered, Payload
      <4>3. events' = [events EXCEPT ![Payload(c)] = @ \cup {"filtered"}]
        BY <2>2, <3>1 DEF MarkFiltered, SaveEvent, GoTo, LoopsOK
      <4>4. "filtered" \in events'[Payload(c)] BY <4>1, <4>3 DEF StorageOK
      <4> QED BY <2>2, <4>2, <4>4 DEF Handled
    <3>2. CASE Submit(c)
      <4>1. cur[c] \in Entries /\ Payload(c) \in Payloads
        BY <3>2, WorkHasEntry DEF Submit, Working, Pc
      <4>2. Payload(c)' = Payload(c) BY <3>2 DEF Submit, Payload
      <4>3. runs' = [runs EXCEPT ![Payload(c)] = @ + 1]
        BY <2>2, <3>2 DEF Submit, GoTo, LoopsOK
      <4>4. runs'[Payload(c)] > 0 BY <4>1, <4>3 DEF StorageOK
      <4> QED BY <2>2, <4>2, <4>4 DEF Handled
    <3>3. CASE RecordRun(c) \/ Ack(c)
      BY <1>0, <2>2, <3>3 DEF RecordRun, Ack
    <3>4. CASE LoopTest(c) \/ Read(c) \/ NextEntry(c) \/ CreateEvent(c) \/ SaveInput(c)
      BY <2>2, <3>4 DEF LoopTest, Read, NextEntry, CreateEvent, SaveInput, Abandon, GoTo,
                        LoopsOK
    <3>5. CASE MarkFailed(c) \/ Del(c) \/ NackPublish(c) \/ NackAck(c) \/ NackDel(c)
      BY <2>2, <3>5 DEF MarkFailed, Del, NackPublish, NackAck, NackDel, NackFails, Nack,
                        Leave, Abandon, GoTo, LoopsOK
    <3> QED BY <1>3, <3>1, <3>2, <3>3, <3>4, <3>5 DEF LoopStep
  <2> QED BY <2>1, <2>2
<1>4. ASSUME NEW c \in Clients, Subscribe(c) \/ Opened(c) \/ Reconnect(c)
      PROVE  Handled(Payload(d))'
  BY <1>0, <1>4 DEF Subscribe, Opened, Reconnect, GoTo, LoopsOK
<1>5. ASSUME NEW c \in Clients, OpenFails(c) PROVE Handled(Payload(d))'
  BY <1>0, <1>5 DEF OpenFails, Down, GoTo, LoopsOK
<1>6. ASSUME NEW c \in Clients, ClientCloses(c) PROVE Handled(Payload(d))'
  BY <1>1, <1>6 DEF ClientCloses
<1>7. CASE Stop BY <1>1, <1>7 DEF Stop
<1>8. CASE Crash BY <1>8 DEF Crash, Down
<1>9. CASE UNCHANGED vars BY <1>1, <1>9 DEF vars
<1> QED BY <1>2, <1>3, <1>4, <1>5, <1>6, <1>7, <1>8, <1>9 DEF Next

-----------------------------------------------------------------------------
(* Of every message that has not been handled one entry is kept.            *)

(* Nobody begins to discard an entry, and no entry leaves the stream.       *)
Quiet ==
  /\ \A d \in Clients, f \in Entries : Discards(d, f)' => Discards(d, f)
  /\ \A f \in Entries : entry[f] \in {"ready", "pending"} => entry'[f] \in {"ready", "pending"}

(* What becomes of an entry that is kept.                                   *)
Survives(f) ==
  \/ Kept(f)'
  \/ Handled(payloadOf[f])'
  \/ \E g \in Entries : Kept(g)' /\ payloadOf'[g] = payloadOf[f]

LEMMA QuietSurvives ==
  ASSUME Quiet, NEW f \in Entries, Kept(f) PROVE Survives(f)
  BY DEF Quiet, Survives, Kept

LEMMA NackFailsDiscards ==
  ASSUME LoopsOK, NEW c \in Clients, NackFails(c), NEW d \in Clients, NEW f \in Entries,
         Discards(d, f)'
  PROVE  Discards(d, f)
<1>1. CASE Nack(c, 2) /\ UNCHANGED cur BY <1>1 DEF Nack, GoTo, LoopsOK, Discards
<1>2. CASE Abandon(c) BY <1>2 DEF Abandon, GoTo, LoopsOK, Discards
<1> QED BY <1>1, <1>2 DEF NackFails

LEMMA RepublishKeeps ==
  ASSUME BrokerOK, NEW c \in Clients, UNCHANGED broker \/ Republish(c) \/ DeadLetter(c),
         NEW f \in Entries, entry[f] \in {"ready", "pending"}
  PROVE  entry'[f] \in {"ready", "pending"}
  BY DEF Republish, DeadLetter, AddEntry, BrokerOK

LEMMA SurvivesStep ==
  ASSUME TypeOK, InHand, EntriesHavePayloads, AckedIsHandled, onFailure # "drop",
         [Next]_vars, NEW f \in Entries, Kept(f)
  PROVE  Survives(f)
<1> USE DEF TypeOK
<1>0. SUFFICES ASSUME ~Quiet PROVE Survives(f) BY QuietSurvives
<1>1. ASSUME NEW c \in Clients, Ack(c) PROVE Survives(f)
  <2>1. cur[c] \in Entries BY <1>1, WorkHasEntry DEF Ack, Working, Pc
  <2>2. CASE f = cur[c]
    <3>1. Handled(payloadOf[f]) BY <1>1, <2>2 DEF Ack, AckedIsHandled, Payload
    <3> QED BY <1>1, <3>1 DEF Ack, Handled, Survives
  <2>3. CASE f # cur[c]
    <3>1. entry'[f] = entry[f] BY <1>1, <2>1, <2>3 DEF Ack, XAck, BrokerOK
    <3>2. ASSUME NEW d \in Clients, Discards(d, f)' PROVE Discards(d, f)
      BY <1>1, <3>2 DEF Ack, Nack, GoTo, LoopsOK, Discards
    <3> QED BY <3>1, <3>2 DEF Kept, Survives
  <2> QED BY <2>2, <2>3
<1>2. ASSUME NEW c \in Clients, NackAck(c) PROVE Survives(f)
  <2>1. cur[c] # f BY <1>2 DEF NackAck, Kept, Discards
  <2>2. entry'[f] = entry[f] BY <1>2, <2>1 DEF NackAck, XAck, BrokerOK
  <2>3. ASSUME NEW d \in Clients, Discards(d, f)' PROVE Discards(d, f)
    <3>1. CASE NackFails(c) BY <2>3, <3>1, NackFailsDiscards
    <3>2. CASE GoTo(c, "nackDel") /\ UNCHANGED cur
      BY <1>2, <2>3, <3>2 DEF NackAck, GoTo, LoopsOK, Discards
    <3> QED BY <1>2, <3>1, <3>2 DEF NackAck
  <2> QED BY <2>2, <2>3 DEF Kept, Survives
<1>3. ASSUME NEW c \in Clients, NackPublish(c) PROVE Survives(f)
  <2>1. UNCHANGED broker \/ Republish(c) \/ DeadLetter(c) BY <1>3 DEF NackPublish
  <2>2. \A h \in Entries :
          entry[h] \in {"ready", "pending"} => entry'[h] \in {"ready", "pending"}
    BY <2>1, RepublishKeeps
  <2>3. CASE NackFails(c)
    <3>1. Quiet BY <2>2, <2>3, NackFailsDiscards DEF Quiet
    <3> QED BY <1>0, <3>1
  <2>4. CASE (Republish(c) \/ DeadLetter(c)) /\ GoTo(c, "nackAck") /\ UNCHANGED cur
    <3>1. CASE f # cur[c]
      <4>1. ASSUME NEW d \in Clients, Discards(d, f)' PROVE Discards(d, f)
        BY <2>4, <3>1, <4>1 DEF GoTo, LoopsOK, Discards
      <4> QED BY <2>2, <4>1 DEF Kept, Survives
    <3>2. CASE f = cur[c] /\ DeadLetter(c)
      BY <3>2 DEF DeadLetter, Payload, Handled, Survives
    <3>3. CASE f = cur[c] /\ Republish(c)
      <4>1. PICK g \in Entries :
              /\ entry[g] = "none"
              /\ entry' = [entry EXCEPT ![g] = "ready"]
              /\ payloadOf' = [payloadOf EXCEPT ![g] = Payload(c)]
        BY <3>3 DEF Republish, AddEntry
      <4>2. entry'[g] = "ready" /\ payloadOf'[g] = payloadOf[f]
        BY <3>3, <4>1 DEF BrokerOK, Payload
      <4>3. \A d \in Clients : cur'[d] # g BY <2>4, <4>1 DEF InHand
      <4>4. Kept(g)' BY <4>2, <4>3 DEF Kept, Discards
      <4> QED BY <4>2, <4>4 DEF Survives
    <3> QED BY <2>4, <3>1, <3>2, <3>3
  <2> QED BY <1>3, <2>3, <2>4 DEF NackPublish
<1>4. ASSUME NEW c \in Clients, Read(c) PROVE Quiet
  <2>1. PICK S \in Readable : Take(S) \/ UNCHANGED entry BY <1>4 DEF Read
  <2>2. \A h \in Entries :
          entry[h] \in {"ready", "pending"} => entry'[h] \in {"ready", "pending"}
    BY <2>1 DEF Take
  <2>3. ASSUME NEW d \in Clients, NEW h \in Entries, Discards(d, h)' PROVE Discards(d, h)
    <3>1. CASE Abandon(c) BY <2>3, <3>1 DEF Abandon, GoTo, LoopsOK, Discards
    <3>2. CASE GoTo(c, "next") /\ UNCHANGED cur BY <2>3, <3>2 DEF GoTo, LoopsOK, Discards
    <3> QED BY <1>4, <3>1, <3>2 DEF Read
  <2> QED BY <2>2, <2>3 DEF Quiet
<1>5. ASSUME NEW c \in Clients, NextEntry(c) PROVE Quiet
  BY <1>5 DEF NextEntry, Abandon, GoTo, LoopsOK, Quiet, Discards
<1>6. ASSUME NEW c \in Clients,
             \/ LoopTest(c) \/ CreateEvent(c) \/ MarkFiltered(c) \/ SaveInput(c) \/ Submit(c)
             \/ RecordRun(c) \/ MarkFailed(c)
      PROVE  Quiet
  BY <1>6 DEF LoopTest, CreateEvent, MarkFiltered, SaveInput, Submit, RecordRun, MarkFailed,
              Nack, GoTo, LoopsOK, Quiet, Discards
<1>7. ASSUME NEW c \in Clients, Del(c) PROVE Quiet
  BY <1>7 DEF Del, Leave, Nack, GoTo, LoopsOK, Quiet, Discards
<1>8. ASSUME NEW c \in Clients, NackDel(c) PROVE Quiet
  <2>1. CASE NackFails(c) BY <1>8, <2>1, NackFailsDiscards DEF NackDel, Quiet
  <2>2. CASE Leave(c) BY <1>8, <2>2 DEF NackDel, Leave, GoTo, LoopsOK, Quiet, Discards
  <2> QED BY <1>8, <2>1, <2>2 DEF NackDel
<1>9. ASSUME NEW c \in Clients,
             Subscribe(c) \/ Opened(c) \/ OpenFails(c) \/ Reconnect(c) \/ ClientCloses(c)
      PROVE  Quiet
  BY <1>9 DEF Subscribe, Opened, OpenFails, Reconnect, ClientCloses, Down, GoTo, LoopsOK,
              Quiet, Discards
<1>10. ASSUME NEW p \in Payloads, Publish(p) PROVE Quiet
  BY <1>10 DEF Publish, AddEntry, BrokerOK, Quiet, Discards
<1>11. CASE Stop \/ Crash BY <1>0, <1>11 DEF Stop, Crash, Down, Quiet, Discards
<1>12. CASE UNCHANGED vars BY <1>0, <1>12 DEF vars, Quiet, Discards
<1> QED BY <1>0, <1>1, <1>2, <1>3, <1>4, <1>5, <1>6, <1>7, <1>8, <1>9, <1>10, <1>11, <1>12
        DEF Next, LoopStep

LEMMA KeptStep ==
  ASSUME TypeOK, InHand, EntriesHavePayloads, AckedIsHandled, OneIsKept, [Next]_vars
  PROVE  OneIsKept'
<1> SUFFICES ASSUME onFailure' # "drop", NEW e \in Entries, entry'[e] # "none"
             PROVE  \/ Handled(payloadOf[e])'
                    \/ \E f \in Entries : (Kept(f) /\ payloadOf[f] = payloadOf[e])'
  BY DEF OneIsKept
<1>0. onFailure # "drop"
  BY DEF Next, vars, Publish, Subscribe, Opened, OpenFails, Reconnect, ClientCloses, Stop, Crash,
         LoopStep, LoopTest, Read, NextEntry, CreateEvent, MarkFiltered, SaveInput, Submit,
         RecordRun, MarkFailed, Ack, Del, NackPublish, NackAck, NackDel
<1>1. EntryMoves BY EntryStep
<1>2. CASE entry[e] = "none"
  <2>1. entry'[e] = "ready" BY <1>1, <1>2 DEF EntryMoves, Added
  <2>2. EntriesHavePayloads' /\ InHand' BY <1>1, PayloadsStep, HandsStep, InHandStep
  <2>3. \A d \in Clients : cur'[d] # e BY <2>1, <2>2 DEF InHand
  <2>4. Kept(e)' BY <2>1, <2>3 DEF Kept, Discards
  <2> QED BY <2>4
<1>3. CASE entry[e] # "none"
  <2>1. payloadOf'[e] = payloadOf[e] /\ payloadOf[e] \in Payloads
    BY <1>1, <1>3 DEF EntryMoves, Added, Held, EntriesHavePayloads
  <2>2. CASE Handled(payloadOf[e])
    <3>1. \A p \in Payloads : Handled(p) => Handled(p)' BY HandledStep
    <3> QED BY <2>1, <2>2, <3>1 DEF Handled
  <2>3. CASE ~Handled(payloadOf[e])
    <3>1. PICK f \in Entries : Kept(f) /\ payloadOf[f] = payloadOf[e]
      BY <1>0, <1>3, <2>3 DEF OneIsKept
    <3>2. Survives(f) BY <1>0, <3>1, SurvivesStep
    <3>3. payloadOf'[f] = payloadOf[f]
      BY <1>1, <3>1 DEF EntryMoves, Added, Held, Kept
    <3> QED BY <2>1, <3>1, <3>2, <3>3 DEF Survives, Handled
  <2> QED BY <2>2, <2>3
<1> QED BY <1>2, <1>3

-----------------------------------------------------------------------------
(* IntakeInv is an invariant of the intake: loops hold only entries that    *)
(* were read, acknowledge only what was handled, and keep an entry of every *)
(* message until it is handled.                                             *)
THEOREM IntakeInvariant == Spec => []IntakeInv
<1>1. Init => IntakeInv
  <2> SUFFICES ASSUME Init PROVE IntakeInv OBVIOUS
  <2>1. TypeOK BY TypeInit
  <2>2. InHand BY QueueIntakeAssumption DEF Init, InHand, Working
  <2>3. EntriesHavePayloads /\ AckedIsHandled /\ OneIsKept
    BY DEF Init, EntriesHavePayloads, AckedIsHandled, OneIsKept
  <2> QED BY <2>1, <2>2, <2>3 DEF IntakeInv
<1>2. IntakeInv /\ [Next]_vars => IntakeInv'
  <2> SUFFICES ASSUME IntakeInv, [Next]_vars PROVE IntakeInv' OBVIOUS
  <2> USE DEF IntakeInv
  <2>1. TypeOK' BY TypeStep
  <2>2. EntryMoves BY EntryStep
  <2>3. InHand' BY <2>2, HandsStep, InHandStep
  <2>4. EntriesHavePayloads' BY <2>2, PayloadsStep
  <2>5. AckedIsHandled' BY AckedStep
  <2>6. OneIsKept' BY KeptStep
  <2> QED BY <2>1, <2>3, <2>4, <2>5, <2>6
<1> QED BY <1>1, <1>2, PTL DEF Spec

(* No message vanishes, whatever fails in whatever order: it is in the      *)
(* stream or the dead letter stream, or was filtered or submitted.          *)
THEOREM NothingIsLost == Spec => []NothingLost
<1>1. IntakeInv => NothingLost
  BY DEF IntakeInv, OneIsKept, NothingLost, Kept, Stored
<1> QED BY <1>1, IntakeInvariant, PTL

-----------------------------------------------------------------------------
(* Without faults nothing is submitted twice: a loop gives an entry back    *)
(* only because its client has been closed,                                 *)
GivesBackUnheard ==
  \A c \in Clients :
    /\ pc[c] \notin {"failing", "failingRetryable"}
    /\ pc[c] \in {"publish", "nackAck", "nackDel"} => c \in quit

(* so a message has one entry,                                              *)
OneEntry ==
  /\ \A e \in Entries : entry[e] = "none" => payloadOf[e] = NoPayload
  /\ \A e, f \in Entries : payloadOf[e] # NoPayload /\ payloadOf[e] = payloadOf[f] => e = f

(* an entry is in the hands of one loop, which has it once,                 *)
Holds(c, e) == e \in batch[c] \/ cur[c] = e

OneHolder ==
  /\ \A c \in Clients : cur[c] \notin batch[c]
  /\ \A c, d \in Clients, e \in Entries : Holds(c, e) /\ Holds(d, e) => c = d

(* and until that loop submits it there is no run for it.                   *)
Unsubmitted == {"create", "filtered", "transform", "submit"}

Untried(e) ==
  \/ entry[e] = "ready"
  \/ \E c \in Clients : e \in batch[c] \/ (cur[c] = e /\ pc[c] \in Unsubmitted)

RunsFollow ==
  /\ \A e \in Entries : Untried(e) => runs[payloadOf[e]] = 0
  /\ \A p \in Payloads : (\A e \in Entries : payloadOf[e] # p) => runs[p] = 0
  /\ \A p \in Payloads : runs[p] <= 1

OnceInv == faults = 0 => GivesBackUnheard /\ OneEntry /\ OneHolder /\ RunsFollow

Calm == faults' = 0 /\ ~Throws

LEMMA FaultsAreCounted ==
  ASSUME TypeOK, [Next]_vars, faults' = 0 PROVE faults = 0 /\ Calm
<1>1. faults \in Nat BY QueueIntakeAssumption DEF TypeOK, BoundsOK
<1>2. ~Throws BY <1>1 DEF Throws
<1>3. ASSUME NEW c \in Clients, LoopStep(c) PROVE UNCHANGED faults
  BY <1>2, <1>3 DEF LoopStep, LoopTest, Read, NextEntry, CreateEvent, MarkFiltered, SaveInput,
        Submit, RecordRun, MarkFailed, Ack, Del, NackPublish, NackAck, NackDel, NackFails,
        Succeeds, BrokerSucceeds, BrokerThrows
<1>4. UNCHANGED faults
  BY <1>2, <1>3 DEF Next, Publish, Subscribe, Opened, OpenFails, Reconnect, ClientCloses, Stop,
        Crash, vars
<1> QED BY <1>2, <1>4 DEF Calm

(* Loop d takes up nothing new.                                             *)
LetsGo(d) ==
  /\ batch'[d] \subseteq batch[d]
  /\ cur'[d] \in {cur[d], NoEntry}
  /\ pc'[d] \in Unsubmitted => pc[d] \in Unsubmitted /\ cur'[d] = cur[d]

(* A step after which no entry has come back to the stream or been submitted,*)
(* and no loop has taken one up.                                            *)
HoldingsKept ==
  /\ UNCHANGED <<payloadOf, runs>>
  /\ \A e \in Entries : entry'[e] \in {"none", "ready"} => entry'[e] = entry[e]
  /\ \A d \in Clients : LetsGo(d)

LEMMA OnceKept ==
  ASSUME TypeOK, TypeOK', OneEntry, OneHolder, RunsFollow, HoldingsKept
  PROVE  OneEntry' /\ OneHolder' /\ RunsFollow'
<1>1. OneEntry' BY DEF OneEntry, HoldingsKept
<1>2. \A d \in Clients, e \in Entries : Holds(d, e)' => Holds(d, e)
  BY QueueIntakeAssumption DEF Holds, HoldingsKept, LetsGo
<1>3. \A d \in Clients : cur'[d] \notin batch'[d]
  <2> SUFFICES ASSUME NEW d \in Clients PROVE cur'[d] \notin batch'[d] OBVIOUS
  <2>1. batch[d] \subseteq Entries BY DEF TypeOK, LoopsOK
  <2> QED BY <2>1, QueueIntakeAssumption DEF OneHolder, HoldingsKept, LetsGo
<1>4. OneHolder' BY <1>2, <1>3 DEF OneHolder
<1>5. \A e \in Entries : Untried(e)' => Untried(e)
  BY QueueIntakeAssumption DEF Untried, HoldingsKept, LetsGo
<1>6. RunsFollow' BY <1>5 DEF RunsFollow, HoldingsKept
<1> QED BY <1>1, <1>4, <1>6

LEMMA LetsGoTo ==
  ASSUME LoopsOK, NEW c \in Clients, NEW place, GoTo(c, place), UNCHANGED <<batch, cur>>,
         place \in Unsubmitted => pc[c] \in Unsubmitted, NEW d \in Clients
  PROVE  LetsGo(d)
  BY DEF LetsGo, GoTo, LoopsOK

LEMMA LetsAbandon ==
  ASSUME LoopsOK, NEW c \in Clients, Abandon(c), NEW d \in Clients PROVE LetsGo(d)
  BY DEF LetsGo, Abandon, GoTo, LoopsOK, Unsubmitted

LEMMA LetsDown == ASSUME Down, NEW d \in Clients PROVE LetsGo(d)
  BY DEF LetsGo, Down, Unsubmitted

LEMMA LetsLeave ==
  ASSUME LoopsOK, NEW c \in Clients, Leave(c), UNCHANGED batch, NEW d \in Clients PROVE LetsGo(d)
  BY DEF LetsGo, Leave, GoTo, LoopsOK, Unsubmitted

LEMMA LetsSame ==
  ASSUME UNCHANGED <<pc, batch, cur>>, NEW d \in Clients PROVE LetsGo(d)
  BY DEF LetsGo

(* A nack that fails for a closed client is tried again or given up.        *)
LEMMA LetsNackFail ==
  ASSUME LoopsOK, NEW c \in Clients, NackFails(c), NEW d \in Clients PROVE LetsGo(d)
<1>1. CASE Nack(c, 2) /\ UNCHANGED <<batch, cur>>
  BY <1>1, LetsGoTo DEF Nack, Unsubmitted
<1>2. CASE Abandon(c) BY <1>2, LetsAbandon
<1> QED BY <1>1, <1>2 DEF NackFails

LEMMA XAckReads ==
  ASSUME BrokerOK, NEW c \in Clients, UNCHANGED entry \/ XAck(c), NEW e \in Entries,
         entry'[e] \in {"none", "ready"}
  PROVE  entry'[e] = entry[e]
  BY DEF BrokerOK, XAck

(* The steps of a loop that take no entry and submit no run.                *)
LEMMA KeptLoop ==
  ASSUME TypeOK, Calm, GivesBackUnheard, NEW c \in Clients, LoopStep(c),
         ~Read(c), ~NextEntry(c), ~Submit(c)
  PROVE  HoldingsKept
<1> USE DEF TypeOK
<1>0. LoopsOK /\ BrokerOK OBVIOUS
<1>1. CASE LoopTest(c)
  <2>1. \A d \in Clients : LetsGo(d) BY <1>0, <1>1, LetsGoTo DEF LoopTest, Unsubmitted
  <2> QED BY <1>1, <2>1 DEF LoopTest, HoldingsKept
<1>2. CASE CreateEvent(c)
  <2>1. \A d \in Clients : LetsGo(d) BY <1>0, <1>2, LetsGoTo DEF CreateEvent, Unsubmitted
  <2> QED BY <1>2, <2>1 DEF CreateEvent, HoldingsKept
<1>3. CASE MarkFiltered(c)
  <2>1. \A d \in Clients : LetsGo(d) BY <1>0, <1>3, LetsGoTo DEF MarkFiltered, Unsubmitted
  <2> QED BY <1>3, <2>1 DEF MarkFiltered, HoldingsKept
<1>4. CASE SaveInput(c)
  <2>1. \A d \in Clients : LetsGo(d) BY <1>0, <1>4, LetsGoTo DEF SaveInput, Unsubmitted
  <2> QED BY <1>4, <2>1 DEF SaveInput, HoldingsKept
<1>5. CASE RecordRun(c)
  <2>1. \A d \in Clients : LetsGo(d) BY <1>0, <1>5, LetsGoTo DEF RecordRun, Unsubmitted
  <2> QED BY <1>5, <2>1 DEF RecordRun, HoldingsKept
<1>6. CASE MarkFailed(c) BY <1>6 DEF MarkFailed, GivesBackUnheard
<1>7. CASE Ack(c)
  <2>1. \A d \in Clients : LetsGo(d) BY <1>0, <1>7, LetsGoTo DEF Ack, Nack, Unsubmitted
  <2>2. UNCHANGED entry \/ XAck(c) BY <1>7 DEF Ack
  <2> QED BY <1>0, <1>7, <2>1, <2>2, XAckReads DEF Ack, HoldingsKept
<1>8. CASE Del(c)
  <2>1. \A d \in Clients : LetsGo(d)
    BY <1>0, <1>8, LetsGoTo, LetsLeave DEF Del, Nack, Unsubmitted
  <2> QED BY <1>8, <2>1 DEF Del, HoldingsKept
<1>9. CASE NackPublish(c)
  <2>1. c \in quit BY <1>9 DEF NackPublish, GivesBackUnheard
  <2>2. UNCHANGED broker BY <1>9, <2>1 DEF NackPublish, BrokerSucceeds
  <2>3. \A d \in Clients : LetsGo(d)
    <3>1. CASE NackFails(c) BY <1>0, <3>1, LetsNackFail
    <3>2. CASE GoTo(c, "nackAck") /\ UNCHANGED <<batch, cur>>
      BY <1>0, <3>2, LetsGoTo DEF Unsubmitted
    <3> QED BY <1>9, <3>1, <3>2 DEF NackPublish
  <2> QED BY <1>9, <2>2, <2>3 DEF NackPublish, HoldingsKept
<1>10. CASE NackAck(c)
  <2>1. \A d \in Clients : LetsGo(d)
    <3>1. CASE NackFails(c) BY <1>0, <3>1, LetsNackFail
    <3>2. CASE GoTo(c, "nackDel") /\ UNCHANGED <<batch, cur>>
      BY <1>0, <3>2, LetsGoTo DEF Unsubmitted
    <3> QED BY <1>10, <3>1, <3>2 DEF NackAck
  <2>2. UNCHANGED entry \/ XAck(c) BY <1>10 DEF NackAck
  <2> QED BY <1>0, <1>10, <2>1, <2>2, XAckReads DEF NackAck, HoldingsKept
<1>11. CASE NackDel(c)
  <2>1. \A d \in Clients : LetsGo(d)
    <3>1. CASE NackFails(c) BY <1>0, <3>1, LetsNackFail
    <3>2. CASE Leave(c) /\ UNCHANGED batch BY <1>0, <3>2, LetsLeave
    <3> QED BY <1>11, <3>1, <3>2 DEF NackDel
  <2> QED BY <1>11, <2>1 DEF NackDel, HoldingsKept
<1> QED BY <1>1, <1>2, <1>3, <1>4, <1>5, <1>6, <1>7, <1>8, <1>9, <1>10, <1>11 DEF LoopStep

(* A message that is published has no entry and no run yet.                 *)
LEMMA OncePublish ==
  ASSUME TypeOK, InHand, EntriesHavePayloads, OneEntry, OneHolder, RunsFollow,
         NEW p \in Payloads, Publish(p)
  PROVE  OneEntry' /\ OneHolder' /\ RunsFollow'
<1>1. UNCHANGED <<runs, pc, batch, cur>> BY DEF Publish
<1>2. PICK e \in Entries :
        /\ entry[e] = "none"
        /\ entry' = [entry EXCEPT ![e] = "ready"]
        /\ payloadOf' = [payloadOf EXCEPT ![e] = p]
  BY DEF Publish, AddEntry
<1>3. \A f \in Entries : payloadOf[f] # p BY DEF Publish
<1>4. /\ entry'[e] = "ready" /\ payloadOf'[e] = p
      /\ \A f \in Entries : f # e => entry'[f] = entry[f] /\ payloadOf'[f] = payloadOf[f]
  BY <1>2 DEF TypeOK, BrokerOK
<1>5. p # NoPayload BY QueueIntakeAssumption
<1>6. OneEntry' BY <1>3, <1>4, <1>5 DEF OneEntry
<1>7. OneHolder' BY <1>1 DEF OneHolder, Holds
<1>8. runs[p] = 0 BY <1>3 DEF RunsFollow
<1>9. \A f \in Entries : f # e => (Untried(f)' => Untried(f)) BY <1>1, <1>4 DEF Untried
<1>10. \A q \in Payloads : (\A f \in Entries : payloadOf'[f] # q) => runs[q] = 0
  <2> SUFFICES ASSUME NEW q \in Payloads, \A f \in Entries : payloadOf'[f] # q PROVE runs[q] = 0
    OBVIOUS
  <2>1. payloadOf[e] # q BY <1>2, QueueIntakeAssumption DEF OneEntry
  <2>2. \A f \in Entries : payloadOf[f] # q BY <1>4, <2>1
  <2> QED BY <2>2 DEF RunsFollow
<1>11. RunsFollow' BY <1>1, <1>4, <1>8, <1>9, <1>10 DEF RunsFollow
<1> QED BY <1>6, <1>7, <1>11

(* What a loop reads is in nobody's hands.                                  *)
LEMMA OnceRead ==
  ASSUME TypeOK, InHand, Calm, OneEntry, OneHolder, RunsFollow, NEW c \in Clients, Read(c)
  PROVE  OneEntry' /\ OneHolder' /\ RunsFollow'
<1>1. PICK S \in Readable : Take(S) /\ batch' = [batch EXCEPT ![c] = S] /\ GoTo(c, "next")
        /\ UNCHANGED cur
  BY DEF Read, Calm
<1>2. UNCHANGED <<payloadOf, runs>> BY DEF Read
<1>3. S \subseteq Entries /\ \A e \in S : entry[e] = "ready" BY DEF Readable, Ready
<1>4. \A e \in Entries : entry'[e] = IF e \in S THEN "pending" ELSE entry[e] BY <1>1 DEF Take
<1>5. batch'[c] = S /\ \A d \in Clients : d # c => batch'[d] = batch[d]
  BY <1>1 DEF TypeOK, LoopsOK
<1>6. pc'[c] = "next" /\ \A d \in Clients : d # c => pc'[d] = pc[d]
  BY <1>1 DEF GoTo, TypeOK, LoopsOK
<1>7. \A d \in Clients, e \in S : ~Holds(d, e)
  BY <1>3 DEF Holds, InHand
<1>8. OneEntry' BY <1>2, <1>4 DEF OneEntry
<1>9. OneHolder'
  <2>1. \A d \in Clients : cur'[d] \notin batch'[d]
    BY <1>1, <1>5, <1>7 DEF OneHolder, Holds
  <2>2. ASSUME NEW a \in Clients, NEW b \in Clients, NEW e \in Entries,
               Holds(a, e)', Holds(b, e)'
        PROVE  a = b
    <3>1. CASE e \in S
      <4>1. \A d \in Clients : d # c => ~Holds(d, e)' BY <1>1, <1>5, <1>7, <3>1 DEF Holds
      <4> QED BY <2>2, <4>1
    <3>2. CASE e \notin S
      <4>1. \A d \in Clients : Holds(d, e)' => Holds(d, e) BY <1>1, <1>5, <3>2 DEF Holds
      <4> QED BY <2>2, <4>1 DEF OneHolder
    <3> QED BY <3>1, <3>2
  <2> QED BY <2>1, <2>2 DEF OneHolder
<1>10. \A e \in Entries : Untried(e)' => Untried(e)
  <2> SUFFICES ASSUME NEW e \in Entries, Untried(e)' PROVE Untried(e) OBVIOUS
  <2>1. CASE e \in S BY <1>3, <2>1 DEF Untried
  <2>2. CASE e \notin S
    <3>1. CASE entry'[e] = "ready" BY <1>4, <2>2, <3>1 DEF Untried
    <3>2. ASSUME NEW d \in Clients, e \in batch'[d] \/ (cur'[d] = e /\ pc'[d] \in Unsubmitted)
          PROVE  Untried(e)
      BY <1>1, <1>5, <1>6, <2>2, <3>2 DEF Untried, Unsubmitted
    <3> QED BY <3>1, <3>2 DEF Untried
  <2> QED BY <2>1, <2>2
<1>11. RunsFollow' BY <1>2, <1>10 DEF RunsFollow
<1> QED BY <1>8, <1>9, <1>11

(* An entry goes from the batch into the hand.                              *)
LEMMA OnceNext ==
  ASSUME TypeOK, TypeOK', OneEntry, OneHolder, RunsFollow, NEW c \in Clients, NextEntry(c)
  PROVE  OneEntry' /\ OneHolder' /\ RunsFollow'
<1>1. UNCHANGED <<entry, payloadOf, runs>> BY DEF NextEntry
<1>2. CASE Abandon(c) \/ (GoTo(c, "loop") /\ UNCHANGED <<batch, cur>>)
  <2>1. \A d \in Clients : LetsGo(d)
    <3>1. CASE Abandon(c) BY <3>1, LetsAbandon DEF TypeOK
    <3>2. CASE GoTo(c, "loop") /\ UNCHANGED <<batch, cur>>
      BY <3>2, LetsGoTo DEF TypeOK, Unsubmitted
    <3> QED BY <1>2, <3>1, <3>2
  <2>2. HoldingsKept BY <1>1, <2>1 DEF HoldingsKept
  <2> QED BY <2>2, OnceKept
<1>3. ASSUME NEW e \in batch[c], batch' = [batch EXCEPT ![c] = @ \ {e}],
             cur' = [cur EXCEPT ![c] = e], GoTo(c, "create")
      PROVE  OneEntry' /\ OneHolder' /\ RunsFollow'
  <2>1. /\ batch'[c] = batch[c] \ {e} /\ cur'[c] = e /\ pc'[c] = "create"
        /\ \A d \in Clients : d # c => batch'[d] = batch[d] /\ cur'[d] = cur[d] /\ pc'[d] = pc[d]
    BY <1>3 DEF GoTo, TypeOK, LoopsOK
  <2>2. \A d \in Clients, f \in Entries : Holds(d, f)' => Holds(d, f) BY <2>1 DEF Holds
  <2>3. \A d \in Clients : cur'[d] \notin batch'[d] BY <2>1 DEF OneHolder
  <2>4. OneHolder' BY <2>2, <2>3 DEF OneHolder
  <2>5. \A f \in Entries : Untried(f)' => Untried(f) BY <1>1, <2>1 DEF Untried
  <2>6. OneEntry' BY <1>1 DEF OneEntry
  <2>7. RunsFollow' BY <1>1, <2>5 DEF RunsFollow
  <2> QED BY <2>4, <2>6, <2>7
<1> QED BY <1>2, <1>3 DEF NextEntry

(* The run that is submitted is the first one for its message.              *)
LEMMA OnceSubmit ==
  ASSUME TypeOK, InHand, EntriesHavePayloads, Calm, OneEntry, OneHolder, RunsFollow,
         NEW c \in Clients, Submit(c)
  PROVE  OneEntry' /\ OneHolder' /\ RunsFollow'
<1>1. /\ runs' = [runs EXCEPT ![Payload(c)] = @ + 1]
      /\ pc' = [pc EXCEPT ![c] = "record"]
      /\ UNCHANGED <<entry, payloadOf, batch, cur>>
  BY DEF Submit, Calm, GoTo
<1>2. PICK e \in Entries : e = cur[c] /\ entry[e] \notin {"none", "ready"} /\ Payload(c) \in Payloads
  BY WorkHasEntry DEF Submit, Working, Pc
<1>3. PICK p \in Payloads : p = payloadOf[e] /\ p = Payload(c) BY <1>2 DEF Payload
<1>4. pc[c] = "submit" BY DEF Submit
<1>5. runs[p] = 0 BY <1>2, <1>3, <1>4 DEF RunsFollow, Untried, Unsubmitted
<1>6. runs'[p] = 1 /\ \A q \in Payloads : q # p => runs'[q] = runs[q]
  BY <1>1, <1>3, <1>5 DEF TypeOK, StorageOK
<1>7. pc'[c] = "record" /\ \A d \in Clients : d # c => pc'[d] = pc[d]
  BY <1>1 DEF TypeOK, LoopsOK
<1>8. ~Untried(e)'
  <2>1. e \notin batch[c] BY <1>2 DEF OneHolder
  <2>2. \A d \in Clients : d # c => ~Holds(d, e) BY <1>2 DEF OneHolder, Holds
  <2> QED BY <1>1, <1>2, <1>7, <2>1, <2>2 DEF Untried, Holds, Unsubmitted
<1>9. \A f \in Entries : Untried(f)' => f # e /\ Untried(f)
  BY <1>1, <1>7, <1>8 DEF Untried, Unsubmitted
<1>10. \A f \in Entries : f # e => payloadOf[f] # p
  BY <1>3, QueueIntakeAssumption DEF OneEntry
<1>11. \A f \in Entries : Untried(f) => payloadOf[f] \in Payloads
  BY DEF Untried, InHand, EntriesHavePayloads
<1>12. OneEntry' /\ OneHolder' BY <1>1 DEF OneEntry, OneHolder, Holds
<1>13. RunsFollow'
  <2>1. \A f \in Entries : Untried(f)' => runs'[payloadOf'[f]] = 0
    BY <1>1, <1>6, <1>9, <1>10, <1>11 DEF RunsFollow
  <2>2. \A q \in Payloads : (\A f \in Entries : payloadOf'[f] # q) => runs'[q] = 0
    BY <1>1, <1>3, <1>6 DEF RunsFollow
  <2>3. \A q \in Payloads : runs'[q] <= 1 BY <1>6 DEF RunsFollow
  <2> QED BY <2>1, <2>2, <2>3 DEF RunsFollow
<1> QED BY <1>12, <1>13

(* Clients that have been closed stay closed, and only their loops fail.    *)
LEMMA GivesBackStep ==
  ASSUME TypeOK, Calm, GivesBackUnheard, [Next]_vars PROVE GivesBackUnheard'
<1> USE DEF TypeOK, Calm
<1>1. ASSUME NEW c \in Clients, NEW place, GoTo(c, place), quit \subseteq quit',
             place \notin {"failing", "failingRetryable"},
             place \in {"publish", "nackAck", "nackDel"} => c \in quit
      PROVE  GivesBackUnheard'
  BY <1>1 DEF GoTo, GivesBackUnheard, LoopsOK
<1>2. CASE UNCHANGED pc /\ quit \subseteq quit' BY <1>2 DEF GivesBackUnheard
<1>3. CASE Down BY <1>3 DEF Down, GivesBackUnheard
<1>4. ASSUME NEW c \in Clients, Abandon(c) PROVE GivesBackUnheard'
  BY <1>1, <1>4 DEF Abandon
<1>5. ASSUME NEW c \in Clients, LoopStep(c) PROVE GivesBackUnheard'
  <2>1. CASE \/ LoopTest(c) \/ CreateEvent(c) \/ MarkFiltered(c) \/ SaveInput(c)
             \/ Submit(c) \/ RecordRun(c)
    BY <1>1, <2>1 DEF LoopTest, CreateEvent, MarkFiltered, SaveInput, Submit, RecordRun
  <2>2. CASE Read(c) BY <1>1, <2>2 DEF Read
  <2>3. CASE NextEntry(c) BY <1>1, <1>4, <2>3 DEF NextEntry
  <2>4. CASE MarkFailed(c) BY <2>4 DEF MarkFailed, GivesBackUnheard
  <2>5. CASE Ack(c) BY <1>1, <2>5 DEF Ack, Nack, BrokerThrows
  <2>6. CASE Del(c) BY <1>1, <2>6 DEF Del, Nack, Leave, BrokerThrows
  <2>7. CASE NackFails(c) /\ UNCHANGED stops
    BY <1>1, <1>4, <2>7 DEF NackFails, Nack, BrokerThrows
  <2>8. CASE NackPublish(c) BY <1>1, <2>7, <2>8 DEF NackPublish, GivesBackUnheard
  <2>9. CASE NackAck(c) BY <1>1, <2>7, <2>9 DEF NackAck, GivesBackUnheard
  <2>10. CASE NackDel(c) BY <1>1, <2>7, <2>10 DEF NackDel, Leave
  <2> QED BY <1>5, <2>1, <2>2, <2>3, <2>4, <2>5, <2>6, <2>8, <2>9, <2>10 DEF LoopStep
<1>6. ASSUME NEW c \in Clients,
             Subscribe(c) \/ Opened(c) \/ OpenFails(c) \/ Reconnect(c) \/ ClientCloses(c)
      PROVE  GivesBackUnheard'
  BY <1>1, <1>2, <1>6 DEF Subscribe, Opened, OpenFails, Reconnect, ClientCloses
<1>7. CASE Stop BY <1>2, <1>7 DEF Stop, Cleanup
<1>8. CASE Crash BY <1>3, <1>8 DEF Crash
<1>9. ASSUME NEW p \in Payloads, Publish(p) PROVE GivesBackUnheard' BY <1>2, <1>9 DEF Publish
<1>10. CASE UNCHANGED vars BY <1>2, <1>10 DEF vars
<1> QED BY <1>5, <1>6, <1>7, <1>8, <1>9, <1>10 DEF Next

LEMMA OnceStep == IntakeInv /\ OnceInv /\ [Next]_vars => OnceInv'
<1> SUFFICES ASSUME IntakeInv, OnceInv, [Next]_vars, faults' = 0
             PROVE  GivesBackUnheard' /\ OneEntry' /\ OneHolder' /\ RunsFollow'
  BY DEF OnceInv
<1>0. TypeOK /\ InHand /\ EntriesHavePayloads BY DEF IntakeInv
<1>a. TypeOK' BY <1>0, TypeStep
<1>b. Calm /\ GivesBackUnheard /\ OneEntry /\ OneHolder /\ RunsFollow
  BY <1>0, FaultsAreCounted DEF OnceInv
<1>c. GivesBackUnheard' BY <1>0, <1>b, GivesBackStep
<1>1. ASSUME HoldingsKept PROVE OneEntry' /\ OneHolder' /\ RunsFollow'
  BY <1>0, <1>a, <1>b, <1>1, OnceKept
<1>2. ASSUME NEW p \in Payloads, Publish(p) PROVE OneEntry' /\ OneHolder' /\ RunsFollow'
  BY <1>0, <1>b, <1>2, OncePublish
<1>3. ASSUME NEW c \in Clients, LoopStep(c) PROVE OneEntry' /\ OneHolder' /\ RunsFollow'
  <2>1. CASE Read(c) BY <1>0, <1>b, <2>1, OnceRead
  <2>2. CASE NextEntry(c) BY <1>0, <1>a, <1>b, <2>2, OnceNext
  <2>3. CASE Submit(c) BY <1>0, <1>b, <2>3, OnceSubmit
  <2> QED BY <1>0, <1>1, <1>b, <1>3, <2>1, <2>2, <2>3, KeptLoop
<1>4. CASE UNCHANGED <<payloadOf, runs, entry, pc, batch, cur>>
  <2>1. \A d \in Clients : LetsGo(d) BY <1>4, LetsSame
  <2>2. HoldingsKept BY <1>4, <2>1 DEF HoldingsKept
  <2> QED BY <1>1, <1>c, <2>2
<1>5. ASSUME UNCHANGED <<payloadOf, runs, entry, batch, cur>>, NEW c \in Clients, NEW place,
             GoTo(c, place), place \notin Unsubmitted
      PROVE  OneEntry' /\ OneHolder' /\ RunsFollow'
  <2>1. \A d \in Clients : LetsGo(d) BY <1>0, <1>5, LetsGoTo DEF TypeOK
  <2> QED BY <1>1, <1>5, <2>1 DEF HoldingsKept
<1>6. CASE Down /\ UNCHANGED <<payloadOf, runs, entry>>
  <2>1. \A d \in Clients : LetsGo(d) BY <1>6, LetsDown
  <2>2. HoldingsKept BY <1>6, <2>1 DEF HoldingsKept
  <2> QED BY <1>1, <1>c, <2>2
<1>7. ASSUME NEW c \in Clients, Subscribe(c) \/ Opened(c) \/ Reconnect(c)
      PROVE  OneEntry' /\ OneHolder' /\ RunsFollow'
  BY <1>5, <1>7 DEF Subscribe, Opened, Reconnect, Unsubmitted
<1>8. ASSUME NEW c \in Clients, OpenFails(c) \/ ClientCloses(c)
      PROVE  OneEntry' /\ OneHolder' /\ RunsFollow'
  BY <1>4, <1>b, <1>8 DEF OpenFails, ClientCloses, Calm
<1>9. CASE Stop BY <1>4, <1>9 DEF Stop
<1>10. CASE Crash BY <1>6, <1>10 DEF Crash
<1>11. CASE UNCHANGED vars BY <1>4, <1>11 DEF vars
<1> QED BY <1>c, <1>2, <1>3, <1>7, <1>8, <1>9, <1>10, <1>11 DEF Next

(* Reconnects, replaced clients whose loops go on, stops and crashes never  *)
(* submit a message a second time: that takes a call that failed            *)
(* (redis-queue-driver.ts 273-345).                                         *)
THEOREM DuplicatesComeFromFaults == Spec => []DuplicatesNeedFaults
<1>1. Init => OnceInv
  <2> SUFFICES ASSUME Init PROVE GivesBackUnheard /\ OneEntry /\ OneHolder /\ RunsFollow
    BY DEF OnceInv
  <2>1. GivesBackUnheard /\ OneEntry BY DEF Init, GivesBackUnheard, OneEntry
  <2>2. OneHolder BY QueueIntakeAssumption DEF Init, OneHolder, Holds
  <2>3. RunsFollow BY QueueIntakeAssumption DEF Init, RunsFollow, Untried, Unsubmitted
  <2> QED BY <2>1, <2>2, <2>3
<1>2. OnceInv => DuplicatesNeedFaults BY DEF OnceInv, RunsFollow, DuplicatesNeedFaults
<1> QED BY <1>1, <1>2, OnceStep, IntakeInvariant, PTL DEF Spec
=============================================================================
