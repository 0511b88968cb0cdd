-------------------------- MODULE AgentTasksProofs --------------------------
(***************************************************************************)
(* Proofs about background agent tasks, for any number of tasks, runs,     *)
(* messages and concurrent calls, and any number of faults and crashes.    *)
(***************************************************************************)
EXTENDS AgentTasks, FiniteSetTheorems, TLAPS

USE DEF callVars, sendVars, taskRows, runRows, mailRows, stored, memory,
        SaveStatus, SaveActiveRun, SaveRunStatus, CreateRun, AppendMessage, AppendEntry,
        Enqueue, Deliver

-----------------------------------------------------------------------------
(* Type correctness.                                                        *)

LEMMA TypeInit == Init => TypeOK
  BY AgentTasksAssumption
  DEF Init, TypeOK, TaskStatus, RunStatus, CallPc, SendPc, ExecPc

(* A call that throws or succeeds keeps the count of faults in its bound.   *)
LEMMA FaultsBounded ==
  ASSUME faults \in 0..MaxFaults, Throws \/ Succeeds PROVE faults' \in 0..MaxFaults
  BY AgentTasksAssumption DEF Throws, Succeeds

LEMMA TypeCallStep ==
  ASSUME TypeOK, Linked, NEW c \in Calls, CallStep(c) PROVE TypeOK'
<1> USE FaultsBounded DEF TypeOK, CallPc, GoTo, EndCall
<1>1. CASE ReadAgent(c) BY <1>1 DEF ReadAgent
<1>2. CASE ListPending(c) BY <1>2 DEF ListPending, Pending
<1>3. CASE StartRefused(c) BY <1>3 DEF StartRefused
<1>4. CASE StartClaimed(c)
  <2>1. callTask[c] \in Tasks BY <1>4 DEF StartClaimed, Linked, CallsLinked, CallLinked, RunsLinked, SendsLinked
  <2>2. runStatus' \in [Runs -> RunStatus] /\ runTask' \in [Runs -> Tasks \cup {NoTask}]
    BY <1>4, <2>1 DEF StartClaimed, RunStatus
  <2>3. runInput' \in [Runs -> SUBSET Messages] /\ callRun' \in [Calls -> Runs \cup {NoRun}]
    <3>1. CASE UNCHANGED <<runStatus, runTask, runInput, callRun>> BY <3>1
    <3>2. ASSUME NEW r \in Runs,
                 runInput' = [runInput EXCEPT ![r] = callPending[c]],
                 callRun' = [callRun EXCEPT ![c] = r]
          PROVE  /\ runInput' \in [Runs -> SUBSET Messages]
                 /\ callRun' \in [Calls -> Runs \cup {NoRun}]
      BY <3>2
    <3> QED BY <1>4, <3>1, <3>2 DEF StartClaimed
  <2>4. callPc' \in [Calls -> CallPc] /\ launches' \in SUBSET Tasks
    BY <1>4, <2>1 DEF StartClaimed
  <2> QED BY <1>4, <2>2, <2>3, <2>4 DEF StartClaimed
<1>5. CASE SetActiveRun(c) BY <1>5 DEF SetActiveRun
<1>6. CASE SetRunning(c) BY <1>6 DEF SetRunning, TaskStatus, ExecPc
<1>7. CASE ReleaseFailed(c) BY <1>7 DEF ReleaseFailed
<1>8. CASE FailTask(c) BY <1>8 DEF FailTask, TaskStatus
<1>9. CASE MarkDelivered(c) BY <1>9 DEF MarkDelivered
<1> QED BY <1>1, <1>2, <1>3, <1>4, <1>5, <1>6, <1>7, <1>8, <1>9 DEF CallStep

LEMMA TypeExecStep ==
  ASSUME TypeOK, Linked, NEW r \in Runs, ExecStep(r) PROVE TypeOK'
<1> USE FaultsBounded DEF TypeOK, ExecPc, ExecTo
<1>1. CASE ExecBegin(r) BY <1>1 DEF ExecBegin, RunStatus
<1>2. CASE AppendRun(r)
  <2>1. runMessages[r] + 1 \in 0..MaxRunMessages
    BY <1>2, AgentTasksAssumption DEF AppendRun
  <2>2. runMessages' \in [Runs -> 0..MaxRunMessages]
    BY <1>2, <2>1 DEF AppendRun
  <2> QED BY <1>2, <2>2 DEF AppendRun
<1>3. CASE AppendTask(r)
  <2>1. runTask[r] \in Tasks BY <1>3 DEF AppendTask, Linked, CallsLinked, CallLinked, RunsLinked, SendsLinked
  <2>2. Append(transcript[runTask[r]], r) \in Seq(Runs) BY <2>1
  <2>3. transcript' \in [Tasks -> Seq(Runs)] BY <1>3, <2>1, <2>2 DEF AppendTask
  <2> QED BY <1>3, <2>3 DEF AppendTask
<1>4. CASE ExecEnd(r) BY <1>4 DEF ExecEnd, RunStatus
<1>5. CASE MarkRunFailed(r) BY <1>5 DEF MarkRunFailed, RunStatus
<1>6. CASE ReleaseLaunch(r) BY <1>6 DEF ReleaseLaunch
<1>7. CASE ClearActiveRun(r) BY <1>7 DEF ClearActiveRun
<1>8. CASE SettleTask(r) BY <1>8 DEF SettleTask, TaskStatus
<1>9. CASE CheckPending(r) BY <1>9 DEF CheckPending
<1>10. CASE AutoResume(r) BY <1>10 DEF AutoResume, BeginResume, Linked, CallsLinked, CallLinked, RunsLinked, SendsLinked, CallPc
<1> QED BY <1>1, <1>2, <1>3, <1>4, <1>5, <1>6, <1>7, <1>8, <1>9, <1>10 DEF ExecStep

LEMMA TypeStep == ASSUME TypeOK, Linked, [Next]_vars PROVE TypeOK'
<1> USE DEF TypeOK
<1>1. ASSUME NEW c \in Calls, NEW t \in Tasks, CreateTask(c, t) PROVE TypeOK'
  BY <1>1 DEF CreateTask, TaskStatus, CallPc
<1>2. ASSUME NEW t \in Tasks, Resume(t) PROVE TypeOK'
  BY <1>2 DEF Resume, BeginResume, CallPc
<1>3. ASSUME NEW m \in Messages, NEW t \in Tasks, SendRead(m, t) PROVE TypeOK'
  BY <1>3 DEF SendRead, SendPc
<1>4. ASSUME NEW m \in Messages, SendEnqueue(m) PROVE TypeOK'
  <2>1. sendPc' \in [Messages -> SendPc] BY <1>4 DEF SendEnqueue, SendPc
  <2>2. sendTask[m] \in Tasks BY <1>4 DEF SendEnqueue, Linked, CallsLinked, CallLinked, RunsLinked, SendsLinked
  <2>3. queued' \in [Messages -> Tasks \cup {NoTask}] BY <1>4, <2>2 DEF SendEnqueue
  <2> QED BY <1>4, <2>1, <2>3, FaultsBounded DEF SendEnqueue
<1>5. ASSUME NEW m \in Messages, SendResume(m) PROVE TypeOK'
  BY <1>5 DEF SendResume, BeginResume, SendPc, CallPc, Linked, CallsLinked, CallLinked, RunsLinked, SendsLinked
<1>6. ASSUME NEW c \in Calls, CallStep(c) PROVE TypeOK'
  BY <1>6, TypeCallStep
<1>7. ASSUME NEW r \in Runs, ExecStep(r) PROVE TypeOK'
  BY <1>7, TypeExecStep
<1>8. CASE DeleteAgent BY <1>8 DEF DeleteAgent
<1>9. CASE Crash
  <2>1. crashes' \in 0..MaxCrashes BY <1>9, AgentTasksAssumption DEF Crash
  <2>2. exec' \in [Runs -> ExecPc] BY <1>9 DEF Crash, ExecPc
  <2>3. sendPc' \in [Messages -> SendPc] BY <1>9 DEF Crash, SendPc
  <2> QED BY <1>9, <2>1, <2>2, <2>3 DEF Crash, CallPc
<1>10. CASE UNCHANGED vars BY <1>10 DEF vars
<1> QED BY <1>1, <1>2, <1>3, <1>4, <1>5, <1>6, <1>7, <1>8, <1>9, <1>10
        DEF Next, SendStep

-----------------------------------------------------------------------------
(* Ownership of launches.  A step that neither claims, hands over nor gives *)
(* up a launch leaves it alone.                                             *)

Ownership == LaunchNeverLeaks /\ HoldersClaimed /\ HoldersUnique

LEMMA OwnershipFrame ==
  ASSUME Ownership,
         launches' = launches,
         \A c \in Calls : Launching(c)' <=> Launching(c),
         \A c \in Calls : Launching(c) => callTask'[c] = callTask[c],
         \A r \in Runs : Executing(r)' <=> Executing(r),
         \A r \in Runs : Executing(r) => runTask'[r] = runTask[r]
  PROVE  Ownership'
<1>1. LaunchNeverLeaks' BY DEF Ownership, LaunchNeverLeaks, Owned
<1>2. HoldersClaimed' BY DEF Ownership, HoldersClaimed
<1>3. HoldersUnique' BY DEF Ownership, HoldersUnique
<1> QED BY <1>1, <1>2, <1>3 DEF Ownership

LEMMA OwnershipCallStep ==
  ASSUME TypeOK, Linked, Ownership, NEW c \in Calls, CallStep(c) PROVE Ownership'
<1> USE DEF TypeOK, GoTo, EndCall
<1>1. CASE ReadAgent(c)
  BY <1>1, OwnershipFrame DEF ReadAgent, Launching, Executing, Live
<1>2. CASE ListPending(c)
  BY <1>2, OwnershipFrame DEF ListPending, Launching, Executing, Live
<1>3. CASE StartRefused(c)
  BY <1>3, OwnershipFrame DEF StartRefused, Launching, Executing, Live
<1>4. CASE StartClaimed(c)
  <2> DEFINE t == callTask[c]
  <2>1. t \in Tasks /\ t \notin launches /\ launches' = launches \cup {t}
    BY <1>4 DEF StartClaimed, Linked, CallsLinked, CallLinked, RunsLinked, SendsLinked
  <2>2. callTask' = callTask /\ exec' = exec
    BY <1>4 DEF StartClaimed
  <2>3. Launching(c)' /\ \A d \in Calls : d # c => (Launching(d)' <=> Launching(d))
    BY <1>4 DEF StartClaimed, Launching
  <2>4. \A r \in Runs : Executing(r)' <=> Executing(r)
    BY <2>2 DEF Executing, Live
  <2>5. \A r \in Runs : Executing(r) => runTask'[r] = runTask[r]
    BY <1>4, AgentTasksAssumption DEF StartClaimed, Executing, Live, Linked, CallsLinked, CallLinked, RunsLinked, SendsLinked
  <2>6. LaunchNeverLeaks'
    <3> SUFFICES ASSUME NEW u \in launches' PROVE Owned(u)'
      BY DEF LaunchNeverLeaks
    <3>1. CASE u = t
      BY <3>1, <2>2, <2>3 DEF Owned
    <3>2. CASE u # t
      <4>1. Owned(u) BY <3>2, <2>1 DEF Ownership, LaunchNeverLeaks
      <4>2. ~Launching(c) BY <1>4 DEF StartClaimed, Launching
      <4> QED BY <4>1, <4>2, <2>2, <2>3, <2>4, <2>5 DEF Owned
    <3> QED BY <3>1, <3>2
  <2>7. HoldersClaimed'
    BY <2>1, <2>2, <2>3, <2>4, <2>5 DEF Ownership, HoldersClaimed
  <2>8. HoldersUnique'
    BY <2>1, <2>2, <2>3, <2>4, <2>5 DEF Ownership, HoldersUnique, HoldersClaimed
  <2> QED BY <2>6, <2>7, <2>8 DEF Ownership
<1>5. CASE SetActiveRun(c)
  BY <1>5, OwnershipFrame DEF SetActiveRun, Launching, Executing, Live
<1>6. CASE SetRunning(c)
  <2>1. CASE callPc'[c] = "caught"
    BY <1>6, <2>1, OwnershipFrame DEF SetRunning, Launching, Executing, Live
  <2>2. CASE callPc'[c] # "caught"
    <3>0. PICK r \in Runs : r = callRun[c]
      BY <1>6 DEF SetRunning, Linked, CallsLinked, CallLinked, RunsLinked, SendsLinked
    <3>1. /\ runTask[r] = callTask[c] /\ Launching(c) /\ ~Launching(c)'
          /\ ~Executing(r) /\ Executing(r)'
      BY <1>6, <3>0, <2>2 DEF SetRunning, Launching, Executing, Live, Linked, CallsLinked, CallLinked, RunsLinked, SendsLinked
    <3>2. UNCHANGED <<launches, callTask, runTask>>
      BY <1>6 DEF SetRunning
    <3>3. \A d \in Calls : d # c => (Launching(d)' <=> Launching(d))
      BY <1>6 DEF SetRunning, Launching
    <3>4. \A s \in Runs : s # r => (Executing(s)' <=> Executing(s))
      BY <1>6, <2>2, <3>0 DEF SetRunning, Executing, Live
    <3>5. LaunchNeverLeaks'
      <4> SUFFICES ASSUME NEW u \in launches PROVE Owned(u)'
        BY <3>2 DEF LaunchNeverLeaks
      <4>1. CASE u = callTask[c]
        <5>1. r \in Runs /\ Executing(r)' /\ runTask'[r] = u
          BY <4>1, <3>1, <3>2
        <5> QED BY <5>1 DEF Owned
      <4>2. CASE u # callTask[c]
        <5>1. Owned(u) BY DEF Ownership, LaunchNeverLeaks
        <5> QED BY <5>1, <4>2, <3>1, <3>2, <3>3, <3>4 DEF Owned
      <4> QED BY <4>1, <4>2
    <3>6. HoldersClaimed'
      BY <3>1, <3>2, <3>3, <3>4 DEF Ownership, HoldersClaimed
    <3>7. HoldersUnique'
      BY <3>1, <3>2, <3>3, <3>4 DEF Ownership, HoldersUnique
    <3> QED BY <3>5, <3>6, <3>7 DEF Ownership
  <2> QED BY <2>1, <2>2
<1>7. CASE ReleaseFailed(c)
  <2>1. Launching(c) /\ ~Launching(c)'
    BY <1>7 DEF ReleaseFailed, Launching
  <2>2. /\ launches' = launches \ {callTask[c]}
        /\ UNCHANGED <<callTask, runTask, exec>>
    BY <1>7 DEF ReleaseFailed
  <2>3. \A d \in Calls : d # c => (Launching(d)' <=> Launching(d))
    BY <1>7 DEF ReleaseFailed, Launching
  <2>4. \A s \in Runs : Executing(s)' <=> Executing(s)
    BY <2>2 DEF Executing, Live
  <2>5. LaunchNeverLeaks'
    BY <2>1, <2>2, <2>3, <2>4 DEF Ownership, LaunchNeverLeaks, Owned
  <2>6. HoldersClaimed'
    BY <2>1, <2>2, <2>3, <2>4 DEF Ownership, HoldersClaimed, HoldersUnique
  <2>7. HoldersUnique'
    BY <2>1, <2>2, <2>3, <2>4 DEF Ownership, HoldersUnique
  <2> QED BY <2>5, <2>6, <2>7 DEF Ownership
<1>8. CASE FailTask(c)
  BY <1>8, OwnershipFrame DEF FailTask, Launching, Executing, Live
<1>9. CASE MarkDelivered(c)
  BY <1>9, OwnershipFrame DEF MarkDelivered, Launching, Executing, Live
<1> QED BY <1>1, <1>2, <1>3, <1>4, <1>5, <1>6, <1>7, <1>8, <1>9 DEF CallStep

LEMMA OwnershipExecStep ==
  ASSUME TypeOK, Linked, Ownership, NEW r \in Runs, ExecStep(r) PROVE Ownership'
<1> USE DEF TypeOK, ExecTo
<1>1. CASE ExecBegin(r)
  BY <1>1, OwnershipFrame DEF ExecBegin, Launching, Executing, Live
<1>2. CASE AppendRun(r)
  BY <1>2, OwnershipFrame DEF AppendRun, Launching, Executing, Live
<1>3. CASE AppendTask(r)
  BY <1>3, OwnershipFrame DEF AppendTask, Launching, Executing, Live
<1>4. CASE ExecEnd(r)
  BY <1>4, OwnershipFrame DEF ExecEnd, Launching, Executing, Live
<1>5. CASE MarkRunFailed(r)
  BY <1>5, OwnershipFrame DEF MarkRunFailed, Launching, Executing, Live
<1>6. CASE ReleaseLaunch(r)
  <2>1. Executing(r) /\ ~Executing(r)'
    BY <1>6 DEF ReleaseLaunch, Executing, Live
  <2>2. launches' = launches \ {runTask[r]} /\ UNCHANGED <<callTask, runTask, callPc>>
    BY <1>6 DEF ReleaseLaunch
  <2>3. \A s \in Runs : s # r => (Executing(s)' <=> Executing(s))
    BY <1>6 DEF ReleaseLaunch, Executing, Live
  <2>4. \A c \in Calls : Launching(c)' <=> Launching(c)
    BY <2>2 DEF Launching
  <2>5. LaunchNeverLeaks'
    BY <2>1, <2>2, <2>3, <2>4 DEF Ownership, LaunchNeverLeaks, Owned
  <2>6. HoldersClaimed'
    BY <2>1, <2>2, <2>3, <2>4 DEF Ownership, HoldersClaimed, HoldersUnique
  <2>7. HoldersUnique'
    BY <2>1, <2>2, <2>3, <2>4 DEF Ownership, HoldersUnique
  <2> QED BY <2>5, <2>6, <2>7 DEF Ownership
<1>7. CASE ClearActiveRun(r)
  BY <1>7, OwnershipFrame DEF ClearActiveRun, Launching, Executing, Live
<1>8. CASE SettleTask(r)
  BY <1>8, OwnershipFrame DEF SettleTask, Launching, Executing, Live
<1>9. CASE CheckPending(r)
  BY <1>9, OwnershipFrame DEF CheckPending, Launching, Executing, Live
<1>10. CASE AutoResume(r)
  BY <1>10, OwnershipFrame DEF AutoResume, BeginResume, Launching, Executing, Live
<1> QED BY <1>1, <1>2, <1>3, <1>4, <1>5, <1>6, <1>7, <1>8, <1>9, <1>10 DEF ExecStep

LEMMA OwnershipStep ==
  ASSUME TypeOK, Linked, Ownership, [Next]_vars PROVE Ownership'
<1> USE DEF TypeOK
<1>1. ASSUME NEW c \in Calls, NEW t \in Tasks, CreateTask(c, t) PROVE Ownership'
  BY <1>1, OwnershipFrame DEF CreateTask, Launching, Executing, Live
<1>2. ASSUME NEW t \in Tasks, Resume(t) PROVE Ownership'
  BY <1>2, OwnershipFrame DEF Resume, BeginResume, Launching, Executing, Live
<1>3. ASSUME NEW m \in Messages, NEW t \in Tasks, SendRead(m, t) PROVE Ownership'
  BY <1>3, OwnershipFrame DEF SendRead, Launching, Executing, Live
<1>4. ASSUME NEW m \in Messages, SendEnqueue(m) PROVE Ownership'
  BY <1>4, OwnershipFrame DEF SendEnqueue, Launching, Executing, Live
<1>5. ASSUME NEW m \in Messages, SendResume(m) PROVE Ownership'
  BY <1>5, OwnershipFrame DEF SendResume, BeginResume, Launching, Executing, Live
<1>6. ASSUME NEW c \in Calls, CallStep(c) PROVE Ownership'
  BY <1>6, OwnershipCallStep
<1>7. ASSUME NEW r \in Runs, ExecStep(r) PROVE Ownership'
  BY <1>7, OwnershipExecStep
<1>8. CASE DeleteAgent
  BY <1>8, OwnershipFrame DEF DeleteAgent, Launching, Executing, Live
<1>9. CASE Crash
  BY <1>9 DEF Crash, Ownership, LaunchNeverLeaks, HoldersClaimed, HoldersUnique,
              Launching, Executing, Live
<1>10. CASE UNCHANGED vars
  BY <1>10, OwnershipFrame DEF vars, Launching, Executing, Live
<1> QED BY <1>1, <1>2, <1>3, <1>4, <1>5, <1>6, <1>7, <1>8, <1>9, <1>10
        DEF Next, SendStep

-----------------------------------------------------------------------------
(* The links between calls, runs, transcripts and sends.                    *)

LEMMA CallsLinkedCallStep ==
  ASSUME TypeOK, CallsLinked, NEW c \in Calls,
         ReadAgent(c) \/ ListPending(c) \/ StartRefused(c) \/ MarkDelivered(c)
  PROVE  CallsLinked'
<1> DEFINE GoesOn ==
      /\ callPc'[c] \notin {"activate", "run"}
      /\ callPc'[c] # "idle" => callPc[c] # "idle" /\ callTask'[c] = callTask[c]
      /\ \A d \in Calls \ {c} :
           callPc'[d] = callPc[d] /\ callTask'[d] = callTask[d] /\ callRun'[d] = callRun[d]
      /\ UNCHANGED <<runTask, exec>>
<1>1. CASE ReadAgent(c)
  <2>1. ASSUME GoTo(c, "list") /\ UNCHANGED <<callTask, callRun>> PROVE GoesOn
    BY <1>1, <2>1 DEF ReadAgent, GoTo, TypeOK
  <2>2. ASSUME EndCall(c) PROVE GoesOn
    BY <1>1, <2>2 DEF ReadAgent, EndCall, TypeOK
  <2>3. GoesOn BY <1>1, <2>1, <2>2 DEF ReadAgent
  <2> QED BY <2>3 DEF CallsLinked, CallLinked
<1>2. CASE ListPending(c)
  <2>1. ASSUME GoTo(c, "start") /\ UNCHANGED <<callTask, callRun>> PROVE GoesOn
    BY <1>2, <2>1 DEF ListPending, GoTo, TypeOK
  <2>2. ASSUME EndCall(c) PROVE GoesOn
    BY <1>2, <2>2 DEF ListPending, EndCall, TypeOK
  <2>3. GoesOn BY <1>2, <2>1, <2>2 DEF ListPending
  <2> QED BY <2>3 DEF CallsLinked, CallLinked
<1>3. CASE StartRefused(c)
  <2>1. ASSUME GoTo(c, "mark") /\ UNCHANGED <<callTask, callRun>> PROVE GoesOn
    BY <1>3, <2>1 DEF StartRefused, GoTo, TypeOK
  <2>2. ASSUME EndCall(c) PROVE GoesOn
    BY <1>3, <2>2 DEF StartRefused, EndCall, TypeOK
  <2>3. GoesOn BY <1>3, <2>1, <2>2 DEF StartRefused
  <2> QED BY <2>3 DEF CallsLinked, CallLinked
<1>4. CASE MarkDelivered(c)
  <2>1. ASSUME UNCHANGED <<callPc, callTask, callRun>> PROVE GoesOn
    BY <1>4, <2>1 DEF MarkDelivered
  <2>2. ASSUME EndCall(c) PROVE GoesOn
    BY <1>4, <2>2 DEF MarkDelivered, EndCall, TypeOK
  <2>3. GoesOn BY <1>4, <2>1, <2>2 DEF MarkDelivered
  <2> QED BY <2>3 DEF CallsLinked, CallLinked
<1> QED BY <1>1, <1>2, <1>3, <1>4

LEMMA CallsLinkedResume ==
  ASSUME TypeOK, CallsLinked, NEW t \in Tasks, BeginResume(t), UNCHANGED <<runTask, exec>>
  PROVE  CallsLinked'
<1> SUFFICES ASSUME NEW d \in Calls PROVE CallLinked(d)'
  BY DEF CallsLinked
<1> QED BY DEF TypeOK, CallsLinked, CallLinked, BeginResume

LEMMA LinkedCallStep ==
  ASSUME TypeOK, Linked, Ownership, NEW c \in Calls, CallStep(c) PROVE Linked'
<1> USE DEF TypeOK, GoTo, EndCall, Linked, CallsLinked, CallLinked, RunsLinked, EntriesLinked,
            SendsLinked
<1>1. CASE ReadAgent(c)
  <2>1. CallsLinked' BY <1>1, CallsLinkedCallStep
  <2>2. RunsLinked' /\ EntriesLinked' /\ SendsLinked' BY <1>1 DEF ReadAgent
  <2> QED BY <2>1, <2>2
<1>2. CASE ListPending(c)
  <2>1. CallsLinked' BY <1>2, CallsLinkedCallStep
  <2>2. RunsLinked' /\ EntriesLinked' /\ SendsLinked' BY <1>2 DEF ListPending
  <2> QED BY <2>1, <2>2
<1>3. CASE StartRefused(c)
  <2>1. CallsLinked' BY <1>3, CallsLinkedCallStep
  <2>2. RunsLinked' /\ EntriesLinked' /\ SendsLinked' BY <1>3 DEF StartRefused
  <2> QED BY <2>1, <2>2
<1>4. CASE StartClaimed(c)
  <2>1. CASE callPc'[c] = "caught"
    BY <1>4, <2>1 DEF StartClaimed
  <2>2. CASE callPc'[c] # "caught"
    <3>1. PICK r \in Runs :
            /\ runStatus[r] = "none"
            /\ runStatus' = [runStatus EXCEPT ![r] = "pending"]
            /\ runTask' = [runTask EXCEPT ![r] = callTask[c]]
            /\ callRun' = [callRun EXCEPT ![c] = r]
      BY <1>4, <2>2 DEF StartClaimed
    <3>2. runTask[r] = NoTask /\ exec[r] = "none" /\ callTask[c] \in Tasks
      BY <3>1, <1>4, AgentTasksAssumption DEF StartClaimed
    <3>3. UNCHANGED <<exec, transcript, callTask, sendVars>>
      BY <1>4 DEF StartClaimed
    <3>4. callPc' = [callPc EXCEPT ![c] = "activate"]
      BY <1>4, <2>2 DEF StartClaimed
    <3>5. CallsLinked'
      BY <3>1, <3>2, <3>3, <3>4, AgentTasksAssumption
    <3>6. RunsLinked'
      BY <3>1, <3>2, <3>3, AgentTasksAssumption
    <3>7. EntriesLinked'
      BY <3>1, <3>2, <3>3
    <3>8. SendsLinked'
      BY <3>3
    <3> QED BY <3>5, <3>6, <3>7, <3>8
  <2> QED BY <2>1, <2>2
<1>5. CASE SetActiveRun(c) BY <1>5 DEF SetActiveRun
<1>6. CASE SetRunning(c)
  <2>1. CASE callPc'[c] = "caught"
    BY <1>6, <2>1 DEF SetRunning
  <2>2. CASE callPc'[c] # "caught"
    <3>1. /\ exec' = [exec EXCEPT ![callRun[c]] = "begin"]
          /\ callPc' = [callPc EXCEPT ![c] = "mark"]
          /\ UNCHANGED <<runRows, transcript, callTask, callRun, sendVars>>
      BY <1>6, <2>2 DEF SetRunning
    <3>2. callRun[c] \in Runs /\ runTask[callRun[c]] = callTask[c] /\ callTask[c] \in Tasks
      BY <1>6 DEF SetRunning
    <3>3. \A d \in Calls : d # c /\ callPc[d] \in {"activate", "run"} => callRun[d] # callRun[c]
      BY <1>6, <3>2 DEF SetRunning, Ownership, HoldersUnique, Launching
    <3>4. CallsLinked' BY <3>1, <3>2, <3>3
    <3>5. RunsLinked' BY <3>1, <3>2
    <3>6. EntriesLinked' BY <3>1, <3>2
    <3> QED BY <3>1, <3>4, <3>5, <3>6
  <2> QED BY <2>1, <2>2
<1>7. CASE ReleaseFailed(c) BY <1>7 DEF ReleaseFailed
<1>8. CASE FailTask(c) BY <1>8 DEF FailTask
<1>9. CASE MarkDelivered(c)
  <2>1. CallsLinked' BY <1>9, CallsLinkedCallStep
  <2>2. RunsLinked' /\ EntriesLinked' /\ SendsLinked' BY <1>9 DEF MarkDelivered
  <2> QED BY <2>1, <2>2
<1> QED BY <1>1, <1>2, <1>3, <1>4, <1>5, <1>6, <1>7, <1>8, <1>9 DEF CallStep

LEMMA LinkedExecStep ==
  ASSUME TypeOK, Linked, NEW r \in Runs, ExecStep(r) PROVE Linked'
<1> USE DEF TypeOK, ExecTo, Linked, CallsLinked, CallLinked, RunsLinked, EntriesLinked, SendsLinked
<1>1. CASE ExecBegin(r)
  <2>1. CallsLinked' BY <1>1 DEF ExecBegin
  <2>2. RunsLinked' BY <1>1, AgentTasksAssumption DEF ExecBegin
  <2>3. EntriesLinked' /\ SendsLinked' BY <1>1 DEF ExecBegin
  <2> QED BY <2>1, <2>2, <2>3
<1>2. CASE AppendRun(r)
  <2>1. CallsLinked' BY <1>2 DEF AppendRun
  <2>2. RunsLinked' BY <1>2 DEF AppendRun
  <2>3. EntriesLinked' /\ SendsLinked' BY <1>2 DEF AppendRun
  <2> QED BY <2>1, <2>2, <2>3
<1>3. CASE AppendTask(r)
  <2>1. CASE transcript' = transcript
    BY <1>3, <2>1 DEF AppendTask
  <2>2. CASE transcript' # transcript
    <3> DEFINE t == runTask[r]
    <3>1. /\ transcript' = [transcript EXCEPT ![t] = Append(transcript[t], r)]
          /\ exec[r] = "mirror" /\ exec' = [exec EXCEPT ![r] = "append"]
          /\ UNCHANGED <<runStatus, runTask, callVars, sendVars>>
      BY <1>3, <2>2 DEF AppendTask
    <3>2. t \in Tasks /\ transcript[t] \in Seq(Runs)
      BY <3>1
    <3>3. /\ Len(transcript'[t]) = Len(transcript[t]) + 1
          /\ transcript'[t][Len(transcript[t]) + 1] = r
          /\ \A i \in 1..Len(transcript[t]) : transcript'[t][i] = transcript[t][i]
          /\ \A u \in Tasks : u # t => transcript'[u] = transcript[u]
      BY <3>1, <3>2
    <3>4. EntriesLinked'
      <4> SUFFICES ASSUME NEW u \in Tasks, NEW i \in 1..Len(transcript'[u])
                   PROVE  exec'[transcript'[u][i]] # "none" /\ runTask'[transcript'[u][i]] = u
        OBVIOUS
      <4>1. CASE u # t BY <4>1, <3>1, <3>3
      <4>2. CASE u = t /\ i = Len(transcript[t]) + 1 BY <4>2, <3>1, <3>3
      <4>3. CASE u = t /\ i # Len(transcript[t]) + 1
        <5>1. i \in 1..Len(transcript[t]) BY <4>3, <3>2, <3>3
        <5> QED BY <5>1, <4>3, <3>1, <3>2, <3>3
      <4> QED BY <4>1, <4>2, <4>3
    <3>5. CallsLinked' BY <3>1
    <3>6. RunsLinked' /\ SendsLinked' BY <3>1
    <3> QED BY <3>4, <3>5, <3>6
  <2> QED BY <2>1, <2>2
<1>4. CASE ExecEnd(r) BY <1>4, AgentTasksAssumption DEF ExecEnd
<1>5. CASE MarkRunFailed(r) BY <1>5, AgentTasksAssumption DEF MarkRunFailed
<1>6. CASE ReleaseLaunch(r) BY <1>6 DEF ReleaseLaunch
<1>7. CASE ClearActiveRun(r) BY <1>7 DEF ClearActiveRun
<1>8. CASE SettleTask(r) BY <1>8 DEF SettleTask
<1>9. CASE CheckPending(r) BY <1>9 DEF CheckPending
<1>10. CASE AutoResume(r) BY <1>10 DEF AutoResume, BeginResume
<1> QED BY <1>1, <1>2, <1>3, <1>4, <1>5, <1>6, <1>7, <1>8, <1>9, <1>10 DEF ExecStep

LEMMA LinkedStep ==
  ASSUME TypeOK, Linked, Ownership, [Next]_vars PROVE Linked'
<1> USE DEF TypeOK, Linked, CallsLinked, CallLinked, RunsLinked, EntriesLinked, SendsLinked
<1>1. ASSUME NEW c \in Calls, NEW t \in Tasks, CreateTask(c, t) PROVE Linked'
  BY <1>1 DEF CreateTask
<1>2. ASSUME NEW t \in Tasks, Resume(t) PROVE Linked'
  <2>1. CallsLinked' BY <1>2, CallsLinkedResume DEF Resume
  <2>2. RunsLinked' /\ EntriesLinked' /\ SendsLinked' BY <1>2 DEF Resume
  <2> QED BY <2>1, <2>2
<1>3. ASSUME NEW m \in Messages, NEW t \in Tasks, SendRead(m, t) PROVE Linked'
  BY <1>3 DEF SendRead
<1>4. ASSUME NEW m \in Messages, SendEnqueue(m) PROVE Linked'
  BY <1>4 DEF SendEnqueue
<1>5. ASSUME NEW m \in Messages, SendResume(m) PROVE Linked'
  <2>1. sendTask[m] \in Tasks BY <1>5 DEF SendResume
  <2>2. CallsLinked' BY <1>5, <2>1, CallsLinkedResume DEF SendResume
  <2>3. RunsLinked' /\ EntriesLinked' BY <1>5 DEF SendResume
  <2>4. SendsLinked' BY <1>5 DEF SendResume
  <2> QED BY <2>2, <2>3, <2>4
<1>6. ASSUME NEW c \in Calls, CallStep(c) PROVE Linked'
  BY <1>6, LinkedCallStep
<1>7. ASSUME NEW r \in Runs, ExecStep(r) PROVE Linked'
  BY <1>7, LinkedExecStep
<1>8. CASE DeleteAgent BY <1>8 DEF DeleteAgent
<1>9. CASE Crash BY <1>9 DEF Crash
<1>10. CASE UNCHANGED vars BY <1>10 DEF vars
<1> QED BY <1>1, <1>2, <1>3, <1>4, <1>5, <1>6, <1>7, <1>8, <1>9, <1>10
        DEF Next, SendStep

-----------------------------------------------------------------------------
LEMMA LaunchInvInit == Init => LaunchInv
<1> SUFFICES ASSUME Init PROVE LaunchInv OBVIOUS
<1>1. TypeOK BY TypeInit
<1>2. Ownership
  BY DEF Init, Ownership, LaunchNeverLeaks, HoldersClaimed, HoldersUnique, Launching,
         Executing, Live
<1>3. Linked
  BY DEF Init, Linked, CallsLinked, CallLinked, RunsLinked, EntriesLinked, SendsLinked
<1> QED BY <1>1, <1>2, <1>3 DEF LaunchInv, Ownership

LEMMA LaunchInvStep == LaunchInv /\ [Next]_vars => LaunchInv'
<1> SUFFICES ASSUME LaunchInv, [Next]_vars PROVE LaunchInv' OBVIOUS
<1>1. TypeOK /\ Linked /\ Ownership BY DEF LaunchInv, Ownership
<1>2. TypeOK' /\ Ownership' /\ Linked' BY <1>1, TypeStep, OwnershipStep, LinkedStep
<1> QED BY <1>2 DEF LaunchInv, Ownership

(* The launch set is owned exactly, in every reachable state: whatever      *)
(* interleaving of calls, faults and crashes led there, a task is in        *)
(* activeTaskLaunches just when one call or one execution answers for it.   *)
THEOREM LaunchInvariant == Spec => []LaunchInv
  BY LaunchInvInit, LaunchInvStep, PTL DEF Spec

(* Every variable keeps its type.                                           *)
THEOREM TypeCorrect == Spec => []TypeOK
<1>1. LaunchInv => TypeOK BY DEF LaunchInv
<1> QED BY <1>1, LaunchInvariant, PTL

(* Two runs of one task never execute at the same time.                     *)
THEOREM ExecutionIsExclusive == Spec => []ExclusiveExecution
<1>1. LaunchInv => ExclusiveExecution
  BY DEF LaunchInv, HoldersUnique, ExclusiveExecution, Executing
<1> QED BY <1>1, LaunchInvariant, PTL

(* No error path leaves a task in activeTaskLaunches with nobody in flight  *)
(* to take it out.                                                          *)
THEOREM LaunchesNeverLeak == Spec => []LaunchNeverLeaks
<1>1. LaunchInv => LaunchNeverLeaks BY DEF LaunchInv
<1> QED BY <1>1, LaunchInvariant, PTL

-----------------------------------------------------------------------------
(* AgentTasks implements SerialExecution.                                   *)

LiveRuns == {r \in Runs : Live(r)}

LEMMA SerialStutter ==
  ASSUME UNCHANGED <<runTask, transcript>>, UNCHANGED LiveRuns
  PROVE  [Serial!AbsNext]_(Serial!absVars)
  BY DEF Serial!absVars, LiveRuns

(* Steps of a run that writes nothing to the transcript leave it live or    *)
(* end it.                                                                  *)
LEMMA SerialEnd ==
  ASSUME NEW S \in SUBSET Runs, UNCHANGED <<runTask, transcript>>,
         S \subseteq LiveRuns, LiveRuns' = LiveRuns \ S
  PROVE  [Serial!AbsNext]_(Serial!absVars)
<1>1. Serial!End(S) BY DEF Serial!End, LiveRuns
<1> QED BY <1>1 DEF Serial!AbsNext

LEMMA SerialExec ==
  ASSUME TypeOK, NEW r \in Runs, NEW pc, ExecTo(r, pc), Live(r),
         UNCHANGED <<runTask, transcript>>
  PROVE  [Serial!AbsNext]_(Serial!absVars)
<1>1. CASE Live(r)'
  <2>1. LiveRuns' = LiveRuns BY <1>1 DEF LiveRuns, Live, ExecTo, TypeOK
  <2> QED BY <2>1, SerialStutter
<1>2. CASE ~Live(r)'
  <2>1. LiveRuns' = LiveRuns \ {r} /\ {r} \subseteq LiveRuns
    BY <1>2 DEF LiveRuns, Live, ExecTo, TypeOK
  <2>2. PICK S \in SUBSET Runs : S = {r} OBVIOUS
  <2>3. S \subseteq LiveRuns /\ LiveRuns' = LiveRuns \ S BY <2>1, <2>2
  <2> QED BY <2>3, SerialEnd
<1> QED BY <1>1, <1>2

LEMMA SerialCallStep ==
  ASSUME LaunchInv, NEW c \in Calls, CallStep(c)
  PROVE  [Serial!AbsNext]_(Serial!absVars)
<1>1. CASE StartClaimed(c)
  <2>1. LiveRuns' = LiveRuns /\ UNCHANGED transcript
    BY <1>1 DEF StartClaimed, LiveRuns, Live
  <2>2. CASE UNCHANGED runTask
    BY <2>1, <2>2, SerialStutter
  <2>3. CASE ~UNCHANGED runTask
    <3>1. PICK r \in Runs : runStatus[r] = "none" /\ runTask' = [runTask EXCEPT ![r] = callTask[c]]
      BY <1>1, <2>3 DEF StartClaimed
    <3>2. PICK t \in Tasks : t = callTask[c]
      BY <1>1 DEF StartClaimed, LaunchInv, Linked, CallsLinked, CallLinked
    <3>3. runTask[r] = NoTask
      BY <3>1 DEF LaunchInv, Linked, RunsLinked
    <3>4. Serial!Link(r, t)
      BY <2>1, <3>1, <3>2, <3>3 DEF Serial!Link, LiveRuns
    <3> QED BY <3>4 DEF Serial!AbsNext
  <2> QED BY <2>2, <2>3
<1>2. CASE SetRunning(c)
  <2>1. UNCHANGED <<runTask, transcript>>
    BY <1>2 DEF SetRunning
  <2>2. CASE UNCHANGED exec
    BY <2>1, <2>2, SerialStutter DEF LiveRuns, Live
  <2>3. CASE ~UNCHANGED exec
    <3>1. PICK r \in Runs : r = callRun[c]
      BY <1>2 DEF SetRunning, LaunchInv, Linked, CallsLinked, CallLinked
    <3>2. /\ exec' = [exec EXCEPT ![r] = "begin"] /\ exec[r] = "none"
          /\ runTask[r] = callTask[c] /\ callTask[c] \in Tasks
      BY <1>2, <2>3, <3>1 DEF SetRunning, LaunchInv, Linked, CallsLinked, CallLinked
    <3>3. LiveRuns' = LiveRuns \cup {r} /\ r \notin LiveRuns
      BY <3>2 DEF LiveRuns, Live, LaunchInv, TypeOK
    <3>4. \A s \in LiveRuns : runTask[s] # runTask[r]
      BY <1>2, <3>2 DEF SetRunning, LiveRuns, LaunchInv, HoldersUnique, Launching, Executing
    <3>5. \A i \in 1..Len(transcript[runTask[r]]) : transcript[runTask[r]][i] # r
      BY <3>2 DEF LaunchInv, Linked, EntriesLinked
    <3>6. Serial!Begin(r)
      BY <2>1, <3>2, <3>3, <3>4, <3>5, AgentTasksAssumption DEF Serial!Begin, LiveRuns
    <3> QED BY <3>6 DEF Serial!AbsNext
  <2> QED BY <2>2, <2>3
<1>3. CASE ~StartClaimed(c) /\ ~SetRunning(c)
  <2>1. UNCHANGED <<runTask, transcript, exec>>
    BY <1>3 DEF CallStep, ReadAgent, ListPending, StartRefused, SetActiveRun, ReleaseFailed,
                FailTask, MarkDelivered
  <2> QED BY <2>1, SerialStutter DEF LiveRuns, Live
<1> QED BY <1>1, <1>2, <1>3

LEMMA SerialExecStep ==
  ASSUME LaunchInv, NEW r \in Runs, ExecStep(r)
  PROVE  [Serial!AbsNext]_(Serial!absVars)
<1>0. TypeOK BY DEF LaunchInv
<1>1. CASE ExecBegin(r)
  BY <1>0, <1>1, SerialExec DEF ExecBegin, Live
<1>2. CASE AppendRun(r)
  BY <1>0, <1>2, SerialExec DEF AppendRun, Live
<1>3. CASE AppendTask(r)
  <2>1. CASE UNCHANGED transcript
    BY <1>0, <1>3, <2>1, SerialExec DEF AppendTask, Live
  <2>2. CASE ~UNCHANGED transcript
    <3>1. /\ transcript' = [transcript EXCEPT ![runTask[r]] = Append(@, r)]
          /\ exec[r] = "mirror" /\ ExecTo(r, "append") /\ UNCHANGED runTask
      BY <1>3, <2>2 DEF AppendTask
    <3>2. LiveRuns' = LiveRuns /\ r \in LiveRuns
      BY <1>0, <3>1 DEF LiveRuns, Live, ExecTo, TypeOK
    <3>3. Serial!Write(r)
      BY <3>1, <3>2 DEF Serial!Write, LiveRuns
    <3> QED BY <3>3 DEF Serial!AbsNext
  <2> QED BY <2>1, <2>2
<1>4. CASE ExecEnd(r)
  BY <1>0, <1>4, SerialExec DEF ExecEnd, Live
<1>5. CASE MarkRunFailed(r)
  BY <1>0, <1>5, SerialExec DEF MarkRunFailed, Live
<1>6. CASE exec[r] \notin {"begin", "append", "mirror", "fail"}
  <2>1. UNCHANGED <<runTask, transcript>> /\ LiveRuns' = LiveRuns
    BY <1>0, <1>6 DEF ExecStep, ExecBegin, AppendRun, AppendTask, ExecEnd, MarkRunFailed,
         ReleaseLaunch, ClearActiveRun, SettleTask, CheckPending, AutoResume, ExecTo, Live,
         LiveRuns, TypeOK
  <2> QED BY <2>1, SerialStutter
<1> QED BY <1>1, <1>2, <1>3, <1>4, <1>5, <1>6 DEF ExecStep, ReleaseLaunch, ClearActiveRun,
         SettleTask, CheckPending, AutoResume

LEMMA SerialStep ==
  LaunchInv /\ [Next]_vars => [Serial!AbsNext]_(Serial!absVars)
<1> SUFFICES ASSUME LaunchInv, [Next]_vars PROVE [Serial!AbsNext]_(Serial!absVars)
  OBVIOUS
<1>1. ASSUME NEW c \in Calls, CallStep(c) PROVE [Serial!AbsNext]_(Serial!absVars)
  BY <1>1, SerialCallStep
<1>2. ASSUME NEW r \in Runs, ExecStep(r) PROVE [Serial!AbsNext]_(Serial!absVars)
  BY <1>2, SerialExecStep
<1>3. CASE Crash
  <2>1. UNCHANGED <<runTask, transcript>> /\ LiveRuns' = LiveRuns \ LiveRuns
    BY <1>3 DEF Crash, LiveRuns, Live
  <2> QED BY <2>1, SerialEnd DEF LiveRuns
<1>4. CASE UNCHANGED <<runTask, transcript, exec>>
  BY <1>4, SerialStutter DEF LiveRuns, Live
<1> QED BY <1>1, <1>2, <1>3, <1>4 DEF Next, SendStep, CreateTask, Resume, SendRead,
        SendEnqueue, SendResume, DeleteAgent, vars

(* The background task service executes the runs of a task one at a time    *)
(* and writes its transcript in whole blocks, through crashes and faults:   *)
(* it implements SerialExecution.                                           *)
THEOREM ImplementsSerialExecution == Spec => ImplementsSerial
<1>1. Init => Serial!AbsInit
  BY DEF Init, Serial!AbsInit, Live
<1> QED BY <1>1, SerialStep, LaunchInvariant, PTL DEF Spec, ImplementsSerial, Serial!AbsSpec

(* What SerialExecution promises, of the runs and transcripts it is mapped   *)
(* to.  A run occurs in the transcript of its own task only and, while it   *)
(* is live, at the end of it.                                               *)
Occurs(r, t) == \E i \in 1..Len(transcript[t]) : transcript[t][i] = r

AtEnd ==
  \A r \in LiveRuns : \A t \in Tasks :
    Occurs(r, t) => transcript[t][Len(transcript[t])] = r

OwnEntries ==
  \A t \in Tasks : \A i \in 1..Len(transcript[t]) : runTask[transcript[t][i]] = t

LiveOwned == \A r \in LiveRuns : runTask[r] \in Tasks

SerialInv ==
  Serial!AbsTypeOK /\ Serial!OneLiveRun /\ LiveOwned /\ OwnEntries /\ AtEnd /\ Serial!Unbroken

(* Initially nothing is live and every transcript is empty.                 *)
LEMMA SerialInvInit == Serial!AbsInit => SerialInv
  BY DEF Serial!AbsInit, SerialInv, Serial!AbsTypeOK, Serial!OneLiveRun, LiveOwned, OwnEntries,
         AtEnd, Serial!Unbroken, Occurs, LiveRuns

(* Every step of SerialExecution preserves it; Write extends the block of   *)
(* the only live run of the task, which is the last one.                    *)
LEMMA SerialInvStep ==
  ASSUME SerialInv, [Serial!AbsNext]_(Serial!absVars)
  PROVE  SerialInv'
<1> USE AgentTasksAssumption DEF SerialInv, LiveRuns
<1>1. ASSUME NEW r \in Runs, NEW t \in Tasks, Serial!Link(r, t) PROVE SerialInv'
  BY <1>1 DEF Serial!Link, Serial!AbsTypeOK, Serial!OneLiveRun, LiveOwned, OwnEntries, AtEnd, Serial!Unbroken, Occurs
<1>2. ASSUME NEW r \in Runs, Serial!Begin(r) PROVE SerialInv'
  <2>1. Serial!AbsTypeOK' /\ Serial!OneLiveRun' /\ LiveOwned' /\ OwnEntries' /\ Serial!Unbroken'
    BY <1>2 DEF Serial!Begin, Serial!AbsTypeOK, Serial!OneLiveRun, LiveOwned, OwnEntries, Serial!Unbroken
  <2>2. ~ \E t \in Tasks : Occurs(r, t)
    BY <1>2 DEF Serial!Begin, Serial!AbsTypeOK, OwnEntries, Occurs
  <2>3. AtEnd'
    BY <1>2, <2>2 DEF Serial!Begin, AtEnd, Occurs
  <2> QED BY <2>1, <2>3
<1>3. ASSUME NEW r \in Runs, Serial!Write(r) PROVE SerialInv'
  <2> DEFINE t == runTask[r]
  <2>1. t \in Tasks /\ transcript[t] \in Seq(Runs) /\ r \in LiveRuns
    BY <1>3 DEF Serial!Write, LiveOwned, Serial!AbsTypeOK
  <2>2. transcript' = [transcript EXCEPT ![t] = Append(transcript[t], r)] /\ UNCHANGED <<runTask, LiveRuns>>
    BY <1>3 DEF Serial!Write
  <2> DEFINE n == Len(transcript[t])
  <2>3. /\ transcript'[t] \in Seq(Runs)
        /\ n \in Nat
        /\ Len(transcript'[t]) = n + 1
        /\ transcript'[t][n + 1] = r
        /\ \A i \in 1..n : transcript'[t][i] = transcript[t][i]
        /\ \A u \in Tasks : u # t => transcript'[u] = transcript[u]
    BY <2>1, <2>2 DEF Serial!AbsTypeOK
  <2>4. Serial!AbsTypeOK' /\ Serial!OneLiveRun' /\ LiveOwned'
    BY <2>1, <2>2, <2>3 DEF Serial!AbsTypeOK, Serial!OneLiveRun, LiveOwned
  <2>5. OwnEntries'
    BY <2>1, <2>2, <2>3 DEF OwnEntries, Serial!AbsTypeOK
  <2>6. AtEnd'
    <3> SUFFICES ASSUME NEW s \in LiveRuns, NEW u \in Tasks, Occurs(s, u)'
                 PROVE  transcript'[u][Len(transcript'[u])] = s
      BY <2>2 DEF AtEnd
    <3>1. CASE u # t
      BY <3>1, <2>2, <2>3 DEF AtEnd, Occurs
    <3>2. CASE u = t /\ s = r
      BY <3>2, <2>3
    <3>3. CASE u = t /\ s # r
      <4>1. Occurs(s, t)
        BY <3>3, <2>3 DEF Occurs
      <4>2. runTask[s] = t
        BY <4>1, <2>1 DEF OwnEntries, Occurs
      <4> QED BY <4>2, <3>3, <2>1 DEF Serial!OneLiveRun
    <3> QED BY <3>1, <3>2, <3>3
  <2>7. Serial!Unbroken'
    <3> SUFFICES ASSUME NEW u \in Tasks,
                        NEW i \in 1..Len(transcript'[u]), NEW j \in 1..Len(transcript'[u]),
                        NEW k \in 1..Len(transcript'[u]),
                        i < j, j < k, transcript'[u][i] = transcript'[u][k]
                 PROVE  transcript'[u][j] = transcript'[u][i]
      BY DEF Serial!Unbroken
    <3>1. CASE u # t
      <4>1. transcript'[u] = transcript[u]
        BY <3>1, <2>3
      <4>2. i \in 1..Len(transcript[u]) /\ j \in 1..Len(transcript[u]) /\ k \in 1..Len(transcript[u])
        BY <4>1
      <4>3. transcript[u][i] = transcript[u][k]
        BY <4>1
      <4> QED BY <4>1, <4>2, <4>3 DEF Serial!Unbroken
    <3>2. CASE u = t /\ k # n + 1
      <4>1. i \in 1..n /\ j \in 1..n /\ k \in 1..n
        BY <3>2, <2>3
      <4>2. transcript[t][i] = transcript[t][k]
        BY <4>1, <3>2, <2>3
      <4>3. transcript[t][j] = transcript[t][i]
        BY <4>1, <4>2, <2>1 DEF Serial!Unbroken
      <4> QED BY <4>1, <4>3, <3>2, <2>3
    <3>3. CASE u = t /\ k = n + 1
      <4>1. i \in 1..n /\ j \in 1..n /\ transcript[t][i] = r
        BY <3>3, <2>3
      <4>2. transcript[t][n] = r
        BY <4>1, <2>1 DEF AtEnd, Occurs
      <4>3. transcript[t][j] = r
        <5>1. CASE j = n
          BY <5>1, <4>2
        <5>2. CASE j # n
          <6>1. n \in 1..n /\ j < n
            BY <5>2, <4>1, <2>3
          <6> QED BY <6>1, <4>1, <4>2, <2>1 DEF Serial!Unbroken
        <5> QED BY <5>1, <5>2
      <4> QED BY <4>1, <4>3, <3>3, <2>3
    <3> QED BY <3>1, <3>2, <3>3
  <2> QED BY <2>4, <2>5, <2>6, <2>7
<1>4. ASSUME NEW S \in SUBSET Runs, Serial!End(S) PROVE SerialInv'
  BY <1>4 DEF Serial!End, Serial!AbsTypeOK, Serial!OneLiveRun, LiveOwned, OwnEntries, AtEnd, Serial!Unbroken, Occurs
<1>5. CASE UNCHANGED Serial!absVars
  BY <1>5 DEF Serial!absVars, Serial!AbsTypeOK, Serial!OneLiveRun, LiveOwned, OwnEntries, AtEnd, Serial!Unbroken, Occurs
<1> QED BY <1>1, <1>2, <1>3, <1>4, <1>5 DEF Serial!AbsNext

(* Every system that executes the runs of a task one at a time, as          *)
(* SerialExecution does, keeps the transcript of each task unbroken.        *)
THEOREM SerialIsUnbroken ==
  Serial!AbsSpec => [](Serial!OneLiveRun /\ Serial!Unbroken)
<1>1. Serial!AbsInit => SerialInv
  BY SerialInvInit
<1>2. SerialInv /\ [Serial!AbsNext]_(Serial!absVars) => SerialInv'
  BY SerialInvStep
<1>3. SerialInv => Serial!OneLiveRun /\ Serial!Unbroken
  BY DEF SerialInv
<1> QED BY <1>1, <1>2, <1>3, PTL DEF Serial!AbsSpec

(* Two messages of one run enclose no message of another run in the         *)
(* transcript of a task: the refinement and what SerialExecution promises.  *)
THEOREM TranscriptsAreUnbroken == Spec => []TranscriptUnbroken
<1>1. Serial!OneLiveRun /\ Serial!Unbroken => TranscriptUnbroken
  BY DEF TranscriptUnbroken
<1> QED BY <1>1, ImplementsSerialExecution, SerialIsUnbroken, PTL DEF ImplementsSerial

-----------------------------------------------------------------------------
(* Nobody leaves a task running: the status is set together with the start  *)
(* of an execution, whose finally block takes it back at the end.  The      *)
(* active run plays no part in it.                                          *)
WorksOn(r, t) == runTask[r] = t /\ (Executing(r) \/ exec[r] \in {"clear", "settle"})

WorkedOn ==
  crashes = 0 => \A t \in Tasks : taskStatus[t] = "running" => \E r \in Runs : WorksOn(r, t)

(* A run keeps its task once it has one.                                    *)
LEMMA RunKeepsTask ==
  ASSUME LaunchInv, [Next]_vars, NEW r \in Runs, runTask[r] # NoTask
  PROVE  runTask'[r] = runTask[r]
<1>0. TypeOK BY DEF LaunchInv
<1>1. runStatus[r] # "none" BY DEF LaunchInv, Linked, RunsLinked
<1>2. ASSUME NEW c \in Calls, StartClaimed(c) PROVE runTask'[r] = runTask[r]
  BY <1>0, <1>1, <1>2 DEF StartClaimed, TypeOK
<1>3. ASSUME NEW c \in Calls, CallStep(c) PROVE runTask'[r] = runTask[r]
  BY <1>2, <1>3 DEF CallStep, ReadAgent, ListPending, StartRefused, SetActiveRun, SetRunning,
        ReleaseFailed, FailTask, MarkDelivered
<1>4. ASSUME NEW s \in Runs, ExecStep(s) PROVE runTask' = runTask
  BY <1>4 DEF ExecStep, ExecBegin, AppendRun, AppendTask, ExecEnd, MarkRunFailed,
        ReleaseLaunch, ClearActiveRun, SettleTask, CheckPending, AutoResume
<1> QED BY <1>3, <1>4 DEF Next, SendStep, CreateTask, Resume, SendRead, SendEnqueue,
        SendResume, DeleteAgent, Crash, vars

(* An execution that is past its start keeps its task, and works on it      *)
(* until it has settled the row.                                            *)
LEMMA WorksOnStep ==
  ASSUME LaunchInv, [Next]_vars, crashes' = crashes, ~Crash,
         NEW r \in Runs, NEW t \in Tasks, WorksOn(r, t), ~SettleTask(r)
  PROVE  WorksOn(r, t)'
<1>0. TypeOK /\ exec[r] \in {"begin", "append", "mirror", "fail", "release", "clear", "settle"}
  BY DEF LaunchInv, WorksOn, Executing, Live
<1>1. runTask'[r] = runTask[r] BY AgentTasksAssumption, RunKeepsTask DEF WorksOn
<1>2. CASE UNCHANGED exec
  BY <1>1, <1>2 DEF WorksOn, Executing, Live
<1>3. ASSUME NEW c \in Calls, SetRunning(c) PROVE WorksOn(r, t)'
  <2>1. callRun[c] \in Runs /\ exec[callRun[c]] = "none"
    BY <1>3 DEF SetRunning, LaunchInv, Linked, CallsLinked, CallLinked
  <2>2. exec'[r] = exec[r] BY <1>0, <1>3, <2>1 DEF SetRunning, TypeOK
  <2> QED BY <1>1, <2>2 DEF WorksOn, Executing, Live
<1>4. ASSUME NEW s \in Runs, ExecStep(s), s # r PROVE WorksOn(r, t)'
  <2>1. exec'[r] = exec[r]
    BY <1>0, <1>4 DEF ExecStep, ExecBegin, AppendRun, AppendTask, ExecEnd, MarkRunFailed,
         ReleaseLaunch, ClearActiveRun, SettleTask, CheckPending, AutoResume, ExecTo, TypeOK
  <2> QED BY <1>1, <2>1 DEF WorksOn, Executing, Live
<1>5. CASE ExecStep(r)
  <2>1. exec'[r] \in {"begin", "append", "mirror", "fail", "release", "clear", "settle"}
    BY <1>0, <1>5 DEF ExecStep, ExecBegin, AppendRun, AppendTask, ExecEnd, MarkRunFailed,
         ReleaseLaunch, ClearActiveRun, CheckPending, AutoResume, ExecTo, TypeOK
  <2> QED BY <1>1, <2>1 DEF WorksOn, Executing, Live
<1>6. ASSUME NEW c \in Calls, CallStep(c) PROVE WorksOn(r, t)'
  BY <1>2, <1>3, <1>6 DEF CallStep, ReadAgent, ListPending, StartRefused, StartClaimed,
     SetActiveRun, ReleaseFailed, FailTask, MarkDelivered
<1> QED BY <1>2, <1>4, <1>5, <1>6 DEF Next, SendStep, CreateTask, Resume, SendRead,
        SendEnqueue, SendResume, DeleteAgent, vars

LEMMA WorkedOnStep == LaunchInv /\ WorkedOn /\ [Next]_vars => WorkedOn'
<1> SUFFICES ASSUME LaunchInv, WorkedOn, [Next]_vars, crashes' = 0,
                    NEW t \in Tasks, taskStatus'[t] = "running"
             PROVE  \E r \in Runs : WorksOn(r, t)'
  BY DEF WorkedOn
<1>0. TypeOK BY DEF LaunchInv
<1>1. crashes = 0 /\ ~Crash
  <2>1. ~Crash BY <1>0, AgentTasksAssumption DEF Crash, TypeOK
  <2> QED BY <2>1 DEF Next, CreateTask, Resume, SendRead, SendStep, SendEnqueue, SendResume,
        CallStep, ReadAgent, ListPending, StartRefused, StartClaimed, SetActiveRun, SetRunning,
        ReleaseFailed, FailTask, MarkDelivered, ExecStep, ExecBegin, AppendRun, AppendTask,
        ExecEnd, MarkRunFailed, ReleaseLaunch, ClearActiveRun, SettleTask, CheckPending,
        AutoResume, DeleteAgent, vars
<1>2. ASSUME NEW c \in Calls, SetRunning(c), callTask[c] = t, ~UNCHANGED taskStatus
      PROVE  \E r \in Runs : WorksOn(r, t)'
  <2>1. PICK r \in Runs : r = callRun[c] /\ runTask[r] = t
    BY <1>2 DEF SetRunning, LaunchInv, Linked, CallsLinked, CallLinked
  <2>2. exec'[r] = "begin" /\ runTask' = runTask BY <1>0, <1>2, <2>1 DEF SetRunning, TypeOK
  <2> QED BY <2>1, <2>2 DEF WorksOn, Executing, Live
<1>3. ASSUME taskStatus[t] = "running" PROVE \E r \in Runs : WorksOn(r, t)'
  <2>1. PICK r \in Runs : WorksOn(r, t) BY <1>1, <1>3 DEF WorkedOn
  <2>2. ~SettleTask(r) BY <1>0, <2>1 DEF SettleTask, WorksOn, TypeOK
  <2> QED BY <1>1, <2>1, <2>2, WorksOnStep
<1>4. ASSUME NEW c \in Calls, CallStep(c), taskStatus[t] # "running"
      PROVE  \E r \in Runs : WorksOn(r, t)'
  <2>1. SetRunning(c) /\ callTask[c] = t /\ ~UNCHANGED taskStatus
    BY <1>0, <1>4 DEF CallStep, ReadAgent, ListPending, StartRefused, StartClaimed,
       SetActiveRun, SetRunning, ReleaseFailed, FailTask, MarkDelivered, TypeOK
  <2> QED BY <1>2, <2>1
<1>5. ASSUME NEW r \in Runs, ExecStep(r) PROVE taskStatus[t] = "running"
  BY <1>0, <1>5 DEF ExecStep, ExecBegin, AppendRun, AppendTask, ExecEnd, MarkRunFailed,
         ReleaseLaunch, ClearActiveRun, SettleTask, CheckPending, AutoResume, TypeOK
<1> QED BY <1>0, <1>1, <1>3, <1>4, <1>5 DEF Next, SendStep, CreateTask, Resume, SendRead,
        SendEnqueue, SendResume, DeleteAgent, vars, TypeOK

(* While the process stays up, a task that resumeAgentTask leaves alone as  *)
(* running has an execution, or the finally block of one, in flight         *)
(* (agent-service.ts 232, 294-295, 327-334, 351).                           *)
THEOREM RunningTasksAreAttended == Spec => []RunningIsAttended
<1>1. Init => WorkedOn BY DEF Init, WorkedOn
<1>2. WorkedOn => RunningIsAttended
  BY DEF WorkedOn, WorksOn, RunningIsAttended, Attended, Stopped, Owned
<1> QED BY <1>1, <1>2, WorkedOnStep, LaunchInvariant, PTL DEF Spec

-----------------------------------------------------------------------------
(* The transcript keeps up with the histories of the runs.  How far it is   *)
(* behind depends on where the execution is in MirroringMessageRepository.  *)
Entries(r, t) == {i \in 1..Len(transcript[t]) : transcript[t][i] = r}

Mirrored(r) ==
  IF runTask[r] = NoTask THEN runMessages[r] = 0
  ELSE LET n == Cardinality(Entries(r, runTask[r])) IN
         /\ runMessages[r] \in {n, n + 1}
         /\ exec[r] \in {"none", "begin", "append"} => runMessages[r] = n
         /\ exec[r] = "mirror" => runMessages[r] = n + 1

MirrorInv == \A r \in Runs : Mirrored(r)

LEMMA EntriesFinite ==
  ASSUME TypeOK, NEW r \in Runs, NEW t \in Tasks
  PROVE  IsFiniteSet(Entries(r, t)) /\ Cardinality(Entries(r, t)) \in Nat
<1>1. Len(transcript[t]) \in Nat BY DEF TypeOK
<1>2. IsFiniteSet(1..Len(transcript[t])) BY <1>1, FS_Interval
<1>3. Entries(r, t) \in SUBSET (1..Len(transcript[t])) BY DEF Entries
<1>4. IsFiniteSet(Entries(r, t)) BY <1>2, <1>3, FS_Subset
<1> QED BY <1>4, FS_CardinalityType

(* A new entry counts for the run that wrote it, and for no other.          *)
LEMMA EntriesAppend ==
  ASSUME TypeOK, NEW s \in Runs, NEW u \in Tasks, AppendEntry(u, s),
         NEW r \in Runs, NEW t \in Tasks
  PROVE  Cardinality(Entries(r, t)') =
           Cardinality(Entries(r, t)) + (IF r = s /\ t = u THEN 1 ELSE 0)
<1>0. IsFiniteSet(Entries(r, t)) /\ Cardinality(Entries(r, t)) \in Nat BY EntriesFinite
<1> DEFINE n == Len(transcript[t])
<1>1. n \in Nat /\ transcript[t] \in Seq(Runs) BY DEF TypeOK
<1>2. CASE t # u
  <2>1. transcript'[t] = transcript[t] BY <1>2 DEF TypeOK
  <2>2. Entries(r, t)' = Entries(r, t) BY <2>1 DEF Entries
  <2> QED BY <1>0, <1>2, <2>2
<1>3. CASE t = u
  <2>1. transcript'[t] = Append(transcript[t], s) BY <1>3 DEF TypeOK
  <2>2. /\ Len(transcript'[t]) = n + 1
        /\ transcript'[t][n + 1] = s
        /\ \A i \in 1..n : transcript'[t][i] = transcript[t][i]
    BY <1>1, <2>1
  <2>3. CASE r = s
    <3>1. Entries(r, t)' = Entries(r, t) \cup {n + 1}
      BY <1>1, <2>2, <2>3 DEF Entries
    <3>2. n + 1 \notin Entries(r, t) BY <1>1 DEF Entries
    <3> QED BY <1>0, <1>3, <2>3, <3>1, <3>2, FS_AddElement
  <2>4. CASE r # s
    <3>1. Entries(r, t)' = Entries(r, t)
      BY <1>1, <2>2, <2>4 DEF Entries
    <3> QED BY <1>0, <2>4, <3>1
  <2> QED BY <2>3, <2>4
<1> QED BY <1>2, <1>3

(* Steps that neither append nor take an execution back.                    *)
LEMMA MirroredQuiet ==
  ASSUME LaunchInv, [Next]_vars, NEW r \in Runs, Mirrored(r),
         UNCHANGED <<runMessages, transcript>>,
         \/ exec'[r] = exec[r]
         \/ exec[r] \in {"none", "begin"} /\ exec'[r] \in {"begin", "append"}
         \/ exec'[r] \notin {"none", "begin", "append", "mirror"}
  PROVE  Mirrored(r)'
<1>0. TypeOK BY DEF LaunchInv
<1>1. CASE runTask[r] # NoTask
  <2>1. runTask'[r] = runTask[r] BY <1>1, RunKeepsTask
  <2>2. Entries(r, runTask[r])' = Entries(r, runTask[r]) BY <2>1 DEF Entries
  <2> QED BY <1>1, <2>1, <2>2 DEF Mirrored
<1>2. CASE runTask[r] = NoTask /\ runTask'[r] = NoTask
  BY <1>2 DEF Mirrored
<1>3. CASE runTask[r] = NoTask /\ runTask'[r] # NoTask
  <2>1. exec[r] = "none" BY <1>3, AgentTasksAssumption DEF LaunchInv, Linked, RunsLinked
  <2>2. PICK c \in Calls : StartClaimed(c)
    <3>1. ASSUME NEW c \in Calls, CallStep(c), ~StartClaimed(c) PROVE FALSE
      BY <1>3, <3>1 DEF CallStep, ReadAgent, ListPending, StartRefused, SetActiveRun, SetRunning,
            ReleaseFailed, FailTask, MarkDelivered
    <3>2. ASSUME NEW s \in Runs, ExecStep(s) PROVE FALSE
      BY <1>3, <3>2 DEF ExecStep, ExecBegin, AppendRun, AppendTask, ExecEnd, MarkRunFailed,
            ReleaseLaunch, ClearActiveRun, SettleTask, CheckPending, AutoResume
    <3> QED BY <1>3, <3>1, <3>2 DEF Next, SendStep, CreateTask, Resume, SendRead, SendEnqueue,
            SendResume, DeleteAgent, Crash, vars
  <2>3. PICK t \in Tasks : t = runTask'[r]
    <3>1. callTask[c] \in Tasks
      BY <2>2 DEF StartClaimed, LaunchInv, Linked, CallsLinked, CallLinked
    <3> QED BY <1>0, <1>3, <2>2, <3>1 DEF StartClaimed, TypeOK
  <2>4. Entries(r, t)' = {}
    BY <2>1 DEF Entries, LaunchInv, Linked, EntriesLinked
  <2>5. exec' = exec BY <2>2 DEF StartClaimed
  <2> QED BY <1>3, <2>3, <2>4, <2>5, <2>1, FS_EmptySet DEF Mirrored
<1> QED BY <1>1, <1>2, <1>3

LEMMA MirrorInvStep == LaunchInv /\ MirrorInv /\ [Next]_vars => MirrorInv'
<1> SUFFICES ASSUME LaunchInv, MirrorInv, [Next]_vars, NEW r \in Runs
             PROVE  Mirrored(r)'
  BY DEF MirrorInv
<1>0. TypeOK /\ Mirrored(r) BY DEF LaunchInv, MirrorInv
<1>1. ASSUME NEW s \in Runs, AppendRun(s), ~UNCHANGED runMessages PROVE Mirrored(r)'
  <2>1. /\ exec[s] = "append" /\ exec' = [exec EXCEPT ![s] = "mirror"]
        /\ runMessages' = [runMessages EXCEPT ![s] = @ + 1]
        /\ UNCHANGED <<runTask, transcript>>
    BY <1>1 DEF AppendRun, ExecTo
  <2>2. CASE r # s
    <3>1. exec'[r] = exec[r] /\ runMessages'[r] = runMessages[r]
      BY <1>0, <2>1, <2>2 DEF TypeOK
    <3>2. Entries(r, runTask[r])' = Entries(r, runTask[r]) BY <2>1 DEF Entries
    <3> QED BY <1>0, <2>1, <3>1, <3>2 DEF Mirrored
  <2>3. CASE r = s
    <3>1. exec'[r] = "mirror" /\ runMessages'[r] = runMessages[r] + 1
      BY <1>0, <2>1, <2>3 DEF TypeOK
    <3>2. runTask[r] \in Tasks /\ runTask[r] # NoTask
      BY <2>1, <2>3, AgentTasksAssumption DEF LaunchInv, Linked, RunsLinked
    <3>3. Entries(r, runTask[r])' = Entries(r, runTask[r]) BY <2>1 DEF Entries
    <3> QED BY <1>0, <2>1, <2>3, <3>1, <3>2, <3>3 DEF Mirrored
  <2> QED BY <2>2, <2>3
<1>2. ASSUME NEW s \in Runs, AppendTask(s), ~UNCHANGED transcript PROVE Mirrored(r)'
  <2>1. /\ exec[s] = "mirror" /\ exec' = [exec EXCEPT ![s] = "append"]
        /\ AppendEntry(runTask[s], s)
        /\ UNCHANGED <<runTask, runMessages>>
    BY <1>2 DEF AppendTask, ExecTo
  <2>2. runTask[s] \in Tasks /\ runTask[s] # NoTask
    BY <2>1, AgentTasksAssumption DEF LaunchInv, Linked, RunsLinked
  <2>3. CASE runTask[r] = NoTask BY <1>0, <2>1, <2>3 DEF Mirrored
  <2>4. CASE runTask[r] # NoTask
    <3>1. PICK t \in Tasks : t = runTask[r] BY <1>0, <2>4 DEF TypeOK
    <3>2. PICK u \in Tasks : u = runTask[s] BY <2>2
    <3>3. Cardinality(Entries(r, t)') =
            Cardinality(Entries(r, t)) + (IF r = s /\ t = u THEN 1 ELSE 0)
      <4>1. AppendEntry(u, s) BY <2>1, <3>2
      <4> HIDE DEF AppendEntry
      <4> QED BY <1>0, <4>1, EntriesAppend
    <3>4. Cardinality(Entries(r, t)) \in Nat BY <1>0, EntriesFinite
    <3>5. exec'[r] = IF r = s THEN "append" ELSE exec[r] BY <1>0, <2>1 DEF TypeOK
    <3>6. r = s => t = u BY <3>1, <3>2
    <3>7. runTask'[r] = t BY <2>1, <3>1
    <3>8. Entries(r, runTask[r])' = Entries(r, t)' BY <2>1, <3>1 DEF Entries
    <3> QED BY <1>0, <2>1, <2>4, <3>1, <3>3, <3>4, <3>5, <3>6, <3>7, <3>8 DEF Mirrored
  <2> QED BY <2>3, <2>4
<1>3. ASSUME NEW s \in Runs, ExecStep(s) PROVE Mirrored(r)'
  <2>1. CASE UNCHANGED <<runMessages, transcript>>
    <3>1. CASE r # s
      <4>1. exec'[r] = exec[r]
        BY <1>0, <1>3, <3>1 DEF ExecStep, ExecBegin, AppendRun, AppendTask, ExecEnd, MarkRunFailed,
           ReleaseLaunch, ClearActiveRun, SettleTask, CheckPending, AutoResume, ExecTo, TypeOK
      <4> QED BY <1>0, <2>1, <4>1, MirroredQuiet
    <3>2. CASE r = s
      <4>1. \/ exec[r] = "begin" /\ exec'[r] = "append"
            \/ exec'[r] \notin {"none", "begin", "append", "mirror"}
            \/ ~UNCHANGED runMessages
            \/ ~UNCHANGED transcript
        <5>1. CASE AppendRun(s)
          <6>1. CASE runMessages' = [runMessages EXCEPT ![s] = @ + 1]
            <7>1. runMessages[s] \in Nat BY <1>0, AgentTasksAssumption DEF TypeOK
            <7> QED BY <1>0, <6>1, <7>1 DEF TypeOK
          <6>2. CASE ~(runMessages' = [runMessages EXCEPT ![s] = @ + 1])
            BY <1>0, <3>2, <5>1, <6>2 DEF AppendRun, ExecTo, TypeOK
          <6> QED BY <6>1, <6>2
        <5>2. CASE AppendTask(s)
          <6>1. CASE AppendEntry(runTask[s], s)
            <7>1. runTask[s] \in Tasks BY <5>2 DEF AppendTask, LaunchInv, Linked, RunsLinked
            <7>2. /\ transcript[runTask[s]] \in Seq(Runs)
                  /\ transcript'[runTask[s]] = Append(transcript[runTask[s]], s)
              BY <1>0, <6>1, <7>1 DEF TypeOK
            <7>3. Len(transcript'[runTask[s]]) = Len(transcript[runTask[s]]) + 1
                    /\ Len(transcript[runTask[s]]) \in Nat
              BY <7>2
            <7> QED BY <7>3
          <6>2. CASE ~AppendEntry(runTask[s], s)
            BY <1>0, <3>2, <5>2, <6>2 DEF AppendTask, ExecTo, TypeOK
          <6> QED BY <6>1, <6>2
        <5> QED BY <1>0, <1>3, <3>2, <5>1, <5>2 DEF ExecStep, ExecBegin, ExecEnd, MarkRunFailed,
             ReleaseLaunch, ClearActiveRun, SettleTask, CheckPending, AutoResume, ExecTo, TypeOK
      <4> QED BY <1>0, <2>1, <4>1, MirroredQuiet
    <3> QED BY <3>1, <3>2
  <2> QED BY <1>1, <1>2, <1>3, <2>1 DEF ExecStep, ExecBegin, AppendRun, AppendTask, ExecEnd,
        MarkRunFailed, ReleaseLaunch, ClearActiveRun, SettleTask, CheckPending, AutoResume
<1>4. ASSUME NEW c \in Calls, SetRunning(c) PROVE Mirrored(r)'
  <2>1. callRun[c] \in Runs /\ exec[callRun[c]] = "none"
    BY <1>4 DEF SetRunning, LaunchInv, Linked, CallsLinked, CallLinked
  <2>2. exec'[r] = exec[r] \/ (exec[r] = "none" /\ exec'[r] = "begin")
    BY <1>0, <1>4, <2>1 DEF SetRunning, TypeOK
  <2>3. UNCHANGED <<runMessages, transcript>> BY <1>4 DEF SetRunning
  <2> QED BY <1>0, <2>2, <2>3, MirroredQuiet
<1>5. CASE UNCHANGED <<runMessages, transcript, exec>>
  BY <1>0, <1>5, MirroredQuiet
<1>6. CASE Crash
  <2>1. UNCHANGED <<runMessages, transcript>> BY <1>6 DEF Crash
  <2>2. exec'[r] = IF exec[r] = "none" THEN "none" ELSE "done" BY <1>6 DEF Crash
  <2> QED BY <1>0, <2>1, <2>2, MirroredQuiet
<1>7. ASSUME NEW c \in Calls, CallStep(c) PROVE Mirrored(r)'
  BY <1>4, <1>5, <1>7 DEF CallStep, ReadAgent, ListPending, StartRefused, StartClaimed,
     SetActiveRun, ReleaseFailed, FailTask, MarkDelivered
<1> QED BY <1>3, <1>5, <1>6, <1>7 DEF Next, SendStep, CreateTask, Resume, SendRead,
        SendEnqueue, SendResume, DeleteAgent, vars

(* The transcript of a task is at most one message behind its run, and only *)
(* in the middle of an append or when the run died there, through faults    *)
(* and crashes (agent-service.ts 51-59).                                    *)
THEOREM TranscriptsMirrorRuns == Spec => []TranscriptMirrorsRuns
<1>1. Init => MirrorInv BY DEF Init, MirrorInv, Mirrored
<1>2. LaunchInv /\ MirrorInv => TranscriptMirrorsRuns
  <2> SUFFICES ASSUME LaunchInv, MirrorInv, NEW r \in Runs, runTask[r] # NoTask
               PROVE  LET n == Cardinality({i \in DOMAIN transcript[runTask[r]] :
                                              transcript[runTask[r]][i] = r})
                      IN  /\ runMessages[r] - n \in 0..1
                          /\ runMessages[r] - n = 1 => exec[r] # "append"
    BY DEF TranscriptMirrorsRuns
  <2>1. PICK t \in Tasks : t = runTask[r] BY DEF LaunchInv, TypeOK
  <2>2. transcript[t] \in Seq(Runs) BY DEF LaunchInv, TypeOK
  <2>3. {i \in DOMAIN transcript[runTask[r]] : transcript[runTask[r]][i] = r} = Entries(r, t)
    BY <2>1, <2>2 DEF Entries
  <2>4. Cardinality(Entries(r, t)) \in Nat BY EntriesFinite DEF LaunchInv
  <2>5. Mirrored(r) BY DEF MirrorInv
  <2>6. Entries(r, runTask[r]) = Entries(r, t) BY <2>1
  <2> QED BY <2>1, <2>3, <2>4, <2>5, <2>6 DEF Mirrored
<1> QED BY <1>1, <1>2, MirrorInvStep, LaunchInvariant, PTL DEF Spec
-----------------------------------------------------------------------------
(* AgentTasks implements RunRecords: the place of an execution decides what *)
(* the row of its run can say.                                              *)

RowFits(r) ==
  /\ exec[r] = "none" => runStatus[r] \in {"none", "pending"}
  /\ exec[r] = "begin" => runStatus[r] = "pending"
  /\ exec[r] \in {"append", "mirror", "fail"} => runStatus[r] = "running"

RowsFit == \A r \in Runs : RowFits(r)

(* The steps that leave the rows of runs alone and begin no execution.      *)
LEMMA RowFitsQuiet ==
  ASSUME NEW r \in Runs, RowFits(r), runStatus'[r] = runStatus[r],
         exec'[r] = exec[r] \/ exec'[r] \in {"release", "clear", "settle", "pending", "autoResume", "done"}
  PROVE  RowFits(r)'
  BY DEF RowFits

LEMMA RowsFitStep == LaunchInv /\ RowsFit /\ [Next]_vars => RowsFit'
<1> SUFFICES ASSUME LaunchInv, RowsFit, [Next]_vars, NEW r \in Runs PROVE RowFits(r)'
  BY DEF RowsFit
<1>0. TypeOK /\ RowFits(r) BY DEF LaunchInv, RowsFit
<1>1. ASSUME NEW s \in Runs, ExecStep(s), s # r PROVE RowFits(r)'
  <2>1. exec'[r] = exec[r] /\ runStatus'[r] = runStatus[r]
    BY <1>0, <1>1 DEF ExecStep, ExecBegin, AppendRun, AppendTask, ExecEnd, MarkRunFailed,
         ReleaseLaunch, ClearActiveRun, SettleTask, CheckPending, AutoResume, ExecTo, TypeOK
  <2> QED BY <1>0, <2>1, RowFitsQuiet
<1>2. CASE ExecBegin(r) BY <1>0, <1>2 DEF ExecBegin, ExecTo, RowFits, TypeOK
<1>3. CASE AppendRun(r) BY <1>0, <1>3 DEF AppendRun, ExecTo, RowFits, TypeOK
<1>4. CASE AppendTask(r) BY <1>0, <1>4 DEF AppendTask, ExecTo, RowFits, TypeOK
<1>5. CASE ExecEnd(r) BY <1>0, <1>5 DEF ExecEnd, ExecTo, RowFits, TypeOK
<1>6. CASE MarkRunFailed(r) BY <1>0, <1>6 DEF MarkRunFailed, ExecTo, RowFits, TypeOK
<1>7. CASE ReleaseLaunch(r) \/ ClearActiveRun(r) \/ SettleTask(r) \/ CheckPending(r) \/ AutoResume(r)
  <2>1. /\ runStatus'[r] = runStatus[r]
        /\ exec'[r] \in {"release", "clear", "settle", "pending", "autoResume", "done"}
    BY <1>0, <1>7 DEF ReleaseLaunch, ClearActiveRun, SettleTask, CheckPending, AutoResume, ExecTo, TypeOK
  <2> QED BY <1>0, <2>1, RowFitsQuiet
<1>8. ASSUME NEW c \in Calls, StartClaimed(c) PROVE RowFits(r)'
  <2>1. exec'[r] = exec[r] BY <1>8 DEF StartClaimed
  <2>2. CASE runStatus'[r] = runStatus[r] BY <1>0, <2>1, <2>2, RowFitsQuiet
  <2>3. CASE runStatus'[r] # runStatus[r]
    <3>1. runStatus[r] = "none" /\ runStatus'[r] = "pending" BY <1>0, <1>8, <2>3 DEF StartClaimed, TypeOK
    <3>2. exec[r] = "none"
      BY <3>1, AgentTasksAssumption DEF LaunchInv, Linked, RunsLinked
    <3> QED BY <2>1, <3>1, <3>2 DEF RowFits
  <2> QED BY <2>2, <2>3
<1>9. ASSUME NEW c \in Calls, SetRunning(c) PROVE RowFits(r)'
  <2>1. UNCHANGED runStatus BY <1>9 DEF SetRunning
  <2>2. CASE exec'[r] = exec[r] BY <1>0, <2>1, <2>2, RowFitsQuiet
  <2>3. CASE exec'[r] # exec[r]
    <3>1. r = callRun[c] /\ exec'[r] = "begin" /\ callPc[c] = "run"
      BY <1>0, <1>9, <2>3 DEF SetRunning, TypeOK
    <3>2. exec[r] = "none" /\ runTask[r] = callTask[c] /\ callTask[c] \in Tasks
      BY <3>1 DEF LaunchInv, Linked, CallsLinked, CallLinked
    <3>3. runStatus[r] # "none"
      BY <3>2, AgentTasksAssumption DEF LaunchInv, Linked, RunsLinked
    <3>4. runStatus[r] = "pending" BY <1>0, <3>2, <3>3 DEF RowFits
    <3> QED BY <2>1, <3>1, <3>4 DEF RowFits
  <2> QED BY <2>2, <2>3
<1>10. CASE UNCHANGED <<runStatus, exec>> BY <1>0, <1>10, RowFitsQuiet
<1>11. CASE Crash
  <2>1. UNCHANGED runStatus /\ exec'[r] = IF exec[r] = "none" THEN "none" ELSE "done" BY <1>11 DEF Crash
  <2> QED BY <1>0, <2>1, RowFitsQuiet
<1>12. ASSUME NEW c \in Calls, CallStep(c) PROVE RowFits(r)'
  BY <1>8, <1>9, <1>10, <1>12 DEF CallStep, ReadAgent, ListPending, StartRefused,
     SetActiveRun, ReleaseFailed, FailTask, MarkDelivered
<1>13. CASE ExecStep(r) BY <1>2, <1>3, <1>4, <1>5, <1>6, <1>7, <1>13 DEF ExecStep
<1> QED BY <1>1, <1>10, <1>11, <1>12, <1>13 DEF Next, SendStep, CreateTask, Resume, SendRead,
        SendEnqueue, SendResume, DeleteAgent, vars

LEMMA RecordStep ==
  LaunchInv /\ RowsFit /\ [Next]_vars => [Records!RecordsNext]_(Records!recordVars)
<1> SUFFICES ASSUME LaunchInv, RowsFit, [Next]_vars PROVE [Records!RecordsNext]_(Records!recordVars)
  OBVIOUS
<1>0. TypeOK BY DEF LaunchInv
<1>1. CASE UNCHANGED <<runStatus, runMessages>> BY <1>1 DEF Records!recordVars
<1>3. ASSUME NEW c \in Calls, StartClaimed(c) PROVE [Records!RecordsNext]_(Records!recordVars)
  <2>1. CASE UNCHANGED runStatus BY <1>1, <1>3, <2>1 DEF StartClaimed
  <2>2. CASE ~UNCHANGED runStatus
    <3>1. PICK r \in Runs : runStatus[r] = "none" /\ runStatus' = [runStatus EXCEPT ![r] = "pending"]
      BY <1>3, <2>2 DEF StartClaimed
    <3>2. runStatus[r] \in {"none"} /\ runMessages' = runMessages BY <1>3, <3>1 DEF StartClaimed
    <3>3. Records!Advance(r, {"none"}, "pending") BY <3>1, <3>2 DEF Records!Advance
    <3> QED BY <3>3 DEF Records!Create, Records!RecordsNext
  <2> QED BY <2>1, <2>2
<1>4. ASSUME NEW r \in Runs, ExecBegin(r) PROVE [Records!RecordsNext]_(Records!recordVars)
  <2>1. runStatus[r] = "pending" BY <1>4 DEF ExecBegin, RowsFit, RowFits
  <2>2. CASE UNCHANGED runStatus BY <1>1, <1>4, <2>2 DEF ExecBegin
  <2>3. CASE runStatus' = [runStatus EXCEPT ![r] = "running"]
    <3>1. runStatus[r] \in {"pending"} /\ runMessages' = runMessages BY <1>4, <2>1 DEF ExecBegin
    <3>2. Records!Advance(r, {"pending"}, "running") BY <2>3, <3>1 DEF Records!Advance
    <3> QED BY <3>2 DEF Records!Start, Records!RecordsNext
  <2> QED BY <1>4, <2>2, <2>3 DEF ExecBegin
<1>5. ASSUME NEW r \in Runs, AppendRun(r) PROVE [Records!RecordsNext]_(Records!recordVars)
  <2>1. runStatus[r] = "running" BY <1>5 DEF AppendRun, RowsFit, RowFits
  <2>2. CASE UNCHANGED runMessages BY <1>1, <1>5, <2>2 DEF AppendRun
  <2>3. CASE runMessages' = [runMessages EXCEPT ![r] = @ + 1]
    <3>1. Records!Tell(r) BY <1>5, <2>1, <2>3 DEF AppendRun, Records!Tell
    <3> QED BY <3>1 DEF Records!RecordsNext
  <2> QED BY <1>5, <2>2, <2>3 DEF AppendRun
<1>6. ASSUME NEW r \in Runs, ExecEnd(r) PROVE [Records!RecordsNext]_(Records!recordVars)
  <2>1. runStatus[r] = "running" /\ runMessages[r] >= 2 BY <1>6 DEF ExecEnd, RowsFit, RowFits, Prologue
  <2>2. CASE UNCHANGED runStatus BY <1>1, <1>6, <2>2 DEF ExecEnd
  <2>3. CASE runStatus' = [runStatus EXCEPT ![r] = "completed"]
    <3>1. runStatus[r] \in {"running"} /\ runMessages' = runMessages BY <1>6, <2>1 DEF ExecEnd
    <3>2. Records!Advance(r, {"running"}, "completed") BY <2>3, <3>1 DEF Records!Advance
    <3> QED BY <2>1, <3>2 DEF Records!Complete, Records!Prologue, Records!RecordsNext
  <2> QED BY <1>6, <2>2, <2>3 DEF ExecEnd
<1>7. ASSUME NEW r \in Runs, MarkRunFailed(r) PROVE [Records!RecordsNext]_(Records!recordVars)
  <2>1. runStatus[r] = "running" BY <1>7 DEF MarkRunFailed, RowsFit, RowFits
  <2>2. CASE UNCHANGED runStatus BY <1>1, <1>7, <2>2 DEF MarkRunFailed
  <2>3. CASE runStatus' = [runStatus EXCEPT ![r] = "failed"]
    <3>1. runStatus[r] \in {"pending", "running"} /\ runMessages' = runMessages BY <1>7, <2>1 DEF MarkRunFailed
    <3>2. Records!Advance(r, {"pending", "running"}, "failed") BY <2>3, <3>1 DEF Records!Advance
    <3> QED BY <3>2 DEF Records!Fail, Records!RecordsNext
  <2> QED BY <1>7, <2>2, <2>3 DEF MarkRunFailed
<1>8. ASSUME NEW r \in Runs, ExecStep(r) PROVE [Records!RecordsNext]_(Records!recordVars)
  <2>1. CASE ExecBegin(r) \/ AppendRun(r) \/ ExecEnd(r) \/ MarkRunFailed(r)
    BY <1>4, <1>5, <1>6, <1>7, <2>1
  <2>2. CASE ~(ExecBegin(r) \/ AppendRun(r) \/ ExecEnd(r) \/ MarkRunFailed(r))
    BY <1>1, <1>8, <2>2 DEF ExecStep, AppendTask, ReleaseLaunch, ClearActiveRun, SettleTask,
       CheckPending, AutoResume
  <2> QED BY <2>1, <2>2
<1>9. ASSUME NEW c \in Calls, CallStep(c) PROVE [Records!RecordsNext]_(Records!recordVars)
  BY <1>1, <1>3, <1>9 DEF CallStep, ReadAgent, ListPending, StartRefused, SetActiveRun, SetRunning,
     ReleaseFailed, FailTask, MarkDelivered
<1> QED BY <1>1, <1>8, <1>9 DEF Next, SendStep, CreateTask, Resume, SendRead, SendEnqueue,
        SendResume, DeleteAgent, Crash, vars

(* The runs of background tasks, created by the service and executed beside *)
(* it, are records like any other (agent-service.ts 283-335 over            *)
(* execution-loop.ts): whatever calls, errors and crashes do to their tasks *)
(* in between, a reader of runs sees what RunRecords allows.                *)
THEOREM RunsAreRecords == Spec => ImplementsRunRecords
<1>1. Init => RowsFit /\ Records!RecordsInit BY DEF Init, RowsFit, RowFits, Records!RecordsInit
<1> QED BY <1>1, RowsFitStep, RecordStep, LaunchInvariant, PTL
        DEF Spec, ImplementsRunRecords, Records!RecordsSpec
=============================================================================
