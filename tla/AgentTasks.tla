----------------------------- MODULE AgentTasks -----------------------------
(***************************************************************************)
(* Background agent tasks: the AgentService of apps/agent-runner, with the *)
(* task, run, transcript and follow-up message repositories behind it.     *)
(*                                                                         *)
(* The service is single threaded, and every await hands control to the    *)
(* other calls in flight.  One action is the stretch of code between two   *)
(* awaits, or the effect of one repository call.  In flight at once are    *)
(*   - calls: invocations of createBackgroundTask and resumeAgentTask;     *)
(*   - sends: invocations of sendMessageToAgentTask, one per message;      *)
(*   - executions: the detached executeRunRequest of each run, and the     *)
(*     finally block behind it.                                            *)
(* A crash loses all of them and the launch set; the repositories survive. *)
(***************************************************************************)
EXTENDS Naturals, Sequences, FiniteSets

CONSTANTS
  Tasks, Runs, Messages,   \* identifiers the repositories hand out
  Calls,                   \* bound: calls in flight at the same time
  NoTask, NoRun,
  MaxRunMessages,          \* bound: messages one run appends
  MaxFaults,               \* bound: repository calls that throw
  MaxCrashes,              \* bound: process crashes
  MaxDeletions             \* bound: deletions of the agent definition

ASSUME AgentTasksAssumption ==
  /\ NoTask \notin Tasks
  /\ NoRun \notin Runs
  /\ MaxRunMessages \in Nat
  /\ MaxFaults \in Nat
  /\ MaxCrashes \in Nat
  /\ MaxDeletions \in Nat

VARIABLES
  \* persisted
  agentKnown,   \* the agent definition the tasks select still exists
  taskStatus,   \* AgentTask.status, "none" before the task is created
  activeRun,    \* AgentTask.activeRunId
  runStatus,    \* Run.status, "none" before the run is created
  runTask,      \* Run.agentTaskId
  runInput,     \* the follow-up messages joined into Run.input
  runMessages,  \* number of messages in the run's own history
  transcript,   \* the task's transcript, as the source run of each entry
  queued,       \* task of each follow-up message, NoTask before enqueue
  delivered,    \* messages that have deliveredAt set
  \* in memory
  launches,     \* AgentService.activeTaskLaunches
  callPc, callTask, callRun, callPending,  \* calls: place and locals
  sendPc, sendTask,                        \* sends: place and target
  exec,                                    \* executions: place
  \* bounds
  faults, crashes

stored  == <<agentKnown, taskStatus, activeRun, runStatus, runTask, runInput,
             runMessages, transcript, queued, delivered>>
memory  == <<launches, callPc, callTask, callRun, callPending, sendPc,
             sendTask, exec>>
vars    == <<stored, memory, faults, crashes>>

(* Nothing sets the statuses paused and killed of AgentTaskStatusEnum.      *)
TaskStatus == {"none", "pending", "running", "completed", "failed"}
RunStatus  == {"none", "pending", "running", "completed", "failed"}
CallPc == {"idle", "agent", "list", "start", "activate", "run", "mark",
           "caught", "failing"}
SendPc == {"new", "stopped", "running", "queued", "resume", "done"}
ExecPc == {"none", "begin", "append", "mirror", "fail", "release", "clear",
           "settle", "pending", "autoResume", "done"}

TypeOK ==
  /\ agentKnown \in BOOLEAN
  /\ taskStatus \in [Tasks -> TaskStatus]
  /\ activeRun \in [Tasks -> Runs \cup {NoRun}]
  /\ runStatus \in [Runs -> RunStatus]
  /\ runTask \in [Runs -> Tasks \cup {NoTask}]
  /\ runInput \in [Runs -> SUBSET Messages]
  /\ runMessages \in [Runs -> 0..MaxRunMessages]
  /\ transcript \in [Tasks -> Seq(Runs)]
  /\ queued \in [Messages -> Tasks \cup {NoTask}]
  /\ delivered \in SUBSET Messages
  /\ launches \in SUBSET Tasks
  /\ callPc \in [Calls -> CallPc]
  /\ callTask \in [Calls -> Tasks \cup {NoTask}]
  /\ callRun \in [Calls -> Runs \cup {NoRun}]
  /\ callPending \in [Calls -> SUBSET Messages]
  /\ sendPc \in [Messages -> SendPc]
  /\ sendTask \in [Messages -> Tasks \cup {NoTask}]
  /\ exec \in [Runs -> ExecPc]
  /\ faults \in 0..MaxFaults
  /\ crashes \in 0..MaxCrashes

Init ==
  /\ agentKnown = TRUE
  /\ taskStatus = [t \in Tasks |-> "none"]
  /\ activeRun = [t \in Tasks |-> NoRun]
  /\ runStatus = [r \in Runs |-> "none"]
  /\ runTask = [r \in Runs |-> NoTask]
  /\ runInput = [r \in Runs |-> {}]
  /\ runMessages = [r \in Runs |-> 0]
  /\ transcript = [t \in Tasks |-> <<>>]
  /\ queued = [m \in Messages |-> NoTask]
  /\ delivered = {}
  /\ launches = {}
  /\ callPc = [c \in Calls |-> "idle"]
  /\ callTask = [c \in Calls |-> NoTask]
  /\ callRun = [c \in Calls |-> NoRun]
  /\ callPending = [c \in Calls |-> {}]
  /\ sendPc = [m \in Messages |-> "new"]
  /\ sendTask = [m \in Messages |-> NoTask]
  /\ exec = [r \in Runs |-> "none"]
  /\ faults = 0
  /\ crashes = 0
-----------------------------------------------------------------------------
callVars == <<callPc, callTask, callRun, callPending>>
sendVars == <<sendPc, sendTask>>
taskRows == <<taskStatus, activeRun>>
runRows  == <<runStatus, runTask, runInput, runMessages>>
mailRows == <<queued, delivered>>

(* A repository call may throw; the bound keeps the failures finite.        *)
Throws   == faults < MaxFaults /\ faults' = faults + 1
Succeeds == UNCHANGED faults

(* The writes of the repositories.                                          *)
SaveStatus(t, status) == taskStatus' = [taskStatus EXCEPT ![t] = status]
SaveActiveRun(t, r)   == activeRun' = [activeRun EXCEPT ![t] = r]
SaveRunStatus(r, status) == runStatus' = [runStatus EXCEPT ![r] = status]

CreateRun(r, t, input) ==
  /\ runStatus[r] = "none"
  /\ SaveRunStatus(r, "pending")
  /\ runTask' = [runTask EXCEPT ![r] = t]
  /\ runInput' = [runInput EXCEPT ![r] = input]

AppendMessage(r) == runMessages' = [runMessages EXCEPT ![r] = @ + 1]
AppendEntry(t, r) == transcript' = [transcript EXCEPT ![t] = Append(@, r)]
Enqueue(m, t) == queued' = [queued EXCEPT ![m] = t]
Deliver(m) == delivered' = delivered \cup {m}

(* The test that decides between queueing and resuming.                     *)
Stopped(t) == taskStatus[t] # "running" \/ activeRun[t] = NoRun

(* agentTaskPendingMessageRepo.listPendingByTaskId                          *)
Pending(t) == {m \in Messages : queued[m] = t /\ m \notin delivered}

GoTo(c, pc) == callPc' = [callPc EXCEPT ![c] = pc]

(* A call that returns or throws leaves no locals behind.                   *)
EndCall(c) ==
  /\ callPc' = [callPc EXCEPT ![c] = "idle"]
  /\ callTask' = [callTask EXCEPT ![c] = NoTask]
  /\ callRun' = [callRun EXCEPT ![c] = NoRun]
  /\ callPending' = [callPending EXCEPT ![c] = {}]

-----------------------------------------------------------------------------
(* createBackgroundTask: the task row is stored before anything starts.     *)
CreateTask(c, t) ==
  /\ callPc[c] = "idle"
  /\ taskStatus[t] = "none"
  /\ agentKnown
  /\ SaveStatus(t, "pending")
  /\ callPc' = [callPc EXCEPT ![c] = "start"]
  /\ callTask' = [callTask EXCEPT ![c] = t]
  /\ UNCHANGED <<agentKnown, activeRun, runRows, transcript, mailRows, launches,
                 callRun, callPending, sendVars, exec, faults, crashes>>

DeleteAgent ==
  /\ agentKnown
  /\ MaxDeletions > 0
  /\ agentKnown' = FALSE
  /\ UNCHANGED <<taskRows, runRows, transcript, mailRows, memory, faults, crashes>>

(* resumeAgentTask up to its first await: it reads the task, and leaves a   *)
(* running one alone.                                                       *)
BeginResume(t) ==
  \/ ~Stopped(t) /\ UNCHANGED callVars
  \/ /\ Stopped(t)
     /\ \E c \in Calls :
          /\ callPc[c] = "idle"
          /\ callPc' = [callPc EXCEPT ![c] = "agent"]
          /\ callTask' = [callTask EXCEPT ![c] = t]
     /\ UNCHANGED <<callRun, callPending>>

(* An operator, or a coordinating agent, asks for the task to be resumed.   *)
Resume(t) ==
  /\ taskStatus[t] # "none"
  /\ Stopped(t)
  /\ BeginResume(t)
  /\ UNCHANGED <<stored, launches, sendVars, exec, faults, crashes>>

(* sendMessageToAgentTask, in three parts: the task is read,                *)
SendRead(m, t) ==
  /\ sendPc[m] = "new"
  /\ taskStatus[t] # "none"
  /\ sendTask' = [sendTask EXCEPT ![m] = t]
  /\ sendPc' = [sendPc EXCEPT ![m] = IF Stopped(t) THEN "stopped" ELSE "running"]
  /\ UNCHANGED <<stored, launches, callVars, exec, faults, crashes>>

(* the message is queued,                                                   *)
SendEnqueue(m) ==
  /\ sendPc[m] \in {"stopped", "running"}
  /\ \/ /\ Succeeds
        /\ Enqueue(m, sendTask[m])
        /\ sendPc' = [sendPc EXCEPT ![m] = IF @ = "stopped" THEN "resume" ELSE "done"]
     \/ /\ Throws
        /\ sendPc' = [sendPc EXCEPT ![m] = "done"]
        /\ UNCHANGED queued
  /\ UNCHANGED <<agentKnown, taskRows, runRows, transcript, delivered, launches,
                 callVars, sendTask, exec, crashes>>

(* and the task that was stopped when it was read is resumed.               *)
SendResume(m) ==
  /\ sendPc[m] = "resume"
  /\ BeginResume(sendTask[m])
  /\ sendPc' = [sendPc EXCEPT ![m] = "done"]
  /\ UNCHANGED <<stored, launches, sendTask, exec, faults, crashes>>

(* resumeAgentTask: the agent definition is read; a missing one throws.     *)
ReadAgent(c) ==
  /\ callPc[c] = "agent"
  /\ \/ /\ agentKnown
        /\ GoTo(c, "list")
        /\ UNCHANGED <<callTask, callRun, callPending, faults>>
     \/ ~agentKnown /\ EndCall(c) /\ UNCHANGED faults
     \/ Throws /\ EndCall(c)
  /\ UNCHANGED <<stored, launches, sendVars, exec, crashes>>

(* resumeAgentTask: the transcript and the queue are read.                  *)
ListPending(c) ==
  /\ callPc[c] = "list"
  /\ \/ /\ Succeeds
        /\ callPending' = [callPending EXCEPT ![c] = Pending(callTask[c])]
        /\ GoTo(c, "start")
        /\ UNCHANGED <<callTask, callRun>>
     \/ Throws /\ EndCall(c)
  /\ UNCHANGED <<stored, launches, sendVars, exec, crashes>>

(* startAgentTaskExecution, when the task is being launched already: it     *)
(* returns the task as it is, and the caller goes on to mark its messages.  *)
StartRefused(c) ==
  /\ callPc[c] = "start"
  /\ callTask[c] \in launches
  /\ \/ Succeeds /\ GoTo(c, "mark") /\ UNCHANGED <<callTask, callRun, callPending>>
     \/ Throws /\ EndCall(c)
  /\ UNCHANGED <<stored, launches, sendVars, exec, crashes>>

(* Mutant: the test of activeTaskLaunches is missing.                       *)
StartClaimed_unguarded(c) ==
  /\ callPc[c] = "start"
  /\ launches' = launches \cup {callTask[c]}
  /\ \E r \in Runs :
       /\ CreateRun(r, callTask[c], callPending[c])
       /\ callRun' = [callRun EXCEPT ![c] = r]
  /\ GoTo(c, "activate")
  /\ UNCHANGED <<agentKnown, taskRows, runMessages, transcript, mailRows, callTask,
                 callPending, sendVars, exec, faults, crashes>>

(* startAgentTaskExecution: the launch is claimed and the run created.      *)
StartClaimed(c) ==
  /\ callPc[c] = "start"
  /\ callTask[c] \notin launches
  /\ launches' = launches \cup {callTask[c]}
  /\ \/ /\ Succeeds
        /\ \E r \in Runs :
             /\ CreateRun(r, callTask[c], callPending[c])
             /\ callRun' = [callRun EXCEPT ![c] = r]
        /\ GoTo(c, "activate")
     \/ /\ Throws
        /\ GoTo(c, "caught")
        /\ UNCHANGED <<runStatus, runTask, runInput, callRun>>
  /\ UNCHANGED <<agentKnown, taskRows, runMessages, transcript, mailRows, callTask,
                 callPending, sendVars, exec, crashes>>

SetActiveRun(c) ==
  /\ callPc[c] = "activate"
  /\ \/ /\ Succeeds
        /\ SaveActiveRun(callTask[c], callRun[c])
        /\ GoTo(c, "run")
     \/ Throws /\ GoTo(c, "caught") /\ UNCHANGED activeRun
  /\ UNCHANGED <<agentKnown, taskStatus, runRows, transcript, mailRows, launches,
                 callTask, callRun, callPending, sendVars, exec, crashes>>

(* Mutant: the launch is released by the caller, not by the execution.      *)
SetRunning_releases(c) ==
  /\ callPc[c] = "run"
  /\ SaveStatus(callTask[c], "running")
  /\ exec' = [exec EXCEPT ![callRun[c]] = "begin"]
  /\ launches' = launches \ {callTask[c]}
  /\ GoTo(c, "mark")
  /\ UNCHANGED <<agentKnown, activeRun, runRows, transcript, mailRows, callTask,
                 callRun, callPending, sendVars, faults, crashes>>

(* The task is running: its execution is detached and the caller goes on.   *)
SetRunning(c) ==
  /\ callPc[c] = "run"
  /\ \/ /\ Succeeds
        /\ SaveStatus(callTask[c], "running")
        /\ exec' = [exec EXCEPT ![callRun[c]] = "begin"]
        /\ GoTo(c, "mark")
     \/ Throws /\ GoTo(c, "caught") /\ UNCHANGED <<taskStatus, exec>>
  /\ UNCHANGED <<agentKnown, activeRun, runRows, transcript, mailRows, launches,
                 callTask, callRun, callPending, sendVars, crashes>>

(* Mutant: the catch block forgets the launch.                              *)
ReleaseFailed_leaks(c) ==
  /\ callPc[c] = "caught"
  /\ GoTo(c, "failing")
  /\ UNCHANGED <<stored, launches, callTask, callRun, callPending, sendVars, exec,
                 faults, crashes>>

(* The catch block of startAgentTaskExecution gives the launch up ...       *)
ReleaseFailed(c) ==
  /\ callPc[c] = "caught"
  /\ launches' = launches \ {callTask[c]}
  /\ GoTo(c, "failing")
  /\ UNCHANGED <<stored, callTask, callRun, callPending, sendVars, exec, faults, crashes>>

(* ... and fails the task before it throws again.                           *)
FailTask(c) ==
  /\ callPc[c] = "failing"
  /\ \/ Succeeds /\ SaveStatus(callTask[c], "failed")
     \/ Throws /\ UNCHANGED taskStatus
  /\ EndCall(c)
  /\ UNCHANGED <<agentKnown, activeRun, runRows, transcript, mailRows, launches,
                 sendVars, exec, crashes>>

(* resumeAgentTask marks the messages it listed, one await each (in queue   *)
(* order; any order here).                                                  *)
MarkDelivered(c) ==
  /\ callPc[c] = "mark"
  /\ \/ /\ callPending[c] = {}
        /\ EndCall(c)
        /\ UNCHANGED <<delivered, faults>>
     \/ /\ \E m \in callPending[c] :
             /\ Deliver(m)
             /\ callPending' = [callPending EXCEPT ![c] = @ \ {m}]
        /\ UNCHANGED <<callPc, callTask, callRun, faults>>
     \/ /\ callPending[c] # {}
        /\ Throws
        /\ EndCall(c)
        /\ UNCHANGED delivered
  /\ UNCHANGED <<agentKnown, taskRows, runRows, transcript, queued, launches, sendVars,
                 exec, crashes>>

-----------------------------------------------------------------------------
(* The detached execution of a run: executeRunRequest over the mirroring    *)
(* message repository.  Its system and user messages come first, outside    *)
(* the try block; the model's messages follow.                              *)
Prologue == 2

ExecTo(r, pc) == exec' = [exec EXCEPT ![r] = pc]

ExecBegin(r) ==
  /\ exec[r] = "begin"
  /\ \/ /\ Succeeds
        /\ SaveRunStatus(r, "running")
        /\ ExecTo(r, "append")
     \/ Throws /\ ExecTo(r, "release") /\ UNCHANGED runStatus
  /\ UNCHANGED <<agentKnown, taskRows, runTask, runInput, runMessages, transcript,
                 mailRows, launches, callVars, sendVars, crashes>>

(* Mutant: the message is not mirrored.                                     *)
AppendRun_unmirrored(r) ==
  /\ exec[r] = "append"
  /\ runMessages[r] < MaxRunMessages
  /\ AppendMessage(r)
  /\ ExecTo(r, "append")
  /\ UNCHANGED <<agentKnown, taskRows, runStatus, runTask, runInput, transcript,
                 mailRows, launches, callVars, sendVars, faults, crashes>>

(* MirroringMessageRepository.append stores the message in the run ...      *)
AppendRun(r) ==
  /\ exec[r] = "append"
  /\ runMessages[r] < MaxRunMessages
  /\ \/ /\ Succeeds
        /\ AppendMessage(r)
        /\ ExecTo(r, "mirror")
     \/ /\ Throws
        /\ ExecTo(r, IF runMessages[r] < Prologue THEN "release" ELSE "fail")
        /\ UNCHANGED runMessages
  /\ UNCHANGED <<agentKnown, taskRows, runStatus, runTask, runInput, transcript,
                 mailRows, launches, callVars, sendVars, crashes>>

(* ... and then in the transcript of the task.                              *)
AppendTask(r) ==
  /\ exec[r] = "mirror"
  /\ \/ /\ Succeeds
        /\ AppendEntry(runTask[r], r)
        /\ ExecTo(r, "append")
     \/ /\ Throws
        /\ ExecTo(r, IF runMessages[r] <= Prologue THEN "release" ELSE "fail")
        /\ UNCHANGED transcript
  /\ UNCHANGED <<agentKnown, taskRows, runRows, mailRows, launches, callVars,
                 sendVars, crashes>>

(* The run ends: completed, or, when the provider cannot be resolved, the   *)
(* model call throws or is aborted, or the output is cut off, failed.       *)
ExecEnd(r) ==
  /\ exec[r] = "append"
  /\ runMessages[r] >= Prologue
  /\ \/ /\ Succeeds
        /\ SaveRunStatus(r, "completed")
        /\ ExecTo(r, "release")
     \/ Succeeds /\ ExecTo(r, "fail") /\ UNCHANGED runStatus
     \/ Throws /\ ExecTo(r, "fail") /\ UNCHANGED runStatus
  /\ UNCHANGED <<agentKnown, taskRows, runTask, runInput, runMessages, transcript,
                 mailRows, launches, callVars, sendVars, crashes>>

(* markRunFailed swallows its own failure.                                  *)
MarkRunFailed(r) ==
  /\ exec[r] = "fail"
  /\ \/ Succeeds /\ SaveRunStatus(r, "failed")
     \/ Throws /\ UNCHANGED runStatus
  /\ ExecTo(r, "release")
  /\ UNCHANGED <<agentKnown, taskRows, runTask, runInput, runMessages, transcript,
                 mailRows, launches, callVars, sendVars, crashes>>

(* Mutant: the finally block leaves the task row as it is.                  *)
ReleaseLaunch_only(r) ==
  /\ exec[r] = "release"
  /\ launches' = launches \ {runTask[r]}
  /\ ExecTo(r, "pending")
  /\ UNCHANGED <<stored, callVars, sendVars, faults, crashes>>

(* The finally block behind the execution: the launch is released first,    *)
ReleaseLaunch(r) ==
  /\ exec[r] = "release"
  /\ launches' = launches \ {runTask[r]}
  /\ ExecTo(r, "clear")
  /\ UNCHANGED <<stored, callVars, sendVars, faults, crashes>>

(* then the task forgets its run, whichever it is by now,                   *)
ClearActiveRun(r) ==
  /\ exec[r] = "clear"
  /\ SaveActiveRun(runTask[r], NoRun)
  /\ ExecTo(r, "settle")
  /\ UNCHANGED <<agentKnown, taskStatus, runRows, transcript, mailRows, launches,
                 callVars, sendVars, faults, crashes>>

(* takes the outcome of the run that ended,                                 *)
SettleTask(r) ==
  /\ exec[r] = "settle"
  /\ SaveStatus(runTask[r], IF runStatus[r] = "failed" THEN "failed" ELSE "completed")
  /\ ExecTo(r, "pending")
  /\ UNCHANGED <<agentKnown, activeRun, runRows, transcript, mailRows, launches,
                 callVars, sendVars, faults, crashes>>

(* and resumes for the messages that were queued meanwhile.                 *)
CheckPending(r) ==
  /\ exec[r] = "pending"
  /\ ExecTo(r, IF Pending(runTask[r]) = {} THEN "done" ELSE "autoResume")
  /\ UNCHANGED <<stored, launches, callVars, sendVars, faults, crashes>>

AutoResume(r) ==
  /\ exec[r] = "autoResume"
  /\ BeginResume(runTask[r])
  /\ ExecTo(r, "done")
  /\ UNCHANGED <<stored, launches, sendVars, faults, crashes>>

(* The process dies and is started again: everything in flight is gone, and *)
(* nothing looks at the tasks that were running.  A repository error in the *)
(* finally block ends here too, as an unhandled rejection.                  *)
Crash ==
  /\ crashes < MaxCrashes
  /\ crashes' = crashes + 1
  /\ launches' = {}
  /\ callPc' = [c \in Calls |-> "idle"]
  /\ callTask' = [c \in Calls |-> NoTask]
  /\ callRun' = [c \in Calls |-> NoRun]
  /\ callPending' = [c \in Calls |-> {}]
  /\ sendPc' = [m \in Messages |-> IF sendPc[m] = "new" THEN "new" ELSE "done"]
  /\ exec' = [r \in Runs |-> IF exec[r] = "none" THEN "none" ELSE "done"]
  /\ UNCHANGED <<stored, sendTask, faults>>

-----------------------------------------------------------------------------
CallStep(c) ==
  \/ ReadAgent(c) \/ ListPending(c) \/ StartRefused(c) \/ StartClaimed(c)
  \/ SetActiveRun(c) \/ SetRunning(c) \/ ReleaseFailed(c) \/ FailTask(c)
  \/ MarkDelivered(c)

ExecStep(r) ==
  \/ ExecBegin(r) \/ AppendRun(r) \/ AppendTask(r) \/ ExecEnd(r)
  \/ MarkRunFailed(r) \/ ReleaseLaunch(r) \/ ClearActiveRun(r)
  \/ SettleTask(r) \/ CheckPending(r) \/ AutoResume(r)

SendStep(m) == SendEnqueue(m) \/ SendResume(m)

Next ==
  \/ \E c \in Calls, t \in Tasks : CreateTask(c, t)
  \/ \E t \in Tasks : Resume(t)
  \/ \E m \in Messages, t \in Tasks : SendRead(m, t)
  \/ \E m \in Messages : SendStep(m)
  \/ \E c \in Calls : CallStep(c)
  \/ \E r \in Runs : ExecStep(r)
  \/ DeleteAgent
  \/ Crash

Spec == Init /\ [][Next]_vars

(* The event loop always gets to a continuation that is due, a model call   *)
(* is aborted after llmTimeoutMs * maxTurns and a run takes at most maxTurns *)
(* turns, so every call, send and execution in flight advances.  Operators, *)
(* deletions, crashes and repository errors are not owed.                   *)
Fairness ==
  /\ \A c \in Calls : WF_vars(CallStep(c))
  /\ \A r \in Runs : WF_vars(ExecStep(r))
  /\ \A m \in Messages : WF_vars(SendStep(m))

FairSpec == Spec /\ Fairness

-----------------------------------------------------------------------------
(* Between ExecBegin and the finally block executeRunRequest is in progress *)
Live(r) == exec[r] \in {"begin", "append", "mirror", "fail"}

(* Those who answer for a launch: the call between claiming it and          *)
(* detaching the execution, or the execution until its finally block.       *)
Launching(c) == callPc[c] \in {"activate", "run", "caught"}
Executing(r) == Live(r) \/ exec[r] = "release"

Owned(t) ==
  \/ \E c \in Calls : Launching(c) /\ callTask[c] = t
  \/ \E r \in Runs : Executing(r) /\ runTask[r] = t

(* activeTaskLaunches keeps the executions of a task apart: two runs of one *)
(* task are never in executeRunRequest at the same time, whatever mix of    *)
(* creates, resumes, follow-up messages, auto-resumes and crashes led there *)
(* (agent-service.ts 283-287, 327, 351).                                    *)
ExclusiveExecution ==
  \A r, s \in Runs : Live(r) /\ Live(s) /\ runTask[r] = runTask[s] => r = s

(* The launch set never leaks: a task in it has someone in flight that will *)
(* take it out, so no error path blocks a task until the next restart.      *)
LaunchNeverLeaks == \A t \in launches : Owned(t)

(* A task shown as running with an active run has an execution, or the end  *)
(* of one, in flight.                                                       *)
Attended(t) ==
  \/ Stopped(t)
  \/ Owned(t)
  \/ \E r \in Runs : runTask[r] = t /\ exec[r] \in {"clear", "settle"}

(* As long as the process stays up, resumeAgentTask, which returns a        *)
(* running task untouched, leaves only tasks alone that somebody works on,  *)
(* although launches are released before the row is settled and errors cut  *)
(* launches short (agent-service.ts 232, 294-295, 327-334, 351).            *)
RunningIsAttended == crashes = 0 => \A t \in Tasks : Attended(t)

(* The inductive strengthening of exclusion and of the launch set.  Whoever *)
(* launches or executes holds the launch of its task,                       *)
HoldersClaimed ==
  /\ \A c \in Calls : Launching(c) => callTask[c] \in launches
  /\ \A r \in Runs : Executing(r) => runTask[r] \in launches

(* nobody else does for the same task,                                      *)
HoldersUnique ==
  /\ \A c, d \in Calls :
       Launching(c) /\ Launching(d) /\ callTask[c] = callTask[d] => c = d
  /\ \A r, s \in Runs :
       Executing(r) /\ Executing(s) /\ runTask[r] = runTask[s] => r = s
  /\ \A c \in Calls, r \in Runs :
       Launching(c) /\ Executing(r) => callTask[c] # runTask[r]

(* and calls and runs are linked the way the code passes them on.           *)
CallLinked(c) ==
  /\ callPc[c] # "idle" => callTask[c] \in Tasks
  /\ callPc[c] \in {"activate", "run"} =>
       /\ callRun[c] \in Runs
       /\ runTask[callRun[c]] = callTask[c]
       /\ exec[callRun[c]] = "none"

CallsLinked == \A c \in Calls : CallLinked(c)

RunsLinked ==
  \A r \in Runs :
    /\ runStatus[r] = "none" <=> runTask[r] = NoTask
    /\ exec[r] # "none" => runTask[r] \in Tasks

EntriesLinked ==
  \A t \in Tasks : \A i \in 1..Len(transcript[t]) :
    exec[transcript[t][i]] # "none" /\ runTask[transcript[t][i]] = t

SendsLinked == \A m \in Messages : sendPc[m] # "new" => sendTask[m] \in Tasks

Linked == CallsLinked /\ RunsLinked /\ EntriesLinked /\ SendsLinked

LaunchInv ==
  /\ TypeOK
  /\ LaunchNeverLeaks
  /\ HoldersClaimed
  /\ HoldersUnique
  /\ Linked

(* The transcript of a task holds what its runs hold, at most one message   *)
(* behind, and behind only in the middle of an append or when the run died  *)
(* there (MirroringMessageRepository).                                      *)
TranscriptMirrorsRuns ==
  \A r \in Runs : runTask[r] # NoTask =>
    LET entries == {i \in DOMAIN transcript[runTask[r]] : transcript[runTask[r]][i] = r}
        behind  == runMessages[r] - Cardinality(entries)
    IN  behind \in 0..1 /\ (behind = 1 => exec[r] # "append")

(* The executions of a task are serial and the transcript is made of whole  *)
(* blocks, one for each run: AgentTasks implements SerialExecution.         *)
Serial == INSTANCE SerialExecution WITH
            owner <- runTask,
            live  <- {r \in Runs : Live(r)},
            log   <- transcript

ImplementsSerial == Serial!AbsSpec

(* The entries two runs mirror into the transcript of their task never      *)
(* interleave, also when one was cut short by an error or a crash           *)
(* (agent-service.ts 51-59, 283-287).                                       *)
TranscriptUnbroken == Serial!Unbroken

(* To a reader of runs those of background tasks are records like any       *)
(* other, whatever becomes of their tasks: AgentTasks implements RunRecords, *)
(* as RunExecution does, which has the execution in detail.                 *)
Records == INSTANCE RunRecords WITH row <- runStatus, told <- runMessages

ImplementsRunRecords == Records!RecordsSpec

(* A launch that was claimed is released again: no task stays launching     *)
(* forever, whatever fails underneath.                                      *)
LaunchReleased == \A t \in Tasks : t \in launches ~> t \notin launches

(* A task that is running comes to rest unless the process goes down.  That *)
(* executions end is taken from the tools of the gateway, which its registry *)
(* bounds; a sandboxed call that is held is the exception of RunExecution's *)
(* RunSettles and not in this module.                                       *)
RunningTaskSettles ==
  \A t \in Tasks : taskStatus[t] = "running" ~> taskStatus[t] # "running" \/ crashes > 0
=============================================================================
