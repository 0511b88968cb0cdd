------------------------------- MODULE Sandbox -------------------------------
(***************************************************************************)
(* One call of SandboxedToolRunner.execute (apps/tool-runner-host): the    *)
(* promise of the host, the worker process that evaluates the handler, the *)
(* timers and the CPU monitor that race its answer, the temporary          *)
(* directory and, at level 4, the native runner between host and worker.   *)
(*                                                                         *)
(* One action is one callback of the host, one stretch of the worker or    *)
(* one turn of the runner.  A message that is on its way survives the      *)
(* death of its sender, so an answer and a timeout may cross.              *)
(***************************************************************************)
EXTENDS Naturals, Sequences

CONSTANTS
  Levels,        \* sandbox levels that occur
  MaxAttempts    \* SANDBOX_CLEANUP_MAX_ATTEMPTS

ASSUME SandboxAssumption == Levels \subseteq 0..4 /\ MaxAttempts \in Nat \ {0}

VARIABLES
  \* the tool
  level, monitored,   \* sandbox.level, and whether maxCpu is watched
  \* the host
  phase,              \* "called", "open", "waiting", "cleaning", "resolved", "rejected"
  verdict,            \* what the promise will be settled with
  dir,                \* the temporary directory: "none", "there", "gone", "left"
  attempt,            \* attempts to remove it
  ready, queued,      \* workerReady; queuedMessage is set
  startup, timer,     \* startupTimeoutId and timeoutId are armed
  monitor,            \* the CPU monitor: "off", "idle", "reading", "stopped" while reading
  answer, pending,    \* resultMessage or errorMessage; pendingError
  closed,             \* the close event of the worker, or the exit event of the runner
  \* the worker process
  worker,             \* "none", "failed" (no process), "booting", "idle", "working", "answered", "gone"
  wire, inbox,        \* messages to the host; the execute message is there
  exit,               \* how the worker ended
  stray,              \* what the handler leaves behind: a "helper" with its pipes, a "busy" loop
  \* the native runner
  runner,             \* "none", "failed", "booting", "polling", "collecting", "responding", "gone"
  response            \* SandboxResponse: "none", "ok", "failure"

tool   == <<level, monitored>>
timers == <<startup, timer, monitor>>
host   == <<phase, verdict, dir, attempt, ready, queued, timers, answer, pending, closed>>
process == <<worker, wire, inbox, exit, stray>>
native == <<runner, response>>
vars   == <<tool, host, process, native>>

Alive == worker \in {"booting", "idle", "working", "answered"}

Settled == phase \in {"resolved", "rejected"}

Init ==
  /\ level \in Levels /\ monitored \in BOOLEAN
  /\ phase = "called" /\ verdict = "none" /\ dir = "none" /\ attempt = 0
  /\ ready = FALSE /\ queued = FALSE /\ startup = FALSE /\ timer = FALSE
  /\ monitor = "off" /\ answer = "none" /\ pending = "none" /\ closed = FALSE
  /\ worker = "none" /\ wire = <<>> /\ inbox = FALSE /\ exit = "none" /\ stray = "none"
  /\ runner = "none" /\ response = "none"

-----------------------------------------------------------------------------
(* The host: directory, process, settling.                                 *)

\* mkdtemp at levels 2 and above; its failure rejects the call.
Execute ==
  /\ phase = "called"
  /\ \/ /\ phase' = "open" /\ dir' = (IF level >= 2 THEN "there" ELSE "none")
        /\ UNCHANGED verdict
     \/ /\ level >= 2
        /\ phase' = "rejected" /\ verdict' = "mkdtemp" /\ UNCHANGED dir
  /\ UNCHANGED <<tool, attempt, ready, queued, timers, answer, pending, closed, process, native>>

\* createExecuteMessage: the message waits for a worker that is ready.
QueueMessage == queued' = TRUE

\* The worker is spawned, the startup timer armed and the message queued; a
\* process that cannot be created is reported by an error event.
Spawn ==
  /\ phase = "open" /\ level # 4
  /\ phase' = "waiting" /\ QueueMessage /\ startup' = TRUE
  /\ worker' \in {"booting", "failed"}
  /\ UNCHANGED <<tool, verdict, dir, attempt, ready, timer, monitor, answer, pending, closed,
                 wire, inbox, exit, stray, native>>

Stopped_ignored == IF monitor = "reading" THEN "reading" ELSE "off"

\* stop() of the CPU monitor: a read in flight finds it stopped.
Stopped == IF monitor \in {"reading", "stopped"} THEN "stopped" ELSE "off"

\* settleOnce: the first verdict counts; timers and monitor stop, and the
\* directory is cleaned up before the promise settles.
SettleOnce(v) ==
  IF phase = "waiting"
  THEN /\ phase' = "cleaning" /\ verdict' = v
       /\ startup' = FALSE /\ timer' = FALSE /\ monitor' = Stopped
  ELSE UNCHANGED <<phase, verdict, timers>>

\* The error event of the worker, after a spawn that failed.
ErrorEvent ==
  /\ worker = "failed" /\ ~closed
  /\ SettleOnce("error") /\ closed' = TRUE
  /\ UNCHANGED <<tool, dir, attempt, ready, queued, answer, pending, process, native>>

\* removeSandboxDirectory: an error that is worth it is retried, at most
\* MaxAttempts times; another error, or the last one, rejects the call.
Removed ==
  /\ phase = "cleaning"
  /\ phase' = (IF verdict = "result" THEN "resolved" ELSE "rejected")
  /\ dir' = (IF dir = "there" THEN "gone" ELSE dir)
  /\ UNCHANGED <<tool, verdict, attempt, ready, queued, timers, answer, pending, closed, process, native>>

RemoveFails ==
  /\ phase = "cleaning" /\ dir = "there"
  /\ attempt' = attempt + 1
  /\ \/ attempt' < MaxAttempts /\ UNCHANGED <<phase, dir>>
     \/ phase' = "rejected" /\ dir' = "left"
  /\ UNCHANGED <<tool, verdict, ready, queued, timers, answer, pending, closed, process, native>>

-----------------------------------------------------------------------------
(* The host: messages, timers, the close event.                            *)

\* startExecutionTimer, also after a dispatch that settled the call.
StartExecutionTimer ==
  /\ timer' = TRUE
  /\ monitor' = (IF monitored THEN "idle" ELSE "off")

\* dispatchMessage: send may throw (a message that does not serialize), or
\* find the channel closed, which an error event reports at once.
Dispatch ==
  \/ /\ inbox' = (queued /\ worker = "idle") /\ queued' = FALSE
     /\ UNCHANGED <<phase, verdict>>
  \/ /\ queued /\ phase = "waiting"
     /\ phase' = "cleaning" /\ verdict' = "send" /\ queued' = FALSE /\ UNCHANGED inbox

ReadyMessage ==
  /\ wire # <<>> /\ Head(wire) = "ready" /\ level # 4
  /\ ready' = TRUE /\ startup' = FALSE /\ wire' = Tail(wire)
  /\ Dispatch
  /\ StartExecutionTimer
  /\ UNCHANGED <<tool, dir, attempt, answer, pending, closed, worker, exit, stray, native>>

\* An answer disarms the timer and the monitor; the call settles when the
\* worker is closed.
AnswerMessage ==
  /\ wire # <<>> /\ Head(wire) # "ready" /\ level # 4
  /\ answer' = Head(wire) /\ wire' = Tail(wire)
  /\ timer' = FALSE /\ monitor' = Stopped
  /\ UNCHANGED <<tool, phase, verdict, dir, attempt, ready, queued, startup, pending, closed,
                 worker, inbox, exit, stray, native>>

\* child.kill("SIGKILL")
Kill ==
  IF Alive THEN worker' = "gone" /\ exit' = "signal" ELSE UNCHANGED <<worker, exit>>

\* recordPendingError: the first one counts.
RecordPendingError(e) == pending' = IF pending = "none" THEN e ELSE pending

StartupTimeout_unkilled ==
  /\ startup /\ startup' = FALSE
  /\ RecordPendingError("startup")
  /\ UNCHANGED <<tool, phase, verdict, dir, attempt, ready, queued, timer, monitor, answer, closed,
                 process, native>>

StartupTimeout ==
  /\ startup /\ startup' = FALSE
  /\ RecordPendingError("startup") /\ Kill
  /\ UNCHANGED <<tool, phase, verdict, dir, attempt, ready, queued, timer, monitor, answer, closed,
                 wire, inbox, stray, native>>

ExecutionTimeout ==
  /\ timer /\ timer' = FALSE
  /\ RecordPendingError("timeout") /\ Kill
  /\ UNCHANGED <<tool, phase, verdict, dir, attempt, ready, queued, startup, monitor, answer, closed,
                 wire, inbox, stray, native>>

\* The monitor asks the system for the CPU time of a worker that it does not
\* know to have ended.
MonitorTick ==
  /\ monitor = "idle" /\ Alive
  /\ monitor' = "reading"
  /\ UNCHANGED <<tool, phase, verdict, dir, attempt, ready, queued, startup, timer, answer, pending,
                 closed, process, native>>

\* The probes of the platforms: no answer, or a time within or over the limit.
CpuReadings == {"unknown", "within", "over"}

MonitorRead ==
  /\ monitor \in {"reading", "stopped"}
  /\ \E cpu \in CpuReadings :
       IF monitor = "reading" /\ cpu = "over"
       THEN Kill /\ RecordPendingError("cpu")
       ELSE UNCHANGED <<worker, exit, pending>>
  /\ monitor' = (IF monitor = "stopped" THEN "off" ELSE "idle")
  /\ UNCHANGED <<tool, phase, verdict, dir, attempt, ready, queued, startup, timer, answer,
                 closed, wire, inbox, stray, native>>

CloseVerdict_exitFirst ==
  IF answer # "none" THEN answer ELSE exit

\* What the close event settles with: an answer counts before the error that
\* the host recorded, and that one before the way the worker ended.
CloseVerdict ==
  IF answer # "none" THEN answer
  ELSE IF pending # "none" THEN pending
  ELSE exit

\* The close event comes when the worker has ended and its pipes and its
\* channel are drained, so not before a helper process lets go of them.
CloseEvent ==
  /\ worker = "gone" /\ level # 4 /\ ~closed
  /\ wire = <<>> /\ stray # "helper"
  /\ closed' = TRUE
  /\ SettleOnce(CloseVerdict)
  /\ UNCHANGED <<tool, dir, attempt, ready, queued, answer, pending, process, native>>

-----------------------------------------------------------------------------
(* The worker process.                                                     *)

WorkerReady ==
  /\ worker = "booting" /\ level # 4
  /\ worker' = "idle" /\ wire' = Append(wire, "ready")
  /\ UNCHANGED <<tool, host, inbox, exit, stray, native>>

\* executeMessage; with stdin for its channel the worker reads it to the end.
Receive ==
  /\ inbox /\ worker = (IF level = 4 THEN "booting" ELSE "idle")
  /\ worker' = "working" /\ inbox' = FALSE
  /\ UNCHANGED <<tool, host, wire, exit, stray, native>>

\* The handler returns or throws; the answer is sent and the process exits.
Answer ==
  /\ worker = "working"
  /\ \E m \in {"result", "failure"} : wire' = Append(wire, m)
  /\ worker' = "answered"
  /\ UNCHANGED <<tool, host, inbox, exit, stray, native>>

\* The handler starts a process that inherits its pipes, or leaves a loop
\* that keeps the worker from its exit; the helper may end.
LeavesBehind ==
  /\ \/ worker = "working" /\ stray = "none" /\ stray' \in {"helper", "busy"}
     \/ stray = "helper" /\ stray' = "none"
  /\ UNCHANGED <<tool, host, worker, wire, inbox, exit, native>>

WorkerExits ==
  /\ worker = "answered" /\ stray # "busy"
  /\ worker' = "gone" /\ exit' \in {"zero", "nonzero"}
  \* an answer larger than the pipe may be cut off by the exit
  /\ wire' \in {wire} \cup (IF wire # <<>> THEN {SubSeq(wire, 1, Len(wire) - 1)} ELSE {})
  /\ UNCHANGED <<tool, host, inbox, stray, native>>

\* Ends that a limit brings about: the memory and the CPU time of the process,
\* and the group with a memory limit that the runner tries to put it into.
RlimitExits == {"signal", "nonzero"}
CgroupExits == {"signal"}

\* With the heap size, whose message on stderr is told from others.
LimitExits == {"memory"} \cup (IF level = 4 THEN RlimitExits \cup CgroupExits ELSE {})

\* The worker ends without an answer: process.exit in the handler, a crash, a limit.
WorkerDies ==
  /\ worker \in {"booting", "idle", "working"}
  /\ worker' = "gone" /\ exit' \in {"zero", "nonzero", "signal"} \cup LimitExits
  /\ UNCHANGED <<tool, host, wire, inbox, stray, native>>

-----------------------------------------------------------------------------
(* Level 4: the native runner, its wait loop and its response.             *)

\* resolveRunnerInvocation picks a built runner or cargo, which may be missing.
RunnerInvocation == {"booting", "failed"}

StartRunner ==
  /\ phase = "open" /\ level = 4
  /\ phase' = "waiting" /\ runner' \in RunnerInvocation
  /\ UNCHANGED <<tool, verdict, dir, attempt, ready, queued, timers, answer, pending, closed,
                 process, response>>

\* SandboxResponse::failure, which main also makes of an error.
Failure == runner' = "responding" /\ response' = "failure"

\* The request is empty or is not JSON.
ReadRequestFails ==
  /\ runner = "booting" /\ Failure
  /\ UNCHANGED <<tool, host, process>>

\* run_request up to the wait loop: an error on the way is a failure response,
\* and one after the spawn leaves the worker to itself.
RunRequest ==
  /\ runner = "booting"
  /\ \/ Failure /\ worker' \in {"none", "booting"} /\ UNCHANGED inbox
     \/ /\ runner' = "polling" /\ worker' = "booting" /\ inbox' = TRUE /\ UNCHANGED response
  /\ UNCHANGED <<tool, host, wire, exit, stray>>

TerminateChild == Kill

\* read_process_cpu_time_ms, which may also fail.
CpuTimeReads == IF monitored THEN {"fails", "over"} ELSE {}

\* One turn of wait_for_child_output: the timeout and the CPU limit terminate
\* the worker, an error of the CPU time's read leaves it to itself.
Poll ==
  /\ runner = "polling"
  /\ IF worker = "gone"
     THEN runner' = "collecting" /\ UNCHANGED <<response, worker, exit>>
     ELSE /\ Failure
          /\ \E why \in {"timeout"} \cup CpuTimeReads :
               IF why = "fails" THEN UNCHANGED <<worker, exit>> ELSE TerminateChild
  /\ UNCHANGED <<tool, host, wire, inbox, stray>>

\* wait_with_output reads the pipes to their end; the last line is the answer.
MapOutput ==
  /\ runner = "collecting" /\ stray # "helper"
  /\ runner' = "responding"
  /\ response' = (IF wire # <<>> /\ wire[Len(wire)] = "result" THEN "ok" ELSE "failure")
  /\ wire' = <<>>
  /\ UNCHANGED <<tool, host, worker, inbox, exit, stray>>

Respond ==
  /\ runner = "responding" /\ runner' = "gone"
  /\ UNCHANGED <<tool, host, process, response>>

\* executeWithRustRunner: the directory is cleaned up whatever the runner says.
SettleWithRunner(v) ==
  /\ phase = "waiting" /\ ~closed /\ closed' = TRUE
  /\ SettleOnce(v)
  /\ UNCHANGED <<tool, dir, attempt, ready, queued, answer, pending, process, native>>

RunnerUnavailable == runner = "failed" /\ SettleWithRunner("unavailable")

\* The host listens to the runner's exit event and not to its close event, so
\* the response may not have been read when it is parsed.
RunnerEnds ==
  /\ runner = "gone"
  /\ \E read \in BOOLEAN :
       SettleWithRunner(IF ~read THEN "unparsed" ELSE IF response = "ok" THEN "result" ELSE "failure")

-----------------------------------------------------------------------------
HostStep ==
  \/ Execute \/ Spawn \/ ErrorEvent \/ Removed \/ RemoveFails
  \/ ReadyMessage \/ AnswerMessage \/ StartupTimeout \/ ExecutionTimeout
  \/ MonitorTick \/ MonitorRead \/ CloseEvent \/ StartRunner \/ RunnerUnavailable \/ RunnerEnds

WorkerStep == WorkerReady \/ Receive \/ Answer \/ LeavesBehind \/ WorkerExits \/ WorkerDies

RunnerStep == ReadRequestFails \/ RunRequest \/ Poll \/ MapOutput \/ Respond

Next == HostStep \/ WorkerStep \/ RunnerStep

\* The host's event loop and the runner go on, timers fire, and a worker that
\* is not kept busy exits; nothing is assumed of the handler.
Fairness ==
  /\ WF_vars(Execute) /\ WF_vars(Spawn) /\ WF_vars(ErrorEvent)
  /\ WF_vars(Removed \/ RemoveFails)
  /\ WF_vars(ReadyMessage) /\ WF_vars(AnswerMessage)
  /\ WF_vars(StartupTimeout) /\ WF_vars(ExecutionTimeout)
  /\ WF_vars(CloseEvent) /\ WF_vars(StartRunner) /\ WF_vars(RunnerUnavailable \/ RunnerEnds)
  /\ WF_vars(WorkerExits) /\ WF_vars(RunnerStep)

Spec == Init /\ [][Next]_vars /\ Fairness

-----------------------------------------------------------------------------
\* The values the variables take.
TypeOK ==
  /\ level \in Levels /\ monitored \in BOOLEAN
  /\ phase \in {"called", "open", "waiting", "cleaning", "resolved", "rejected"}
  /\ dir \in {"none", "there", "gone", "left"} /\ attempt \in 0..MaxAttempts
  /\ {ready, queued, startup, timer, closed, inbox} \subseteq BOOLEAN
  /\ monitor \in {"off", "idle", "reading", "stopped"}
  /\ answer \in {"none", "result", "failure"}
  /\ pending \in {"none", "startup", "timeout", "cpu"}
  /\ worker \in {"none", "failed", "booting", "idle", "working", "answered", "gone"}
  /\ wire \in Seq({"ready", "result", "failure"})
  /\ exit \in {"none", "zero", "nonzero", "signal", "memory"}
  /\ stray \in {"none", "helper", "busy"}
  /\ runner \in {"none", "failed", "booting", "polling", "collecting", "responding", "gone"}
  /\ response \in {"none", "ok", "failure"}

\* A call that has settled leaves no directory behind, unless removing it is
\* what failed, and the directory was not taken from a worker that still runs,
\* unless the message could not be sent or the native runner gave it up
\* (settleOnce and cleanup of sandbox.ts, finally of executeWithRustRunner).
SettledIsClean ==
  /\ Settled => dir # "there"
  /\ phase \in {"cleaning", "resolved", "rejected"} /\ Alive =>
       verdict = "send" \/ (level = 4 /\ response = "failure")

\* An answer that the host has received decides the call although a timeout or
\* the CPU monitor has recorded an error, and an error the host recorded is
\* what it reports of a worker that it killed (the close handler of execute).
AnswerDecides ==
  /\ Settled /\ answer # "none" => verdict = answer
  /\ Settled /\ level # 4 /\ verdict = "signal" => pending = "none"

\* The types, what a settled call leaves, and what it reports.
SandboxInv == TypeOK /\ SettledIsClean /\ AnswerDecides

\* Once its answer has arrived a worker is not killed any more: not by the
\* timer, nor by a CPU time that was being read when the answer arrived
\* (createCpuLimitMonitor looks at `stopped` again after the read).
NoKillAfterAnswer ==
  [][answer # "none" /\ Alive /\ worker' = "gone" => exit' # "signal"]_vars

\* A call that waits settles, whatever the handler does, unless the handler
\* leaves behind a process that holds its pipes or a loop that holds its exit.
CallSettles == phase = "waiting" ~> (Settled \/ stray # "none")

\* A worker does not run for ever: a handler that hangs is killed, also when
\* the call was settled before because the message could not be sent.
WorkerEnds ==
  Alive ~> (~Alive \/ stray = "busy" \/ (level = 4 /\ response = "failure"))

\* Both ends of a call: the host settles it and the worker ends.
CallEnds == CallSettles /\ WorkerEnds
=============================================================================
