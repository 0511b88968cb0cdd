---------------------------- MODULE ToolHostProofs ---------------------------
(***************************************************************************)
(* Proofs about apps/tool-runner-host: a sandboxed call, for every set of  *)
(* levels and every number of attempts to remove the directory, and        *)
(* executeTools, for every number of invocations and every assignment of   *)
(* policies to their tools.                                                *)
(***************************************************************************)
EXTENDS Sandbox, ToolBatch, FiniteSetTheorems, TLAPS

USE DEF tool, timers, host, process, native, vars

-----------------------------------------------------------------------------
(* The inductive invariant.                                                 *)

\* Nothing runs before the call opens, and the directory is there no sooner;
\* the attempts to remove it run out only when the call settles.
CallBegins ==
  /\ phase \in {"called", "open"} => worker = "none" /\ runner = "none"
  /\ phase = "called" => dir = "none"
  /\ ~Settled => attempt < MaxAttempts

\* The worker speaks once when it is ready and once when it is done, and the
\* host has heard all that is no longer on the wire.
OnWire ==
  /\ wire \in {<<>>, <<"ready">>, <<"result">>, <<"failure">>}
  /\ wire # <<>> => answer = "none" /\ worker \in {"idle", "answered", "gone"}
  /\ wire = <<"ready">> => ~ready /\ worker # "answered"
  /\ worker \in {"none", "failed", "booting", "idle", "working"} => answer = "none"
  /\ worker \in {"none", "failed", "booting"} => ~ready
  /\ level # 4 /\ worker \in {"working", "answered"} => ready
  /\ worker = "idle" /\ wire = <<>> => ready
  /\ inbox /\ level # 4 => ready
  /\ level # 4 /\ wire \in {<<"result">>, <<"failure">>} => ready
  /\ wire \in {<<"result">>, <<"failure">>} => worker # "idle"
  /\ answer # "none" => ready

\* What the answer has disarmed stays so, also for a read that was under way.
AnswerDisarms ==
  /\ ready => ~startup
  /\ answer # "none" => ~timer /\ monitor \in {"off", "stopped"}

\* After a message that could not be sent the worker has nothing to answer;
\* every other verdict is that of a worker which has ended and was heard out,
\* or that it never ran.
VerdictStands ==
  phase \in {"cleaning", "resolved", "rejected"} /\ level # 4 =>
    \/ /\ verdict = "send" /\ ready /\ answer = "none" /\ ~inbox /\ worker \in {"idle", "gone"} /\ wire = <<>>
    \/ verdict = "mkdtemp" /\ worker = "none"
    \/ /\ closed /\ ~startup /\ ~timer /\ monitor \in {"off", "stopped"}
       /\ answer # "none" => verdict = answer
       /\ verdict = "signal" => pending = "none"

\* The close event is the last thing heard of a worker.
ClosedIsLast == closed /\ level # 4 => worker \in {"failed", "gone"} /\ wire = <<>>

\* The native runner: it works while the host waits, and what it reports of
\* the worker is so.
RunnerReports ==
  /\ level # 4 => runner = "none"
  /\ level = 4 => worker \notin {"idle", "failed"} /\ ~startup /\ ~timer /\ ~ready /\ monitor = "off"
  /\ runner \in {"booting", "polling", "collecting", "responding"} => phase = "waiting"
  /\ level = 4 /\ runner \in {"none", "failed", "booting"} => worker = "none" /\ response = "none"
  /\ runner \in {"polling", "collecting"} => response = "none"
  /\ runner = "collecting" => worker = "gone"
  /\ runner \in {"responding", "gone"} => response = "failure" \/ (response = "ok" /\ worker = "gone")

IndInv ==
  /\ SandboxInv /\ CallBegins /\ OnWire /\ AnswerDisarms /\ VerdictStands /\ ClosedIsLast /\ RunnerReports

LEMMA Words ==
  /\ Head(<<"ready">>) = "ready" /\ Tail(<<"ready">>) = <<>>
  /\ Head(<<"result">>) = "result" /\ Tail(<<"result">>) = <<>>
  /\ Head(<<"failure">>) = "failure" /\ Tail(<<"failure">>) = <<>>
  /\ Append(<<>>, "ready") = <<"ready">> /\ Append(<<>>, "result") = <<"result">>
  /\ Append(<<>>, "failure") = <<"failure">>
  /\ <<>> # <<"ready">> /\ <<>> # <<"result">> /\ <<>> # <<"failure">>
  /\ <<"ready">> # <<"result">> /\ <<"ready">> # <<"failure">> /\ <<"result">> # <<"failure">>
  OBVIOUS

LEMMA CutOff == \A m : SubSeq(<<m>>, 1, Len(<<m>>) - 1) = <<>>
  OBVIOUS

LEMMA WireTyped == {<<>>, <<"ready">>, <<"result">>, <<"failure">>} \subseteq Seq({"ready", "result", "failure"})
  OBVIOUS

-----------------------------------------------------------------------------
(* The steps: one lemma for each callback of the host, each stretch of the  *)
(* worker and each turn of the runner.                                      *)

USE DEF IndInv, SandboxInv, TypeOK, SettledIsClean, AnswerDecides, CallBegins, OnWire, AnswerDisarms,
        VerdictStands, ClosedIsLast, RunnerReports, Settled, Alive

LEMMA IndInit == ASSUME Init PROVE IndInv
<1>1. TypeOK
  <2>1. ready \in BOOLEAN /\ queued \in BOOLEAN /\ startup \in BOOLEAN /\ timer \in BOOLEAN
        /\ closed \in BOOLEAN /\ inbox \in BOOLEAN
    BY DEF Init
  <2> QED BY <2>1, SandboxAssumption DEF Init
<1>2. SettledIsClean /\ CallBegins /\ AnswerDecides BY SandboxAssumption DEF Init
<1>3. OnWire /\ AnswerDisarms BY DEF Init
<1>4. VerdictStands /\ ClosedIsLast /\ RunnerReports BY DEF Init
<1> QED BY <1>1, <1>2, <1>3, <1>4

LEMMA ExecuteKeeps == ASSUME IndInv, Execute PROVE IndInv'
  BY SandboxAssumption DEF Execute

LEMMA SpawnKeeps == ASSUME IndInv, Spawn PROVE IndInv'
  BY SandboxAssumption DEF Spawn, QueueMessage

LEMMA ErrorEventKeeps == ASSUME IndInv, ErrorEvent PROVE IndInv'
<1> USE Words, WireTyped DEF ErrorEvent, SettleOnce, Stopped
<1>1. TypeOK'
  <2>1. ready' \in BOOLEAN /\ queued' \in BOOLEAN /\ startup' \in BOOLEAN /\ timer' \in BOOLEAN
        /\ closed' \in BOOLEAN /\ inbox' \in BOOLEAN
    OBVIOUS
  <2> QED BY <2>1
<1>2. SettledIsClean' OBVIOUS
<1>3. CallBegins' OBVIOUS
<1>4. OnWire' OBVIOUS
<1>5. AnswerDisarms' OBVIOUS
<1>6. VerdictStands' OBVIOUS
<1>7. AnswerDecides' OBVIOUS
<1>8. ClosedIsLast' OBVIOUS
<1>9. RunnerReports' OBVIOUS
<1> QED BY <1>1, <1>2, <1>3, <1>4, <1>5, <1>6, <1>7, <1>8, <1>9

LEMMA RemovedKeeps == ASSUME IndInv, Removed PROVE IndInv'
  BY SandboxAssumption DEF Removed

LEMMA RemoveFailsKeeps == ASSUME IndInv, RemoveFails PROVE IndInv'
  BY SandboxAssumption DEF RemoveFails

LEMMA ReadyMessageKeeps == ASSUME IndInv, ReadyMessage PROVE IndInv'
<1> USE Words, WireTyped DEF ReadyMessage, Dispatch, StartExecutionTimer
<1>1. TypeOK'
  <2>1. ready' \in BOOLEAN /\ queued' \in BOOLEAN /\ startup' \in BOOLEAN /\ timer' \in BOOLEAN
        /\ closed' \in BOOLEAN /\ inbox' \in BOOLEAN
    OBVIOUS
  <2> QED BY <2>1
<1>2. SettledIsClean' OBVIOUS
<1>3. CallBegins' OBVIOUS
<1>4. OnWire' OBVIOUS
<1>5. AnswerDisarms' OBVIOUS
<1>6. VerdictStands' OBVIOUS
<1>7. AnswerDecides' OBVIOUS
<1>8. ClosedIsLast' OBVIOUS
<1>9. RunnerReports' OBVIOUS
<1> QED BY <1>1, <1>2, <1>3, <1>4, <1>5, <1>6, <1>7, <1>8, <1>9

LEMMA AnswerMessageKeeps == ASSUME IndInv, AnswerMessage PROVE IndInv'
<1> USE Words, WireTyped DEF AnswerMessage, Stopped
<1>1. TypeOK'
  <2>1. ready' \in BOOLEAN /\ queued' \in BOOLEAN /\ startup' \in BOOLEAN /\ timer' \in BOOLEAN
        /\ closed' \in BOOLEAN /\ inbox' \in BOOLEAN
    OBVIOUS
  <2> QED BY <2>1
<1>2. SettledIsClean' OBVIOUS
<1>3. CallBegins' OBVIOUS
<1>4. OnWire' OBVIOUS
<1>5. AnswerDisarms' OBVIOUS
<1>6. VerdictStands' OBVIOUS
<1>7. AnswerDecides' OBVIOUS
<1>8. ClosedIsLast' OBVIOUS
<1>9. RunnerReports' OBVIOUS
<1> QED BY <1>1, <1>2, <1>3, <1>4, <1>5, <1>6, <1>7, <1>8, <1>9

LEMMA StartupTimeoutKeeps == ASSUME IndInv, StartupTimeout PROVE IndInv'
<1> USE Words, WireTyped DEF StartupTimeout, RecordPendingError, Kill
<1>1. TypeOK'
  <2>1. ready' \in BOOLEAN /\ queued' \in BOOLEAN /\ startup' \in BOOLEAN /\ timer' \in BOOLEAN
        /\ closed' \in BOOLEAN /\ inbox' \in BOOLEAN
    OBVIOUS
  <2> QED BY <2>1
<1>2. SettledIsClean' OBVIOUS
<1>3. CallBegins' OBVIOUS
<1>4. OnWire' OBVIOUS
<1>5. AnswerDisarms' OBVIOUS
<1>6. VerdictStands' OBVIOUS
<1>7. AnswerDecides' OBVIOUS
<1>8. ClosedIsLast' OBVIOUS
<1>9. RunnerReports' OBVIOUS
<1> QED BY <1>1, <1>2, <1>3, <1>4, <1>5, <1>6, <1>7, <1>8, <1>9

LEMMA ExecutionTimeoutKeeps == ASSUME IndInv, ExecutionTimeout PROVE IndInv'
<1> USE Words, WireTyped DEF ExecutionTimeout, RecordPendingError, Kill
<1>1. TypeOK'
  <2>1. ready' \in BOOLEAN /\ queued' \in BOOLEAN /\ startup' \in BOOLEAN /\ timer' \in BOOLEAN
        /\ closed' \in BOOLEAN /\ inbox' \in BOOLEAN
    OBVIOUS
  <2> QED BY <2>1
<1>2. SettledIsClean' OBVIOUS
<1>3. CallBegins' OBVIOUS
<1>4. OnWire' OBVIOUS
<1>5. AnswerDisarms' OBVIOUS
<1>6. VerdictStands' OBVIOUS
<1>7. AnswerDecides' OBVIOUS
<1>8. ClosedIsLast' OBVIOUS
<1>9. RunnerReports' OBVIOUS
<1> QED BY <1>1, <1>2, <1>3, <1>4, <1>5, <1>6, <1>7, <1>8, <1>9

LEMMA MonitorTickKeeps == ASSUME IndInv, MonitorTick PROVE IndInv'
  BY SandboxAssumption DEF MonitorTick

LEMMA MonitorReadKeeps == ASSUME IndInv, MonitorRead PROVE IndInv'
  BY SandboxAssumption DEF MonitorRead, RecordPendingError, Kill, CpuReadings

LEMMA CloseEventKeeps == ASSUME IndInv, CloseEvent PROVE IndInv'
<1> USE Words, WireTyped DEF CloseEvent, SettleOnce, CloseVerdict, Stopped
<1>1. TypeOK'
  <2>1. ready' \in BOOLEAN /\ queued' \in BOOLEAN /\ startup' \in BOOLEAN /\ timer' \in BOOLEAN
        /\ closed' \in BOOLEAN /\ inbox' \in BOOLEAN
    OBVIOUS
  <2> QED BY <2>1
<1>2. SettledIsClean' OBVIOUS
<1>3. CallBegins' OBVIOUS
<1>4. OnWire' OBVIOUS
<1>5. AnswerDisarms' OBVIOUS
<1>6. VerdictStands' OBVIOUS
<1>7. AnswerDecides' OBVIOUS
<1>8. ClosedIsLast' OBVIOUS
<1>9. RunnerReports' OBVIOUS
<1> QED BY <1>1, <1>2, <1>3, <1>4, <1>5, <1>6, <1>7, <1>8, <1>9

LEMMA StartRunnerKeeps == ASSUME IndInv, StartRunner PROVE IndInv'
<1> USE Words, WireTyped DEF StartRunner, RunnerInvocation
<1>1. TypeOK'
  <2>1. ready' \in BOOLEAN /\ queued' \in BOOLEAN /\ startup' \in BOOLEAN /\ timer' \in BOOLEAN
        /\ closed' \in BOOLEAN /\ inbox' \in BOOLEAN
    OBVIOUS
  <2> QED BY <2>1
<1>2. SettledIsClean' OBVIOUS
<1>3. CallBegins' OBVIOUS
<1>4. OnWire' OBVIOUS
<1>5. AnswerDisarms' OBVIOUS
<1>6. VerdictStands' OBVIOUS
<1>7. AnswerDecides' OBVIOUS
<1>8. ClosedIsLast' OBVIOUS
<1>9. RunnerReports' OBVIOUS
<1> QED BY <1>1, <1>2, <1>3, <1>4, <1>5, <1>6, <1>7, <1>8, <1>9

LEMMA RunnerUnavailableKeeps == ASSUME IndInv, RunnerUnavailable PROVE IndInv'
<1> USE Words, WireTyped DEF RunnerUnavailable, SettleWithRunner, SettleOnce, Stopped
<1>1. TypeOK'
  <2>1. ready' \in BOOLEAN /\ queued' \in BOOLEAN /\ startup' \in BOOLEAN /\ timer' \in BOOLEAN
        /\ closed' \in BOOLEAN /\ inbox' \in BOOLEAN
    OBVIOUS
  <2> QED BY <2>1
<1>2. SettledIsClean' OBVIOUS
<1>3. CallBegins' OBVIOUS
<1>4. OnWire' OBVIOUS
<1>5. AnswerDisarms' OBVIOUS
<1>6. VerdictStands' OBVIOUS
<1>7. AnswerDecides' OBVIOUS
<1>8. ClosedIsLast' OBVIOUS
<1>9. RunnerReports' OBVIOUS
<1> QED BY <1>1, <1>2, <1>3, <1>4, <1>5, <1>6, <1>7, <1>8, <1>9

LEMMA RunnerEndsKeeps == ASSUME IndInv, RunnerEnds PROVE IndInv'
<1> USE Words, WireTyped DEF RunnerEnds, SettleWithRunner, SettleOnce, Stopped
<1>1. TypeOK'
  <2>1. ready' \in BOOLEAN /\ queued' \in BOOLEAN /\ startup' \in BOOLEAN /\ timer' \in BOOLEAN
        /\ closed' \in BOOLEAN /\ inbox' \in BOOLEAN
    OBVIOUS
  <2> QED BY <2>1
<1>2. SettledIsClean' OBVIOUS
<1>3. CallBegins' OBVIOUS
<1>4. OnWire' OBVIOUS
<1>5. AnswerDisarms' OBVIOUS
<1>6. VerdictStands' OBVIOUS
<1>7. AnswerDecides' OBVIOUS
<1>8. ClosedIsLast' OBVIOUS
<1>9. RunnerReports' OBVIOUS
<1> QED BY <1>1, <1>2, <1>3, <1>4, <1>5, <1>6, <1>7, <1>8, <1>9

LEMMA WorkerReadyKeeps == ASSUME IndInv, WorkerReady PROVE IndInv'
<1> USE Words, WireTyped DEF WorkerReady
<1>1. TypeOK'
  <2>1. ready' \in BOOLEAN /\ queued' \in BOOLEAN /\ startup' \in BOOLEAN /\ timer' \in BOOLEAN
        /\ closed' \in BOOLEAN /\ inbox' \in BOOLEAN
    OBVIOUS
  <2> QED BY <2>1
<1>2. SettledIsClean' OBVIOUS
<1>3. CallBegins' OBVIOUS
<1>4. OnWire' OBVIOUS
<1>5. AnswerDisarms' OBVIOUS
<1>6. VerdictStands' OBVIOUS
<1>7. AnswerDecides' OBVIOUS
<1>8. ClosedIsLast' OBVIOUS
<1>9. RunnerReports' OBVIOUS
<1> QED BY <1>1, <1>2, <1>3, <1>4, <1>5, <1>6, <1>7, <1>8, <1>9

LEMMA ReceiveKeeps == ASSUME IndInv, Receive PROVE IndInv'
<1> USE Words, WireTyped DEF Receive
<1>1. TypeOK'
  <2>1. ready' \in BOOLEAN /\ queued' \in BOOLEAN /\ startup' \in BOOLEAN /\ timer' \in BOOLEAN
        /\ closed' \in BOOLEAN /\ inbox' \in BOOLEAN
    OBVIOUS
  <2> QED BY <2>1
<1>2. SettledIsClean' OBVIOUS
<1>3. CallBegins' OBVIOUS
<1>4. OnWire' OBVIOUS
<1>5. AnswerDisarms' OBVIOUS
<1>6. VerdictStands' OBVIOUS
<1>7. AnswerDecides' OBVIOUS
<1>8. ClosedIsLast' OBVIOUS
<1>9. RunnerReports' OBVIOUS
<1> QED BY <1>1, <1>2, <1>3, <1>4, <1>5, <1>6, <1>7, <1>8, <1>9

LEMMA AnswerKeeps == ASSUME IndInv, Answer PROVE IndInv'
<1> USE Words, WireTyped DEF Answer
<1>1. TypeOK'
  <2>1. ready' \in BOOLEAN /\ queued' \in BOOLEAN /\ startup' \in BOOLEAN /\ timer' \in BOOLEAN
        /\ closed' \in BOOLEAN /\ inbox' \in BOOLEAN
    OBVIOUS
  <2> QED BY <2>1
<1>2. SettledIsClean' OBVIOUS
<1>3. CallBegins' OBVIOUS
<1>4. OnWire' OBVIOUS
<1>5. AnswerDisarms' OBVIOUS
<1>6. VerdictStands' OBVIOUS
<1>7. AnswerDecides' OBVIOUS
<1>8. ClosedIsLast' OBVIOUS
<1>9. RunnerReports' OBVIOUS
<1> QED BY <1>1, <1>2, <1>3, <1>4, <1>5, <1>6, <1>7, <1>8, <1>9

LEMMA LeavesBehindKeeps == ASSUME IndInv, LeavesBehind PROVE IndInv'
  BY SandboxAssumption DEF LeavesBehind

LEMMA WorkerExitsKeeps == ASSUME IndInv, WorkerExits PROVE IndInv'
  BY SandboxAssumption, Words, CutOff, WireTyped DEF WorkerExits

LEMMA WorkerDiesKeeps == ASSUME IndInv, WorkerDies PROVE IndInv'
  BY SandboxAssumption DEF WorkerDies, LimitExits, RlimitExits, CgroupExits

LEMMA ReadRequestFailsKeeps == ASSUME IndInv, ReadRequestFails PROVE IndInv'
  BY SandboxAssumption DEF ReadRequestFails, Failure

LEMMA RunRequestKeeps == ASSUME IndInv, RunRequest PROVE IndInv'
<1> USE Words, WireTyped DEF RunRequest, Failure
<1>1. TypeOK'
  <2>1. ready' \in BOOLEAN /\ queued' \in BOOLEAN /\ startup' \in BOOLEAN /\ timer' \in BOOLEAN
        /\ closed' \in BOOLEAN /\ inbox' \in BOOLEAN
    OBVIOUS
  <2> QED BY <2>1
<1>2. SettledIsClean' OBVIOUS
<1>3. CallBegins' OBVIOUS
<1>4. OnWire' OBVIOUS
<1>5. AnswerDisarms' OBVIOUS
<1>6. VerdictStands' OBVIOUS
<1>7. AnswerDecides' OBVIOUS
<1>8. ClosedIsLast' OBVIOUS
<1>9. RunnerReports' OBVIOUS
<1> QED BY <1>1, <1>2, <1>3, <1>4, <1>5, <1>6, <1>7, <1>8, <1>9

LEMMA PollKeeps == ASSUME IndInv, Poll PROVE IndInv'
  BY SandboxAssumption DEF Poll, Failure, TerminateChild, Kill, CpuTimeReads

LEMMA MapOutputKeeps == ASSUME IndInv, MapOutput PROVE IndInv'
  BY SandboxAssumption, WireTyped DEF MapOutput

LEMMA RespondKeeps == ASSUME IndInv, Respond PROVE IndInv'
  BY SandboxAssumption DEF Respond

LEMMA StutterKeeps == ASSUME IndInv, UNCHANGED vars PROVE IndInv'
  OBVIOUS

HIDE DEF IndInv, SandboxInv, TypeOK, SettledIsClean, AnswerDecides, CallBegins, OnWire, AnswerDisarms,
         VerdictStands, ClosedIsLast, RunnerReports, Settled, Alive

LEMMA IndStep == ASSUME IndInv, [Next]_vars PROVE IndInv'
<1>1. CASE HostStep
  BY <1>1,
     ExecuteKeeps, SpawnKeeps, ErrorEventKeeps, RemovedKeeps, RemoveFailsKeeps, ReadyMessageKeeps,
       AnswerMessageKeeps, StartupTimeoutKeeps, ExecutionTimeoutKeeps, MonitorTickKeeps,
       MonitorReadKeeps, CloseEventKeeps, StartRunnerKeeps, RunnerUnavailableKeeps, RunnerEndsKeeps
  DEF HostStep
<1>2. CASE WorkerStep
  BY <1>2,
     WorkerReadyKeeps, ReceiveKeeps, AnswerKeeps, LeavesBehindKeeps, WorkerExitsKeeps,
       WorkerDiesKeeps
  DEF WorkerStep
<1>3. CASE RunnerStep
  BY <1>3,
     ReadRequestFailsKeeps, RunRequestKeeps, PollKeeps, MapOutputKeeps, RespondKeeps
  DEF RunnerStep
<1>4. CASE UNCHANGED vars BY <1>4, StutterKeeps
<1> QED BY <1>1, <1>2, <1>3, <1>4 DEF Next

-----------------------------------------------------------------------------
\* A call of SandboxedToolRunner.execute leaves no directory behind and takes
\* none from a worker that still runs, an answer that the host has read decides
\* the call although a timer or the monitor recorded an error before, and a
\* worker that the host killed is reported with the reason: in every order of
\* answers, timeouts, CPU reads, exits and turns of the native runner.
THEOREM SandboxIsSound == Spec => []SandboxInv
<1>1. Init => IndInv BY IndInit
<1>2. IndInv /\ [Next]_vars => IndInv' BY IndStep
<1>3. IndInv => SandboxInv BY DEF IndInv
<1> QED BY <1>1, <1>2, <1>3, PTL DEF Spec

\* The steps that may kill a worker find its answer not there yet: the timers
\* are disarmed by it, and the CPU monitor looks at `stopped` after its read.
LEMMA NoKill ==
  ASSUME IndInv, [Next]_vars, answer # "none", Alive, worker' = "gone" PROVE exit' # "signal"
<1> USE DEF IndInv, OnWire, AnswerDisarms, RunnerReports, Alive
<1>0. worker = "answered" /\ ready BY DEF SandboxInv, TypeOK
<1>1. level # 4 /\ runner = "none" /\ ~startup /\ ~timer /\ monitor \in {"off", "stopped"} BY <1>0
<1>2. CASE StartupTimeout \/ ExecutionTimeout BY <1>1, <1>2 DEF StartupTimeout, ExecutionTimeout
<1>3. CASE MonitorRead
  <2>1. UNCHANGED worker BY <1>1, <1>3 DEF MonitorRead
  <2> QED BY <1>0, <2>1
<1>4. CASE WorkerExits BY <1>4 DEF WorkerExits
<1>5. CASE WorkerDies BY <1>0, <1>5 DEF WorkerDies
<1>6. CASE UNCHANGED worker BY <1>0, <1>6
<1>7. CASE Spawn \/ RunRequest BY <1>1, <1>7 DEF Spawn, RunRequest
<1>8. CASE WorkerReady \/ Receive \/ Answer BY <1>0, <1>8 DEF WorkerReady, Receive, Answer
<1>9. CASE Poll BY <1>1, <1>9 DEF Poll
<1> HIDE DEF IndInv
<1>10. CASE HostStep
  BY <1>2, <1>3, <1>6, <1>7, <1>10
  DEF HostStep, Execute, ErrorEvent, Removed, RemoveFails, ReadyMessage, AnswerMessage, MonitorTick,
      CloseEvent, StartRunner, RunnerUnavailable, RunnerEnds, SettleWithRunner
<1>11. CASE WorkerStep BY <1>4, <1>5, <1>6, <1>8, <1>11 DEF WorkerStep, LeavesBehind
<1>12. CASE RunnerStep BY <1>6, <1>7, <1>9, <1>12 DEF RunnerStep, ReadRequestFails, MapOutput, Respond
<1> QED BY <1>6, <1>10, <1>11, <1>12 DEF Next

\* Once its answer has arrived a worker is not killed by the timers or by the
\* CPU monitor, whose read may have been under way when the answer came.
THEOREM AnswerIsSafe == Spec => NoKillAfterAnswer
<1>1. Init => IndInv BY IndInit
<1>2. IndInv /\ [Next]_vars => IndInv' BY IndStep
<1>3. IndInv /\ [Next]_vars => [answer # "none" /\ Alive /\ worker' = "gone" => exit' # "signal"]_vars
  BY NoKill
<1> QED BY <1>1, <1>2, <1>3, PTL DEF Spec, NoKillAfterAnswer
-----------------------------------------------------------------------------
(* executeTools.                                                            *)

LEMMA BatchInvInit == BatchInit => BatchInv
  BY ToolBatchAssumption
  DEF BatchInit, BatchInv, BatchTypeOK, Invocations, CallState, Outcome

(* What the start of a set of calls does to each call.                      *)
LEMMA BeginEffect ==
  ASSUME BatchTypeOK, NEW S \in SUBSET Invocations, Begin(S)
  PROVE  /\ call' \in [Invocations -> CallState]
         /\ handler' \in [Invocations -> {"idle", "running", "over"}]
         /\ orphaned' \in SUBSET Invocations
         /\ \A i \in Invocations \ S : call'[i] = call[i]
         /\ \A i \in S : call'[i] \in {"rejected", "running"}
  BY DEF BatchTypeOK, Begin, CallState

(* A call that settles leaves the loop of executeTools where it is.         *)
LEMMA SettleKeeps ==
  ASSUME BatchInv, NEW i \in Invocations, NEW outcome \in Outcome, InFlight(i),
         Settle(i, outcome), UNCHANGED <<policy, sandboxed, held, next, batch, orphaned, results>>,
         handler' \in [Invocations -> {"idle", "running", "over"}]
  PROVE  BatchInv'
<1>1. call' = [call EXCEPT ![i] = outcome] /\ call[i] # "waiting"
  BY DEF Settle, InFlight
<1>2. call' \in [Invocations -> CallState]
  BY <1>1 DEF BatchInv, BatchTypeOK, CallState
<1>3. aborted' \in SUBSET Invocations
  BY DEF Settle, BatchInv, BatchTypeOK
<1>4. BatchTypeOK'
  BY <1>2, <1>3 DEF BatchInv, BatchTypeOK
<1> QED
  BY <1>1, <1>4 DEF BatchInv, BatchTypeOK, IsConcurrencySafe, Outcome

LEMMA BatchInvStep == BatchInv /\ [BatchNext]_batchVars => BatchInv'
<1> SUFFICES ASSUME BatchInv, [BatchNext]_batchVars PROVE BatchInv'
  OBVIOUS
<1>0. N \in Nat /\ Len(results) \in Nat /\ next \in 1..(N + 1)
  BY ToolBatchAssumption DEF BatchInv, BatchTypeOK
<1>1. CASE Collect
  <2>1. BatchTypeOK' BY <1>0, <1>1 DEF Collect, BatchInv, BatchTypeOK, Invocations
  <2>2. call[next] = "waiting" BY <1>1 DEF Collect, BatchInv
  <2> QED BY <1>0, <1>1, <2>1, <2>2 DEF Collect, BatchInv, Invocations, IsConcurrencySafe
<1>2. CASE FlushBatch
  <2>1. /\ UNCHANGED <<policy, sandboxed, held, next, batch, aborted, results>>
        /\ Begin(batch) /\ batch # {} /\ \A i \in batch : call[i] = "waiting"
    BY <1>2 DEF FlushBatch
  <2>2. batch \in SUBSET Invocations BY DEF BatchInv, BatchTypeOK
  <2>3. \A i \in Invocations \ batch : call'[i] = call[i]
    BY <2>1, <2>2, BeginEffect DEF BatchInv
  <2>4. BatchTypeOK' BY <2>1, <2>2, BeginEffect DEF BatchInv, BatchTypeOK
  <2> QED BY <1>0, <2>1, <2>3, <2>4 DEF BatchInv, Invocations, IsConcurrencySafe
<1>3. CASE BatchDone
  <2>1. /\ UNCHANGED <<policy, sandboxed, held, next, call, handler, aborted, orphaned>>
        /\ batch # {} /\ batch' = {} /\ \A i \in batch : call[i] \in Outcome
        /\ results' = results \o [k \in 1..Cardinality(batch) |-> Len(results) + k]
    BY <1>3 DEF BatchDone
  <2>2. Len(results) + 1 <= next - 1 BY <1>0, <2>1 DEF BatchInv
  <2>3. PICK n \in Nat : n = (next - 1) - Len(results)
    <3>1. (next - 1) - Len(results) \in Nat BY <1>0, <2>2
    <3> QED BY <3>1
  <2>4. Cardinality(batch) = n
    <3>1. PICK a \in Int, b \in Int : a = Len(results) + 1 /\ b = next - 1
      <4>1. Len(results) + 1 \in Int /\ next - 1 \in Int BY <1>0
      <4> QED BY <4>1
    <3>2. batch = a..b /\ a <= b /\ (b - a) + 1 = n BY <1>0, <2>2, <2>3, <3>1 DEF BatchInv
    <3> QED BY <3>2, FS_Interval
  <2>5. PICK s \in Seq(Invocations) : s = [k \in 1..n |-> Len(results) + k]
    <3>1. \A k \in 1..n : Len(results) + k \in Invocations
      BY <1>0, <2>3 DEF Invocations
    <3>2. [k \in 1..n |-> Len(results) + k] \in Seq(Invocations) BY <3>1
    <3> QED BY <3>2
  <2>6. Len(s) = n /\ \A k \in 1..n : s[k] = Len(results) + k
    BY <2>5
  <2>7. results \in Seq(Invocations) /\ results' = results \o s
    BY <2>1, <2>4, <2>5 DEF BatchInv, BatchTypeOK
  <2>8. /\ results' \in Seq(Invocations)
        /\ Len(results') = next - 1
        /\ \A k \in 1..Len(results) : results'[k] = results[k]
    BY <1>0, <2>3, <2>6, <2>7
  <2>9. \A k \in (Len(results) + 1)..(next - 1) : results'[k] = k
    <3> TAKE k \in (Len(results) + 1)..(next - 1)
    <3>1. PICK m \in 1..n : k = Len(results) + m
      <4>1. k - Len(results) \in 1..n BY <1>0, <2>3
      <4> QED BY <1>0, <4>1
    <3> QED BY <1>0, <2>6, <2>7, <3>1
  <2>10. BatchTypeOK' BY <2>1, <2>8 DEF BatchInv, BatchTypeOK
  <2>11. \A k \in 1..Len(results') : results'[k] = k /\ call'[k] \in Outcome
    <3> TAKE k \in 1..Len(results')
    <3>1. CASE k \in 1..Len(results)
      BY <2>1, <2>8, <3>1 DEF BatchInv
    <3>2. CASE k \in (Len(results) + 1)..(next - 1)
      BY <2>1, <2>9, <3>2 DEF BatchInv
    <3> QED BY <1>0, <2>8, <3>1, <3>2
  <2>12. batch' = (Len(results') + 1)..(next' - 1) /\ Len(results') < next'
    <3>1. next' = next /\ batch' = {} BY <2>1
    <3>2. Len(results') + 1 = next /\ next - 1 < next BY <1>0, <2>8
    <3>3. \A k \in next..(next - 1) : FALSE BY <1>0
    <3>4. next..(next - 1) = {} BY <3>3
    <3> QED BY <1>0, <2>8, <3>1, <3>2, <3>4
  <2> QED BY <2>1, <2>10, <2>11, <2>12 DEF BatchInv, IsConcurrencySafe
<1>4. CASE RunAlone
  <2>1. /\ UNCHANGED <<policy, sandboxed, held, next, batch, aborted, results>>
        /\ Begin({next}) /\ next \in Invocations /\ ~IsConcurrencySafe(next)
        /\ batch = {} /\ call[next] = "waiting"
    BY <1>4 DEF RunAlone
  <2>2. \A i \in Invocations \ {next} : call'[i] = call[i]
    BY <2>1, BeginEffect DEF BatchInv
  <2>3. BatchTypeOK' BY <2>1, BeginEffect DEF BatchInv, BatchTypeOK
  <2>4. Len(results) + 1 = next BY <1>0, <2>1 DEF BatchInv
  <2> QED BY <1>0, <2>1, <2>2, <2>3, <2>4 DEF BatchInv, Invocations, IsConcurrencySafe
<1>5. CASE AloneDone
  <2>1. /\ UNCHANGED <<policy, sandboxed, held, batch, call, handler, aborted, orphaned>>
        /\ next \in Invocations /\ call[next] \in Outcome
        /\ results' = Append(results, next) /\ next' = next + 1
    BY <1>5 DEF AloneDone
  <2>2. batch = {} /\ Len(results) + 1 = next
    BY <1>0, <2>1 DEF BatchInv, Outcome
  <2>3. /\ results' \in Seq(Invocations) /\ Len(results') = next
        /\ results'[next] = next
        /\ \A k \in 1..Len(results) : results'[k] = results[k]
    BY <1>0, <2>1, <2>2 DEF BatchInv, BatchTypeOK
  <2>4. BatchTypeOK' BY <1>0, <2>1, <2>3 DEF BatchInv, BatchTypeOK, Invocations
  <2>5. next + 1 \in Invocations => call[next + 1] = "waiting"
    BY <1>0 DEF BatchInv
  <2> QED BY <1>0, <2>1, <2>2, <2>3, <2>4, <2>5 DEF BatchInv, IsConcurrencySafe
<1>6. ASSUME NEW i \in Invocations, Reject(i) PROVE BatchInv'
  BY <1>6, SettleKeeps DEF Reject, InFlight, Outcome, BatchInv, BatchTypeOK
<1>7. ASSUME NEW i \in Invocations, Finish(i) PROVE BatchInv'
  <2>1. /\ UNCHANGED <<policy, sandboxed, held, next, batch, orphaned, results>>
        /\ handler' \in [Invocations -> {"idle", "running", "over"}]
    BY <1>7 DEF Finish, BatchInv, BatchTypeOK
  <2>2. CASE call[i] = "running"
    <3>1. PICK outcome \in Outcome : Settle(i, outcome) BY <1>7, <2>2 DEF Finish
    <3> QED BY <2>1, <2>2, <3>1, SettleKeeps DEF InFlight
  <2>3. CASE call[i] # "running"
    <3>1. UNCHANGED <<call, aborted>> BY <1>7, <2>3 DEF Finish
    <3>2. BatchTypeOK' BY <2>1, <3>1 DEF BatchInv, BatchTypeOK
    <3> QED BY <2>1, <3>1, <3>2 DEF BatchInv, IsConcurrencySafe
  <2> QED BY <2>2, <2>3
<1>8. ASSUME NEW i \in Invocations, Timeout(i) PROVE BatchInv'
  BY <1>8, SettleKeeps DEF Timeout, InFlight, Outcome, BatchInv, BatchTypeOK
<1>9. ASSUME NEW i \in Invocations, Cancelled(i) PROVE BatchInv'
  BY <1>9, SettleKeeps DEF Cancelled, InFlight, Outcome, BatchInv, BatchTypeOK
<1>10. CASE UNCHANGED batchVars
  BY <1>10 DEF batchVars, BatchInv, BatchTypeOK, IsConcurrencySafe
<1> QED
  BY <1>1, <1>2, <1>3, <1>4, <1>5, <1>6, <1>7, <1>8, <1>9, <1>10 DEF BatchNext, Loop

(* The loop of executeTools keeps its books: see BatchInv.                  *)
THEOREM BatchInvariant == BatchSpec => []BatchInv
  BY BatchInvInit, BatchInvStep, PTL DEF BatchSpec

(* executeTools returns one result per invocation, in the order of the      *)
(* invocations.                                                             *)
THEOREM ResultsAreInOrder == BatchSpec => []ResultsInOrder
<1>1. BatchInv => ResultsInOrder
  <2> SUFFICES ASSUME BatchInv PROVE Returned => Len(results) = N
    BY DEF BatchInv, ResultsInOrder
  <2>1. N \in Nat /\ Len(results) \in Nat
    BY ToolBatchAssumption DEF BatchInv, BatchTypeOK
  <2> QED BY <2>1 DEF BatchInv, Returned
<1> QED BY <1>1, BatchInvariant, PTL

(* A call of a tool that is not concurrency-safe is in flight alone.        *)
THEOREM SerialCallsAreAlone == BatchSpec => []SerialCallsAlone
<1>1. BatchInv => SerialCallsAlone
  <2> SUFFICES ASSUME BatchInv, NEW i \in Invocations, NEW j \in Invocations,
                      i # j, InFlight(i), InFlight(j)
               PROVE  IsConcurrencySafe(i) /\ IsConcurrencySafe(j)
    BY DEF SerialCallsAlone
  <2>1. N \in Nat /\ Len(results) \in Nat /\ next \in 1..(N + 1)
    BY ToolBatchAssumption DEF BatchInv, BatchTypeOK
  <2>2. ASSUME NEW k \in Invocations, InFlight(k) PROVE k \in batch \/ k = next
    BY <2>1, <2>2 DEF BatchInv, InFlight, Outcome, Invocations
  <2>3. ASSUME next \in Invocations, InFlight(next) PROVE batch = {}
    BY <2>3 DEF BatchInv, InFlight
  <2>4. i \in batch /\ j \in batch BY <2>2, <2>3
  <2> QED BY <2>4 DEF BatchInv
<1> QED BY <1>1, BatchInvariant, PTL

-----------------------------------------------------------------------------
LEMMA CancelStep ==
  BatchInv /\ CancelledForSibling /\ [BatchNext]_batchVars => CancelledForSibling'
<1> SUFFICES ASSUME BatchInv, CancelledForSibling, [BatchNext]_batchVars
             PROVE  CancelledForSibling'
  OBVIOUS
<1>0. N \in Nat /\ Len(results) \in Nat /\ next \in 1..(N + 1)
  BY ToolBatchAssumption DEF BatchInv, BatchTypeOK
<1>1. UNCHANGED policy
  BY DEF BatchNext, batchVars, Loop, Collect, FlushBatch, BatchDone, RunAlone, AloneDone, Reject,
         Finish, Timeout, Cancelled
<1>2. \A i, j \in batch : Siblings(i, j)
  BY <1>0 DEF BatchInv, Siblings, Invocations
<1>3. \A j \in Invocations : call[j] \in Outcome => call'[j] = call[j]
  <2>1. CASE FlushBatch
    <3>1. batch \in SUBSET Invocations /\ BatchTypeOK BY DEF BatchInv, BatchTypeOK
    <3> QED BY <2>1, <3>1, BeginEffect DEF FlushBatch, Outcome
  <2>2. CASE RunAlone
    BY <2>2, BeginEffect DEF RunAlone, Outcome, BatchInv
  <2>3. ASSUME NEW i \in Invocations, Reject(i) \/ Finish(i) \/ Timeout(i) \/ Cancelled(i)
        PROVE  \A j \in Invocations : call[j] \in Outcome => call'[j] = call[j]
    BY <2>3 DEF Reject, Finish, Timeout, Cancelled, Settle, Outcome, BatchInv, BatchTypeOK
  <2>4. CASE Collect \/ BatchDone \/ AloneDone \/ UNCHANGED batchVars
    BY <2>4 DEF Collect, BatchDone, AloneDone, batchVars
  <2> QED BY <2>1, <2>2, <2>3, <2>4 DEF BatchNext, Loop
<1>4. CASE aborted' = aborted
  BY <1>1, <1>3, <1>4
  DEF CancelledForSibling, CancelsSiblings, Siblings, IsConcurrencySafe, Outcome
<1>5. CASE aborted' # aborted
  <2>1. PICK i \in Invocations, outcome \in Outcome : Settle(i, outcome)
    BY <1>5 DEF BatchNext, batchVars, Loop, Collect, FlushBatch, BatchDone, RunAlone, AloneDone,
                Reject, Finish, Timeout, Cancelled, Outcome
  <2>2. /\ outcome # "ok" /\ i \in batch /\ CancelsSiblings(i)
        /\ aborted' = aborted \cup (batch \ {i})
        /\ call'[i] = outcome
    BY <1>5, <2>1 DEF Settle, BatchInv, BatchTypeOK
  <2> SUFFICES ASSUME NEW k \in aborted'
               PROVE  \E j \in Invocations \ {k} :
                        /\ CancelsSiblings(j)' /\ call'[j] \in {"failed", "approval"}
                        /\ Siblings(k, j)'
    BY DEF CancelledForSibling
  <2>3. CASE k \in aborted
    BY <1>1, <1>3, <2>3
    DEF CancelledForSibling, CancelsSiblings, Siblings, IsConcurrencySafe, Outcome
  <2>4. CASE k \in batch \ {i}
    <3>1. Siblings(k, i) BY <1>2, <2>2, <2>4
    <3> QED BY <1>1, <2>2, <2>4, <3>1
        DEF CancelsSiblings, Siblings, IsConcurrencySafe, Outcome
  <2> QED BY <2>2, <2>3, <2>4
<1> QED BY <1>4, <1>5

(* No call is cancelled for a failure outside its batch, or for a tool that *)
(* does not ask for it.                                                     *)
THEOREM CancelledOnlyForSibling == BatchSpec => []CancelledForSibling
<1>1. BatchInit => CancelledForSibling BY DEF BatchInit, CancelledForSibling
<1> QED BY <1>1, BatchInvariant, CancelStep, PTL DEF BatchSpec
=============================================================================
