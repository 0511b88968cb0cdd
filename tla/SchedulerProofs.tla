--------------------------- MODULE SchedulerProofs ---------------------------
(***************************************************************************)
(* Proofs about the scheduler, for any number of jobs, runs, edits, errors *)
(* and crashes.                                                            *)
(***************************************************************************)
EXTENDS Scheduler, FiniteSetTheorems, TLAPS

USE DEF table, locals, bounds

-----------------------------------------------------------------------------
(* Type correctness.                                                        *)

LEMMA NextRunType ==
  ASSUME clock \in Nat, NEW p \in Periods PROVE CalculateNextRun(p) \in Nat
<1>1. p \in Nat /\ p > 0 BY SchedulerAssumption
<1>2. clock \div p \in Nat BY <1>1
<1> QED BY <1>1, <1>2 DEF CalculateNextRun

LEMMA FaultsBounded ==
  ASSUME faults \in 0..MaxFaults, Throws \/ Succeeds PROVE faults' \in 0..MaxFaults
  BY SchedulerAssumption DEF Throws, Succeeds

LEMMA ZeroIsATime == 0 \in Times
  BY SchedulerAssumption DEF Times

LEMMA TypeInit == Init => TypeOK
<1> SUFFICES ASSUME Init PROVE TypeOK OBVIOUS
<1>1. now \in [Ticks -> Times] /\ clock \in Times BY ZeroIsATime DEF Init
<1>2. edits \in 0..MaxEdits /\ faults \in 0..MaxFaults /\ crashes \in 0..MaxCrashes
  BY SchedulerAssumption DEF Init
<1>3. nextRun \in [Jobs -> Nat] BY DEF Init
<1>4. history \in [Jobs -> Seq(Execution)] BY DEF Init
<1>5. row \in [Ticks -> Row \cup {NoRow}] BY DEF Init
<1>6. due \in [Ticks -> SUBSET Row] BY DEF Init
<1> QED BY <1>1, <1>2, <1>3, <1>4, <1>5, <1>6 DEF Init, TypeOK, Pc

LEMMA ForgetType == ASSUME Forget PROVE
  /\ up' \in BOOLEAN /\ tickInProgress' \in BOOLEAN
  /\ pc' \in [Ticks -> Pc]
  /\ due' \in [Ticks -> SUBSET Row]
  /\ row' \in [Ticks -> Row \cup {NoRow}]
  /\ now' \in [Ticks -> Times]
  /\ run' \in [Ticks -> Runs \cup {NoRun}]
<1>1. now' \in [Ticks -> Times] BY ZeroIsATime DEF Forget
<1>2. pc' \in [Ticks -> Pc] BY DEF Forget, Pc
<1>3. due' \in [Ticks -> SUBSET Row] BY DEF Forget
<1>4. row' \in [Ticks -> Row \cup {NoRow}] BY DEF Forget
<1> QED BY <1>1, <1>2, <1>3, <1>4 DEF Forget

LEMMA RecordType ==
  ASSUME TypeOK, NEW k \in Ticks, row[k] \in Row, NEW r \in Runs \cup {NoRun},
         NEW status \in {"submitted", "skipped", "failed"}, Record(k, status, r)
  PROVE  history' \in [Jobs -> Seq(Execution)]
<1>1. [status |-> status, run |-> r, at |-> now[k]] \in Execution
  BY DEF TypeOK, Execution
<1>2. row[k].job \in Jobs BY DEF Row
<1> QED BY <1>1, <1>2 DEF TypeOK, Record

LEMMA TypeTickStep ==
  ASSUME TypeOK, HasRow, NEW k \in Ticks, StartTick(k) \/ TickStep(k) PROVE TypeOK'
<1>0. clock \in Nat BY SchedulerAssumption DEF TypeOK, Times
<1> USE FaultsBounded
<1>1. CASE StartTick(k)
  <2>1. DueRows \in SUBSET Row BY DEF TypeOK, DueRows, Row
  <2> QED BY <1>1, <2>1 DEF StartTick, GoTo, TypeOK, Pc
<1>2. CASE EndTick(k)
  <2>1. now' \in [Ticks -> Times] BY <1>2, ZeroIsATime DEF EndTick, TypeOK
  <2>2. row' \in [Ticks -> Row \cup {NoRow}] BY <1>2 DEF EndTick, TypeOK
  <2>3. pc' \in [Ticks -> Pc] BY <1>2 DEF EndTick, GoTo, TypeOK, Pc
  <2> QED BY <1>2, <2>1, <2>2, <2>3 DEF EndTick, TypeOK
<1>3. CASE ExecuteJob(k)
  <2>1. PICK d \in due[k] :
          /\ due' = [due EXCEPT ![k] = @ \ {d}]
          /\ row' = [row EXCEPT ![k] = d]
          /\ GoTo(k, IF d.concurrent THEN "submit" ELSE "check")
    BY <1>3 DEF ExecuteJob
  <2>2. pc' \in [Ticks -> Pc] BY <2>1 DEF GoTo, TypeOK, Pc
  <2>3. due' \in [Ticks -> SUBSET Row] /\ row' \in [Ticks -> Row \cup {NoRow}]
    BY <2>1 DEF TypeOK
  <2> QED BY <1>3, <2>2, <2>3 DEF ExecuteJob, TypeOK
<1>4. CASE Check(k)
  BY <1>4 DEF Check, GoTo, TypeOK, Pc
<1>5. CASE Skip(k)
  <2>1. row[k] \in Row BY <1>5 DEF Skip, HasRow
  <2>2. CASE Record(k, "skipped", NoRun) /\ GoTo(k, "reschedule")
               /\ UNCHANGED <<up, tickInProgress, due, row, now, run>>
    <3>1. history' \in [Jobs -> Seq(Execution)] BY <2>1, <2>2, RecordType
    <3>2. pc' \in [Ticks -> Pc] BY <2>2 DEF GoTo, TypeOK, Pc
    <3> QED BY <1>5, <2>2, <3>1, <3>2 DEF Skip, TypeOK
  <2>3. CASE Forget /\ UNCHANGED history
    BY <1>5, <2>3, ForgetType DEF Skip, TypeOK
  <2> QED BY <1>5, <2>2, <2>3 DEF Skip
<1>6. CASE Submit(k)
  <2>1. row[k].job \in Jobs BY <1>6 DEF Submit, HasRow, Row
  <2>2. runState' \in [Runs -> {"none", "active", "ended"}]
           /\ runJob' \in [Runs -> Jobs \cup {NoJob}]
    BY <1>6, <2>1 DEF Submit, TypeOK
  <2>3. pc' \in [Ticks -> Pc] /\ run' \in [Ticks -> Runs \cup {NoRun}]
    BY <1>6 DEF Submit, TypeOK, GoTo, Pc
  <2> QED BY <1>6, <2>2, <2>3 DEF Submit, TypeOK
<1>7. CASE RecordSubmitted(k)
  <2>1. row[k] \in Row /\ run[k] \in Runs \cup {NoRun}
    BY <1>7 DEF RecordSubmitted, HasRow, TypeOK
  <2>2. history' \in [Jobs -> Seq(Execution)]
    <3>1. CASE Record(k, "submitted", run[k]) BY <2>1, <3>1, RecordType
    <3>2. CASE UNCHANGED history BY <3>2 DEF TypeOK
    <3> QED BY <1>7, <3>1, <3>2 DEF RecordSubmitted
  <2>3. pc' \in [Ticks -> Pc] /\ run' \in [Ticks -> Runs \cup {NoRun}]
    BY <1>7 DEF RecordSubmitted, TypeOK, GoTo, Pc
  <2> QED BY <1>7, <2>2, <2>3 DEF RecordSubmitted, TypeOK
<1>8. CASE Advance(k)
  <2>1. row[k].period \in Periods BY <1>8 DEF Advance, HasRow, Row
  <2>2. nextRun' \in [Jobs -> Nat] BY <1>0, <1>8, <2>1, NextRunType DEF Advance, SaveNextRun, TypeOK
  <2>3. pc' \in [Ticks -> Pc] BY <1>8 DEF Advance, TypeOK, GoTo, Pc
  <2> QED BY <1>8, <2>2, <2>3 DEF Advance, TypeOK
<1>9. CASE RecordFailed(k)
  <2>1. row[k] \in Row BY <1>9 DEF RecordFailed, HasRow
  <2>2. CASE Record(k, "failed", NoRun) /\ GoTo(k, "count")
               /\ UNCHANGED <<up, tickInProgress, due, row, now, run>>
    <3>1. history' \in [Jobs -> Seq(Execution)] BY <2>1, <2>2, RecordType
    <3>2. pc' \in [Ticks -> Pc] BY <2>2 DEF GoTo, TypeOK, Pc
    <3> QED BY <1>9, <2>2, <3>1, <3>2 DEF RecordFailed, TypeOK
  <2>3. CASE Forget /\ UNCHANGED history
    BY <1>9, <2>3, ForgetType DEF RecordFailed, TypeOK
  <2> QED BY <1>9, <2>2, <2>3 DEF RecordFailed
<1>10. CASE Count(k)
  BY <1>10 DEF Count, GoTo, TypeOK, Pc
<1>11. CASE Disable(k)
  BY <1>11 DEF Disable, GoTo, TypeOK, Pc
<1>12. CASE Reschedule(k)
  <2>1. row[k].period \in Periods BY <1>12 DEF Reschedule, HasRow, Row
  <2>2. nextRun' \in [Jobs -> Nat] BY <1>0, <1>12, <2>1, NextRunType DEF Reschedule, SaveNextRun, TypeOK
  <2>3. pc' \in [Ticks -> Pc] BY <1>12 DEF Reschedule, TypeOK, GoTo, Pc
  <2> QED BY <1>12, <2>2, <2>3 DEF Reschedule, TypeOK
<1> QED BY <1>1, <1>2, <1>3, <1>4, <1>5, <1>6, <1>7, <1>8, <1>9, <1>10, <1>11, <1>12
        DEF TickStep

LEMMA TypeStep == ASSUME TypeOK, HasRow, [Next]_vars PROVE TypeOK'
<1>0. clock \in Nat BY SchedulerAssumption DEF TypeOK, Times
<1>1. ASSUME NEW j \in Jobs, CreateJob(j) PROVE TypeOK'
  <2>1. CalculateNextRun(period[j]) \in Nat BY <1>0, NextRunType DEF TypeOK
  <2> QED BY <1>1, <2>1 DEF CreateJob, InsertJob, TypeOK
<1>2. ASSUME NEW j \in Jobs, UpdateJob(j) PROVE TypeOK'
  <2>1. edits' \in 0..MaxEdits BY <1>2, SchedulerAssumption DEF UpdateJob, UpdateRow, TypeOK
  <2>2. /\ enabled' \in [Jobs -> BOOLEAN] /\ concurrent' \in [Jobs -> BOOLEAN]
    BY <1>2 DEF UpdateJob, UpdateRow, TypeOK
  <2>3. period' \in [Jobs -> Periods] /\ nextRun' \in [Jobs -> Nat]
    <3>1. CASE UNCHANGED <<period, nextRun>> BY <3>1 DEF TypeOK
    <3>2. ASSUME NEW p \in Periods, period' = [period EXCEPT ![j] = p],
                 nextRun' = [nextRun EXCEPT ![j] = CalculateNextRun(p)]
          PROVE  period' \in [Jobs -> Periods] /\ nextRun' \in [Jobs -> Nat]
      <4>1. CalculateNextRun(p) \in Nat BY <1>0, NextRunType
      <4> QED BY <3>2, <4>1 DEF TypeOK
    <3> QED BY <1>2, <3>1, <3>2 DEF UpdateJob, UpdateRow
  <2> QED BY <1>2, <2>1, <2>2, <2>3 DEF UpdateJob, UpdateRow, TypeOK
<1>3. ASSUME NEW j \in Jobs, DeleteJob(j) PROVE TypeOK'
  <2>1. edits' \in 0..MaxEdits BY <1>3, SchedulerAssumption DEF DeleteJob, TypeOK
  <2> QED BY <1>3, <2>1 DEF DeleteJob, TypeOK
<1>4. ASSUME NEW r \in Runs, RunEnds(r) PROVE TypeOK'
  BY <1>4 DEF RunEnds, TypeOK
<1>5. CASE TimePasses
  BY <1>5, SchedulerAssumption DEF TimePasses, TypeOK, Times
<1>6. CASE Crash
  <2>1. crashes' \in 0..MaxCrashes BY <1>6, SchedulerAssumption DEF Crash, TypeOK
  <2> QED BY <1>6, <2>1, ForgetType DEF Crash, TypeOK
<1>7. CASE Restart BY <1>7 DEF Restart, TypeOK
<1>8. ASSUME NEW k \in Ticks, StartTick(k) \/ TickStep(k) PROVE TypeOK'
  BY <1>8, TypeTickStep
<1>9. CASE UNCHANGED vars BY <1>9 DEF vars, TypeOK
<1> QED BY <1>1, <1>2, <1>3, <1>4, <1>5, <1>6, <1>7, <1>8, <1>9 DEF Next, Gateway

-----------------------------------------------------------------------------
(* Ticks do not overlap.                                                    *)

(* A step of tick k that leaves the others alone, keeps k the only one.     *)
LEMMA OneTickMoves ==
  ASSUME TypeOK, OneTick, NEW k \in Ticks, pc[k] # "idle",
         NEW place \in Pc, GoTo(k, place), UNCHANGED tickInProgress
  PROVE  OneTick'
  BY DEF OneTick, GoTo, TypeOK

LEMMA OneTickForget == ASSUME Forget PROVE OneTick'
  BY DEF Forget, OneTick

LEMMA OneTickStep == ASSUME TypeOK, OneTick, [Next]_vars PROVE OneTick'
<1>1. CASE UNCHANGED <<pc, tickInProgress>> BY <1>1 DEF OneTick
<1>2. CASE Crash BY <1>2, OneTickForget DEF Crash
<1>3. ASSUME NEW k \in Ticks, StartTick(k) PROVE OneTick'
  BY <1>3 DEF StartTick, GoTo, OneTick, TypeOK
<1>4. ASSUME NEW k \in Ticks, EndTick(k) PROVE OneTick'
  BY <1>4 DEF EndTick, GoTo, OneTick, TypeOK
<1>5. ASSUME NEW k \in Ticks, TickStep(k), ~EndTick(k) PROVE OneTick'
  <2>1. CASE Forget BY <2>1, OneTickForget
  <2>2. CASE pc[k] # "idle" /\ UNCHANGED tickInProgress /\ \E place \in Pc : GoTo(k, place)
    BY <2>2, OneTickMoves
  <2>3. CASE ExecuteJob(k) BY <2>2, <2>3 DEF ExecuteJob, Pc
  <2>4. CASE Check(k) BY <2>2, <2>4 DEF Check, Pc
  <2>5. CASE Skip(k) BY <2>1, <2>2, <2>5 DEF Skip, Pc
  <2>6. CASE Submit(k) BY <2>2, <2>6 DEF Submit, Pc
  <2>7. CASE RecordSubmitted(k) BY <2>2, <2>7 DEF RecordSubmitted, Pc
  <2>8. CASE Advance(k) BY <2>2, <2>8 DEF Advance, Pc
  <2>9. CASE RecordFailed(k) BY <2>1, <2>2, <2>9 DEF RecordFailed, Pc
  <2>10. CASE Count(k) BY <2>2, <2>10 DEF Count, Pc
  <2>11. CASE Disable(k) BY <2>2, <2>11 DEF Disable, Pc
  <2>12. CASE Reschedule(k) BY <2>2, <2>12 DEF Reschedule, Pc
  <2> QED BY <1>5, <2>3, <2>4, <2>5, <2>6, <2>7, <2>8, <2>9, <2>10, <2>11, <2>12 DEF TickStep
<1> QED BY <1>1, <1>2, <1>3, <1>4, <1>5
        DEF Next, Gateway, CreateJob, InsertJob, UpdateJob, UpdateRow, DeleteJob, RunEnds, TimePasses, Restart, vars

-----------------------------------------------------------------------------
(* A tick past the loop head has the row it executes.                       *)

LEMMA HasRowStep == ASSUME TypeOK, HasRow, [Next]_vars PROVE HasRow'
<1>1. CASE UNCHANGED <<pc, row>> BY <1>1 DEF HasRow
<1>2. CASE Forget BY <1>2 DEF Forget, HasRow
<1>3. ASSUME NEW k \in Ticks, StartTick(k) \/ EndTick(k) PROVE HasRow'
  BY <1>3 DEF StartTick, EndTick, GoTo, HasRow, TypeOK
<1>4. ASSUME NEW k \in Ticks, ExecuteJob(k) PROVE HasRow'
  BY <1>4 DEF ExecuteJob, GoTo, HasRow, TypeOK
<1>5. ASSUME NEW k \in Ticks, pc[k] \notin {"idle", "loop"}, NEW place \in Pc,
             GoTo(k, place), UNCHANGED row
      PROVE  HasRow'
  BY <1>5 DEF GoTo, HasRow, TypeOK
<1>6. ASSUME NEW k \in Ticks, TickStep(k), ~EndTick(k), ~ExecuteJob(k) PROVE HasRow'
  <2>4. CASE Check(k) BY <1>5, <2>4 DEF Check, Pc
  <2>5. CASE Skip(k) BY <1>2, <1>5, <2>5 DEF Skip, Pc
  <2>6. CASE Submit(k) BY <1>5, <2>6 DEF Submit, Pc
  <2>7. CASE RecordSubmitted(k) BY <1>5, <2>7 DEF RecordSubmitted, Pc
  <2>8. CASE Advance(k) BY <1>5, <2>8 DEF Advance, Pc
  <2>9. CASE RecordFailed(k) BY <1>2, <1>5, <2>9 DEF RecordFailed, Pc
  <2>10. CASE Count(k) BY <1>5, <2>10 DEF Count, Pc
  <2>11. CASE Disable(k) BY <1>5, <2>11 DEF Disable, Pc
  <2>12. CASE Reschedule(k) BY <1>5, <2>12 DEF Reschedule, Pc
  <2> QED BY <1>6, <2>4, <2>5, <2>6, <2>7, <2>8, <2>9, <2>10, <2>11, <2>12 DEF TickStep
<1> QED BY <1>1, <1>2, <1>3, <1>4, <1>6
        DEF Next, Gateway, CreateJob, InsertJob, UpdateJob, UpdateRow, DeleteJob, RunEnds, TimePasses, Restart,
            Crash, vars

-----------------------------------------------------------------------------
(* What a tick found in its check holds until it submits.                   *)

(* Outside the ticks the running executions of a job only become fewer.     *)
LEMMA OnlyEnds ==
  ASSUME TypeOK, NEW j \in Jobs, HasRunningExecution(j)',
         \/ UNCHANGED <<history, runState>>
         \/ \E i \in Jobs : DeleteJob(i)
         \/ \E r \in Runs : RunEnds(r)
  PROVE  HasRunningExecution(j)
<1>1. CASE UNCHANGED <<history, runState>> BY <1>1 DEF HasRunningExecution
<1>2. ASSUME NEW i \in Jobs, DeleteJob(i) PROVE HasRunningExecution(j)
  <2>1. CASE i = j
    <3>1. Len(history'[j]) = 0 BY <1>2, <2>1 DEF DeleteJob, TypeOK
    <3> QED BY <3>1 DEF HasRunningExecution
  <2>2. CASE i # j BY <1>2, <2>2 DEF DeleteJob, HasRunningExecution, TypeOK
  <2> QED BY <2>1, <2>2
<1>3. ASSUME NEW r \in Runs, RunEnds(r) PROVE HasRunningExecution(j)
  BY <1>3 DEF RunEnds, HasRunningExecution, TypeOK
<1> QED BY <1>1, <1>2, <1>3

(* With its only tick elsewhere, no tick is about to submit.                *)
LEMMA NobodySubmits ==
  ASSUME TypeOK, OneTick, NEW k \in Ticks, pc[k] # "idle", NEW place \in Pc \ {"submit"},
         GoTo(k, place)
  PROVE  CheckHolds'
<1>1. \A l \in Ticks : pc'[l] # "submit" BY DEF OneTick, GoTo, TypeOK
<1> QED BY <1>1 DEF CheckHolds

LEMMA CheckHoldsStep ==
  ASSUME TypeOK, OneTick, HasRow, CheckHolds, [Next]_vars PROVE CheckHolds'
<1>1. ASSUME UNCHANGED <<pc, row>>,
             \/ UNCHANGED <<history, runState>>
             \/ \E i \in Jobs : DeleteJob(i)
             \/ \E r \in Runs : RunEnds(r)
      PROVE  CheckHolds'
  <2> SUFFICES ASSUME NEW k \in Ticks, pc[k] = "submit", ~row[k].concurrent,
                      HasRunningExecution(row[k].job)'
               PROVE  FALSE
    BY <1>1 DEF CheckHolds
  <2>1. row[k].job \in Jobs BY DEF HasRow, Row
  <2>2. HasRunningExecution(row[k].job) BY <1>1, <2>1, OnlyEnds
  <2> QED BY <2>2 DEF CheckHolds
<1>2. CASE Forget BY <1>2 DEF Forget, CheckHolds
<1>3. ASSUME NEW k \in Ticks, StartTick(k) PROVE CheckHolds'
  <2>1. \A l \in Ticks : pc'[l] # "submit" BY <1>3 DEF StartTick, OneTick, GoTo, TypeOK
  <2> QED BY <2>1 DEF CheckHolds
<1>4. ASSUME NEW k \in Ticks, ExecuteJob(k) PROVE CheckHolds'
  <2>1. PICK d \in due[k] :
          row' = [row EXCEPT ![k] = d] /\ GoTo(k, IF d.concurrent THEN "submit" ELSE "check")
    BY <1>4 DEF ExecuteJob
  <2>2. \A l \in Ticks : pc'[l] = "submit" => l = k /\ d.concurrent
    BY <1>4, <2>1 DEF ExecuteJob, OneTick, GoTo, TypeOK
  <2>3. row'[k] = d BY <2>1 DEF TypeOK
  <2> QED BY <2>2, <2>3 DEF CheckHolds
<1>5. ASSUME NEW k \in Ticks, Check(k) PROVE CheckHolds'
  <2>1. \A l \in Ticks : pc'[l] = "submit" => l = k /\ ~HasRunningExecution(row[k].job)
    BY <1>5 DEF Check, OneTick, GoTo, TypeOK
  <2>2. UNCHANGED <<row, history, runState>> BY <1>5 DEF Check
  <2> QED BY <2>1, <2>2 DEF CheckHolds, HasRunningExecution
<1>6. ASSUME NEW k \in Ticks, TickStep(k), ~ExecuteJob(k), ~Check(k) PROVE CheckHolds'
  <2>3. CASE EndTick(k) BY <2>3, NobodySubmits DEF EndTick, Pc
  <2>5. CASE Skip(k) BY <1>2, <2>5, NobodySubmits DEF Skip, Pc
  <2>6. CASE Submit(k) BY <2>6, NobodySubmits DEF Submit, Pc
  <2>7. CASE RecordSubmitted(k) BY <2>7, NobodySubmits DEF RecordSubmitted, Pc
  <2>8. CASE Advance(k) BY <2>8, NobodySubmits DEF Advance, Pc
  <2>9. CASE RecordFailed(k) BY <1>2, <2>9, NobodySubmits DEF RecordFailed, Pc
  <2>10. CASE Count(k) BY <2>10, NobodySubmits DEF Count, Pc
  <2>11. CASE Disable(k) BY <2>11, NobodySubmits DEF Disable, Pc
  <2>12. CASE Reschedule(k) BY <2>12, NobodySubmits DEF Reschedule, Pc
  <2> QED BY <1>6, <2>3, <2>5, <2>6, <2>7, <2>8, <2>9, <2>10, <2>11, <2>12 DEF TickStep
<1>7. CASE Gateway
  BY <1>1, <1>7 DEF Gateway, CreateJob, InsertJob, UpdateJob, UpdateRow, DeleteJob, RunEnds
<1>8. CASE TimePasses \/ Restart \/ UNCHANGED vars
  BY <1>1, <1>8 DEF TimePasses, Restart, vars
<1> QED BY <1>2, <1>3, <1>4, <1>5, <1>6, <1>7, <1>8 DEF Next, Crash

-----------------------------------------------------------------------------
(* The scheduler's inductive invariant: ticks never overlap, and no running *)
(* execution of a job appears between the check and the submission          *)
(* (scheduler.ts 108-152), whatever operators, errors and crashes do.       *)
THEOREM SchedInvariant == Spec => []SchedInv
<1>1. Init => SchedInv
  <2> SUFFICES ASSUME Init PROVE SchedInv OBVIOUS
  <2>1. TypeOK BY TypeInit
  <2> QED BY <2>1 DEF Init, SchedInv, OneTick, HasRow, CheckHolds
<1>2. SchedInv /\ [Next]_vars => SchedInv'
  BY TypeStep, OneTickStep, HasRowStep, CheckHoldsStep DEF SchedInv
<1> QED BY <1>1, <1>2, PTL DEF Spec

(* A job with allowConcurrent = false is never submitted while a run        *)
(* recorded for it is active (scheduler.ts 128-152).                        *)
THEOREM RecordedRunsDoNotOverlap == Spec => RecordedRunsNeverOverlap
<1>1. SchedInv /\ [Next]_vars =>
        [\A r \in Runs, j \in Jobs :
           Submits(r, j) /\ SubmittedAlone(j) => ~HasRunningExecution(j)]_vars
  BY DEF SchedInv, CheckHolds, SubmittedAlone
<1> QED BY <1>1, SchedInvariant, PTL DEF Spec, RecordedRunsNeverOverlap

-----------------------------------------------------------------------------
(* Jobs that a tick has read are no longer new, and only stored jobs have   *)
(* executions.                                                              *)
RowsKnown ==
  \A k \in Ticks :
    /\ pc[k] \notin {"idle", "loop"} => jobState[row[k].job] # "new"
    /\ \A d \in due[k] : jobState[d.job] # "new"

Blank == \A j \in Jobs : jobState[j] # "stored" => history[j] = <<>>

KnownInv == RowsKnown /\ Blank

(* A tick in the middle of a job moves on with its row and its list, unless *)
(* the process goes down.                                                   *)
LEMMA TickShape ==
  ASSUME NEW k \in Ticks, TickStep(k), ~EndTick(k), ~ExecuteJob(k)
  PROVE  /\ pc[k] \notin {"idle", "loop"}
         /\ UNCHANGED <<clock, jobState>>
         /\ \/ Forget
            \/ (\E place \in Pc : GoTo(k, place)) /\ UNCHANGED <<row, due, now>>
<1>1. CASE Check(k) BY <1>1 DEF Check, Pc
<1>2. CASE Skip(k) BY <1>2 DEF Skip, Pc
<1>3. CASE Submit(k) BY <1>3 DEF Submit, Pc
<1>4. CASE RecordSubmitted(k) BY <1>4 DEF RecordSubmitted, Pc
<1>5. CASE Advance(k) BY <1>5 DEF Advance, Pc
<1>6. CASE RecordFailed(k) BY <1>6 DEF RecordFailed, Pc
<1>7. CASE Count(k) BY <1>7 DEF Count, Pc
<1>8. CASE Disable(k) BY <1>8 DEF Disable, Pc
<1>9. CASE Reschedule(k) BY <1>9 DEF Reschedule, Pc
<1> QED BY <1>1, <1>2, <1>3, <1>4, <1>5, <1>6, <1>7, <1>8, <1>9 DEF TickStep

(* What happens outside the ticks.                                          *)
LEMMA OutsideShape ==
  ASSUME [Next]_vars, ~ \E k \in Ticks : StartTick(k) \/ TickStep(k)
  PROVE  Crash \/ UNCHANGED <<pc, row, due, now, tickInProgress, faults, crashes>>
  BY DEF Next, Gateway, CreateJob, UpdateJob, DeleteJob, RunEnds, TimePasses, Restart, vars

(* Jobs are created once and deleted once.                                  *)
LEMMA JobStep ==
  ASSUME TypeOK, [Next]_vars, NEW j \in Jobs
  PROVE  /\ jobState[j] # "new" => jobState'[j] # "new"
         /\ jobState[j] = "deleted" => jobState'[j] = "deleted"
<1>1. ASSUME NEW i \in Jobs, CreateJob(i) PROVE jobState'[j] = jobState[j] \/ jobState[j] = "new"
  BY <1>1 DEF CreateJob, InsertJob, TypeOK
<1>2. ASSUME NEW i \in Jobs, CreateJob(i) PROVE jobState'[j] # "new" \/ jobState[j] = "new"
  BY <1>2 DEF CreateJob, InsertJob, TypeOK
<1>3. ASSUME NEW i \in Jobs, DeleteJob(i) PROVE jobState'[j] \in {"deleted", jobState[j]}
  BY <1>3 DEF DeleteJob, TypeOK
<1>4. ASSUME NEW k \in Ticks, StartTick(k) \/ TickStep(k) PROVE UNCHANGED jobState
  BY <1>4, TickShape DEF StartTick, EndTick, ExecuteJob
<1> QED BY <1>1, <1>2, <1>3, <1>4
        DEF Next, Gateway, UpdateJob, UpdateRow, RunEnds, TimePasses, Crash, Restart, vars

(* An execution that is recorded is added to those of its job.              *)
LEMMA RecordAppends ==
  ASSUME TypeOK, NEW k \in Ticks, row[k] \in Row, NEW r, NEW status, Record(k, status, r),
         NEW n, n = Len(history[row[k].job])
  PROVE  /\ row[k].job \in Jobs
         /\ n \in Nat
         /\ jobState[row[k].job] = "stored"
         /\ Len(history'[row[k].job]) = n + 1
         /\ history'[row[k].job][n + 1] = [status |-> status, run |-> r, at |-> now[k]]
         /\ \A i \in 1..n : history'[row[k].job][i] = history[row[k].job][i]
         /\ \A j \in Jobs : j # row[k].job => history'[j] = history[j]
<1>1. row[k].job \in Jobs BY DEF Row
<1> DEFINE h == history[row[k].job]
<1>2. h \in Seq(Execution) BY <1>1 DEF TypeOK
<1>3. history'[row[k].job] = Append(h, [status |-> status, run |-> r, at |-> now[k]])
  BY <1>1 DEF Record, TypeOK
<1>4. \A j \in Jobs : j # row[k].job => history'[j] = history[j]
  BY DEF Record, TypeOK
<1>5. jobState[row[k].job] = "stored" BY DEF Record
<1>6. n \in Nat /\ n = Len(h) BY <1>2
<1> DEFINE e == [status |-> status, run |-> r, at |-> now[k]]
<1>7. Len(Append(h, e)) = n + 1 /\ Append(h, e)[n + 1] = e
        /\ \A i \in 1..n : Append(h, e)[i] = h[i]
  <2> HIDE DEF h, e
  <2> QED BY <1>2, <1>6
<1> QED BY <1>1, <1>3, <1>4, <1>5, <1>6, <1>7

(* Executions come only from ticks, and go only with their job.             *)
LEMMA HistoryShape ==
  ASSUME [Next]_vars
  PROVE  \/ UNCHANGED history
         \/ \E j \in Jobs : DeleteJob(j)
         \/ \E k \in Ticks : /\ Skip(k) \/ RecordSubmitted(k) \/ RecordFailed(k)
                             /\ \E status, r : Record(k, status, r)
<1>1. ASSUME NEW k \in Ticks, StartTick(k) \/ TickStep(k)
      PROVE  \/ UNCHANGED history
             \/ /\ Skip(k) \/ RecordSubmitted(k) \/ RecordFailed(k)
                /\ \E status, r : Record(k, status, r)
  <2>1. CASE Skip(k) BY <2>1 DEF Skip
  <2>2. CASE RecordSubmitted(k) BY <2>2 DEF RecordSubmitted
  <2>3. CASE RecordFailed(k) BY <2>3 DEF RecordFailed
  <2> QED BY <1>1, <2>1, <2>2, <2>3 DEF StartTick, TickStep, EndTick, ExecuteJob, Check, Submit,
                Advance, Count, Disable, Reschedule
<1> QED BY <1>1 DEF Next, Gateway, CreateJob, UpdateJob, RunEnds, TimePasses, Crash, Restart, vars

LEMMA BlankStep ==
  ASSUME TypeOK, HasRow, Blank, [Next]_vars PROVE Blank'
<1>1. ASSUME NEW j \in Jobs, DeleteJob(j) PROVE Blank'
  BY <1>1 DEF DeleteJob, Blank, TypeOK
<1>2. ASSUME NEW k \in Ticks, Skip(k) \/ RecordSubmitted(k) \/ RecordFailed(k),
             NEW status, NEW r, Record(k, status, r)
      PROVE  Blank'
  <2>1. row[k] \in Row BY <1>2 DEF Skip, RecordSubmitted, RecordFailed, HasRow
  <2>2. PICK n : n = Len(history[row[k].job]) OBVIOUS
  <2>3. jobState[row[k].job] = "stored" /\ \A j \in Jobs : j # row[k].job => history'[j] = history[j]
    BY <1>2, <2>1, <2>2, RecordAppends
  <2>4. UNCHANGED jobState BY <1>2 DEF Skip, RecordSubmitted, RecordFailed
  <2> QED BY <2>3, <2>4 DEF Blank
<1>3. CASE UNCHANGED history
  <2>1. ASSUME NEW j \in Jobs, jobState'[j] # "stored", jobState[j] = "stored" PROVE history[j] = <<>>
    <3>1. ASSUME NEW i \in Jobs, DeleteJob(i) PROVE history[j] = <<>>
      BY <1>3, <2>1, <3>1 DEF DeleteJob, TypeOK
    <3>2. ASSUME NEW i \in Jobs, CreateJob(i) PROVE FALSE
      BY <2>1, <3>2 DEF CreateJob, InsertJob, TypeOK
    <3>3. ASSUME NEW k \in Ticks, StartTick(k) \/ TickStep(k) PROVE UNCHANGED jobState
      BY <3>3, TickShape DEF StartTick, EndTick, ExecuteJob
    <3> QED BY <2>1, <3>1, <3>2, <3>3
            DEF Next, Gateway, UpdateJob, UpdateRow, RunEnds, TimePasses, Crash, Restart, vars
  <2> QED BY <1>3, <2>1 DEF Blank
<1> QED BY <1>1, <1>2, <1>3, HistoryShape

LEMMA RowsKnownStep ==
  ASSUME TypeOK, HasRow, RowsKnown, [Next]_vars PROVE RowsKnown'
<1>0. \A j \in Jobs : jobState[j] # "new" => jobState'[j] # "new" BY JobStep
<1>1. CASE UNCHANGED <<pc, row, due>>
  <2> SUFFICES ASSUME NEW k \in Ticks
               PROVE  /\ pc[k] \notin {"idle", "loop"} => jobState'[row[k].job] # "new"
                      /\ \A d \in due[k] : jobState'[d.job] # "new"
    BY <1>1 DEF RowsKnown
  <2>1. pc[k] \notin {"idle", "loop"} => row[k].job \in Jobs BY DEF HasRow, Row
  <2>2. \A d \in due[k] : d.job \in Jobs BY DEF TypeOK, Row
  <2> QED BY <1>0, <2>1, <2>2 DEF RowsKnown
<1>2. CASE Forget BY <1>2 DEF Forget, RowsKnown
<1>3. ASSUME NEW k \in Ticks, StartTick(k) PROVE RowsKnown'
  <2>1. \A d \in DueRows : jobState[d.job] # "new" BY DEF DueRows, IsDue
  <2>2. UNCHANGED <<jobState, row>> /\ pc' = [pc EXCEPT ![k] = "loop"] /\ due' = [due EXCEPT ![k] = DueRows]
    BY <1>3 DEF StartTick, GoTo
  <2> QED BY <2>1, <2>2 DEF RowsKnown, TypeOK
<1>4. ASSUME NEW k \in Ticks, EndTick(k) PROVE RowsKnown'
  BY <1>4 DEF EndTick, GoTo, RowsKnown, TypeOK
<1>5. ASSUME NEW k \in Ticks, ExecuteJob(k) PROVE RowsKnown'
  <2>1. PICK d \in due[k] : row' = [row EXCEPT ![k] = d] /\ due' = [due EXCEPT ![k] = @ \ {d}]
    BY <1>5 DEF ExecuteJob
  <2>2. \A l \in Ticks : l # k => pc'[l] = pc[l] /\ row'[l] = row[l] /\ due'[l] = due[l]
    BY <1>5, <2>1 DEF ExecuteJob, GoTo, TypeOK
  <2>3. row'[k] = d /\ due'[k] = due[k] \ {d} /\ UNCHANGED jobState
    BY <1>5, <2>1 DEF ExecuteJob, TypeOK
  <2> QED BY <2>2, <2>3 DEF RowsKnown
<1>6. ASSUME NEW k \in Ticks, TickStep(k), ~EndTick(k), ~ExecuteJob(k) PROVE RowsKnown'
  <2>1. CASE Forget BY <1>2, <2>1
  <2>2. ASSUME NEW place \in Pc, GoTo(k, place), UNCHANGED <<row, due>>
        PROVE  RowsKnown'
    <3>1. pc[k] \notin {"idle", "loop"} /\ UNCHANGED jobState BY <1>6, TickShape
    <3> QED BY <2>2, <3>1 DEF GoTo, RowsKnown, TypeOK
  <2> QED BY <1>6, <2>1, <2>2, TickShape
<1> QED BY <1>1, <1>2, <1>3, <1>4, <1>5, <1>6, OutsideShape DEF Crash

(* Tick k is the one that acts.                                             *)
LEMMA OnlyTick ==
  ASSUME TypeOK, OneTick, NEW k \in Ticks, NEW l \in Ticks, StartTick(l) \/ TickStep(l),
         pc[k] # "idle"
  PROVE  l = k /\ TickStep(k)
<1>1. ~StartTick(l) BY DEF StartTick, OneTick
<1>2. TickStep(l) => pc[l] # "idle"
  BY DEF TickStep, EndTick, ExecuteJob, Check, Skip, Submit, RecordSubmitted, Advance,
         RecordFailed, Count, Disable, Reschedule
<1> QED BY <1>1, <1>2 DEF OneTick

LEMMA KnownInvStep == SchedInv /\ KnownInv /\ [Next]_vars => KnownInv'
  BY RowsKnownStep, BlankStep DEF SchedInv, KnownInv

LEMMA KnownInvInit == Init => KnownInv
  BY DEF Init, KnownInv, RowsKnown, Blank

-----------------------------------------------------------------------------
(* The breaker, as long as operators leave the jobs alone and the process   *)
(* does not crash.                                                          *)
Untouched == edits = 0 /\ crashes = 0

(* A tick has one row for each job that is due, and none when it is over.   *)
OneRowEach ==
  \A k \in Ticks :
    /\ pc[k] = "idle" => due[k] = {}
    /\ \A d, e \in due[k] : d.job = e.job => d = e
    /\ pc[k] \notin {"idle", "loop"} => \A d \in due[k] : d.job # row[k].job

Active(j) == jobState[j] = "stored" /\ enabled[j]

(* Whatever a tick works on, or still has to, is stored and enabled; a tick *)
(* that is about to disable a job counted enough failures; and the breaker  *)
(* is exact for every job no tick is about to decide on.                    *)
ExactInv ==
  /\ OneRowEach
  /\ \A k \in Ticks : pc[k] \notin {"idle", "loop"} => Active(row[k].job)
  /\ \A k \in Ticks : \A d \in due[k] : Active(d.job)
  /\ \A k \in Ticks : pc[k] = "disable" => ~(CountRecentFailures(row[k].job) < FailureLimit)
  /\ \A j \in Jobs : ~BreakerAtWork(j) => (enabled[j] <=> CountRecentFailures(j) < FailureLimit)

LEMMA CountIsNat == ASSUME TypeOK, NEW j \in Jobs PROVE CountRecentFailures(j) \in Nat
<1>1. Len(history[j]) \in Nat BY DEF TypeOK
<1>2. IsFiniteSet(1..Len(history[j])) BY <1>1, FS_Interval
<1>3. \A S \in SUBSET (1..Len(history[j])) : Cardinality(S) \in Nat
  BY <1>2, FS_Subset, FS_CardinalityType
<1>4. {i \in 1..Len(history[j]) : i > Len(history[j]) - RecentWindow
                                 /\ history[j][i].status = "failed"} \in SUBSET (1..Len(history[j]))
  OBVIOUS
<1> QED BY <1>3, <1>4 DEF CountRecentFailures

(* An execution that did not fail does not raise the count.                 *)
LEMMA CountFalls ==
  ASSUME TypeOK, NEW k \in Ticks, row[k] \in Row, NEW r, NEW status, status # "failed",
         Record(k, status, r), NEW j \in Jobs, j = row[k].job, CountRecentFailures(j) < FailureLimit
  PROVE  CountRecentFailures(j)' < FailureLimit
<1>2. PICK n : n = Len(history[row[k].job]) OBVIOUS
<1>3. /\ n \in Nat /\ Len(history'[j]) = n + 1
      /\ history'[j][n + 1].status = status
      /\ \A i \in 1..n : history'[j][i] = history[j][i]
  <2>1. /\ n \in Nat
        /\ Len(history'[row[k].job]) = n + 1
        /\ history'[row[k].job][n + 1] = [status |-> status, run |-> r, at |-> now[k]]
        /\ \A i \in 1..n : history'[row[k].job][i] = history[row[k].job][i]
    BY <1>2, RecordAppends
  <2> QED BY <2>1
<1> DEFINE before == {i \in 1..n : i > n - RecentWindow /\ history[j][i].status = "failed"}
           after  == {i \in 1..(n + 1) : i > (n + 1) - RecentWindow /\ history'[j][i].status = "failed"}
<1>4. CountRecentFailures(j) = Cardinality(before) BY <1>2 DEF CountRecentFailures
<1>5. CountRecentFailures(j)' = Cardinality(after) BY <1>3 DEF CountRecentFailures
<1>6. after \subseteq before
  <2> SUFFICES ASSUME NEW i \in after PROVE i \in before OBVIOUS
  <2>1. i \in 1..(n + 1) /\ i > (n + 1) - RecentWindow /\ history'[j][i].status = "failed" OBVIOUS
  <2>2. i # n + 1 BY <1>3, <2>1
  <2>3. i \in 1..n BY <1>3, <2>1, <2>2
  <2>4. history[j][i].status = "failed" BY <1>3, <2>1, <2>3
  <2>5. i > n - RecentWindow BY <1>3, <2>1 DEF RecentWindow
  <2> QED BY <2>3, <2>4, <2>5
<1>7. IsFiniteSet(before)
  <2>1. IsFiniteSet(1..n) BY <1>3, FS_Interval
  <2>2. before \in SUBSET (1..n) OBVIOUS
  <2> QED BY <2>1, <2>2, FS_Subset
<1>8. Cardinality(after) <= Cardinality(before) BY <1>6, <1>7, FS_Subset
<1>9. Cardinality(before) \in Nat /\ Cardinality(after) \in Nat
  <2>1. IsFiniteSet(after) BY <1>6, <1>7, FS_Subset
  <2> QED BY <1>7, <2>1, FS_CardinalityType
<1>10. Cardinality(before) < FailureLimit BY <1>4
<1> HIDE DEF before, after
<1>11. Cardinality(after) < FailureLimit BY <1>8, <1>9, <1>10 DEF FailureLimit
<1> QED BY <1>5, <1>11

(* Edits and crashes are counted for good.                                  *)
LEMMA UntouchedBefore ==
  ASSUME TypeOK, [Next]_vars, Untouched'
  PROVE  Untouched /\ ~Crash /\ \A j \in Jobs : ~UpdateJob(j) /\ ~DeleteJob(j)
<1>0. edits \in Nat /\ crashes \in Nat BY SchedulerAssumption DEF TypeOK
<1>1. ~Crash BY <1>0 DEF Crash, Untouched
<1>2. \A j \in Jobs : ~UpdateJob(j) /\ ~DeleteJob(j) BY <1>0 DEF UpdateJob, DeleteJob, Untouched
<1>3. \A k \in Ticks : StartTick(k) \/ TickStep(k) => UNCHANGED <<edits, crashes>>
  BY DEF StartTick, TickStep, EndTick, ExecuteJob, Check, Skip, Submit, RecordSubmitted, Advance,
         RecordFailed, Count, Disable, Reschedule
<1> QED BY <1>1, <1>2, <1>3 DEF Next, Gateway, CreateJob, RunEnds, TimePasses, Restart, vars, Untouched

(* Steps outside the ticks that take no job away.                           *)
LEMMA ExactOutside ==
  ASSUME TypeOK, HasRow, ExactInv, UNCHANGED <<pc, row, due, history, enabled>>,
         \A j \in Jobs : jobState[j] = "stored" => jobState'[j] = "stored"
  PROVE  ExactInv'
<1>1. \A j \in Jobs : Active(j) => Active(j)' BY DEF Active
<1>2. \A k \in Ticks : \A d \in due[k] : d.job \in Jobs BY DEF TypeOK, Row
<1>3. \A k \in Ticks : pc[k] \notin {"idle", "loop"} => row[k].job \in Jobs BY DEF HasRow, Row
<1>4. OneRowEach' BY DEF ExactInv, OneRowEach
<1>5. \A k \in Ticks : pc'[k] \notin {"idle", "loop"} => Active(row[k].job)'
  BY <1>1, <1>3 DEF ExactInv
<1>6. \A k \in Ticks : \A d \in due'[k] : Active(d.job)' BY <1>1, <1>2 DEF ExactInv
<1>7. \A j \in Jobs : CountRecentFailures(j)' = CountRecentFailures(j) BY DEF CountRecentFailures
<1>8. \A k \in Ticks : pc'[k] = "disable" => ~(CountRecentFailures(row[k].job)' < FailureLimit)
  BY <1>3, <1>7 DEF ExactInv
<1>9. \A j \in Jobs : ~BreakerAtWork(j)' => (enabled'[j] <=> CountRecentFailures(j)' < FailureLimit)
  BY <1>7 DEF ExactInv, BreakerAtWork
<1> QED BY <1>4, <1>5, <1>6, <1>8, <1>9 DEF ExactInv

(* The tick goes on; what it found, or the breaker decided, stands.         *)
LEMMA ExactMoves ==
  ASSUME TypeOK, TypeOK', OneTick, HasRow, ExactInv, NEW k \in Ticks, NEW place \in Pc, GoTo(k, place),
         place # "idle", place # "count", pc[k] \notin {"idle", "loop"},
         UNCHANGED <<row, due, jobState>>,
         NEW j \in Jobs, j = row[k].job,
         \A i \in Jobs : i # j => UNCHANGED <<history[i], enabled[i]>>,
         place = "loop" \/ enabled'[j],
         IF place = "disable" THEN ~(CountRecentFailures(j)' < FailureLimit)
         ELSE enabled'[j] <=> CountRecentFailures(j)' < FailureLimit
  PROVE  ExactInv'
<1>1. pc'[k] = place /\ \A l \in Ticks : l # k => pc[l] = "idle" /\ pc'[l] = "idle"
  BY DEF GoTo, OneTick, TypeOK
<1>2. OneRowEach' BY <1>1 DEF ExactInv, OneRowEach
<1>3. \A l \in Ticks : pc'[l] \notin {"idle", "loop"} => Active(row[l].job)'
  BY <1>1 DEF ExactInv, Active
<1>4. \A l \in Ticks : \A d \in due'[l] : Active(d.job)'
  <2> SUFFICES ASSUME NEW l \in Ticks, NEW d \in due[l] PROVE Active(d.job)' OBVIOUS
  <2>1. d.job \in Jobs /\ Active(d.job) BY DEF ExactInv, TypeOK, Row
  <2>2. d.job # j BY <1>1 DEF ExactInv, OneRowEach
  <2> QED BY <2>1, <2>2 DEF Active
<1>5. \A i \in Jobs : i # j => CountRecentFailures(i)' = CountRecentFailures(i)
  BY DEF CountRecentFailures
<1>6. \A l \in Ticks : pc'[l] = "disable" => ~(CountRecentFailures(row[l].job)' < FailureLimit)
  BY <1>1
<1>7. \A i \in Jobs : ~BreakerAtWork(i)' => (enabled'[i] <=> CountRecentFailures(i)' < FailureLimit)
  <2> SUFFICES ASSUME NEW i \in Jobs, ~BreakerAtWork(i)'
               PROVE  enabled'[i] <=> CountRecentFailures(i)' < FailureLimit
    OBVIOUS
  <2>1. CASE i = j BY <1>1, <2>1 DEF BreakerAtWork
  <2>2. CASE i # j
    <3>1. ~BreakerAtWork(i) BY <1>1, <2>2 DEF BreakerAtWork
    <3> QED BY <1>5, <2>2, <3>1 DEF ExactInv
  <2> QED BY <2>1, <2>2
<1> QED BY <1>2, <1>3, <1>4, <1>6, <1>7 DEF ExactInv

LEMMA ExactStarts ==
  ASSUME TypeOK, OneTick, ExactInv, NEW k \in Ticks, StartTick(k) PROVE ExactInv'
<1>1. \A l \in Ticks : pc[l] = "idle" BY DEF OneTick, StartTick
<1>2. /\ pc'[k] = "loop" /\ due'[k] = DueRows
      /\ \A l \in Ticks : l # k => pc'[l] = "idle" /\ due'[l] = {}
      /\ UNCHANGED <<row, history, enabled, jobState>>
  BY <1>1 DEF StartTick, GoTo, TypeOK, ExactInv, OneRowEach
<1>3. \A d \in DueRows : Active(d.job) BY DEF DueRows, IsDue, Active
<1>4. \A d, e \in DueRows : d.job = e.job => d = e BY DEF DueRows
<1>5. OneRowEach' BY <1>2, <1>4 DEF OneRowEach
<1>6. \A l \in Ticks : \A d \in due'[l] : Active(d.job)' BY <1>2, <1>3 DEF Active
<1>7. \A j \in Jobs : ~BreakerAtWork(j)' => (enabled'[j] <=> CountRecentFailures(j)' < FailureLimit)
  <2>1. \A j \in Jobs : CountRecentFailures(j)' = CountRecentFailures(j) BY <1>2 DEF CountRecentFailures
  <2>2. \A j \in Jobs : ~BreakerAtWork(j) BY <1>1 DEF BreakerAtWork
  <2> QED BY <1>2, <2>1, <2>2 DEF ExactInv
<1> QED BY <1>2, <1>5, <1>6, <1>7 DEF ExactInv

LEMMA ExactLoops ==
  ASSUME TypeOK, OneTick, ExactInv, NEW k \in Ticks, EndTick(k) \/ ExecuteJob(k) PROVE ExactInv'
<1>1. pc[k] = "loop" /\ \A l \in Ticks : l # k => pc[l] = "idle"
  BY DEF EndTick, ExecuteJob, OneTick
<1>2. UNCHANGED <<history, enabled, jobState>> BY DEF EndTick, ExecuteJob
<1>3. \A j \in Jobs : enabled'[j] <=> CountRecentFailures(j)' < FailureLimit
  <2>1. \A j \in Jobs : CountRecentFailures(j)' = CountRecentFailures(j) BY <1>2 DEF CountRecentFailures
  <2>2. \A j \in Jobs : ~BreakerAtWork(j) BY <1>1 DEF BreakerAtWork
  <2> QED BY <1>2, <2>1, <2>2 DEF ExactInv
<1>4. CASE EndTick(k)
  <2>1. pc'[k] = "idle" /\ due[k] = {} /\ UNCHANGED due
        /\ \A l \in Ticks : l # k => pc'[l] = "idle"
    BY <1>1, <1>4 DEF EndTick, GoTo, TypeOK
  <2>2. \A l \in Ticks : due'[l] = {} BY <1>1, <2>1 DEF ExactInv, OneRowEach
  <2>3. OneRowEach' BY <2>2 DEF OneRowEach
  <2> QED BY <1>3, <2>1, <2>2, <2>3 DEF ExactInv
<1>5. CASE ExecuteJob(k)
  <2>1. PICK d \in due[k] :
          /\ due' = [due EXCEPT ![k] = @ \ {d}]
          /\ row' = [row EXCEPT ![k] = d]
          /\ GoTo(k, IF d.concurrent THEN "submit" ELSE "check")
    BY <1>5 DEF ExecuteJob
  <2>2. /\ pc'[k] \in {"submit", "check"} /\ due'[k] = due[k] \ {d} /\ row'[k] = d
        /\ \A l \in Ticks : l # k => pc'[l] = "idle" /\ due'[l] = due[l]
    BY <1>1, <2>1 DEF GoTo, TypeOK
  <2>3. \A l \in Ticks : l # k => due'[l] = {} BY <1>1, <2>2 DEF ExactInv, OneRowEach
  <2>4. OneRowEach' BY <2>2, <2>3 DEF ExactInv, OneRowEach
  <2>5. \A e \in due[k] : Active(e.job)' BY <1>2 DEF ExactInv, Active
  <2>6. \A l \in Ticks : pc'[l] \notin {"idle", "loop"} => Active(row[l].job)'
    <3>1. Active(row[k].job)' BY <1>2, <2>2, <2>5 DEF Active
    <3> QED BY <2>2, <3>1
  <2>7. \A l \in Ticks : \A e \in due'[l] : Active(e.job)' BY <2>2, <2>3, <2>5
  <2> QED BY <1>3, <2>2, <2>4, <2>6, <2>7 DEF ExactInv
<1> QED BY <1>4, <1>5

LEMMA ExactTick ==
  ASSUME SchedInv, TypeOK', ExactInv, NEW k \in Ticks, StartTick(k) \/ TickStep(k) PROVE ExactInv'
<1>0. TypeOK /\ OneTick /\ HasRow BY DEF SchedInv
<1>1. CASE StartTick(k) BY <1>0, <1>1, ExactStarts
<1>2. CASE EndTick(k) \/ ExecuteJob(k) BY <1>0, <1>2, ExactLoops
<1>3. CASE TickStep(k) /\ ~EndTick(k) /\ ~ExecuteJob(k)
  <2>1. pc[k] \notin {"idle", "loop"} BY <1>3, TickShape
  <2>2. row[k] \in Row BY <1>0, <2>1 DEF HasRow
  <2>3. PICK j \in Jobs : j = row[k].job BY <2>2 DEF Row
  <2>4. jobState[j] = "stored" /\ enabled[j] BY <2>1, <2>3 DEF ExactInv, Active
  <2>5. BreakerAtWork(j) => pc[k] \in {"count", "disable"}
    BY <1>0, <2>1 DEF BreakerAtWork, OneTick
  <2>6. pc[k] \notin {"count", "disable"} => CountRecentFailures(j) < FailureLimit
    BY <2>4, <2>5 DEF ExactInv
  <2>7. CountRecentFailures(j)' = CountRecentFailures(j) \/ history' # history
    BY DEF CountRecentFailures
  <2> USE <1>0, <2>1, <2>2, <2>3, <2>4, <2>6
  <2>8. CASE Check(k)
    BY <2>7, <2>8, ExactMoves DEF Check, Pc
  <2>9. CASE Submit(k)
    BY <2>7, <2>9, ExactMoves DEF Submit, Pc
  <2>10. CASE Advance(k)
    BY <2>7, <2>10, ExactMoves DEF Advance, Pc
  <2>11. CASE Reschedule(k)
    BY <2>7, <2>11, ExactMoves DEF Reschedule, Pc
  <2>12. ASSUME NEW status, NEW r, Record(k, status, r), NEW i \in Jobs, i # j
         PROVE  history'[i] = history[i]
    BY <2>12 DEF Record, TypeOK
  <2>13. CASE Skip(k)
    <3>1. Record(k, "skipped", NoRun) /\ GoTo(k, "reschedule") /\ UNCHANGED <<row, due, jobState, enabled>>
      BY <2>13 DEF Skip, RecordRefused
    <3>2. CountRecentFailures(j)' < FailureLimit BY <2>13, <3>1, CountFalls DEF Skip
    <3> QED BY <2>12, <3>1, <3>2, ExactMoves DEF Pc
  <2>14. CASE RecordSubmitted(k)
    <3>1. CASE Record(k, "submitted", run[k]) /\ GoTo(k, "advance")
      <4>1. CountRecentFailures(j)' < FailureLimit BY <2>14, <3>1, CountFalls DEF RecordSubmitted
      <4>2. UNCHANGED <<row, due, jobState, enabled>> BY <2>14 DEF RecordSubmitted
      <4> QED BY <2>12, <3>1, <4>1, <4>2, ExactMoves DEF Pc
    <3>2. CASE GoTo(k, "recordFailed") /\ UNCHANGED history
      BY <2>7, <2>14, <3>2, ExactMoves DEF RecordSubmitted, Pc
    <3> QED BY <2>14, <3>1, <3>2 DEF RecordSubmitted
  <2>15. CASE RecordFailed(k)
    <3>1. Record(k, "failed", NoRun) /\ GoTo(k, "count") /\ UNCHANGED <<row, due, jobState, enabled>>
      BY <2>15 DEF RecordFailed, RecordRefused
    <3>2. pc'[k] = "count" /\ \A l \in Ticks : l # k => pc[l] = "idle" /\ pc'[l] = "idle"
      BY <3>1 DEF GoTo, OneTick, TypeOK
    <3>3. OneRowEach' BY <3>1, <3>2 DEF ExactInv, OneRowEach
    <3>4. \A l \in Ticks : \A d \in due'[l] : Active(d.job)' BY <3>1 DEF ExactInv, Active
    <3>5. \A i \in Jobs : ~BreakerAtWork(i)' => (enabled'[i] <=> CountRecentFailures(i)' < FailureLimit)
      <4> SUFFICES ASSUME NEW i \in Jobs, ~BreakerAtWork(i)'
                   PROVE  enabled'[i] <=> CountRecentFailures(i)' < FailureLimit
        OBVIOUS
      <4>1. i # j BY <3>1, <3>2 DEF BreakerAtWork
      <4>2. history'[i] = history[i] BY <2>12, <3>1, <4>1
      <4>3. CountRecentFailures(i)' = CountRecentFailures(i) BY <4>2 DEF CountRecentFailures
      <4>4. ~BreakerAtWork(i) BY <3>2, <4>1 DEF BreakerAtWork
      <4> QED BY <3>1, <4>3, <4>4 DEF ExactInv
    <3>6. \A l \in Ticks : pc'[l] \notin {"idle", "loop"} => Active(row[l].job)'
      BY <3>1, <3>2 DEF Active
    <3> QED BY <3>2, <3>3, <3>4, <3>5, <3>6 DEF ExactInv
  <2>16. CASE Count(k)
    <3>1. UNCHANGED <<row, due, jobState, enabled, history>> BY <2>16 DEF Count
    <3>2. CountRecentFailures(j) \in Nat BY CountIsNat
    <3>3. CASE CountRecentFailures(j) >= FailureLimit
      <4>1. GoTo(k, "disable") BY <2>16, <3>3 DEF Count
      <4>2. ~(CountRecentFailures(j) < FailureLimit) BY <3>2, <3>3 DEF FailureLimit
      <4> QED BY <2>7, <3>1, <4>1, <4>2, ExactMoves DEF Pc
    <3>4. CASE ~(CountRecentFailures(j) >= FailureLimit)
      <4>1. GoTo(k, "reschedule") BY <2>16, <3>4 DEF Count
      <4>2. CountRecentFailures(j) < FailureLimit BY <3>2, <3>4 DEF FailureLimit
      <4> QED BY <2>7, <3>1, <4>1, <4>2, ExactMoves DEF Pc
    <3> QED BY <3>3, <3>4
  <2>17. CASE Disable(k)
    <3>1. /\ enabled'[j] = FALSE /\ (\A i \in Jobs : i # j => enabled'[i] = enabled[i])
          /\ GoTo(k, "loop") /\ UNCHANGED <<row, due, jobState, history>>
      BY <2>17 DEF Disable, TypeOK
    <3>2. ~(CountRecentFailures(j) < FailureLimit) BY <2>17 DEF Disable, ExactInv
    <3> QED BY <2>7, <3>1, <3>2, ExactMoves DEF Pc
  <2> QED BY <1>3, <2>8, <2>9, <2>10, <2>11, <2>13, <2>14, <2>15, <2>16, <2>17 DEF TickStep
<1> QED BY <1>1, <1>2, <1>3

LEMMA ExactStep == SchedInv /\ (Untouched => ExactInv) /\ [Next]_vars => (Untouched => ExactInv)'
<1> SUFFICES ASSUME SchedInv, Untouched => ExactInv, [Next]_vars, Untouched' PROVE ExactInv'
  OBVIOUS
<1>0. TypeOK /\ HasRow BY DEF SchedInv
<1>1. ExactInv /\ ~Crash /\ \A j \in Jobs : ~UpdateJob(j) /\ ~DeleteJob(j) BY <1>0, UntouchedBefore
<1>2. TypeOK' BY <1>0, TypeStep
<1>3. ASSUME NEW k \in Ticks, StartTick(k) \/ TickStep(k) PROVE ExactInv'
  BY <1>1, <1>2, <1>3, ExactTick
<1>4. ASSUME NEW i \in Jobs, CreateJob(i) PROVE ExactInv'
  <2>1. UNCHANGED <<pc, row, due, history, enabled>> BY <1>4 DEF CreateJob
  <2>2. \A j \in Jobs : jobState[j] = "stored" => jobState'[j] = "stored"
    BY <1>0, <1>4 DEF CreateJob, InsertJob, TypeOK
  <2> QED BY <1>0, <1>1, <2>1, <2>2, ExactOutside
<1>5. CASE UNCHANGED <<pc, row, due, history, enabled, jobState>>
  BY <1>0, <1>1, <1>5, ExactOutside
<1>6. ASSUME NEW r \in Runs, RunEnds(r) PROVE ExactInv' BY <1>5, <1>6 DEF RunEnds
<1>7. CASE TimePasses \/ Restart \/ UNCHANGED vars
  BY <1>5, <1>7 DEF TimePasses, Restart, vars
<1> QED BY <1>1, <1>3, <1>4, <1>6, <1>7 DEF Next, Gateway

(* As long as nobody edits a job and the process does not crash, for any    *)
(* number of jobs, callbacks, failures and lost answers, a job is enabled   *)
(* just if fewer than three of its five latest executions failed            *)
(* (scheduler.ts 205-222).                                                  *)
THEOREM BreakerTripsExactly == Spec => []BreakerIsExact
<1>1. Init => ExactInv
  <2> SUFFICES ASSUME Init PROVE ExactInv OBVIOUS
  <2>1. \A j \in Jobs : enabled[j] /\ history[j] = <<>> BY DEF Init
  <2>2. \A j \in Jobs : CountRecentFailures(j) = 0
    <3> SUFFICES ASSUME NEW j \in Jobs PROVE CountRecentFailures(j) = 0 OBVIOUS
    <3>1. Len(history[j]) = 0 BY <2>1
    <3>2. {i \in 1..Len(history[j]) : i > Len(history[j]) - RecentWindow
                                      /\ history[j][i].status = "failed"} = {}
      BY <3>1
    <3> QED BY <3>2, FS_EmptySet DEF CountRecentFailures
  <2>3. \A j \in Jobs : CountRecentFailures(j) < FailureLimit BY <2>2 DEF FailureLimit
  <2> QED BY <2>1, <2>3 DEF Init, ExactInv, OneRowEach
<1>2. (Untouched => ExactInv) => BreakerIsExact BY DEF ExactInv, BreakerIsExact, Untouched
<1> QED BY <1>1, <1>2, ExactStep, SchedInvariant, PTL DEF Spec

-----------------------------------------------------------------------------
(* A firing time is acted on once, as long as nothing fails.                *)
Calm == faults = 0 /\ crashes = 0

(* All executions of job j are scheduled before time t.                     *)
Before(j, t) == \A i \in 1..Len(history[j]) : history[j][i].at < t

(* Nothing has been scheduled for the future,                               *)
InThePast ==
  /\ \A j \in Jobs : \A i \in 1..Len(history[j]) : history[j][i].at <= clock
  /\ \A k \in Ticks : now[k] <= clock

(* a job fires next after what it was last executed for, unless a tick is   *)
(* about to write that down,                                                *)
NextIsLater ==
  \A j \in Jobs : jobState[j] = "stored" =>
    \/ \E k \in Ticks : pc[k] \in {"advance", "reschedule"} /\ row[k].job = j
    \/ Before(j, nextRun[j])

(* and whatever it has yet to record comes after all that is recorded.      *)
YetToRecord ==
  \A k \in Ticks :
    /\ \A d \in due[k] : Before(d.job, now[k])
    /\ pc[k] \in {"check", "skip", "submit", "record"} => Before(row[k].job, now[k])
    /\ pc[k] = "recordFailed" => jobState[row[k].job] = "deleted"
    /\ pc[k] \notin {"count", "disable"}

FiringInv == InThePast /\ NextIsLater /\ OneRowEach /\ YetToRecord /\ Ascending

CalmInv == Calm => FiringInv

LEMMA NextMultiple ==
  ASSUME NEW c \in Nat, NEW p \in Nat, p > 0 PROVE c < (c \div p + 1) * p
  BY SMT

LEMMA NextRunLater ==
  ASSUME clock \in Nat, NEW p \in Periods
  PROVE  CalculateNextRun(p) \in Nat /\ CalculateNextRun(p) > clock
<1>1. p \in Nat /\ p > 0 BY SchedulerAssumption
<1>2. clock < CalculateNextRun(p) BY <1>1, NextMultiple DEF CalculateNextRun
<1> QED BY <1>2, NextRunType

LEMMA TimesAreNumbers ==
  ASSUME TypeOK
  PROVE  /\ clock \in Nat
         /\ \A k \in Ticks : now[k] \in Nat
         /\ \A j \in Jobs : nextRun[j] \in Nat /\ Len(history[j]) \in Nat
         /\ \A j \in Jobs : \A i \in 1..Len(history[j]) : history[j][i].at \in Nat
<1>1. Times \subseteq Nat BY SchedulerAssumption DEF Times
<1>2. ASSUME NEW j \in Jobs, NEW i \in 1..Len(history[j]) PROVE history[j][i].at \in Nat
  <2>1. history[j] \in Seq(Execution) BY DEF TypeOK
  <2>2. history[j][i] \in Execution BY <2>1
  <2> QED BY <1>1, <2>2 DEF Execution
<1>3. \A j \in Jobs : Len(history[j]) \in Nat BY DEF TypeOK
<1> QED BY <1>1, <1>2, <1>3 DEF TypeOK

(* Failures are counted for good.                                           *)
LEMMA CalmBefore ==
  ASSUME TypeOK, [Next]_vars, Calm' PROVE Calm /\ ~Crash /\ ~Throws
<1>1. ~Throws BY SchedulerAssumption DEF Throws, Calm, TypeOK
<1>2. ~Crash BY SchedulerAssumption DEF Crash, Calm, TypeOK
<1>3. ASSUME NEW k \in Ticks, StartTick(k) \/ TickStep(k) PROVE UNCHANGED <<faults, crashes>>
  <2>1. CASE Submit(k) BY <1>1, <2>1 DEF Submit, Succeeds
  <2>2. CASE RecordSubmitted(k) BY <1>1, <2>2 DEF RecordSubmitted, Succeeds
  <2>3. CASE Advance(k) BY <1>1, <2>3 DEF Advance, Succeeds
  <2> QED BY <1>3, <2>1, <2>2, <2>3 DEF StartTick, TickStep, EndTick, ExecuteJob, Check, Skip,
        RecordFailed, Count, Disable, Reschedule
<1>4. UNCHANGED <<faults, crashes>> BY <1>2, <1>3, OutsideShape
<1> QED BY <1>1, <1>2, <1>4 DEF Calm

(* Steps that leave the ticks alone, add no executions and move a firing    *)
(* time only into the future.                                               *)
LEMMA FiringOutside ==
  ASSUME TypeOK, TypeOK', HasRow, FiringInv, UNCHANGED <<pc, row, due, now>>, clock' >= clock,
         \A j \in Jobs : history'[j] = history[j] \/ history'[j] = <<>>,
         \A j \in Jobs : jobState'[j] = "stored" =>
            \/ jobState[j] = "stored" /\ nextRun'[j] = nextRun[j]
            \/ nextRun'[j] > clock
            \/ history'[j] = <<>>,
         \A j \in Jobs : jobState[j] = "deleted" => jobState'[j] = "deleted"
  PROVE  FiringInv'
<1> USE DEF FiringInv
<1>0. /\ clock \in Nat /\ clock' \in Nat
      /\ \A k \in Ticks : now[k] \in Nat
      /\ \A j \in Jobs : nextRun[j] \in Nat /\ nextRun'[j] \in Nat
      /\ \A j \in Jobs : \A i \in 1..Len(history[j]) : history[j][i].at \in Nat
  <2>1. Times \subseteq Nat BY SchedulerAssumption DEF Times
  <2> QED BY <2>1, TimesAreNumbers DEF TypeOK
<1>1. ASSUME NEW j \in Jobs, NEW i \in 1..Len(history'[j])
      PROVE  history'[j] = history[j] /\ i \in 1..Len(history[j])
  <2>1. CASE history'[j] = history[j] BY <2>1
  <2>2. CASE history'[j] = <<>>
    <3>1. Len(history'[j]) = 0 BY <2>2
    <3> QED BY <3>1
  <2> QED BY <2>1, <2>2
<1>2. \A j \in Jobs, t \in Nat : Before(j, t) => Before(j, t)' BY <1>1 DEF Before
<1>3. InThePast' BY <1>0, <1>1 DEF InThePast
<1>4. NextIsLater'
  <2> SUFFICES ASSUME NEW j \in Jobs, jobState'[j] = "stored",
                      ~ \E k \in Ticks : pc[k] \in {"advance", "reschedule"} /\ row[k].job = j
               PROVE  Before(j, nextRun[j])'
    BY DEF NextIsLater
  <2>1. CASE jobState[j] = "stored" /\ nextRun'[j] = nextRun[j]
    BY <1>0, <1>2, <2>1 DEF NextIsLater, Before
  <2>2. CASE nextRun'[j] > clock
    BY <1>0, <1>1, <2>2 DEF InThePast, Before
  <2>3. CASE history'[j] = <<>>
    <3>1. Len(history'[j]) = 0 BY <2>3
    <3> QED BY <3>1 DEF Before
  <2> QED BY <2>1, <2>2, <2>3
<1>5. OneRowEach' BY DEF OneRowEach
<1>6. YetToRecord'
  <2> SUFFICES ASSUME NEW k \in Ticks
               PROVE  /\ \A d \in due[k] : Before(d.job, now[k])'
                      /\ pc[k] \in {"check", "skip", "submit", "record"} => Before(row[k].job, now[k])'
                      /\ pc[k] = "recordFailed" => jobState'[row[k].job] = "deleted"
                      /\ pc[k] \notin {"count", "disable"}
    BY DEF YetToRecord, Before
  <2>1. \A d \in due[k] : d.job \in Jobs BY DEF TypeOK, Row
  <2>2. pc[k] \notin {"idle", "loop"} => row[k].job \in Jobs BY DEF HasRow, Row
  <2>3. \A d \in due[k] : Before(d.job, now[k])' BY <1>1, <2>1 DEF YetToRecord, Before
  <2>4. pc[k] \in {"check", "skip", "submit", "record"} => Before(row[k].job, now[k])'
    BY <1>1, <2>2 DEF YetToRecord, Before
  <2> QED BY <2>2, <2>3, <2>4 DEF YetToRecord
<1>7. Ascending' BY <1>1 DEF Ascending
<1> QED BY <1>3, <1>4, <1>5, <1>6, <1>7

(* Steps of the tick that neither record nor reschedule.                    *)
LEMMA FiringMoves ==
  ASSUME TypeOK, OneTick, FiringInv, NEW k \in Ticks,
         NEW place \in {"skip", "submit", "record", "recordFailed"}, GoTo(k, place),
         pc[k] \in {"check", "skip", "submit", "record"},
         place = "recordFailed" => jobState[row[k].job] = "deleted",
         UNCHANGED <<clock, jobState, nextRun, history, row, due, now>>
  PROVE  FiringInv'
<1> USE DEF FiringInv
<1>1. pc'[k] = place /\ \A l \in Ticks : l # k => pc[l] = "idle" /\ pc'[l] = "idle"
  BY DEF GoTo, OneTick, TypeOK
<1>2. InThePast' BY DEF InThePast
<1>3. NextIsLater'
  <2> SUFFICES ASSUME NEW j \in Jobs, jobState[j] = "stored" PROVE Before(j, nextRun[j])'
    BY DEF NextIsLater
  <2>1. ~ \E l \in Ticks : pc[l] \in {"advance", "reschedule"} /\ row[l].job = j BY <1>1
  <2> QED BY <2>1 DEF NextIsLater, Before
<1>4. OneRowEach' BY <1>1 DEF OneRowEach
<1>5. YetToRecord' BY <1>1 DEF YetToRecord, Before
<1>6. Ascending' BY DEF Ascending
<1> QED BY <1>2, <1>3, <1>4, <1>5, <1>6

(* The tick records what it did for a job.                                  *)
LEMMA FiringRecords ==
  ASSUME TypeOK, OneTick, HasRow, FiringInv, NEW k \in Ticks, NEW status, NEW r,
         Record(k, status, r),
         NEW place \in {"advance", "reschedule"}, GoTo(k, place), pc[k] \in {"skip", "record"},
         UNCHANGED <<clock, jobState, nextRun, row, due, now>>
  PROVE  FiringInv'
<1> USE DEF FiringInv
<1>0. /\ clock \in Nat
      /\ \A l \in Ticks : now[l] \in Nat
      /\ \A j \in Jobs : \A i \in 1..Len(history[j]) : history[j][i].at \in Nat
  BY TimesAreNumbers
<1>1. pc'[k] = place /\ \A l \in Ticks : l # k => pc[l] = "idle" /\ pc'[l] = "idle" /\ due[l] = {}
  BY DEF GoTo, OneTick, TypeOK, OneRowEach
<1>2. row[k] \in Row BY DEF HasRow
<1>3. PICK n : n = Len(history[row[k].job]) OBVIOUS
<1>4. PICK j \in Jobs : j = row[k].job BY <1>2 DEF Row
<1>5. /\ n \in Nat
      /\ Len(history'[j]) = n + 1
      /\ history'[j][n + 1].at = now[k]
      /\ \A i \in 1..n : history'[j][i] = history[j][i]
      /\ \A h \in Jobs : h # j => history'[h] = history[h]
  <2>1. /\ n \in Nat
        /\ Len(history'[row[k].job]) = n + 1
        /\ history'[row[k].job][n + 1] = [status |-> status, run |-> r, at |-> now[k]]
        /\ \A i \in 1..n : history'[row[k].job][i] = history[row[k].job][i]
        /\ \A h \in Jobs : h # row[k].job => history'[h] = history[h]
    BY <1>2, <1>3, RecordAppends
  <2> QED BY <1>4, <2>1
<1>6. \A i \in 1..n : history[j][i].at < now[k]
  BY <1>3, <1>4 DEF YetToRecord, Before
<1>7. InThePast'
  <2>1. ASSUME NEW h \in Jobs, NEW i \in 1..Len(history'[h]) PROVE history'[h][i].at <= clock
    <3>1. CASE h # j BY <1>5, <2>1, <3>1 DEF InThePast
    <3>2. CASE h = j /\ i = n + 1 BY <1>5, <3>2 DEF InThePast
    <3>3. CASE h = j /\ i # n + 1
      <4>1. i \in 1..n BY <1>5, <2>1, <3>3
      <4> QED BY <1>3, <1>4, <1>5, <3>3, <4>1 DEF InThePast
    <3> QED BY <3>1, <3>2, <3>3
  <2> QED BY <2>1 DEF InThePast
<1>8. NextIsLater'
  <2> SUFFICES ASSUME NEW h \in Jobs, jobState[h] = "stored", h # j PROVE Before(h, nextRun[h])'
    BY <1>1, <1>4 DEF NextIsLater
  <2>1. ~ \E l \in Ticks : pc[l] \in {"advance", "reschedule"} /\ row[l].job = h BY <1>1
  <2> QED BY <1>5, <2>1 DEF NextIsLater, Before
<1>9. OneRowEach' BY <1>1 DEF OneRowEach
<1>10. YetToRecord'
  <2>1. \A d \in due[k] : d.job \in Jobs /\ d.job # j
    <3>1. \A d \in due[k] : d.job # row[k].job BY DEF OneRowEach
    <3>2. due[k] \subseteq Row BY DEF TypeOK
    <3>3. \A d \in Row : d.job \in Jobs BY DEF Row
    <3> QED BY <1>4, <3>1, <3>2, <3>3
  <2>2. \A d \in due[k] : Before(d.job, now[k])' BY <1>5, <2>1 DEF YetToRecord, Before
  <2> QED BY <1>1, <2>2 DEF YetToRecord, Before
<1>11. Ascending'
  <2> SUFFICES ASSUME NEW h \in Jobs, NEW a \in 1..Len(history'[h]), NEW b \in 1..Len(history'[h]),
                      a < b
               PROVE  history'[h][a].at < history'[h][b].at
    BY DEF Ascending
  <2>1. CASE h # j BY <1>5, <2>1 DEF Ascending
  <2>2. CASE h = j /\ b = n + 1
    <3>1. a \in 1..n BY <1>5, <2>2
    <3> QED BY <1>5, <1>6, <2>2, <3>1
  <2>3. CASE h = j /\ b # n + 1
    <3>1. a \in 1..n /\ b \in 1..n BY <1>5, <2>3
    <3>2. history[j][a].at < history[j][b].at BY <1>3, <1>4, <3>1 DEF Ascending
    <3> QED BY <1>5, <2>3, <3>1, <3>2
  <2> QED BY <2>1, <2>2, <2>3
<1> QED BY <1>7, <1>8, <1>9, <1>10, <1>11

(* The tick writes down when the job fires next.                            *)
LEMMA FiringSaves ==
  ASSUME TypeOK, TypeOK', OneTick, HasRow, FiringInv, NEW k \in Ticks, SaveNextRun(k),
         GoTo(k, "loop"), pc[k] \in {"advance", "reschedule"},
         UNCHANGED <<clock, jobState, history, row, due, now>>
  PROVE  FiringInv'
<1> USE DEF FiringInv
<1>0. /\ clock \in Nat
      /\ \A j \in Jobs : nextRun'[j] \in Nat
      /\ \A j \in Jobs : \A i \in 1..Len(history[j]) : history[j][i].at \in Nat
  BY TimesAreNumbers DEF TypeOK
<1>1. pc'[k] = "loop" /\ \A l \in Ticks : l # k => pc[l] = "idle" /\ pc'[l] = "idle"
  BY DEF GoTo, OneTick, TypeOK
<1>2. row[k].job \in Jobs /\ row[k].period \in Periods BY DEF HasRow, Row
<1>3. NextIsLater'
  <2> SUFFICES ASSUME NEW j \in Jobs, jobState[j] = "stored" PROVE Before(j, nextRun[j])'
    BY DEF NextIsLater
  <2>1. CASE j = row[k].job
    <3>1. nextRun'[j] = CalculateNextRun(row[k].period) BY <1>2, <2>1 DEF SaveNextRun, TypeOK
    <3>2. nextRun'[j] > clock BY <1>0, <1>2, <3>1, NextRunLater
    <3> QED BY <1>0, <3>2 DEF InThePast, Before
  <2>2. CASE j # row[k].job
    <3>1. nextRun'[j] = nextRun[j] BY <2>2 DEF SaveNextRun, TypeOK
    <3>2. ~ \E l \in Ticks : pc[l] \in {"advance", "reschedule"} /\ row[l].job = j BY <1>1, <2>2
    <3> QED BY <3>1, <3>2 DEF NextIsLater, Before
  <2> QED BY <2>1, <2>2
<1>4. InThePast' /\ Ascending' BY DEF InThePast, Ascending
<1>5. OneRowEach' BY <1>1 DEF OneRowEach
<1>6. YetToRecord' BY <1>1 DEF YetToRecord, Before
<1> QED BY <1>3, <1>4, <1>5, <1>6

(* A process that goes down with nothing left to write down.                *)
LEMMA FiringForgets ==
  ASSUME TypeOK, OneTick, FiringInv, NEW k \in Ticks, pc[k] \in {"skip", "recordFailed"}, Forget,
         UNCHANGED <<clock, jobState, nextRun, history>>
  PROVE  FiringInv'
<1> USE DEF FiringInv
<1>0. clock \in Nat BY TimesAreNumbers
<1>1. \A l \in Ticks : pc[l] \notin {"advance", "reschedule"} BY DEF OneTick
<1>2. InThePast' BY <1>0 DEF InThePast, Forget
<1>3. NextIsLater' BY <1>1 DEF NextIsLater, Before
<1>4. OneRowEach' /\ YetToRecord' BY DEF OneRowEach, YetToRecord, Forget
<1>5. Ascending' BY DEF Ascending
<1> QED BY <1>2, <1>3, <1>4, <1>5

LEMMA FiringStarts ==
  ASSUME TypeOK, OneTick, FiringInv, NEW k \in Ticks, StartTick(k) PROVE FiringInv'
<1> USE DEF FiringInv
<1>0. /\ clock \in Nat
      /\ \A j \in Jobs : nextRun[j] \in Nat
      /\ \A j \in Jobs : \A i \in 1..Len(history[j]) : history[j][i].at \in Nat
  BY TimesAreNumbers
<1>1. \A l \in Ticks : pc[l] = "idle" BY DEF OneTick, StartTick
<1>2. /\ pc' = [pc EXCEPT ![k] = "loop"] /\ due' = [due EXCEPT ![k] = DueRows]
      /\ now' = [now EXCEPT ![k] = clock]
      /\ UNCHANGED <<clock, jobState, nextRun, history, row>>
  BY DEF StartTick, GoTo
<1>3. /\ pc'[k] = "loop" /\ due'[k] = DueRows /\ now'[k] = clock
      /\ \A l \in Ticks : l # k => pc'[l] = "idle" /\ due'[l] = {} /\ now'[l] = now[l]
  BY <1>1, <1>2 DEF TypeOK, OneRowEach
<1>4. \A d \in DueRows : d.job \in Jobs /\ IsDue(d.job) BY DEF DueRows
<1>5. \A d, e \in DueRows : d.job = e.job => d = e BY DEF DueRows
<1>6. ASSUME NEW j \in Jobs, jobState[j] = "stored" PROVE Before(j, nextRun[j])
  BY <1>1, <1>6 DEF NextIsLater
<1>7. \A d \in DueRows : Before(d.job, clock) BY <1>0, <1>4, <1>6 DEF IsDue, Before
<1>8. InThePast' BY <1>0, <1>2, <1>3 DEF InThePast
<1>9. NextIsLater' BY <1>2, <1>6 DEF NextIsLater, Before
<1>10. OneRowEach' BY <1>3, <1>5 DEF OneRowEach
<1>11. YetToRecord'
  <2>1. \A d \in due'[k] : Before(d.job, now[k])' BY <1>2, <1>3, <1>7 DEF Before
  <2> QED BY <1>3, <2>1 DEF YetToRecord
<1>12. Ascending' BY <1>2 DEF Ascending
<1> QED BY <1>8, <1>9, <1>10, <1>11, <1>12

LEMMA FiringLoops ==
  ASSUME TypeOK, OneTick, FiringInv, NEW k \in Ticks, EndTick(k) \/ ExecuteJob(k) PROVE FiringInv'
<1> USE DEF FiringInv
<1>0. clock \in Nat BY TimesAreNumbers
<1>1. pc[k] = "loop" /\ \A l \in Ticks : l # k => pc[l] = "idle"
  BY DEF EndTick, ExecuteJob, OneTick
<1>2. UNCHANGED <<clock, jobState, nextRun, history>> BY DEF EndTick, ExecuteJob
<1>3. NextIsLater'
  <2>1. \A l \in Ticks : pc[l] \notin {"advance", "reschedule"} BY <1>1
  <2> QED BY <1>2, <2>1 DEF NextIsLater, Before
<1>4. Ascending' BY <1>2 DEF Ascending
<1>5. CASE EndTick(k)
  <2>1. /\ pc'[k] = "idle" /\ due'[k] = {} /\ now'[k] = 0
        /\ \A l \in Ticks : l # k => pc'[l] = "idle" /\ due'[l] = due[l] /\ now'[l] = now[l]
    BY <1>1, <1>5 DEF EndTick, GoTo, TypeOK
  <2>2. InThePast' BY <1>0, <1>2, <2>1 DEF InThePast
  <2>3. OneRowEach' BY <1>1, <2>1 DEF OneRowEach
  <2>4. YetToRecord' BY <1>1, <1>2, <2>1, <2>3 DEF YetToRecord, OneRowEach
  <2> QED BY <1>3, <1>4, <2>2, <2>3, <2>4
<1>6. CASE ExecuteJob(k)
  <2>1. PICK d \in due[k] :
          /\ due' = [due EXCEPT ![k] = @ \ {d}]
          /\ row' = [row EXCEPT ![k] = d]
          /\ GoTo(k, IF d.concurrent THEN "submit" ELSE "check")
    BY <1>6 DEF ExecuteJob
  <2>2. UNCHANGED now BY <1>6 DEF ExecuteJob
  <2>3. /\ pc'[k] \in {"submit", "check"} /\ due'[k] = due[k] \ {d} /\ row'[k] = d
        /\ \A l \in Ticks : l # k => pc'[l] = "idle" /\ due'[l] = due[l]
    BY <1>1, <2>1 DEF GoTo, TypeOK
  <2>4. InThePast' BY <1>2, <2>2 DEF InThePast
  <2>5. OneRowEach' BY <1>1, <2>3 DEF OneRowEach
  <2>6. YetToRecord'
    <3>1. \A e \in due[k] : Before(e.job, now[k])' BY <1>2, <2>2 DEF YetToRecord, Before
    <3>2. \A l \in Ticks : l # k => due'[l] = {} BY <1>1, <2>3 DEF OneRowEach
    <3>3. \A e \in due'[k] : Before(e.job, now[k])' BY <2>3, <3>1
    <3>4. Before(row[k].job, now[k])' BY <1>2, <2>2, <2>3, <3>1 DEF Before
    <3> QED BY <2>3, <3>2, <3>3, <3>4 DEF YetToRecord
  <2> QED BY <1>3, <1>4, <2>4, <2>5, <2>6
<1> QED BY <1>5, <1>6

LEMMA FiringTick ==
  ASSUME TypeOK, TypeOK', OneTick, HasRow, RowsKnown, FiringInv, ~Throws,
         NEW k \in Ticks, StartTick(k) \/ TickStep(k)
  PROVE  FiringInv'
<1>0. YetToRecord BY DEF FiringInv
<1>1. CASE StartTick(k) BY <1>1, FiringStarts
<1>2. CASE EndTick(k) \/ ExecuteJob(k) BY <1>2, FiringLoops
<1>3. CASE Check(k) BY <1>3, FiringMoves DEF Check
<1>4. CASE Skip(k)
  <2>1. CASE Forget /\ UNCHANGED history BY <1>4, <2>1, FiringForgets DEF Skip
  <2>2. CASE Record(k, "skipped", NoRun) /\ GoTo(k, "reschedule") /\ UNCHANGED <<due, row, now>>
    BY <1>4, <2>2, FiringRecords DEF Skip
  <2> QED BY <1>4, <2>1, <2>2 DEF Skip
<1>5. CASE Submit(k)
  <2>1. GoTo(k, "record") BY <1>5 DEF Submit
  <2> QED BY <1>5, <2>1, FiringMoves DEF Submit
<1>6. CASE RecordSubmitted(k)
  <2>1. CASE Record(k, "submitted", run[k]) /\ GoTo(k, "advance")
    BY <1>6, <2>1, FiringRecords DEF RecordSubmitted
  <2>2. CASE RecordRefused(k) /\ GoTo(k, "recordFailed") /\ UNCHANGED history
    <3>1. row[k].job \in Jobs BY <1>6 DEF RecordSubmitted, HasRow, Row
    <3>2. jobState[row[k].job] = "deleted"
      BY <1>6, <2>2, <3>1 DEF RecordSubmitted, RecordRefused, RowsKnown, TypeOK
    <3> QED BY <1>6, <2>2, <3>2, FiringMoves DEF RecordSubmitted
  <2> QED BY <1>6, <2>1, <2>2 DEF RecordSubmitted
<1>7. CASE Advance(k)
  BY <1>7, FiringSaves DEF Advance
<1>8. CASE RecordFailed(k)
  <2>1. jobState[row[k].job] = "deleted" BY <1>0, <1>8 DEF RecordFailed, YetToRecord
  <2>2. Forget /\ UNCHANGED history BY <1>8, <2>1 DEF RecordFailed, Record
  <2> QED BY <1>8, <2>2, FiringForgets DEF RecordFailed
<1>9. CASE Count(k) \/ Disable(k) BY <1>0, <1>9 DEF Count, Disable, YetToRecord
<1>10. CASE Reschedule(k) BY <1>10, FiringSaves DEF Reschedule
<1> QED BY <1>1, <1>2, <1>3, <1>4, <1>5, <1>6, <1>7, <1>8, <1>9, <1>10 DEF TickStep

LEMMA CalmInvStep == SchedInv /\ KnownInv /\ CalmInv /\ [Next]_vars => CalmInv'
<1> SUFFICES ASSUME SchedInv, KnownInv, CalmInv, [Next]_vars, Calm' PROVE FiringInv'
  BY DEF CalmInv
<1>0. TypeOK /\ OneTick /\ HasRow /\ RowsKnown /\ Blank BY DEF SchedInv, KnownInv
<1>1. TypeOK' BY <1>0, TypeStep
<1>2. Calm /\ ~Crash /\ ~Throws BY <1>0, CalmBefore
<1>3. FiringInv BY <1>2 DEF CalmInv
<1>4. \A j \in Jobs : jobState[j] = "deleted" => jobState'[j] = "deleted" BY <1>0, JobStep
<1>5. clock \in Nat BY <1>0, TimesAreNumbers
<1>6. ASSUME NEW k \in Ticks, StartTick(k) \/ TickStep(k) PROVE FiringInv'
  BY <1>0, <1>1, <1>2, <1>3, <1>6, FiringTick
<1>7. ASSUME NEW i \in Jobs, CreateJob(i) PROVE FiringInv'
  <2>1. UNCHANGED <<pc, row, due, now, clock, history>> BY <1>7 DEF CreateJob
  <2>2. \A j \in Jobs : jobState'[j] = "stored" =>
          (jobState[j] = "stored" /\ nextRun'[j] = nextRun[j]) \/ history'[j] = <<>>
    BY <1>0, <1>7, <2>1 DEF CreateJob, InsertJob, TypeOK, Blank
  <2> QED BY <1>0, <1>1, <1>3, <1>4, <1>5, <2>1, <2>2, FiringOutside
<1>8. ASSUME NEW i \in Jobs, UpdateJob(i) PROVE FiringInv'
  <2>1. UNCHANGED <<pc, row, due, now, clock, history, jobState>> BY <1>8 DEF UpdateJob
  <2>2. \A j \in Jobs : nextRun'[j] = nextRun[j] \/ nextRun'[j] > clock
    BY <1>0, <1>5, <1>8, NextRunLater DEF UpdateJob, UpdateRow, TypeOK
  <2> QED BY <1>0, <1>1, <1>3, <1>4, <1>5, <2>1, <2>2, FiringOutside
<1>9. ASSUME NEW i \in Jobs, DeleteJob(i) PROVE FiringInv'
  <2>1. UNCHANGED <<pc, row, due, now, clock, nextRun>> BY <1>9 DEF DeleteJob
  <2>2. \A j \in Jobs : history'[j] = history[j] \/ history'[j] = <<>>
    BY <1>0, <1>9 DEF DeleteJob, TypeOK
  <2>3. \A j \in Jobs : jobState'[j] = "stored" => jobState[j] = "stored"
    BY <1>0, <1>9 DEF DeleteJob, TypeOK
  <2> QED BY <1>0, <1>1, <1>3, <1>4, <1>5, <2>1, <2>2, <2>3, FiringOutside
<1>10. CASE UNCHANGED <<pc, row, due, now, history, jobState, nextRun>> /\ clock' >= clock
  BY <1>0, <1>1, <1>3, <1>4, <1>10, FiringOutside
<1>11. CASE TimePasses BY <1>5, <1>10, <1>11 DEF TimePasses
<1>12. ASSUME NEW r \in Runs, RunEnds(r) PROVE FiringInv' BY <1>5, <1>10, <1>12 DEF RunEnds
<1>13. CASE Restart \/ UNCHANGED vars BY <1>5, <1>10, <1>13 DEF Restart, vars
<1> QED BY <1>2, <1>6, <1>7, <1>8, <1>9, <1>11, <1>12, <1>13 DEF Next, Gateway

(* As long as no call has failed and the process has not crashed, whatever  *)
(* operators do to the jobs meanwhile, every firing time of a job is acted  *)
(* on once, and executions ascend by scheduledAt (scheduler.ts 160,         *)
(* 227-232).  A crash or an error between the record and the new            *)
(* nextRunAt does repeat one.                                               *)
THEOREM FiringsAreOnce == Spec => []OncePerFiring
<1>1. Init => CalmInv
  <2> SUFFICES ASSUME Init PROVE FiringInv BY DEF CalmInv
  <2>1. \A j \in Jobs : Len(history[j]) = 0 BY DEF Init
  <2> QED BY <2>1 DEF Init, FiringInv, InThePast, NextIsLater, OneRowEach, YetToRecord,
                      Ascending, Before
<1>2. CalmInv => OncePerFiring BY DEF CalmInv, Calm, FiringInv, OncePerFiring
<1> QED BY <1>1, <1>2, CalmInvStep, KnownInvInit, KnownInvStep, SchedInvariant, PTL DEF Spec
=============================================================================
