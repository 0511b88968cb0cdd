------------------------------ MODULE Scheduler ------------------------------
(***************************************************************************)
(* The job scheduler: SchedulerService.tick of packages/scheduler, run by  *)
(* the standalone process of apps/scheduler, over the job and execution    *)
(* tables it shares with the gateway.  The gateway edits jobs for the      *)
(* operators, accepts the submitted tasks and executes their runs; it is a *)
(* process of its own and may act between any two steps of a tick.         *)
(*                                                                         *)
(* One action is the stretch of a tick up to its next await.  An error     *)
(* that leaves tick() is an unhandled rejection and ends the process; its  *)
(* supervisor starts it again (apps/scheduler/README.md 169).              *)
(***************************************************************************)
EXTENDS Integers, Sequences, FiniteSets

CONSTANTS
  Jobs, Runs,    \* identifiers
  Ticks,         \* bound: ticks in flight at the same time
  NoJob, NoRun,
  Periods,       \* cron schedules, as the period of their firing times
  MaxTime,       \* bound: the clock
  MaxEdits,      \* bound: updates and deletions of jobs
  MaxFaults,     \* bound: submissions and storage calls that fail
  MaxCrashes     \* bound: crashes of the scheduler process

ASSUME SchedulerAssumption ==
  /\ NoJob \notin Jobs
  /\ NoRun \notin Runs
  /\ Periods \subseteq Nat \ {0}
  /\ MaxTime \in Nat
  /\ MaxEdits \in Nat
  /\ MaxFaults \in Nat
  /\ MaxCrashes \in Nat

VARIABLES
  clock,
  \* persisted
  jobState,    \* "new", "stored" or "deleted"
  enabled, concurrent, period, nextRun,   \* columns of scheduled_jobs
  history,     \* job_executions of each job, by scheduledAt
  runState,    \* runs of the gateway: "none", "active" or "ended"
  runJob,      \* the job a run was submitted for
  \* the scheduler process
  up,
  tickInProgress,
  pc,          \* where each tick is
  due,         \* the job rows a tick still has to execute, as it read them
  row,         \* the one it executes
  now, run,    \* its scheduledAt, and the run it submitted
  \* bounds
  edits, faults, crashes

table == <<jobState, enabled, concurrent, period, nextRun>>
locals == <<pc, due, row, now, run>>
bounds == <<edits, faults, crashes>>
vars == <<clock, table, history, runState, runJob, up, tickInProgress, locals, bounds>>

Times == 0..MaxTime
Row == [job : Jobs, concurrent : BOOLEAN, period : Periods]
NoRow == [job |-> NoJob]
Execution == [status : {"submitted", "skipped", "failed"}, run : Runs \cup {NoRun}, at : Times]
Pc == {"idle", "loop", "check", "skip", "submit", "record", "advance", "recordFailed",
       "count", "disable", "reschedule"}

TypeOK ==
  /\ clock \in Times
  /\ jobState \in [Jobs -> {"new", "stored", "deleted"}]
  /\ enabled \in [Jobs -> BOOLEAN]
  /\ concurrent \in [Jobs -> BOOLEAN]
  /\ period \in [Jobs -> Periods]
  /\ nextRun \in [Jobs -> Nat]
  /\ history \in [Jobs -> Seq(Execution)]
  /\ runState \in [Runs -> {"none", "active", "ended"}]
  /\ runJob \in [Runs -> Jobs \cup {NoJob}]
  /\ up \in BOOLEAN
  /\ tickInProgress \in BOOLEAN
  /\ pc \in [Ticks -> Pc]
  /\ due \in [Ticks -> SUBSET Row]
  /\ row \in [Ticks -> Row \cup {NoRow}]
  /\ now \in [Ticks -> Times]
  /\ run \in [Ticks -> Runs \cup {NoRun}]
  /\ edits \in 0..MaxEdits
  /\ faults \in 0..MaxFaults
  /\ crashes \in 0..MaxCrashes

Init ==
  /\ clock = 0
  /\ jobState = [j \in Jobs |-> "new"]
  /\ enabled = [j \in Jobs |-> TRUE]
  /\ concurrent \in [Jobs -> BOOLEAN]
  /\ period \in [Jobs -> Periods]
  /\ nextRun = [j \in Jobs |-> 0]
  /\ history = [j \in Jobs |-> <<>>]
  /\ runState = [r \in Runs |-> "none"]
  /\ runJob = [r \in Runs |-> NoJob]
  /\ up = TRUE
  /\ tickInProgress = FALSE
  /\ pc = [k \in Ticks |-> "idle"]
  /\ due = [k \in Ticks |-> {}]
  /\ row = [k \in Ticks |-> NoRow]
  /\ now = [k \in Ticks |-> 0]
  /\ run = [k \in Ticks |-> NoRun]
  /\ edits = 0
  /\ faults = 0
  /\ crashes = 0

-----------------------------------------------------------------------------
Throws   == faults < MaxFaults /\ faults' = faults + 1
Succeeds == UNCHANGED faults

(* Mutant: the next firing time may be the present one.                     *)
CalculateNextRun_inclusive(p) == ((clock + p - 1) \div p) * p

(* calculateNextRun: the first firing time after the present.               *)
CalculateNextRun(p) == (clock \div p + 1) * p

(* hasRunningExecution: a submitted execution whose run is not over.        *)
HasRunningExecution(j) ==
  \E i \in 1..Len(history[j]) :
    /\ history[j][i].status = "submitted"
    /\ history[j][i].run \in Runs
    /\ runState[history[j][i].run] = "active"

RecentWindow == 5
FailureLimit == 3

(* countRecentFailures: failures among the latest executions.               *)
CountRecentFailures(j) ==
  Cardinality({i \in 1..Len(history[j]) :
                 i > Len(history[j]) - RecentWindow /\ history[j][i].status = "failed"})

-----------------------------------------------------------------------------
(* The gateway: operators create, update and delete jobs.                   *)
InsertJob(j) ==
  /\ jobState' = [jobState EXCEPT ![j] = "stored"]
  /\ nextRun' = [nextRun EXCEPT ![j] = CalculateNextRun(period[j])]

CreateJob(j) ==
  /\ jobState[j] = "new"
  /\ InsertJob(j)
  /\ UNCHANGED <<clock, enabled, concurrent, period, history, runState, runJob, up,
                 tickInProgress, locals, bounds>>

(* Only the supplied fields change; a supplied schedule sets nextRunAt.     *)
UpdateRow(j) ==
  /\ \E e, c \in BOOLEAN :
       /\ enabled' = [enabled EXCEPT ![j] = e]
       /\ concurrent' = [concurrent EXCEPT ![j] = c]
  /\ \/ \E p \in Periods :
          /\ period' = [period EXCEPT ![j] = p]
          /\ nextRun' = [nextRun EXCEPT ![j] = CalculateNextRun(p)]
     \/ UNCHANGED <<period, nextRun>>

UpdateJob(j) ==
  /\ jobState[j] = "stored"
  /\ edits < MaxEdits
  /\ edits' = edits + 1
  /\ UpdateRow(j)
  /\ UNCHANGED <<clock, jobState, history, runState, runJob, up, tickInProgress, locals,
                 faults, crashes>>

(* Deleting the job, or its agent, deletes its executions with it.          *)
DeleteJob(j) ==
  /\ jobState[j] = "stored"
  /\ edits < MaxEdits
  /\ edits' = edits + 1
  /\ jobState' = [jobState EXCEPT ![j] = "deleted"]
  /\ history' = [history EXCEPT ![j] = <<>>]
  /\ UNCHANGED <<clock, enabled, concurrent, period, nextRun, runState, runJob, up,
                 tickInProgress, locals, faults, crashes>>

(* A run of the gateway comes to its end.                                   *)
RunEnds(r) ==
  /\ runState[r] = "active"
  /\ runState' = [runState EXCEPT ![r] = "ended"]
  /\ UNCHANGED <<clock, table, history, runJob, up, tickInProgress, locals, bounds>>

TimePasses ==
  /\ clock < MaxTime
  /\ clock' = clock + 1
  /\ UNCHANGED <<table, history, runState, runJob, up, tickInProgress, locals, bounds>>

-----------------------------------------------------------------------------
(* The scheduler process.                                                   *)
GoTo(k, place) == pc' = [pc EXCEPT ![k] = place]

(* Everything a process holds in memory is lost.                            *)
Forget ==
  /\ up' = FALSE
  /\ tickInProgress' = FALSE
  /\ pc' = [k \in Ticks |-> "idle"]
  /\ due' = [k \in Ticks |-> {}]
  /\ row' = [k \in Ticks |-> NoRow]
  /\ now' = [k \in Ticks |-> 0]
  /\ run' = [k \in Ticks |-> NoRun]

(* The process dies, or a storage call outside the try block of executeJob, *)
(* or in its catch block, throws.                                           *)
Crash ==
  /\ up
  /\ crashes < MaxCrashes
  /\ crashes' = crashes + 1
  /\ Forget
  /\ UNCHANGED <<clock, table, history, runState, runJob, edits, faults>>

Restart ==
  /\ ~up
  /\ up' = TRUE
  /\ UNCHANGED <<clock, table, history, runState, runJob, tickInProgress, locals, bounds>>

IsDue(j) == jobState[j] = "stored" /\ enabled[j] /\ nextRun[j] <= clock

DueRows == {[job |-> j, concurrent |-> concurrent[j], period |-> period[j]] :
              j \in {i \in Jobs : IsDue(i)}}

(* Mutant: ticks overlap.                                                   *)
StartTick_unguarded(k) ==
  /\ up
  /\ pc[k] = "idle"
  /\ tickInProgress' = TRUE
  /\ now' = [now EXCEPT ![k] = clock]
  /\ due' = [due EXCEPT ![k] = DueRows]
  /\ GoTo(k, "loop")
  /\ UNCHANGED <<clock, table, history, runState, runJob, up, row, run, bounds>>

(* tick: one at a time; it reads the jobs that are due.                     *)
StartTick(k) ==
  /\ up
  /\ ~tickInProgress
  /\ pc[k] = "idle"
  /\ tickInProgress' = TRUE
  /\ now' = [now EXCEPT ![k] = clock]
  /\ due' = [due EXCEPT ![k] = DueRows]
  /\ GoTo(k, "loop")
  /\ UNCHANGED <<clock, table, history, runState, runJob, up, row, run, bounds>>

(* Mutant: tickInProgress is not reset.                                     *)
EndTick_stuck(k) ==
  /\ pc[k] = "loop"
  /\ due[k] = {}
  /\ GoTo(k, "idle")
  /\ row' = [row EXCEPT ![k] = NoRow]
  /\ now' = [now EXCEPT ![k] = 0]
  /\ UNCHANGED <<clock, table, history, runState, runJob, up, tickInProgress, due, run,
                 bounds>>

(* The finally block: the next tick may begin.                              *)
EndTick(k) ==
  /\ pc[k] = "loop"
  /\ due[k] = {}
  /\ tickInProgress' = FALSE
  /\ GoTo(k, "idle")
  /\ row' = [row EXCEPT ![k] = NoRow]
  /\ now' = [now EXCEPT ![k] = 0]
  /\ UNCHANGED <<clock, table, history, runState, runJob, up, due, run, bounds>>

(* Mutant: running executions are not looked for.                           *)
ExecuteJob_unchecked(k) ==
  /\ pc[k] = "loop"
  /\ \E d \in due[k] :
       /\ due' = [due EXCEPT ![k] = @ \ {d}]
       /\ row' = [row EXCEPT ![k] = d]
  /\ GoTo(k, "submit")
  /\ UNCHANGED <<clock, table, history, runState, runJob, up, tickInProgress, now, run,
                 bounds>>

(* executeJob, on the row as the tick read it.                              *)
ExecuteJob(k) ==
  /\ pc[k] = "loop"
  /\ \E d \in due[k] :
       /\ due' = [due EXCEPT ![k] = @ \ {d}]
       /\ row' = [row EXCEPT ![k] = d]
       /\ GoTo(k, IF d.concurrent THEN "submit" ELSE "check")
  /\ UNCHANGED <<clock, table, history, runState, runJob, up, tickInProgress, now, run,
                 bounds>>

Check(k) ==
  /\ pc[k] = "check"
  /\ GoTo(k, IF HasRunningExecution(row[k].job) THEN "skip" ELSE "submit")
  /\ UNCHANGED <<clock, table, history, runState, runJob, up, tickInProgress, due, row,
                 now, run, bounds>>

(* executionRepo.create: the foreign key needs the job to be there still.   *)
Record(k, status, r) ==
  /\ jobState[row[k].job] = "stored"
  /\ history' = [history EXCEPT ![row[k].job] =
                   Append(@, [status |-> status, run |-> r, at |-> now[k]])]

RecordRefused(k) == jobState[row[k].job] # "stored"

Skip(k) ==
  /\ pc[k] = "skip"
  /\ \/ /\ Record(k, "skipped", NoRun)
        /\ GoTo(k, "reschedule")
        /\ UNCHANGED <<up, tickInProgress, due, row, now, run>>
     \/ RecordRefused(k) /\ Forget /\ UNCHANGED history
  /\ UNCHANGED <<clock, table, runState, runJob, bounds>>

(* submitTask posts to the gateway, which stores a run and answers.  The    *)
(* request may be refused, and the answer may get lost.                     *)
Submit(k) ==
  /\ pc[k] = "submit"
  /\ \/ /\ \E r \in Runs :
             /\ runState[r] = "none"
             /\ runState' = [runState EXCEPT ![r] = "active"]
             /\ runJob' = [runJob EXCEPT ![r] = row[k].job]
             /\ \/ Succeeds /\ GoTo(k, "record") /\ run' = [run EXCEPT ![k] = r]
                \/ Throws /\ GoTo(k, "recordFailed") /\ UNCHANGED run
     \/ Throws /\ GoTo(k, "recordFailed") /\ UNCHANGED <<runState, runJob, run>>
  /\ UNCHANGED <<clock, table, history, up, tickInProgress, due, row, now, edits, crashes>>

RecordSubmitted(k) ==
  /\ pc[k] = "record"
  /\ \/ Succeeds /\ Record(k, "submitted", run[k]) /\ GoTo(k, "advance")
     \/ /\ (RecordRefused(k) /\ Succeeds) \/ Throws
        /\ GoTo(k, "recordFailed")
        /\ UNCHANGED history
  /\ run' = [run EXCEPT ![k] = NoRun]
  /\ UNCHANGED <<clock, table, runState, runJob, up, tickInProgress, due, row, now, edits,
                 crashes>>

(* updateNextRun, with the schedule the tick read.  An update of a deleted  *)
(* job changes no row.                                                      *)
SaveNextRun(k) ==
  nextRun' = IF jobState[row[k].job] = "stored"
             THEN [nextRun EXCEPT ![row[k].job] = CalculateNextRun(row[k].period)]
             ELSE nextRun

(* Inside the try block: an error here records the submitted job as failed. *)
Advance(k) ==
  /\ pc[k] = "advance"
  /\ \/ Succeeds /\ SaveNextRun(k) /\ GoTo(k, "loop")
     \/ Throws /\ GoTo(k, "recordFailed") /\ UNCHANGED nextRun
  /\ UNCHANGED <<clock, jobState, enabled, concurrent, period, history, runState, runJob,
                 up, tickInProgress, due, row, now, run, edits, crashes>>

(* The catch block.                                                         *)
RecordFailed(k) ==
  /\ pc[k] = "recordFailed"
  /\ \/ /\ Record(k, "failed", NoRun)
        /\ GoTo(k, "count")
        /\ UNCHANGED <<up, tickInProgress, due, row, now, run>>
     \/ RecordRefused(k) /\ Forget /\ UNCHANGED history
  /\ UNCHANGED <<clock, table, runState, runJob, bounds>>

(* Mutant: the breaker trips one failure early.                             *)
Count_early(k) ==
  /\ pc[k] = "count"
  /\ GoTo(k, IF CountRecentFailures(row[k].job) >= FailureLimit - 1
             THEN "disable" ELSE "reschedule")
  /\ UNCHANGED <<clock, table, history, runState, runJob, up, tickInProgress, due, row,
                 now, run, bounds>>

(* handleFailure: the circuit breaker, or the next firing time.             *)
Count(k) ==
  /\ pc[k] = "count"
  /\ GoTo(k, IF CountRecentFailures(row[k].job) >= FailureLimit
             THEN "disable" ELSE "reschedule")
  /\ UNCHANGED <<clock, table, history, runState, runJob, up, tickInProgress, due, row,
                 now, run, bounds>>

Disable(k) ==
  /\ pc[k] = "disable"
  /\ enabled' = [enabled EXCEPT ![row[k].job] = @ /\ jobState[row[k].job] # "stored"]
  /\ GoTo(k, "loop")
  /\ UNCHANGED <<clock, jobState, concurrent, period, nextRun, history, runState, runJob,
                 up, tickInProgress, due, row, now, run, bounds>>

(* The next firing time, outside the try block.                             *)
Reschedule(k) ==
  /\ pc[k] = "reschedule"
  /\ SaveNextRun(k)
  /\ GoTo(k, "loop")
  /\ UNCHANGED <<clock, jobState, enabled, concurrent, period, history, runState, runJob,
                 up, tickInProgress, due, row, now, run, bounds>>

-----------------------------------------------------------------------------
TickStep(k) ==
  \/ EndTick(k) \/ ExecuteJob(k) \/ Check(k) \/ Skip(k) \/ Submit(k)
  \/ RecordSubmitted(k) \/ Advance(k) \/ RecordFailed(k) \/ Count(k)
  \/ Disable(k) \/ Reschedule(k)

Gateway ==
  \/ \E j \in Jobs : CreateJob(j) \/ UpdateJob(j) \/ DeleteJob(j)
  \/ \E r \in Runs : RunEnds(r)

Next ==
  \/ Gateway
  \/ TimePasses
  \/ Crash
  \/ Restart
  \/ \E k \in Ticks : StartTick(k) \/ TickStep(k)

Spec == Init /\ [][Next]_vars

(* setInterval fires again and again, awaits come back, and the supervisor  *)
(* restarts the process.  Operators, runs and time owe nothing.             *)
Fairness ==
  /\ WF_vars(Restart)
  /\ WF_vars(\E k \in Ticks : StartTick(k))
  /\ \A k \in Ticks : WF_vars(TickStep(k))

FairSpec == Spec /\ Fairness

-----------------------------------------------------------------------------
(* The run that a step submits for job j.                                   *)
Submits(r, j) == runState[r] = "none" /\ runState'[r] = "active" /\ runJob'[r] = j

(* The tick that submits it read that the job must not overlap itself.      *)
SubmittedAlone(j) ==
  \E k \in Ticks : pc[k] = "submit" /\ pc'[k] # "submit" /\ row[k].job = j /\ ~row[k].concurrent

(* A job with allowConcurrent = false is never submitted while a run that   *)
(* the executions record for it is active, through edits, errors and        *)
(* crashes: the check is still true when the task is posted, an await later *)
(* (scheduler.ts 108-112, 128-152).                                         *)
RecordedRunsNeverOverlap ==
  [][\A r \in Runs, j \in Jobs :
       Submits(r, j) /\ SubmittedAlone(j) => ~HasRunningExecution(j)]_vars

(* The inductive invariant behind it: ticks do not overlap, and what a tick *)
(* found in its check holds until it submits.                               *)
OneTick ==
  \A k \in Ticks : pc[k] # "idle" =>
    tickInProgress /\ \A l \in Ticks : pc[l] # "idle" => k = l

HasRow == \A k \in Ticks : pc[k] \notin {"idle", "loop"} => row[k] \in Row

CheckHolds ==
  \A k \in Ticks : pc[k] = "submit" /\ ~row[k].concurrent => ~HasRunningExecution(row[k].job)

SchedInv == TypeOK /\ OneTick /\ HasRow /\ CheckHolds

(* As long as no call has failed and the process has not crashed, a firing  *)
(* time is acted on once, whatever operators do to the jobs meanwhile:      *)
(* executions of a job have ascending scheduledAt (scheduler.ts 160,        *)
(* 227-232).                                                                *)
Ascending ==
  \A j \in Jobs : \A a, b \in 1..Len(history[j]) :
    a < b => history[j][a].at < history[j][b].at

OncePerFiring == faults = 0 /\ crashes = 0 => Ascending

(* A job that is due is taken up: submitted, skipped, failed or disabled,   *)
(* whatever became of the jobs before it in the same tick.                  *)
DueIsTakenUp == \A j \in Jobs : IsDue(j) ~> ~IsDue(j)

(* Somebody is about to act on the latest failure of job j.                 *)
BreakerAtWork(j) == \E k \in Ticks : pc[k] \in {"count", "disable"} /\ row[k].job = j

(* As long as operators leave the jobs alone and the process does not       *)
(* crash, the breaker is exact, whatever fails and in whatever order: a job *)
(* is enabled just if fewer than three of its five latest executions        *)
(* failed.  It trips at the third failure and not earlier, it never lets a  *)
(* fourth attempt pass, and nothing the process does turns a job on again   *)
(* or off for another reason (scheduler.ts 205-222).  The failures counted  *)
(* need not follow each other, and a submitted task whose nextRunAt could   *)
(* not be saved is one of them (scheduler.ts 160, 172-188), although the    *)
(* documentation speaks of three consecutive failed submissions.            *)
BreakerIsExact ==
  edits = 0 /\ crashes = 0 =>
    \A j \in Jobs : jobState[j] = "stored" /\ ~BreakerAtWork(j) =>
      (enabled[j] <=> CountRecentFailures(j) < FailureLimit)
=============================================================================
