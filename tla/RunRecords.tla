----------------------------- MODULE RunRecords -----------------------------
(***************************************************************************)
(* What a reader of runs and their messages may rely on (GET /runs/:id and *)
(* GET /runs/:id/messages): a run is stored before it starts, only a       *)
(* running one gets messages, and a run that has ended stays as it is.     *)
(*                                                                         *)
(* Two specifications are shown to implement this one: RunExecution, which *)
(* has one run in detail, and AgentTasks, which has the runs of many tasks *)
(* and of each execution only what the task sees.                          *)
(***************************************************************************)
EXTENDS Naturals

CONSTANT Runs    \* run identifiers

VARIABLES
  row,     \* Run.status, "none" before the run is created
  told     \* the number of messages stored for it

recordVars == <<row, told>>

Prologue == 2    \* the system message and the user's

RecordsInit ==
  /\ row = [r \in Runs |-> "none"]
  /\ told = [r \in Runs |-> 0]

Advance(r, from, to) ==
  /\ row[r] \in from
  /\ row' = [row EXCEPT ![r] = to]
  /\ UNCHANGED told

Create(r)   == Advance(r, {"none"}, "pending")
Start(r)    == Advance(r, {"pending"}, "running")
Fail(r)     == Advance(r, {"pending", "running"}, "failed")
Complete(r) == told[r] >= Prologue /\ Advance(r, {"running"}, "completed")

Tell(r) ==
  /\ row[r] = "running"
  /\ told' = [told EXCEPT ![r] = @ + 1]
  /\ UNCHANGED row

RecordsNext == \E r \in Runs : Create(r) \/ Start(r) \/ Tell(r) \/ Complete(r) \/ Fail(r)

RecordsSpec == RecordsInit /\ [][RecordsNext]_recordVars
=============================================================================
