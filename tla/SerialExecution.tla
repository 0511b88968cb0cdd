--------------------------- MODULE SerialExecution ---------------------------
(***************************************************************************)
(* What the agent runner promises about the executions of one background   *)
(* agent task: the runs of a task execute one at a time, and the messages  *)
(* of each of them form one uninterrupted block of the task's transcript.  *)
(*                                                                         *)
(* This is the abstract specification that AgentTasks (the AgentService of *)
(* apps/agent-runner) is shown to implement.                               *)
(***************************************************************************)
EXTENDS Naturals, Sequences

CONSTANTS Tasks,    \* agent tasks
          Runs,     \* run identifiers
          NoTask    \* "not linked to a task yet"

VARIABLES
  owner,    \* the task each run executes for (Run.agentTaskId)
  live,     \* the runs whose execution is in progress
  log       \* the transcript of each task, as the runs that wrote its entries

absVars == <<owner, live, log>>

AbsTypeOK ==
  /\ owner \in [Runs -> Tasks \cup {NoTask}]
  /\ live \in SUBSET Runs
  /\ log \in [Tasks -> Seq(Runs)]

AbsInit ==
  /\ owner = [r \in Runs |-> NoTask]
  /\ live = {}
  /\ log = [t \in Tasks |-> <<>>]

(* A run is linked to its task when it is created, before it executes.      *)
Link(r, t) ==
  /\ owner[r] = NoTask
  /\ owner' = [owner EXCEPT ![r] = t]
  /\ UNCHANGED <<live, log>>

(* A run that has written nothing starts when its task executes no other.   *)
Begin(r) ==
  /\ owner[r] # NoTask
  /\ r \notin live
  /\ \A s \in live : owner[s] # owner[r]
  /\ \A i \in 1..Len(log[owner[r]]) : log[owner[r]][i] # r
  /\ live' = live \cup {r}
  /\ UNCHANGED <<owner, log>>

Write(r) ==
  /\ r \in live
  /\ log' = [log EXCEPT ![owner[r]] = Append(@, r)]
  /\ UNCHANGED <<owner, live>>

(* Executions end one by one, or all at once when the process dies.         *)
End(S) ==
  /\ S \subseteq live
  /\ live' = live \ S
  /\ UNCHANGED <<owner, log>>

AbsNext ==
  \/ \E r \in Runs, t \in Tasks : Link(r, t)
  \/ \E r \in Runs : Begin(r) \/ Write(r)
  \/ \E S \in SUBSET Runs : End(S)

AbsSpec == AbsInit /\ [][AbsNext]_absVars

-----------------------------------------------------------------------------
(* At most one run of a task executes at any time.                          *)
OneLiveRun == \A r, s \in live : owner[r] = owner[s] => r = s

(* Two entries of one run enclose only entries of that run: transcripts are *)
(* concatenations of whole runs, never interleavings of two.                *)
Unbroken ==
  \A t \in Tasks : \A i, j, k \in 1..Len(log[t]) :
    (i < j /\ j < k /\ log[t][i] = log[t][k]) => log[t][j] = log[t][i]
=============================================================================
