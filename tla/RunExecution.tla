---------------------------- MODULE RunExecution ----------------------------
(***************************************************************************)
(* One run of an agent, from POST /tasks to its last status: submitTask,   *)
(* executeRunRequest with the turns of the model inside generateText, the  *)
(* tools it calls on the way, the timer that aborts it, and the messages,  *)
(* which are stored only when the model has finished (apps/agent-runner).  *)
(* Every call of the storage may throw, and the gateway may end.           *)
(***************************************************************************)
EXTENDS SandboxPolicy

CONSTANTS
  MaxTurns,    \* bound: turns of an agent, its own or the configured
  MaxFaults    \* bound: storage calls that throw, and crashes

ASSUME RunAssumption == MaxTurns \in Nat \ {0} /\ MaxFaults \in Nat

ToolNames == {"echo", "read", "write", "shell", "agent_tasks", "sandboxed"}

\* No usable file, one with a root, and as open and as closed as can be.
PermissionFiles ==
  [valid : {FALSE}, permissions : {DefaultPermissions}] \cup
  [valid : {TRUE}, permissions :
     {[DefaultPermissions EXCEPT !.roots = {[absolute |-> TRUE, segs |-> <<Cwd>>]}, !.promptFs = FALSE],
      [DefaultPermissions EXCEPT !.all = TRUE],
      [DefaultPermissions EXCEPT !.shell = FALSE, !.promptFs = FALSE, !.promptShell = FALSE]}]

VARIABLES
  agent,      \* mode, tools, turns, and whether its provider is known
  perm,       \* the permissions the gateway loaded when it started
  sandbox,    \* what the sandboxed tool may touch
  pc,         \* where the execution is
  status,     \* the run's row: "none", "pending", "running", "completed", "failed"
  steps,      \* result.steps: the tool called, what came of it, whether there was text
  finish,     \* result.finishReason
  todo,       \* messages of the steps that are still to be appended
  messages,   \* the messages stored
  timer,      \* "off", "set", "fired"
  handlers,   \* calls at work: turn, tool, what may come of it; a timed out one goes on
  acted,      \* in which turn's call something was touched, and whether what may be
  approvals,  \* the turns that asked for one
  faults

vars    == <<agent, perm, sandbox, pc, status, steps, finish, todo, messages, timer, handlers, acted, approvals, faults>>
config  == <<agent, perm, sandbox>>
model   == <<steps, finish>>
world   == <<handlers, acted, approvals>>

Agents ==
  [mode : {"standard", "coordinator"}, tools : {{}, {"write", "agent_tasks"}}, turns : 1..MaxTurns, known : BOOLEAN]
LoadedPermissions == {LoadGlobalPermissions(file) : file \in PermissionFiles}

Init ==
  /\ agent \in Agents
  /\ perm \in LoadedPermissions
  /\ sandbox \in SandboxConfigs
  /\ pc = "new" /\ status = "none" /\ steps = <<>> /\ finish = "none"
  /\ todo = <<>> /\ messages = <<>> /\ timer = "off"
  /\ handlers = {} /\ acted = {} /\ approvals = {} /\ faults = 0

Live == pc \notin {"new", "end", "stranded", "dead"}

\* A storage call works and the execution goes on, or it throws.
Storage(works, throws) ==
  \/ works /\ UNCHANGED faults
  \/ throws /\ faults < MaxFaults /\ faults' = faults + 1

-----------------------------------------------------------------------------
(* submitTask and the prologue of executeRunRequest.                       *)

SubmitTask ==
  /\ pc = "new" /\ pc' = "begin" /\ status' = "pending"
  /\ UNCHANGED <<config, model, todo, messages, timer, world, faults>>

\* Outside the try block: an error goes to the catch of submitTask.
Begin ==
  /\ pc = "begin"
  /\ Storage(status' = "running" /\ pc' = "system", pc' = "failing" /\ UNCHANGED status)
  /\ UNCHANGED <<config, model, todo, messages, timer, world>>

Prologue(role, next) ==
  /\ pc = role
  /\ Storage(messages' = Append(messages, <<role, 0>>) /\ pc' = next, pc' = "failing" /\ UNCHANGED messages)
  /\ UNCHANGED <<config, status, model, todo, timer, world>>

\* markRunFailed logs an error of its own and gives up.
MarkRunFailed ==
  /\ pc = "failing" /\ timer' = "off"
  /\ Storage(status' = "failed" /\ pc' = "end", pc' = "stranded" /\ UNCHANGED status)
  /\ UNCHANGED <<config, model, todo, messages, world>>

\* resolveModel; then the timer for all turns together.
ResolveModel ==
  /\ pc = "resolve"
  /\ IF agent.known THEN pc' = "llm" /\ timer' = "set" ELSE pc' = "failing" /\ UNCHANGED timer
  /\ UNCHANGED <<config, status, model, todo, messages, world, faults>>

IsToolAllowed_listed(t) == agent.tools = {} \/ t \in agent.tools

\* A coordinator has only the orchestration tools, and a list restricts both.
IsToolAllowed(t) ==
  /\ agent.mode = "coordinator" => t = "agent_tasks"
  /\ agent.tools = {} \/ t \in agent.tools

-----------------------------------------------------------------------------
(* generateText: turns of the model until it stops calling tools, the      *)
(* number of steps reaches maxTurns, it fails, or the timer aborts it.     *)

Turn == Len(steps) + 1

\* formatToolResultForModel: the content, a request for approval, or an error.
FormatToolResultForModel(result) ==
  CASE result = "ok" -> "content" [] result = "approval" -> "approval" [] OTHER -> "error"

\* The messages of one step, in the order they are appended.
Recorded(i, step) ==
  (IF step.tool = "none" THEN <<>>
   ELSE <<<<"calls", i>>>> \o (IF step.result = "unavailable" THEN <<>> ELSE <<<<FormatToolResultForModel(step.result), i>>>>))
    \o (IF step.text THEN <<<<"text", i>>>> ELSE <<>>)

Script(all) == FlattenSeq([i \in 1..Len(all) |-> Recorded(i, all[i])])

\* stopWhen: stepCountIs(maxTurns).
StopWhen(n) == n >= agent.turns

\* The step is complete; generateText goes on or returns.
Stepped(step, reason) ==
  /\ steps' = Append(steps, step)
  /\ IF reason # "tool-calls" \/ StopWhen(Len(steps'))
     THEN finish' = reason /\ todo' = Script(steps') /\ pc' = "append"
     ELSE pc' = "llm" /\ UNCHANGED <<finish, todo>>

LlmAnswers(reason, text) ==
  /\ pc = "llm" /\ timer = "set"
  /\ Stepped([tool |-> "none", result |-> "none", text |-> text], reason)
  /\ UNCHANGED <<config, status, messages, timer, world, faults>>

\* The permissions are looked at when the handler starts.
Handler(c) ==
  [turn |-> Turn, tool |-> c.tool, may |-> Outcomes(perm, c), lawful |-> CallLawful(perm, c),
   late |-> FALSE, held |-> FALSE]

\* A sandboxed tool does what its guards let it do, and what they do not see;
\* of that the configuration promises nothing.  It may leave a process
\* that holds its pipes, and then the call does not settle (see Sandbox).
SandboxedHandler(op, held) ==
  [turn |-> Turn, tool |-> "sandboxed",
   may |-> {Came("error", FALSE)} \cup
             (IF SandboxAllows(sandbox, op) THEN {Came("ok", TRUE), Came("error", TRUE)} ELSE {}),
   lawful |-> (Guarded(op) => SandboxLawful(sandbox, op)), late |-> FALSE, held |-> held]

\* A tool that was not offered is answered by the SDK with an error, which is
\* not among the step's tool results.
LlmCalls(h) ==
  /\ pc = "llm" /\ timer = "set"
  /\ IF IsToolAllowed(h.tool)
     THEN /\ pc' = "tool" /\ handlers' = handlers \cup {h}
          /\ UNCHANGED <<steps, finish, todo>>
     ELSE /\ Stepped([tool |-> h.tool, result |-> "unavailable", text |-> FALSE], "tool-calls")
          /\ UNCHANGED handlers
  /\ UNCHANGED <<config, status, messages, timer, acted, approvals, faults>>

\* The model's service fails, or the aborted request does.
LlmFails ==
  /\ pc = "llm" /\ pc' = "failing"
  /\ UNCHANGED <<config, status, model, todo, messages, timer, world, faults>>

\* controller.abort: a request of the model is given up, a tool is not told.
Abort_ignored ==
  /\ timer = "set" /\ timer' = "off"
  /\ UNCHANGED <<config, pc, status, model, todo, messages, world, faults>>

Abort ==
  /\ timer = "set" /\ timer' = "fired"
  /\ pc' = (IF pc = "llm" THEN "failing" ELSE pc)
  /\ UNCHANGED <<config, status, model, todo, messages, world, faults>>

\* What the call of turn i has come to, in the world.
Happened(h, o) ==
  /\ acted' = (IF o.acted THEN acted \cup {[turn |-> h.turn, lawful |-> h.lawful]} ELSE acted)
  /\ approvals' = (IF o.result = "approval" THEN approvals \cup {h.turn} ELSE approvals)
  /\ handlers' = handlers \ {h}

\* The handler ends.  If the registry still waits for it, this is its result.
HandlerEnds(h) ==
  /\ \E o \in h.may :
       /\ Happened(h, o)
       /\ IF h.late THEN UNCHANGED <<steps, finish, todo, pc>>
          ELSE Stepped([tool |-> h.tool, result |-> o.result, text |-> FALSE], "tool-calls")
  /\ UNCHANGED <<config, status, messages, timer, faults>>

\* "Tool execution timed out", while the handler goes on.
ToolTimeout(h) ==
  /\ ~h.late /\ h.tool # "sandboxed"
  /\ handlers' = (handlers \ {h}) \cup {[h EXCEPT !.late = TRUE]}
  /\ Stepped([tool |-> h.tool, result |-> "timeout", text |-> FALSE], "tool-calls")
  /\ UNCHANGED <<config, status, messages, timer, acted, approvals, faults>>

\* The sandbox has a timer of its own and kills the worker, which may have
\* acted; the registry sets none beside it.
SandboxTimeout(h) ==
  /\ h.tool = "sandboxed" /\ ~h.held
  /\ \E o \in h.may : Happened(h, [o EXCEPT !.result = "timeout"])
  /\ Stepped([tool |-> h.tool, result |-> "timeout", text |-> FALSE], "tool-calls")
  /\ UNCHANGED <<config, status, messages, timer, faults>>

\* After an abort the next request of the model throws at once.
AbortedCall ==
  /\ pc = "llm" /\ timer = "fired" /\ pc' = "failing"
  /\ UNCHANGED <<config, status, model, todo, messages, timer, world, faults>>

-----------------------------------------------------------------------------
(* The end of executeRunRequest.                                           *)

AppendMessage ==
  /\ pc = "append" /\ todo # <<>>
  /\ Storage(/\ messages' = Append(messages, Head(todo)) /\ todo' = Tail(todo) /\ UNCHANGED pc,
             pc' = "failing" /\ UNCHANGED <<messages, todo>>)
  /\ UNCHANGED <<config, status, model, timer, world>>

Finish_early ==
  /\ pc = "append" /\ status = "running" /\ finish # "length" /\ status' = "completed"
  /\ pc' = (IF todo = <<>> THEN "end" ELSE pc)
  /\ UNCHANGED <<config, model, todo, messages, timer, world, faults>>

\* "length" fails the run; every other reason completes it, also the tool
\* calls of a model that was stopped at its last turn.
Finish ==
  /\ pc = "append" /\ todo = <<>>
  /\ IF finish = "length" THEN pc' = "failing" /\ UNCHANGED <<status, timer, faults>>
     ELSE Storage(status' = "completed" /\ pc' = "end" /\ timer' = "off",
                  pc' = "failing" /\ UNCHANGED <<status, timer>>)
  /\ UNCHANGED <<config, model, todo, messages, world>>

Crash ==
  /\ Live /\ faults < MaxFaults /\ faults' = faults + 1
  /\ pc' = "dead" /\ timer' = "off" /\ handlers' = {}
  /\ UNCHANGED <<config, status, model, todo, messages, acted, approvals>>
-----------------------------------------------------------------------------
Reasons == {"stop", "other", "length", "content-filter"}

Execute ==
  \/ Begin \/ Prologue("system", "user") \/ Prologue("user", "resolve") \/ MarkRunFailed
  \/ ResolveModel \/ AbortedCall \/ AppendMessage \/ Finish

Next ==
  \/ SubmitTask \/ Execute \/ Abort \/ LlmFails \/ Crash
  \/ \E reason \in Reasons, text \in BOOLEAN : LlmAnswers(reason, text)
  \/ \E c \in Calls : LlmCalls(Handler(c))
  \/ \E op \in SandboxOps, held \in BOOLEAN : LlmCalls(SandboxedHandler(op, held))
  \/ \E h \in handlers : HandlerEnds(h) \/ ToolTimeout(h) \/ SandboxTimeout(h)

\* The loop goes on, its timer fires, and so does that of the tool.  Nothing
\* is asked of the model or of the handlers.
Fairness ==
  /\ WF_vars(Execute) /\ WF_vars(Abort)
  /\ WF_vars(\E h \in handlers : ToolTimeout(h) \/ SandboxTimeout(h))

Spec == Init /\ [][Next]_vars /\ Fairness
-----------------------------------------------------------------------------
\* The values the variables take.
Steps ==
  [tool : ToolNames \cup {"none"}, result : {"none", "ok", "approval", "error", "timeout", "unavailable"}, text : BOOLEAN]
Messages == {"system", "user", "calls", "content", "approval", "error", "text"} \X (0..MaxTurns)
Handlers ==
  [turn : 1..MaxTurns, tool : ToolNames, may : SUBSET [result : {"ok", "error", "approval"}, acted : BOOLEAN],
   lawful : BOOLEAN, late : BOOLEAN, held : BOOLEAN]

TypeOK ==
  /\ agent \in Agents /\ perm \in LoadedPermissions /\ sandbox \in SandboxConfigs
  /\ pc \in {"new", "begin", "system", "user", "resolve", "llm", "tool", "append", "failing",
            "end", "stranded", "dead"}
  /\ status \in {"none", "pending", "running", "completed", "failed"}
  /\ steps \in Seq(Steps) /\ Len(steps) <= MaxTurns /\ finish \in Reasons \cup {"none", "tool-calls"}
  /\ todo \in Seq(Messages) /\ messages \in Seq(Messages)
  /\ timer \in {"off", "set", "fired"} /\ faults \in 0..MaxFaults
  /\ handlers \subseteq Handlers /\ approvals \subseteq 1..MaxTurns
  /\ acted \subseteq [turn : 1..MaxTurns, lawful : BOOLEAN]

\* A file that a tool writes lies in a root that the permissions name, whatever
\* dots the path goes over (isWithinRoot against Lawful); a command ran only
\* with the shell on, in an allowed shape, not elevated and with declared paths
\* in such roots, while what it wrote is its own affair (CallLawful); and nothing
\* was done by a call that waits for an approval.  Of what a sandboxed tool did,
\* each operation that the guards see for what it is stayed within the files,
\* hosts and system calls of the configuration (SandboxPolicy's Guarded).
ActsArePermitted ==
  \A w \in acted :
    w.lawful /\ w.turn \notin approvals

\* A tool that works for the run is one the agent may use: a coordinator
\* changes nothing but through its tasks.
ToolsAreGranted ==
  /\ \A h \in handlers : IsToolAllowed(h.tool)
  /\ agent.mode = "coordinator" => acted = {}

Tells(told, turn) == \E i \in 1..Len(messages) : messages[i] = <<told, turn>>

\* A completed run has told everything: the prologue, each call before its
\* result, each step after the one before, within the turns of the agent.  A
\* write that no message tells of means that the run did not complete, and so
\* does an approval that was asked for, unless the call had timed out.
CompletedIsWhole ==
  /\ status = "completed" =>
       /\ messages = <<<<"system", 0>>, <<"user", 0>>>> \o Script(steps)
       /\ Len(steps) \in 1..agent.turns
       /\ \A w \in acted : \E told \in {"content", "error"} : Tells(told, w.turn)
       /\ \A t \in approvals : Tells("approval", t) \/ steps[t].result = "timeout"
  /\ status = "pending" => messages = <<>>

\* The types, and the three promises above.
RunInv == TypeOK /\ ActsArePermitted /\ ToolsAreGranted /\ CompletedIsWhole

\* To a reader of the run its status only advances, it gets messages only while
\* it is running, and none of the late calls, timers and errors change a run
\* that has ended: RunExecution implements RunRecords for its one run.
Records == INSTANCE RunRecords WITH
             Runs <- {"run"},
             row  <- [r \in {"run"} |-> status],
             told <- [r \in {"run"} |-> Len(messages)]

ImplementsRunRecords == Records!RecordsSpec

\* A run that was submitted ends, although the model may never answer and a
\* handler never end: unless the gateway does, the storage throws when the
\* failure itself is to be stored, or a sandboxed tool left a process behind
\* that keeps its call from settling.
RunSettles ==
  status = "pending" ~> (status \in {"completed", "failed"} \/ pc \in {"stranded", "dead"} \/ \E h \in handlers : h.held)
=============================================================================
