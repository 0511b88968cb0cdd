---------------------------- MODULE LocalRuntime ----------------------------
(***************************************************************************)
(* The local runtime: the commands start and stop of scripts/local-runtime *)
(* and the gateway and web processes they leave behind.  What one command  *)
(* knows of another is what it finds on disk: two pid files, the settings, *)
(* the admin key file and the database.  Several commands may run at once, *)
(* a command may be killed between two of its steps, a process may die,    *)
(* and the system may give a dead process's pid to somebody else.          *)
(***************************************************************************)
EXTENDS Naturals, FiniteSets

CONSTANTS
  Launchers,      \* commands that run at the same time
  Pids, NoPid,    \* bound: process ids of the system
  Keys, NoKey,    \* bound: admin keys the commands make
  EmptyKey,       \* what a key file holds that was opened and not yet written
  Agents, NoAgent,\* bound: rows of the agents table with the assistant's name
  MaxCommands,    \* bound: commands that are begun
  MaxFaults       \* bound: deaths, kills, pids of others, bad answers, edits

ASSUME LocalRuntimeAssumption ==
  /\ NoPid \notin Pids /\ NoKey \notin Keys /\ EmptyKey \notin Keys \cup {NoKey} /\ NoAgent \notin Agents
  /\ {MaxCommands, MaxFaults} \subseteq Nat

Services   == {"gateway", "web"}
LocalTools == {"local"}          \* LOCAL_RUNTIME_AGENT_TOOLS

\* An agent's provider: name, model, temperature and token limit, as the user
\* wrote them, or the name and model that start writes.
Providers  == {"own", "runtime"}

VARIABLES
  proc,        \* per pid: whose it is, what it does, whether it was told to end
  pidFile,     \* gateway.pid and web.pid
  settings,    \* settings.json: the locale of the console, or "none"
  keyFile,     \* admin-key.txt
  stored,      \* the admin keys in the database
  rows,        \* the agents named LOCAL_RUNTIME_AGENT_NAME
  cmd,         \* per launcher: place, service it is at, what it has read
  commands, faults,
  \* what happened
  lapped,      \* a command was killed, or began while another was running
  reused       \* a pid in a pid file was given to another process

vars  == <<proc, pidFile, settings, keyFile, stored, rows, cmd, commands, faults, lapped, reused>>
disk  == <<settings, keyFile, stored, rows>>
count == <<commands, faults, lapped, reused>>

NoProc == [kind |-> "none", st |-> "none", killed |-> FALSE]
NoRow  == [prompt |-> "none", tools |-> {}, provider |-> "none"]
Gone   == [NoRow EXCEPT !.prompt = "gone"]   \* deleted: an id is not given again
Idle   == [pc |-> "idle", at |-> "gateway", key |-> NoKey, saw |-> NoAgent, seen |-> NoRow,
           old |-> [s \in Services |-> NoPid], pid |-> NoPid]
Ended  == {"idle", "ready", "stopped", "failed", "cut"}

Init ==
  /\ proc = [p \in Pids |-> NoProc] /\ pidFile = [s \in Services |-> NoPid]
  /\ settings = "none" /\ keyFile = NoKey /\ stored = {} /\ rows = [a \in Agents |-> NoRow]
  /\ cmd = [l \in Launchers |-> Idle]
  /\ commands = 0 /\ faults = 0 /\ lapped = FALSE /\ reused = FALSE

\* An element of S when it does not matter which.
OneOf(S) == IF S = {} THEN {} ELSE {CHOOSE x \in S : TRUE}

Running(l)   == cmd[l].pc \notin Ended
To(l, place) == cmd' = [cmd EXCEPT ![l].pc = place]
End(l, how)  == cmd' = [cmd EXCEPT ![l] = [Idle EXCEPT !.pc = how]]

\* The row is in the table.
Present(a) == rows[a] \notin {NoRow, Gone}

\* isProcessAlive and isHttpReachable.
Alive(p)     == p # NoPid /\ proc[p].kind # "none"
Reachable(s) == \E p \in Pids : proc[p].kind = s /\ proc[p].st = "serving"

Fault == faults < MaxFaults /\ faults' = faults + 1

-----------------------------------------------------------------------------
(* start: the settings, the admin key and the agent.                       *)

\* ensureAdminKey looks whether there is a key file, not what it holds.
KeyStep == IF keyFile = NoKey THEN "hash" ELSE "agent"

Begin(l, kind) ==
  /\ ~Running(l) /\ commands < MaxCommands
  /\ commands' = commands + 1
  /\ lapped' = (lapped \/ \E o \in Launchers : Running(o))
  /\ cmd' = [cmd EXCEPT ![l] = [Idle EXCEPT !.at = IF kind = "stop" THEN "web" ELSE "gateway",
                                            !.pc = IF kind = "stop" THEN "stop"
                                                   ELSE IF settings = "none" THEN "settings" ELSE KeyStep]]
  /\ UNCHANGED <<proc, pidFile, disk, faults, reused>>

\* loadConfig and loadProviderSmokeConfig refuse an environment that lacks a
\* value or has a wrong one, before the command has done anything.
LoadConfigFails(l) ==
  /\ ~Running(l) /\ commands < MaxCommands
  /\ commands' = commands + 1 /\ End(l, "failed")
  /\ UNCHANGED <<proc, pidFile, disk, faults, lapped, reused>>

\* writeRuntimeSettings replaces what the file says of the locale.
WriteRuntimeSettings(locale) == settings' = locale

\* There was no file a moment ago: the default is written.
DefaultSettings(l) ==
  /\ cmd[l].pc = "settings"
  /\ WriteRuntimeSettings("en")
  /\ To(l, KeyStep)
  /\ UNCHANGED <<proc, pidFile, keyFile, stored, rows, count>>

\* generateApiKey: a key nobody has, and which one does not matter.
FreshKeys == OneOf(Keys \ stored)

\* The other order: the key file is written first.
InsertKey_fileFirst(l) ==
  /\ cmd[l].pc = "hash"
  /\ \E k \in FreshKeys : keyFile' = k /\ cmd' = [cmd EXCEPT ![l].key = k, ![l].pc = "keyed"]
  /\ UNCHANGED <<proc, pidFile, settings, stored, rows, count>>

\* ensureAdminKey without a key file: hash, count and create, then the file.
InsertKey(l) ==
  /\ cmd[l].pc = "hash"
  /\ \E k \in FreshKeys :
       stored' = stored \cup {k} /\ cmd' = [cmd EXCEPT ![l].key = k, ![l].pc = "keyed"]
  /\ UNCHANGED <<proc, pidFile, settings, keyFile, rows, count>>

\* writeFileSync truncates or creates the file, and then writes it.
OpenKeyFile(l) ==
  /\ cmd[l].pc = "keyed"
  /\ keyFile' = EmptyKey /\ To(l, "writing")
  /\ UNCHANGED <<proc, pidFile, settings, stored, rows, count>>

WriteKeyFile(l) ==
  /\ cmd[l].pc = "writing"
  /\ keyFile' = cmd[l].key
  /\ cmd' = [cmd EXCEPT ![l].pc = "agent", ![l].key = NoKey]
  /\ UNCHANGED <<proc, pidFile, settings, stored, rows, count>>

\* syncLocalRuntimeAgent reads one row of the name, if there is any.
SelectAgent(l) ==
  /\ cmd[l].pc = "agent"
  /\ \E a \in Agents \cup {NoAgent} :
       /\ IF a = NoAgent THEN \A b \in Agents : ~Present(b) ELSE Present(a)
       /\ cmd' = [cmd EXCEPT ![l].pc = "row", ![l].saw = a, ![l].seen = IF a = NoAgent THEN NoRow ELSE rows[a]]
  /\ UNCHANGED <<proc, pidFile, disk, count>>

CreateDefaultLocalRuntimeAgent_fresh(row, provider) ==
  [prompt |-> "default", tools |-> LocalTools, provider |-> provider]

\* trim takes the blanks around a prompt; of a blank one it leaves none.
Trim(prompt) ==
  IF prompt = "padded" THEN "own" ELSE IF prompt = "blank" THEN "none" ELSE prompt

\* createDefaultLocalRuntimeAgent trims the prompt, puts the default where that
\* leaves none, adds its tools to those of the agent, and takes the provider it
\* is given for the whole of the old one.
CreateDefaultLocalRuntimeAgent(row, provider) ==
  [prompt |-> IF Trim(row.prompt) = "none" THEN "default" ELSE Trim(row.prompt),
   tools |-> row.tools \cup LocalTools, provider |-> provider]

\* insert, update, or nothing when the row is as desired.
WriteAgent(l) ==
  /\ cmd[l].pc = "row"
  /\ LET desired == CreateDefaultLocalRuntimeAgent(cmd[l].seen, "runtime") IN
     \/ cmd[l].saw # NoAgent /\ desired = cmd[l].seen /\ UNCHANGED rows
     \/ /\ cmd[l].saw # NoAgent /\ desired # cmd[l].seen
        /\ rows' = [rows EXCEPT ![cmd[l].saw] = IF Present(cmd[l].saw) THEN desired ELSE @]
     \/ /\ cmd[l].saw = NoAgent
        /\ \E a \in OneOf({b \in Agents : rows[b] = NoRow}) : rows' = [rows EXCEPT ![a] = desired]
  /\ cmd' = [cmd EXCEPT ![l].pc = "check", ![l].saw = NoAgent, ![l].seen = NoRow]
  /\ UNCHANGED <<proc, pidFile, settings, keyFile, stored, count>>

-----------------------------------------------------------------------------
(* start: the two services.                                                *)

Checked(l) ==
  cmd' = [cmd EXCEPT ![l].pc = IF cmd[l].at = "gateway" THEN "check" ELSE "decide",
                     ![l].at = IF cmd[l].at = "gateway" THEN "web" ELSE "gateway"]

\* ensureNoUntrackedCollision: a live tracked process will do; a stale pid file goes.
CheckTracked(l) ==
  /\ cmd[l].pc = "check"
  /\ IF Alive(pidFile[cmd[l].at]) THEN Checked(l) /\ UNCHANGED pidFile
     ELSE pidFile' = [pidFile EXCEPT ![cmd[l].at] = NoPid] /\ To(l, "fetch")
  /\ UNCHANGED <<proc, disk, count>>

\* An answer below 500 from the port ends the command.  A service that answers
\* with 500 or more is taken for none.
CheckPort(l) ==
  /\ cmd[l].pc = "fetch"
  /\ \/ Reachable(cmd[l].at) /\ End(l, "failed") /\ UNCHANGED faults
     \/ ~Reachable(cmd[l].at) /\ Checked(l) /\ UNCHANGED faults
     \/ Reachable(cmd[l].at) /\ Checked(l) /\ Fault
  /\ UNCHANGED <<proc, pidFile, disk, commands, lapped, reused>>

ReusedPid_none(s) == NoPid

\* Both pids are read and judged before the build.
ReusedPid(s) == IF Alive(pidFile[s]) THEN pidFile[s] ELSE NoPid

Decide(l) ==
  /\ cmd[l].pc = "decide"
  /\ LET old == [s \in Services |-> ReusedPid(s)] IN
     cmd' = [cmd EXCEPT ![l].old = old,
                        ![l].pc = IF \E s \in Services : old[s] = NoPid THEN "build" ELSE "spawn"]
  /\ UNCHANGED <<proc, pidFile, disk, count>>

Build(l) ==
  /\ cmd[l].pc = "build"
  /\ To(l, "spawn") \/ End(l, "failed")
  /\ UNCHANGED <<proc, pidFile, disk, count>>

\* A pid file or a command holds this pid.
Known(p) == \/ \E s \in Services : pidFile[s] = p
            \/ \E l \in Launchers : cmd[l].pid = p \/ \E s \in Services : cmd[l].old[s] = p

\* The system gives a free pid to a new process; of those nobody knows, which
\* one does not matter.
NewProcess(p, kind) ==
  /\ proc[p] = NoProc
  /\ Known(p) \/ p \in OneOf({q \in Pids : proc[q] = NoProc /\ ~Known(q)})
  /\ proc' = [proc EXCEPT ![p] = [kind |-> kind, st |-> "booting", killed |-> FALSE]]
  /\ reused' = (reused \/ Known(p))

\* spawnBackgroundProcess, or the pid that was found.
Spawn(l) ==
  /\ cmd[l].pc = "spawn"
  /\ LET old == cmd[l].old[cmd[l].at] IN
     \/ /\ old # NoPid /\ cmd' = [cmd EXCEPT ![l].pc = "record", ![l].pid = old]
        /\ UNCHANGED <<proc, reused>>
     \/ /\ old = NoPid
        /\ \E p \in Pids : NewProcess(p, cmd[l].at) /\ cmd' = [cmd EXCEPT ![l].pc = "record", ![l].pid = p]
     \/ old = NoPid /\ End(l, "failed") /\ UNCHANGED <<proc, reused>>
  /\ UNCHANGED <<pidFile, disk, commands, faults, lapped>>

\* The pid file is written once the process exists.
Record(l) ==
  /\ cmd[l].pc = "record"
  /\ pidFile' = [pidFile EXCEPT ![cmd[l].at] = cmd[l].pid]
  /\ cmd' = [cmd EXCEPT ![l].pc = IF cmd[l].at = "gateway" THEN "spawn" ELSE "wait", ![l].pid = NoPid,
                        ![l].old[cmd[l].at] = NoPid, ![l].at = IF cmd[l].at = "gateway" THEN "web" ELSE "gateway"]
  /\ UNCHANGED <<proc, disk, count>>

\* waitForUrl of the gateway, then of the web; then the banner.
Wait(l) ==
  /\ cmd[l].pc = "wait" /\ Reachable(cmd[l].at)
  /\ IF cmd[l].at = "gateway" THEN cmd' = [cmd EXCEPT ![l].at = "web"] ELSE End(l, "ready")
  /\ UNCHANGED <<proc, pidFile, disk, count>>

WaitTimeout(l) ==
  /\ cmd[l].pc = "wait" /\ End(l, "failed")
  /\ UNCHANGED <<proc, pidFile, disk, count>>

-----------------------------------------------------------------------------
(* stop: the web, then the gateway.                                        *)

Stopped(l) ==
  IF cmd[l].at = "web" THEN cmd' = [cmd EXCEPT ![l] = [Idle EXCEPT !.pc = "stop"]] ELSE End(l, "stopped")

StopCheck_trusting(l) ==
  /\ cmd[l].pc = "stop"
  /\ pidFile' = [pidFile EXCEPT ![cmd[l].at] = NoPid] /\ Stopped(l)
  /\ UNCHANGED <<proc, disk, count>>

\* stopTrackedProcess: a pid that is dead is forgotten.
StopCheck(l) ==
  /\ cmd[l].pc = "stop"
  /\ LET p == pidFile[cmd[l].at] IN
     IF Alive(p) THEN cmd' = [cmd EXCEPT ![l].pc = "kill", ![l].pid = p] /\ UNCHANGED pidFile
     ELSE pidFile' = [pidFile EXCEPT ![cmd[l].at] = NoPid] /\ Stopped(l)
  /\ UNCHANGED <<proc, disk, count>>

\* process.kill throws when the process has ended since, and ends the command.
StopKill(l) ==
  /\ cmd[l].pc = "kill"
  /\ IF Alive(cmd[l].pid)
     THEN /\ proc' = [proc EXCEPT ![cmd[l].pid].killed = TRUE]
          /\ pidFile' = [pidFile EXCEPT ![cmd[l].at] = NoPid]
          /\ Stopped(l)
     ELSE End(l, "failed") /\ UNCHANGED <<proc, pidFile>>
  /\ UNCHANGED <<disk, count>>

-----------------------------------------------------------------------------
(* The processes.                                                          *)

\* A gateway that finds its port taken ends; the web server takes another port.
Listen(p) ==
  /\ proc[p].st = "booting"
  /\ proc' = [proc EXCEPT ![p] = IF ~Reachable(@.kind) THEN [@ EXCEPT !.st = "serving"]
                                 ELSE IF @.kind = "gateway" THEN NoProc ELSE [@ EXCEPT !.st = "elsewhere"]]
  /\ UNCHANGED <<pidFile, disk, cmd, count>>

Ends(p) == proc[p].killed /\ proc' = [proc EXCEPT ![p] = NoProc] /\ UNCHANGED <<pidFile, disk, cmd, count>>

Dies(p) ==
  /\ Alive(p) /\ ~proc[p].killed /\ Fault /\ proc' = [proc EXCEPT ![p] = NoProc]
  /\ UNCHANGED <<pidFile, disk, cmd, commands, lapped, reused>>

\* A process that has nothing to do with the runtime.
Foreign(p) ==
  /\ NewProcess(p, "other") /\ reused' /\ Fault
  /\ UNCHANGED <<pidFile, disk, cmd, commands, lapped>>

\* The command is killed.
Cut(l) ==
  /\ Running(l) /\ Fault /\ End(l, "cut") /\ lapped' = TRUE
  /\ UNCHANGED <<proc, pidFile, disk, commands, reused>>

\* POST and DELETE /agents of a running gateway, with the assistant's name.
UserAgent(a) ==
  /\ Reachable("gateway") /\ Fault
  /\ \/ /\ rows[a] = NoRow
        /\ \E pr \in {"own", "padded", "blank"} :
             rows' = [rows EXCEPT ![a] = [prompt |-> pr, tools |-> {"own"}, provider |-> "own"]]
     \/ Present(a) /\ rows' = [rows EXCEPT ![a] = Gone]
  /\ UNCHANGED <<proc, pidFile, settings, keyFile, stored, cmd, commands, lapped, reused>>

\* PUT /api/runtime/settings of a running gateway.
UserSettings ==
  /\ Reachable("gateway") /\ Fault
  /\ WriteRuntimeSettings("zh-CN")
  /\ UNCHANGED <<proc, pidFile, keyFile, stored, rows, cmd, commands, lapped, reused>>
-----------------------------------------------------------------------------
Step(l) ==
  \/ DefaultSettings(l) \/ InsertKey(l) \/ OpenKeyFile(l) \/ WriteKeyFile(l) \/ SelectAgent(l) \/ WriteAgent(l)
  \/ CheckTracked(l) \/ CheckPort(l) \/ Decide(l) \/ Build(l) \/ Spawn(l) \/ Record(l) \/ Wait(l)
  \/ WaitTimeout(l) \/ StopCheck(l) \/ StopKill(l)

Next ==
  \/ \E l \in Launchers : Begin(l, "start") \/ Begin(l, "stop") \/ LoadConfigFails(l) \/ Step(l) \/ Cut(l)
  \/ \E p \in Pids : Listen(p) \/ Ends(p) \/ Dies(p) \/ Foreign(p)
  \/ \E a \in Agents : UserAgent(a)
  \/ UserSettings

\* A command that was not killed goes on, and a process that was told to end does.
Fairness ==
  /\ \A l \in Launchers : WF_vars(Step(l))
  /\ \A p \in Pids : WF_vars(Ends(p))

Spec == Init /\ [][Next]_vars /\ Fairness
-----------------------------------------------------------------------------
Process == [kind : Services \cup {"other", "none"}, st : {"none", "booting", "serving", "elsewhere"}, killed : BOOLEAN]

Row == [prompt : {"none", "gone", "own", "padded", "blank", "default"}, tools : SUBSET ({"own"} \cup LocalTools),
        provider : Providers \cup {"none"}]

Command ==
  [pc : Ended \cup {"settings", "hash", "keyed", "writing", "agent", "row", "check", "fetch",
                    "decide", "build", "spawn", "record", "wait", "stop", "kill"},
   at : Services, key : Keys \cup {NoKey}, saw : Agents \cup {NoAgent}, seen : Row,
   old : [Services -> Pids \cup {NoPid}], pid : Pids \cup {NoPid}]

\* The values the variables take.
TypeOK ==
  /\ proc \in [Pids -> Process]
  /\ pidFile \in [Services -> Pids \cup {NoPid}]
  /\ settings \in {"none", "en", "zh-CN"}
  /\ keyFile \in Keys \cup {NoKey, EmptyKey} /\ stored \subseteq Keys
  /\ rows \in [Agents -> Row] /\ \A a \in Agents : Present(a) => rows[a].provider \in Providers
  /\ cmd \in [Launchers -> Command]
  /\ commands \in 0..MaxCommands /\ faults \in 0..MaxFaults
  /\ lapped \in BOOLEAN /\ reused \in BOOLEAN

\* The key in admin-key.txt, which a later start trusts and prints without
\* asking the database, is in the database, wherever a start was killed.  The
\* file holds none at all only while it is written, unless a start was killed
\* at that, or met another.
KeyFileIsStored ==
  /\ keyFile \in Keys => keyFile \in stored
  /\ keyFile = EmptyKey => lapped \/ \E l \in Launchers : cmd[l].pc = "writing"

\* When no command is running, every service that was not told to end is the
\* one its pid file names, so that stop finds it: unless two commands
\* overlapped or one was killed.
NothingUntracked ==
  (~lapped /\ \A l \in Launchers : ~Running(l)) =>
    \A p \in Pids : proc[p].kind \in Services /\ ~proc[p].killed => pidFile[proc[p].kind] = p

\* One start after another leaves one agent of the name; two that overlap may
\* both insert, as the name is not unique in the schema.
OneAgent ==
  Cardinality({a \in Agents : Present(a)}) > 1 => lapped \/ faults > 0

\* The types, and what the commands leave on disk.
RuntimeInv == TypeOK /\ KeyFileIsStored /\ OneAgent

\* The tools and the prompt of an agent that exists outlive every start: tools
\* are added only, and of a prompt that is not blank only the blanks around it
\* may go.  The provider is not kept: a start writes its own over the model, the
\* temperature and the token limit the user chose.  The locale is kept unless
\* two starts overlap and one writes the default late (syncLocalRuntimeAgent,
\* createDefaultLocalRuntimeAgent).
EditsAreKept ==
  [][/\ settings = "zh-CN" /\ settings' # settings => lapped
     /\ \A a \in Agents : Present(a) /\ Present(a)' =>
       /\ rows[a].tools \subseteq rows'[a].tools
       /\ rows[a].prompt # "blank" => rows'[a].prompt \in {rows[a].prompt, Trim(rows[a].prompt)}]_vars

\* A command ends, whatever the services do: no wait of start is for ever.
CommandsEnd == \A l \in Launchers : Running(l) ~> ~Running(l)

\* stop ends the service whose pid it finds: a live one is gone some day,
\* unless a command is killed or meets another.
StopEndsServices ==
  \A p \in Pids :
    (\E l \in Launchers : /\ cmd[l].pc = "stop" /\ pidFile[cmd[l].at] = p
                           /\ proc[p].kind = cmd[l].at)
      ~> (proc[p].kind \notin Services \/ lapped)

\* What start and stop do is done some day.
CommandsWork == CommandsEnd /\ StopEndsServices
=============================================================================
