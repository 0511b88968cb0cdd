------------------------ MODULE LocalRuntimeProofs ------------------------
(***************************************************************************)
(* Proofs about start and stop, for any number of commands, processes,     *)
(* keys, agents and faults, and for a kill of a command at any step.       *)
(***************************************************************************)
EXTENDS LocalRuntime, FiniteSetTheorems, TLAPS

-----------------------------------------------------------------------------
(* The inductive invariant.                                                 *)

\* A key that waits for its file is in the database.
KeyedIsStored == \A l \in Launchers : cmd[l].pc \in {"keyed", "writing"} => cmd[l].key \in stored

\* What a start is about to write over an agent's row is what it would make
\* of the row as it is now.
Desired(row) == CreateDefaultLocalRuntimeAgent(row, "runtime")

MergeIsCurrent ==
  \A l \in Launchers : cmd[l].pc = "row" /\ cmd[l].saw # NoAgent =>
    \/ rows[cmd[l].saw] = Gone
    \/ Present(cmd[l].saw) /\ Desired(rows[cmd[l].saw]) = Desired(cmd[l].seen)

InsertsDefault ==
  \A l \in Launchers : cmd[l].pc = "row" /\ cmd[l].saw = NoAgent => cmd[l].seen = NoRow

\* Rows that are in the table have a prompt.
Prompts == {"own", "padded", "blank", "default"}
RowsArePrompted == \A a \in Agents : Present(a) => rows[a].prompt \in Prompts

\* No service has been started before there were settings.
SettingsComeFirst ==
  settings = "none" =>
    /\ \A l \in Launchers : cmd[l].pc \in Ended \cup {"settings", "stop", "kill"}
    /\ \A p \in Pids : proc[p].kind \notin Services

\* Commands that do not overlap are alone.
CommandsAreAlone == \A l, o \in Launchers : Running(l) /\ Running(o) => l = o

\* A start that is about to write the default settings found none, and there
\* are still none.
NoSettingsYet == \A l \in Launchers : cmd[l].pc = "settings" => settings = "none"

\* While nothing else touches the table: a row at most, and none while a
\* start is about to insert.
AtMostOne == \A a, b \in Agents : Present(a) /\ Present(b) => a = b
NoneToInsert ==
  \A l \in Launchers : cmd[l].pc = "row" /\ cmd[l].saw = NoAgent => \A a \in Agents : ~Present(a)

\* A service nobody has told to end.
Serves(p) == proc[p].kind \in Services /\ ~proc[p].killed

\* Its pid is in its file, or about to be written there.
TrackedSoon ==
  \A p \in Pids : Serves(p) =>
    \/ pidFile[proc[p].kind] = p
    \/ \E l \in Launchers : cmd[l].pc = "record" /\ cmd[l].pid = p /\ cmd[l].at = proc[p].kind

\* The services a start has not dealt with.
Ahead(l) == IF cmd[l].at = "gateway" THEN Services ELSE {"web"}

\* What a start found out of a service still holds: the pid it found is the
\* one of the file, and where it found none there is none but its own child.
FoundHolds ==
  \A l \in Launchers :
    /\ cmd[l].pc \in {"decide", "build"} => cmd[l].at = "gateway"
    /\ cmd[l].pc = "kill" => cmd[l].pid = pidFile[cmd[l].at]
    /\ cmd[l].pc = "record" /\ cmd[l].old[cmd[l].at] # NoPid => cmd[l].pid = cmd[l].old[cmd[l].at]
    /\ cmd[l].pc \in {"build", "spawn", "record"} => \A s \in Ahead(l) :
         /\ cmd[l].old[s] # NoPid => pidFile[s] = cmd[l].old[s]
         /\ cmd[l].old[s] = NoPid => \A p \in Pids : Serves(p) /\ proc[p].kind = s =>
              cmd[l].pc = "record" /\ cmd[l].at = s /\ cmd[l].pid = p

KeyInv   == KeyFileIsStored /\ KeyedIsStored
RowInv   == RowsArePrompted /\ MergeIsCurrent /\ InsertsDefault
AloneInv == ~lapped => CommandsAreAlone /\ NoSettingsYet /\ TrackedSoon /\ FoundHolds
AgentInv == ~lapped /\ faults = 0 => AtMostOne /\ NoneToInsert

IndInv == TypeOK /\ KeyInv /\ RowInv /\ SettingsComeFirst /\ AloneInv /\ AgentInv

USE DEF disk, count, To

-----------------------------------------------------------------------------
(* Type correctness.                                                        *)

LEMMA TypeInit == Init => TypeOK
<1> SUFFICES ASSUME Init PROVE TypeOK OBVIOUS
<1>1. NoRow \in Row BY DEF NoRow, Row
<1>2. Idle \in Command BY <1>1 DEF Idle, Command, Ended, Services
<1>3. MaxCommands \in Nat /\ MaxFaults \in Nat BY LocalRuntimeAssumption
<1>4. \A a \in Agents : ~Present(a) BY DEF Init, Present
<1>5. NoProc \in Process
  BY DEF NoProc, Process
<1>6. 0 \in 0..MaxCommands /\ 0 \in 0..MaxFaults BY <1>3
<1> QED BY <1>1, <1>2, <1>4, <1>5, <1>6 DEF Init, TypeOK

(* What a command is made of, and what changing one of its fields makes.    *)
LEMMA Fields ==
  ASSUME NEW c \in Command
  PROVE  /\ c = [pc |-> c.pc, at |-> c.at, key |-> c.key, saw |-> c.saw, seen |-> c.seen,
                 old |-> c.old, pid |-> c.pid]
         /\ c.at \in Services /\ c.key \in Keys \cup {NoKey} /\ c.saw \in Agents \cup {NoAgent}
         /\ c.seen \in Row /\ c.old \in [Services -> Pids \cup {NoPid}] /\ c.pid \in Pids \cup {NoPid}
  BY DEF Command

LEMMA SetCommand ==
  ASSUME cmd \in [Launchers -> Command], NEW l \in Launchers, NEW c \in Command,
         cmd' = [cmd EXCEPT ![l] = c]
  PROVE  cmd' \in [Launchers -> Command]
  OBVIOUS

(* A command that ends goes back to its initial values.                     *)
LEMMA IdleIsCommand == ASSUME NEW how \in Ended PROVE [Idle EXCEPT !.pc = how] \in Command
<1>1. NoRow \in Row BY DEF NoRow, Row
<1> QED BY <1>1 DEF Idle, Command, Ended, Services

LEMMA FaultsBounded == ASSUME faults \in 0..MaxFaults, Fault PROVE faults' \in 0..MaxFaults
  BY LocalRuntimeAssumption DEF Fault

LEMMA EndType ==
  ASSUME cmd \in [Launchers -> Command], NEW l \in Launchers, NEW how \in Ended, End(l, how)
  PROVE  cmd' \in [Launchers -> Command]
  BY IdleIsCommand DEF End

LEMMA DesiredType == ASSUME NEW row \in Row PROVE Desired(row) \in Row /\ Desired(row).provider \in Providers
  BY DEF Desired, CreateDefaultLocalRuntimeAgent, Trim, Row, Providers, LocalTools

LEMMA TypeBegin ==
  ASSUME TypeOK, NEW l \in Launchers, Begin(l, "start") \/ Begin(l, "stop") \/ LoadConfigFails(l) \/ Cut(l)
  PROVE  TypeOK'
<1> USE DEF TypeOK, Present
<1>1. ASSUME NEW kind \in {"start", "stop"}, Begin(l, kind) PROVE TypeOK'
  <2>1. NoRow \in Row BY DEF NoRow, Row
  <2>2. cmd' \in [Launchers -> Command]
    BY <1>1, <2>1 DEF Begin, Idle, Command, Ended, Services, KeyStep
  <2> QED BY <1>1, <2>2, LocalRuntimeAssumption DEF Begin
<1>2. CASE LoadConfigFails(l)
  BY <1>2, EndType, LocalRuntimeAssumption DEF LoadConfigFails, Ended
<1>3. CASE Cut(l)
  BY <1>3, EndType, FaultsBounded DEF Cut, Ended
<1> QED BY <1>1, <1>2, <1>3

LEMMA TypeStart ==
  ASSUME TypeOK, NEW l \in Launchers,
         \/ DefaultSettings(l) \/ InsertKey(l) \/ OpenKeyFile(l) \/ WriteKeyFile(l) \/ SelectAgent(l) \/ WriteAgent(l)
  PROVE  TypeOK'
<1>0. cmd \in [Launchers -> Command] /\ cmd[l] \in Command BY DEF TypeOK
<1> USE <1>0
<1>1. CASE DefaultSettings(l)
  <2> DEFINE c == [cmd[l] EXCEPT !.pc = KeyStep]
  <2>1. c \in Command BY DEF Command, KeyStep
  <2>2. cmd' = [cmd EXCEPT ![l] = c] BY <1>1 DEF DefaultSettings
  <2> QED BY <1>1, <2>1, <2>2, SetCommand DEF DefaultSettings, WriteRuntimeSettings, TypeOK, Present
<1>2. CASE InsertKey(l)
  <2>1. PICK k \in Keys : /\ stored' = stored \cup {k}
                          /\ cmd' = [cmd EXCEPT ![l].key = k, ![l].pc = "keyed"]
    BY <1>2 DEF InsertKey, FreshKeys, OneOf
  <2> DEFINE c == [cmd[l] EXCEPT !.key = k, !.pc = "keyed"]
  <2>2. c \in Command BY DEF Command
  <2>3. cmd' = [cmd EXCEPT ![l] = c] BY <2>1
  <2>4. cmd' \in [Launchers -> Command] BY <2>2, <2>3, SetCommand
  <2> QED BY <1>2, <2>1, <2>4 DEF InsertKey, TypeOK, Present
<1>6. CASE OpenKeyFile(l)
  <2> DEFINE c == [cmd[l] EXCEPT !.pc = "writing"]
  <2>1. c \in Command BY DEF Command
  <2>2. cmd' = [cmd EXCEPT ![l] = c] BY <1>6 DEF OpenKeyFile
  <2>3. cmd' \in [Launchers -> Command] BY <2>1, <2>2, SetCommand
  <2> QED BY <1>6, <2>3 DEF OpenKeyFile, TypeOK, Present
<1>3. CASE WriteKeyFile(l)
  <2> DEFINE c == [cmd[l] EXCEPT !.pc = "agent", !.key = NoKey]
  <2>1. c \in Command BY DEF Command
  <2>2. cmd' = [cmd EXCEPT ![l] = c] BY <1>3 DEF WriteKeyFile
  <2>3. cmd[l].key \in Keys \cup {NoKey} BY Fields
  <2> QED BY <1>3, <2>1, <2>2, <2>3, SetCommand DEF WriteKeyFile, TypeOK, Present
<1>4. CASE SelectAgent(l)
  <2>1. PICK a \in Agents \cup {NoAgent} :
          cmd' = [cmd EXCEPT ![l].pc = "row", ![l].saw = a,
                             ![l].seen = IF a = NoAgent THEN NoRow ELSE rows[a]]
    BY <1>4 DEF SelectAgent
  <2> DEFINE row == IF a = NoAgent THEN NoRow ELSE rows[a]
             c == [cmd[l] EXCEPT !.pc = "row", !.saw = a, !.seen = row]
  <2>2. row \in Row
    <3>1. NoRow \in Row BY DEF NoRow, Row
    <3> QED BY <3>1 DEF TypeOK
  <2>3. c \in Command BY <2>2 DEF Command
  <2>4. cmd' = [cmd EXCEPT ![l] = c] BY <2>1
  <2>5. cmd' \in [Launchers -> Command] BY <2>3, <2>4, SetCommand
  <2> QED BY <1>4, <2>5 DEF SelectAgent, TypeOK, Present
<1>5. CASE WriteAgent(l)
  <2> DEFINE desired == Desired(cmd[l].seen)
  <2>1. cmd[l] \in Command BY <1>5
  <2>2. NoRow \in Row BY DEF NoRow, Row
  <2>3. desired \in Row /\ desired.provider \in Providers BY <2>1, DesiredType DEF Command
  <2>4. cmd' \in [Launchers -> Command]
    <3> DEFINE c == [cmd[l] EXCEPT !.pc = "check", !.saw = NoAgent, !.seen = NoRow]
    <3>1. c \in Command BY <2>2 DEF Command
    <3>2. cmd' = [cmd EXCEPT ![l] = c] BY <1>5 DEF WriteAgent
    <3> QED BY <3>1, <3>2, SetCommand
  <2>5. \/ UNCHANGED rows
        \/ \E a \in Agents : rows' = [rows EXCEPT ![a] = desired]
    <3>1. CASE cmd[l].saw # NoAgent
      <4>1. cmd[l].saw \in Agents BY <3>1, <2>1 DEF Command
      <4>2. rows \in [Agents -> Row] BY DEF TypeOK
      <4> QED BY <3>1, <4>1, <4>2, <1>5 DEF WriteAgent, Desired
    <3>2. CASE cmd[l].saw = NoAgent BY <3>2, <1>5 DEF WriteAgent, Desired, OneOf
    <3> QED BY <3>1, <3>2
  <2>6. rows' \in [Agents -> Row] /\ \A a \in Agents : Present(a)' => rows'[a].provider \in Providers
    <3> HIDE DEF desired
    <3> QED BY <2>3, <2>5 DEF TypeOK, Present
  <2> QED BY <1>5, <2>4, <2>6 DEF WriteAgent, TypeOK, Present
<1> QED BY <1>1, <1>2, <1>3, <1>4, <1>5, <1>6

LEMMA CheckedType ==
  ASSUME cmd \in [Launchers -> Command], NEW l \in Launchers, Checked(l)
  PROVE  cmd' \in [Launchers -> Command]
<1> DEFINE c == [cmd[l] EXCEPT !.pc = IF cmd[l].at = "gateway" THEN "check" ELSE "decide",
                               !.at = IF cmd[l].at = "gateway" THEN "web" ELSE "gateway"]
<1>1. c \in Command BY DEF Command, Services
<1>2. cmd' = [cmd EXCEPT ![l] = c] BY DEF Checked
<1> QED BY <1>1, <1>2, SetCommand

(* To another place with nothing else changed.                              *)
LEMMA MoveType ==
  ASSUME cmd \in [Launchers -> Command], NEW l \in Launchers,
         NEW place \in {"fetch", "spawn"}, cmd' = [cmd EXCEPT ![l].pc = place]
  PROVE  cmd' \in [Launchers -> Command]
<1> DEFINE c == [cmd[l] EXCEPT !.pc = place]
<1>1. c \in Command BY DEF Command
<1>2. cmd' = [cmd EXCEPT ![l] = c] OBVIOUS
<1> QED BY <1>1, <1>2, SetCommand

(* A process to record or to kill is at hand.                               *)
LEMMA PidType ==
  ASSUME cmd \in [Launchers -> Command], NEW l \in Launchers, NEW place \in {"record", "kill"},
         NEW p \in Pids \cup {NoPid}, cmd' = [cmd EXCEPT ![l].pc = place, ![l].pid = p]
  PROVE  cmd' \in [Launchers -> Command]
<1> DEFINE c == [cmd[l] EXCEPT !.pc = place, !.pid = p]
<1>1. c \in Command BY DEF Command
<1>2. cmd' = [cmd EXCEPT ![l] = c] OBVIOUS
<1> QED BY <1>1, <1>2, SetCommand

LEMMA TypeServices ==
  ASSUME TypeOK, NEW l \in Launchers,
         \/ CheckTracked(l) \/ CheckPort(l) \/ Decide(l) \/ Build(l) \/ Spawn(l) \/ Record(l)
         \/ Wait(l) \/ WaitTimeout(l)
  PROVE  TypeOK'
<1>0. cmd \in [Launchers -> Command] /\ cmd[l] \in Command BY DEF TypeOK
<1> USE <1>0
<1>f. cmd[l].at \in Services /\ cmd[l].pid \in Pids \cup {NoPid}
      /\ cmd[l].old \in [Services -> Pids \cup {NoPid}]
  BY Fields
<1>1. CASE CheckTracked(l)
  <2>1. cmd' \in [Launchers -> Command] BY <1>1, CheckedType, MoveType DEF CheckTracked
  <2> QED BY <1>f, <1>1, <2>1 DEF CheckTracked, TypeOK, Present
<1>2. CASE CheckPort(l)
  <2>1. CASE End(l, "failed") /\ UNCHANGED faults BY <1>2, <2>1, EndType DEF CheckPort, Ended, TypeOK, Present
  <2>2. CASE Checked(l)
    <3>1. cmd' \in [Launchers -> Command] BY <2>2, CheckedType
    <3> QED BY <1>2, <3>1, FaultsBounded DEF CheckPort, TypeOK, Present
  <2> QED BY <1>2, <2>1, <2>2 DEF CheckPort
<1>3. CASE Decide(l)
  <2> DEFINE old == [s \in Services |-> ReusedPid(s)]
             c == [cmd[l] EXCEPT !.old = old,
                                 !.pc = IF \E s \in Services : old[s] = NoPid THEN "build" ELSE "spawn"]
  <2>1. old \in [Services -> Pids \cup {NoPid}] BY DEF ReusedPid, TypeOK
  <2>2. cmd' = [cmd EXCEPT ![l] = c] BY <1>3 DEF Decide
  <2>3. c \in Command
    <3> HIDE DEF old
    <3> QED BY <2>1 DEF Command
  <2> QED BY <1>3, <2>2, <2>3, SetCommand DEF Decide, TypeOK, Present
<1>4. CASE Build(l)
  <2>1. CASE To(l, "spawn") BY <1>4, <2>1, MoveType DEF Build, TypeOK, Present
  <2>2. CASE End(l, "failed") BY <1>4, <2>2, EndType DEF Build, Ended, TypeOK, Present
  <2> QED BY <1>4, <2>1, <2>2 DEF Build
<1>5. CASE Spawn(l)
  <2>1. CASE End(l, "failed") /\ UNCHANGED <<proc, reused>> BY <1>5, <2>1, EndType DEF Spawn, Ended, TypeOK, Present
  <2>2. CASE \E p \in Pids : NewProcess(p, cmd[l].at) /\ cmd' = [cmd EXCEPT ![l].pc = "record", ![l].pid = p]
    <3>1. cmd' \in [Launchers -> Command] BY <2>2, PidType
    <3>2. PICK p \in Pids :
            /\ proc' = [proc EXCEPT ![p] = [kind |-> cmd[l].at, st |-> "booting", killed |-> FALSE]]
            /\ reused' \in BOOLEAN
      BY <2>2 DEF NewProcess
    <3>3. proc' \in [Pids -> Process]
      BY <1>f, <3>2 DEF TypeOK, Process
    <3> QED BY <1>5, <3>1, <3>2, <3>3 DEF Spawn, TypeOK, Present
  <2>3. CASE cmd' = [cmd EXCEPT ![l].pc = "record", ![l].pid = cmd[l].old[cmd[l].at]] /\ UNCHANGED <<proc, reused>>
    <3>1. cmd[l].old[cmd[l].at] \in Pids \cup {NoPid} BY <1>f
    <3>2. cmd' \in [Launchers -> Command] BY <2>3, <3>1, PidType
    <3> QED BY <1>5, <2>3, <3>2 DEF Spawn, TypeOK, Present
  <2> QED BY <1>5, <2>1, <2>2, <2>3 DEF Spawn
<1>6. CASE Record(l)
  <2> DEFINE at == cmd[l].at
             c == [cmd[l] EXCEPT !.pc = IF at = "gateway" THEN "spawn" ELSE "wait", !.pid = NoPid,
                                 !.old = [cmd[l].old EXCEPT ![at] = NoPid],
                                 !.at = IF at = "gateway" THEN "web" ELSE "gateway"]
  <2>1. [cmd[l].old EXCEPT ![at] = NoPid] \in [Services -> Pids \cup {NoPid}] BY <1>f
  <2>2. c \in Command BY <2>1 DEF Command, Services
  <2>3. cmd' = [cmd EXCEPT ![l] = c] BY <1>6, Fields DEF Record
  <2>4. cmd' \in [Launchers -> Command] BY <2>2, <2>3, SetCommand
  <2> QED BY <1>f, <1>6, <2>4 DEF Record, TypeOK, Present
<1>7. CASE Wait(l)
  <2>1. CASE End(l, "ready") BY <1>7, <2>1, EndType DEF Wait, Ended, TypeOK, Present
  <2>2. CASE cmd' = [cmd EXCEPT ![l].at = "web"]
    <3> DEFINE c == [cmd[l] EXCEPT !.at = "web"]
    <3>1. c \in Command BY DEF Command, Services
    <3>2. cmd' = [cmd EXCEPT ![l] = c] BY <2>2
    <3> QED BY <1>7, <3>1, <3>2, SetCommand DEF Wait, TypeOK, Present
  <2> QED BY <1>7, <2>1, <2>2 DEF Wait
<1>8. CASE WaitTimeout(l) BY <1>8, EndType DEF WaitTimeout, Ended, TypeOK, Present
<1> QED BY <1>1, <1>2, <1>3, <1>4, <1>5, <1>6, <1>7, <1>8

LEMMA StoppedType ==
  ASSUME cmd \in [Launchers -> Command], NEW l \in Launchers, Stopped(l)
  PROVE  cmd' \in [Launchers -> Command]
<1>1. NoRow \in Row BY DEF NoRow, Row
<1>2. [Idle EXCEPT !.pc = "stop"] \in Command BY <1>1 DEF Idle, Command, Services
<1> QED BY <1>2, EndType DEF Stopped, Ended

LEMMA TypeStop ==
  ASSUME TypeOK, NEW l \in Launchers, StopCheck(l) \/ StopKill(l) PROVE TypeOK'
<1>0. cmd \in [Launchers -> Command] /\ cmd[l] \in Command BY DEF TypeOK
<1> USE <1>0
<1>f. cmd[l].at \in Services /\ cmd[l].pid \in Pids \cup {NoPid} BY Fields
<1>1. CASE StopCheck(l)
  <2>0. pidFile[cmd[l].at] \in Pids \cup {NoPid} BY <1>f DEF TypeOK
  <2>1. cmd' \in [Launchers -> Command] BY <2>0, <1>1, StoppedType, PidType DEF StopCheck
  <2> QED BY <1>f, <1>1, <2>1 DEF StopCheck, TypeOK, Present
<1>2. CASE StopKill(l)
  <2>1. cmd' \in [Launchers -> Command] BY <1>2, StoppedType, EndType DEF StopKill, Ended
  <2>2. UNCHANGED <<proc, pidFile>> \/ (/\ cmd[l].pid \in Pids
                                       /\ proc' = [proc EXCEPT ![cmd[l].pid].killed = TRUE]
                                       /\ pidFile' = [pidFile EXCEPT ![cmd[l].at] = NoPid])
    BY <1>f, <1>2 DEF StopKill, Alive
  <2>3. pidFile' \in [Services -> Pids \cup {NoPid}] BY <1>f, <2>2 DEF TypeOK
  <2>4. proc' \in [Pids -> Process]
    <3>1. proc \in [Pids -> Process] BY DEF TypeOK
    <3>2. ASSUME NEW p \in Pids, proc' = [proc EXCEPT ![p].killed = TRUE] PROVE proc' \in [Pids -> Process]
      <4>1. [proc[p] EXCEPT !.killed = TRUE] \in Process BY <3>1 DEF Process
      <4> QED BY <3>1, <3>2, <4>1
    <3> QED BY <2>2, <3>1, <3>2
  <2> QED BY <1>2, <2>1, <2>3, <2>4 DEF StopKill, TypeOK, Present
<1> QED BY <1>1, <1>2

LEMMA TypeWorld ==
  ASSUME TypeOK,
         \/ \E p \in Pids : Listen(p) \/ Ends(p) \/ Dies(p) \/ Foreign(p)
         \/ (\E a \in Agents : UserAgent(a)) \/ UserSettings
  PROVE  TypeOK'
<1> USE DEF TypeOK, Present
<1>1. ASSUME NEW p \in Pids, Listen(p) \/ Ends(p) \/ Dies(p) \/ Foreign(p) PROVE TypeOK'
  <2>0. NoProc \in Process
    BY DEF NoProc, Process
  <2>1. CASE Listen(p) BY <2>0, <2>1 DEF Listen, Process
  <2>2. CASE Ends(p) BY <2>0, <2>2 DEF Ends
  <2>3. CASE Dies(p) BY <2>0, <2>3, FaultsBounded DEF Dies
  <2>4. CASE Foreign(p) BY <2>4, FaultsBounded DEF Foreign, NewProcess, Process
  <2> QED BY <1>1, <2>1, <2>2, <2>3, <2>4
<1>2. ASSUME NEW a \in Agents, UserAgent(a) PROVE TypeOK'
  <2>1. PICK row : rows' = [rows EXCEPT ![a] = row] /\ (row = Gone \/
             \E pr \in {"own", "padded", "blank"} : row = [prompt |-> pr, tools |-> {"own"}, provider |-> "own"])
    BY <1>2 DEF UserAgent
  <2>2. row \in Row /\ (row # Gone => row.provider \in Providers)
    BY <2>1 DEF Gone, NoRow, Row, Providers
  <2>3. rows' \in [Agents -> Row] /\ \A b \in Agents : Present(b)' => rows'[b].provider \in Providers
    BY <2>1, <2>2
  <2> QED BY <1>2, <2>3, FaultsBounded DEF UserAgent
<1>3. CASE UserSettings BY <1>3, FaultsBounded DEF UserSettings, WriteRuntimeSettings
<1> QED BY <1>1, <1>2, <1>3

(* Every step keeps the types.                                              *)
LEMMA TypeStep == ASSUME TypeOK, [Next]_vars PROVE TypeOK'
<1>1. CASE UNCHANGED vars BY <1>1 DEF vars, TypeOK, Present
<1> QED BY <1>1, TypeBegin, TypeStart, TypeServices, TypeStop, TypeWorld DEF Next, Step

-----------------------------------------------------------------------------
(* What a step of one command does to the others, and where it comes from.  *)

Acts(l) == Begin(l, "start") \/ Begin(l, "stop") \/ LoadConfigFails(l) \/ Step(l) \/ Cut(l)

World == \/ \E p \in Pids : Listen(p) \/ Ends(p) \/ Dies(p) \/ Foreign(p)
         \/ (\E a \in Agents : UserAgent(a)) \/ UserSettings

LEMMA Steps ==
  ASSUME [Next]_vars PROVE (\E l \in Launchers : Acts(l)) \/ World \/ UNCHANGED vars
  BY DEF Next, Acts, World

(* A command changes what is its own only.                                  *)
LEMMA Others ==
  ASSUME TypeOK, NEW l \in Launchers, Acts(l)
  PROVE  \A o \in Launchers : o # l => cmd'[o] = cmd[o]
<1>0. cmd \in [Launchers -> Command] BY DEF TypeOK
<1>1. CASE Begin(l, "start") \/ Begin(l, "stop") \/ LoadConfigFails(l) \/ Cut(l)
  BY <1>0, <1>1 DEF Begin, LoadConfigFails, Cut, End
<1>2. CASE DefaultSettings(l) \/ InsertKey(l) \/ OpenKeyFile(l) \/ WriteKeyFile(l) \/ SelectAgent(l) \/ WriteAgent(l)
  BY <1>0, <1>2 DEF DefaultSettings, InsertKey, OpenKeyFile, WriteKeyFile, SelectAgent, WriteAgent
<1>3. CASE CheckTracked(l) \/ CheckPort(l) \/ Decide(l) \/ Build(l) \/ WaitTimeout(l)
  BY <1>0, <1>3 DEF CheckTracked, CheckPort, Decide, Build, WaitTimeout, Checked, End
<1>4. CASE Spawn(l) \/ Record(l) \/ Wait(l) \/ StopCheck(l) \/ StopKill(l)
  BY <1>0, <1>4 DEF Spawn, Record, Wait, StopCheck, StopKill, Stopped, End
<1> QED BY <1>1, <1>2, <1>3, <1>4 DEF Acts, Step

(* A command that ends, and one that has just begun to stop.                *)
LEMMA EndPlace ==
  ASSUME TypeOK, NEW l \in Launchers, NEW how, End(l, how)
  PROVE  cmd'[l].pc = how
  BY DEF End, TypeOK, Idle

LEMMA StoppedPlace ==
  ASSUME TypeOK, NEW l \in Launchers, Stopped(l)
  PROVE  cmd'[l].pc \in {"stop", "stopped"}
  BY EndPlace DEF Stopped, TypeOK, Idle

(* The steps that lead to a place.                                          *)
LEMMA Origins ==
  ASSUME TypeOK, NEW l \in Launchers, Acts(l)
  PROVE  /\ cmd'[l].pc = "settings" => Begin(l, "start") /\ settings = "none"
         /\ cmd'[l].pc = "keyed" => InsertKey(l)
         /\ cmd'[l].pc = "writing" => OpenKeyFile(l)
         /\ cmd'[l].pc = "row" => SelectAgent(l)
         /\ cmd'[l].pc = "decide" => CheckTracked(l) \/ CheckPort(l)
         /\ cmd'[l].pc = "build" => Decide(l)
         /\ cmd'[l].pc = "spawn" => Decide(l) \/ Build(l) \/ Record(l)
         /\ cmd'[l].pc = "record" => Spawn(l)
         /\ cmd'[l].pc = "kill" => StopCheck(l)
         /\ settings = "none" /\ ~DefaultSettings(l) =>
              cmd'[l].pc \in Ended \cup {"settings", "stop", "kill"}
                \/ cmd[l].pc \notin Ended \cup {"settings", "stop", "kill"}
<1>0. cmd \in [Launchers -> Command] /\ cmd[l] \in Command BY DEF TypeOK
<1>1. ASSUME NEW kind \in {"start", "stop"}, Begin(l, kind)
      PROVE  /\ cmd'[l].pc \in {"stop", "settings", "hash", "agent"}
             /\ cmd'[l].pc = "settings" => kind = "start" /\ settings = "none"
             /\ settings = "none" => cmd'[l].pc \in {"settings", "stop"}
  <2>1. cmd'[l].pc = IF kind = "stop" THEN "stop" ELSE IF settings = "none" THEN "settings" ELSE KeyStep
    BY <1>0, <1>1 DEF Begin, Idle
  <2>2. CASE kind = "stop" BY <2>1, <2>2
  <2>3. CASE kind # "stop" /\ settings = "none" BY <2>1, <2>3, <1>1
  <2>4. CASE kind # "stop" /\ settings # "none" BY <2>1, <2>4 DEF KeyStep
  <2> QED BY <2>2, <2>3, <2>4
<1>2. CASE LoadConfigFails(l) \/ Cut(l) \/ WaitTimeout(l)
  <2>1. cmd'[l].pc \in {"failed", "cut"} BY <1>2, EndPlace DEF LoadConfigFails, Cut, WaitTimeout
  <2> QED BY <2>1 DEF Ended
<1>3. CASE DefaultSettings(l)
  <2>1. cmd'[l].pc \in {"hash", "agent"} BY <1>0, <1>3 DEF DefaultSettings, KeyStep, Command
  <2> QED BY <1>3, <2>1
<1>4. CASE InsertKey(l)
  <2>1. cmd[l].pc = "hash" /\ cmd'[l].pc = "keyed" BY <1>0, <1>4 DEF InsertKey, Command
  <2> QED BY <1>4, <2>1 DEF Ended
<1>17. CASE OpenKeyFile(l)
  <2>1. cmd[l].pc = "keyed" /\ cmd'[l].pc = "writing" BY <1>0, <1>17 DEF OpenKeyFile, Command
  <2> QED BY <1>17, <2>1 DEF Ended
<1>5. CASE WriteKeyFile(l)
  <2>1. cmd[l].pc = "writing" /\ cmd'[l].pc = "agent" BY <1>0, <1>5 DEF WriteKeyFile, Command
  <2> QED BY <2>1 DEF Ended
<1>6. CASE SelectAgent(l)
  <2>1. cmd[l].pc = "agent" /\ cmd'[l].pc = "row" BY <1>0, <1>6 DEF SelectAgent, Command
  <2> QED BY <1>6, <2>1 DEF Ended
<1>7. CASE WriteAgent(l)
  <2>1. cmd[l].pc = "row" /\ cmd'[l].pc = "check" BY <1>0, <1>7 DEF WriteAgent, Command
  <2> QED BY <2>1 DEF Ended
<1>8. CASE CheckTracked(l) \/ CheckPort(l)
  <2>1. cmd[l].pc \in {"check", "fetch"} BY <1>8 DEF CheckTracked, CheckPort
  <2>2. cmd'[l].pc \in {"check", "decide", "fetch", "failed"}
    BY <1>0, <1>8, EndPlace DEF CheckTracked, CheckPort, Checked, Command
  <2> QED BY <1>8, <2>1, <2>2 DEF Ended
<1>9. CASE Decide(l)
  <2>1. cmd[l].pc = "decide" /\ cmd'[l].pc \in {"build", "spawn"} BY <1>0, <1>9 DEF Decide, Command
  <2> QED BY <1>9, <2>1 DEF Ended
<1>10. CASE Build(l)
  <2>1. cmd[l].pc = "build" /\ cmd'[l].pc \in {"spawn", "failed"} BY <1>0, <1>10, EndPlace DEF Build, Command
  <2> QED BY <1>10, <2>1 DEF Ended
<1>11. CASE Spawn(l)
  <2>1. cmd[l].pc = "spawn" /\ cmd'[l].pc \in {"record", "failed"} BY <1>0, <1>11, EndPlace DEF Spawn, Command
  <2> QED BY <1>11, <2>1 DEF Ended
<1>12. CASE Record(l)
  <2>1. cmd[l].pc = "record" /\ cmd'[l].pc \in {"spawn", "wait"} BY <1>0, <1>12 DEF Record, Command
  <2> QED BY <1>12, <2>1 DEF Ended
<1>13. CASE Wait(l)
  <2>1. cmd[l].pc = "wait" /\ cmd'[l].pc \in {"wait", "ready"} BY <1>0, <1>13, EndPlace DEF Wait, Command
  <2> QED BY <2>1 DEF Ended
<1>14. CASE StopCheck(l)
  <2>1. cmd'[l].pc \in {"kill", "stop", "stopped"} BY <1>0, <1>14, StoppedPlace DEF StopCheck, Command
  <2> QED BY <1>14, <2>1 DEF Ended
<1>15. CASE StopKill(l)
  <2>1. cmd'[l].pc \in {"failed", "stop", "stopped"} BY <1>15, StoppedPlace, EndPlace DEF StopKill
  <2> QED BY <2>1 DEF Ended
<1>16. CASE Begin(l, "start") \/ Begin(l, "stop") BY <1>1, <1>16
<1> QED BY <1>2, <1>3, <1>4, <1>5, <1>6, <1>7, <1>8, <1>9, <1>10, <1>11, <1>12, <1>13, <1>14,
           <1>15, <1>16, <1>17 DEF Acts, Step

LEMMA WorldKeeps == World => UNCHANGED <<pidFile, keyFile, stored, cmd, commands, lapped>>
  BY DEF World, Listen, Ends, Dies, Foreign, UserAgent, UserSettings

(* Who writes what.                                                         *)
LEMMA Writers ==
  ASSUME NEW l \in Launchers, Acts(l)
  PROVE  /\ stored' # stored => InsertKey(l)
         /\ keyFile' # keyFile => OpenKeyFile(l) \/ WriteKeyFile(l)
         /\ rows' # rows => WriteAgent(l)
         /\ settings' # settings => DefaultSettings(l)
         /\ proc' # proc => Spawn(l) \/ StopKill(l)
         /\ pidFile' # pidFile => CheckTracked(l) \/ Record(l) \/ StopCheck(l) \/ StopKill(l)
         /\ lapped' # lapped => Begin(l, "start") \/ Begin(l, "stop") \/ Cut(l)
         /\ faults' # faults => CheckPort(l) \/ Cut(l)
<1>1. CASE Begin(l, "start") \/ Begin(l, "stop") \/ LoadConfigFails(l) \/ Cut(l)
  BY <1>1 DEF Begin, LoadConfigFails, Cut
<1>2. CASE DefaultSettings(l) \/ InsertKey(l) \/ OpenKeyFile(l) \/ WriteKeyFile(l) \/ SelectAgent(l) \/ WriteAgent(l)
  BY <1>2 DEF DefaultSettings, InsertKey, OpenKeyFile, WriteKeyFile, SelectAgent, WriteAgent
<1>3. CASE CheckTracked(l) \/ CheckPort(l) \/ Decide(l) \/ Build(l) \/ Spawn(l) \/ Record(l)
  BY <1>3 DEF CheckTracked, CheckPort, Decide, Build, Spawn, Record
<1>4. CASE Wait(l) \/ WaitTimeout(l) \/ StopCheck(l) \/ StopKill(l)
  BY <1>4 DEF Wait, WaitTimeout, StopCheck, StopKill
<1> QED BY <1>1, <1>2, <1>3, <1>4 DEF Acts, Step

-----------------------------------------------------------------------------
(* The admin key.                                                           *)

(* A command that writes the key file does nothing else, unless it is       *)
(* killed.                                                                  *)
LEMMA WritingGoesOn ==
  ASSUME NEW l \in Launchers, Acts(l), ~WriteKeyFile(l), cmd[l].pc = "writing" PROVE lapped'
<1>1. Running(l) BY DEF Running, Ended
<1>2. ~Begin(l, "start") /\ ~Begin(l, "stop") /\ ~LoadConfigFails(l) BY <1>1 DEF Begin, LoadConfigFails
<1>3. ~Step(l)
  BY DEF Step, DefaultSettings, InsertKey, OpenKeyFile, SelectAgent, WriteAgent, CheckTracked, CheckPort,
         Decide, Build, Spawn, Record, Wait, WaitTimeout, StopCheck, StopKill
<1> QED BY <1>2, <1>3 DEF Acts, Cut

LEMMA KeyPreserved == ASSUME TypeOK, KeyInv, [Next]_vars PROVE KeyInv'
<1> USE DEF KeyInv, KeyFileIsStored, KeyedIsStored
<1>0. cmd \in [Launchers -> Command] /\ lapped \in BOOLEAN BY DEF TypeOK
<1>1. ASSUME NEW l \in Launchers, InsertKey(l) PROVE KeyInv'
  <2>1. PICK k \in Keys : stored' = stored \cup {k} /\ cmd'[l].key = k
    BY <1>0, <1>1 DEF InsertKey, FreshKeys, OneOf, Command
  <2>2. \A o \in Launchers : o # l => cmd'[o] = cmd[o] BY <1>1, Others DEF Acts, Step
  <2>3. cmd[l].pc = "hash" BY <1>1 DEF InsertKey
  <2>4. KeyFileIsStored' BY <1>1, <2>1, <2>2, <2>3 DEF InsertKey
  <2> QED BY <1>1, <2>1, <2>2, <2>4 DEF InsertKey
<1>2. ASSUME NEW l \in Launchers, OpenKeyFile(l) PROVE KeyInv'
  <2>1. \A o \in Launchers : o # l => cmd'[o] = cmd[o] BY <1>2, Others DEF Acts, Step
  <2>2. /\ cmd[l].pc = "keyed" /\ cmd'[l].pc = "writing" /\ cmd'[l].key = cmd[l].key
        /\ keyFile' = EmptyKey /\ stored' = stored
    BY <1>0, <1>2 DEF OpenKeyFile, Command
  <2> QED BY <2>1, <2>2, LocalRuntimeAssumption
<1>3. ASSUME NEW l \in Launchers, WriteKeyFile(l) PROVE KeyInv'
  <2>1. \A o \in Launchers : o # l => cmd'[o] = cmd[o] BY <1>3, Others DEF Acts, Step
  <2>2. /\ cmd[l].pc = "writing" /\ cmd'[l].pc = "agent"
        /\ keyFile' = cmd[l].key /\ stored' = stored
    BY <1>0, <1>3 DEF WriteKeyFile, Command
  <2>3. cmd[l].key \in stored /\ cmd[l].key \in Keys BY <2>2 DEF TypeOK
  <2> QED BY <2>1, <2>2, <2>3, LocalRuntimeAssumption
<1>4. ASSUME NEW l \in Launchers, Acts(l), ~InsertKey(l), ~OpenKeyFile(l), ~WriteKeyFile(l) PROVE KeyInv'
  <2>1. cmd'[l].pc \notin {"keyed", "writing"} BY <1>4, Origins
  <2>2. \A o \in Launchers : o # l => cmd'[o] = cmd[o] BY <1>4, Others
  <2>3. stored' = stored /\ keyFile' = keyFile BY <1>4, Writers
  <2>4. KeyedIsStored' BY <2>1, <2>2, <2>3
  <2>5. lapped => lapped' BY <1>0, <1>4, Writers DEF Begin, Cut
  <2>6. cmd[l].pc = "writing" => lapped' BY <1>4, WritingGoesOn
  <2>7. KeyFileIsStored' BY <2>2, <2>3, <2>5, <2>6
  <2> QED BY <2>4, <2>7
<1>5. CASE World \/ UNCHANGED vars BY <1>5, WorldKeeps DEF vars
<1> QED BY <1>1, <1>2, <1>3, <1>4, <1>5, Steps DEF Acts, Step

-----------------------------------------------------------------------------
(* The rows of the agent.                                                   *)

(* Making the default of a default changes nothing.                         *)
LEMMA DesiredTwice ==
  ASSUME NEW row \in Row PROVE Desired(Desired(row)) = Desired(row)
  BY DEF Desired, CreateDefaultLocalRuntimeAgent, Trim, Row

LEMMA DesiredIsThere ==
  ASSUME NEW row \in Row, row.prompt # "gone"
  PROVE  Desired(row) \notin {NoRow, Gone} /\ Desired(row).prompt \in Prompts
  BY DEF Desired, CreateDefaultLocalRuntimeAgent, Trim, Row, NoRow, Gone, Prompts

(* What a start writes over a row is the merge of the row as it is now.     *)
LEMMA WhatIsWritten ==
  ASSUME TypeOK, RowInv, NEW l \in Launchers, WriteAgent(l)
  PROVE  \/ UNCHANGED rows
         \/ /\ cmd[l].saw \in Agents /\ Present(cmd[l].saw)
            /\ rows' = [rows EXCEPT ![cmd[l].saw] = Desired(rows[cmd[l].saw])]
         \/ /\ cmd[l].saw = NoAgent
            /\ \E a \in Agents : rows[a] = NoRow /\ rows' = [rows EXCEPT ![a] = Desired(cmd[l].seen)]
<1>0. cmd[l] \in Command /\ rows \in [Agents -> Row] BY DEF TypeOK
<1>1. CASE cmd[l].saw = NoAgent BY <1>1 DEF WriteAgent, Desired, OneOf
<1>2. CASE cmd[l].saw # NoAgent
  <2>1. cmd[l].saw \in Agents /\ cmd[l].pc = "row" BY <1>0, <1>2, Fields DEF WriteAgent
  <2>2. CASE Present(cmd[l].saw)
    <3>1. Desired(rows[cmd[l].saw]) = Desired(cmd[l].seen)
      BY <1>2, <2>1, <2>2 DEF RowInv, MergeIsCurrent, Present
    <3> QED BY <1>2, <2>1, <2>2, <3>1 DEF WriteAgent, Desired
  <2>3. CASE ~Present(cmd[l].saw) BY <1>0, <1>2, <2>1, <2>3 DEF WriteAgent
  <2> QED BY <2>2, <2>3
<1> QED BY <1>1, <1>2

(* A row becomes its merge, or was not there, or is deleted.                *)
RowStep(a) ==
  \/ rows'[a] = rows[a]
  \/ Present(a) /\ rows'[a] = Desired(rows[a])
  \/ rows[a] = NoRow /\ Present(a)' /\ rows'[a].prompt \in Prompts
  \/ Present(a) /\ rows'[a] = Gone

LEMMA NoRowType == NoRow \in Row /\ NoRow # Gone /\ NoRow.prompt = "none" BY DEF NoRow, Gone, Row

LEMMA RowSteps ==
  ASSUME TypeOK, RowInv, [Next]_vars, NEW a \in Agents PROVE RowStep(a)
<1>0. rows \in [Agents -> Row] BY DEF TypeOK
<1>1. ASSUME NEW l \in Launchers, WriteAgent(l) PROVE RowStep(a)
  <2>1. CASE UNCHANGED rows BY <2>1 DEF RowStep
  <2>2. CASE /\ cmd[l].saw \in Agents /\ Present(cmd[l].saw)
             /\ rows' = [rows EXCEPT ![cmd[l].saw] = Desired(rows[cmd[l].saw])]
    BY <1>0, <2>2 DEF RowStep
  <2>3. ASSUME cmd[l].saw = NoAgent, NEW b \in Agents, rows[b] = NoRow,
               rows' = [rows EXCEPT ![b] = Desired(cmd[l].seen)]
        PROVE  RowStep(a)
    <3>1. cmd[l].seen = NoRow BY <1>1, <2>3 DEF RowInv, InsertsDefault, WriteAgent
    <3>2. Desired(NoRow) \notin {NoRow, Gone} /\ Desired(NoRow).prompt \in Prompts
      BY NoRowType, DesiredIsThere
    <3>3. CASE b = a
      <4>1. rows'[a] = Desired(NoRow) BY <1>0, <2>3, <3>1, <3>3
      <4> QED BY <2>3, <3>2, <3>3, <4>1 DEF RowStep, Present
    <3>4. CASE b # a BY <1>0, <2>3, <3>4 DEF RowStep
    <3> QED BY <3>3, <3>4
  <2> QED BY <1>1, <2>1, <2>2, <2>3, WhatIsWritten
<1>2. ASSUME NEW b \in Agents, UserAgent(b) PROVE RowStep(a)
  <2>1. CASE b # a BY <1>0, <1>2, <2>1 DEF UserAgent, RowStep
  <2>2. CASE b = a /\ rows'[a] = Gone /\ Present(a) BY <2>2 DEF RowStep
  <2>3. CASE b = a /\ rows[a] = NoRow /\ \E pr \in {"own", "padded", "blank"} :
               rows'[a] = [prompt |-> pr, tools |-> {"own"}, provider |-> "own"]
    BY <2>3 DEF RowStep, Present, NoRow, Gone, Prompts
  <2> QED BY <1>0, <1>2, <2>1, <2>2, <2>3 DEF UserAgent
<1>3. CASE UNCHANGED rows BY <1>3 DEF RowStep
<1>4. ASSUME NEW l \in Launchers, Acts(l), ~WriteAgent(l) PROVE UNCHANGED rows BY <1>4, Writers
<1>5. World /\ (\A b \in Agents : ~UserAgent(b)) => UNCHANGED rows
  BY DEF World, Listen, Ends, Dies, Foreign, UserSettings
<1> QED BY <1>1, <1>2, <1>3, <1>4, <1>5, Steps DEF vars

LEMMA RowPreserved == ASSUME TypeOK, RowInv, [Next]_vars PROVE RowInv'
<1>0. cmd \in [Launchers -> Command] /\ rows \in [Agents -> Row] BY DEF TypeOK
<1>1. RowsArePrompted'
  <2> SUFFICES ASSUME NEW a \in Agents, Present(a)' PROVE rows'[a].prompt \in Prompts
    BY DEF RowsArePrompted
  <2>1. CASE rows'[a] = rows[a] BY <2>1 DEF RowInv, RowsArePrompted, Present
  <2>2. CASE Present(a) /\ rows'[a] = Desired(rows[a])
    <3>1. rows[a] \in Row /\ rows[a].prompt # "gone" BY <1>0, <2>2 DEF RowInv, RowsArePrompted, Prompts
    <3> QED BY <2>2, <3>1, DesiredIsThere
  <2> QED BY <2>1, <2>2, RowSteps DEF RowStep, Present
(* A row a start has seen and that is still there asks for the same merge.  *)
<1>2. ASSUME NEW l \in Launchers, cmd[l].pc = "row", NEW a \in Agents, cmd[l].saw = a
      PROVE  rows'[a] = Gone \/ (rows'[a] \notin {NoRow, Gone} /\ Desired(rows'[a]) = Desired(cmd[l].seen))
  <2>1. rows[a] = Gone \/ (Present(a) /\ Desired(rows[a]) = Desired(cmd[l].seen))
    BY <1>2, LocalRuntimeAssumption DEF RowInv, MergeIsCurrent
  <2>2. RowStep(a) BY <1>2, RowSteps
  <2>3. CASE Present(a) /\ rows'[a] = Desired(rows[a])
    <3>1. rows[a] \in Row /\ rows[a].prompt # "gone" BY <1>0, <1>2, <2>3 DEF RowInv, RowsArePrompted, Prompts
    <3>2. Desired(rows'[a]) = Desired(rows[a]) BY <2>3, <3>1, DesiredTwice
    <3>3. Present(a)' BY <2>3, <3>1, DesiredIsThere DEF Present
    <3> QED BY <2>1, <2>3, <3>2, <3>3 DEF Present
  <2> QED BY <2>1, <2>2, <2>3, NoRowType DEF RowStep, Present
<1>3. ASSUME NEW l \in Launchers, SelectAgent(l)
      PROVE  \/ cmd'[l].saw = NoAgent /\ cmd'[l].seen = NoRow
             \/ /\ cmd'[l].saw \in Agents /\ rows[cmd'[l].saw] \notin {NoRow, Gone}
                /\ cmd'[l].seen = rows[cmd'[l].saw]
                /\ rows' = rows
  <2>1. PICK a \in Agents \cup {NoAgent} :
          /\ IF a = NoAgent THEN \A b \in Agents : ~Present(b) ELSE Present(a)
          /\ cmd' = [cmd EXCEPT ![l].pc = "row", ![l].saw = a,
                                ![l].seen = IF a = NoAgent THEN NoRow ELSE rows[a]]
    BY <1>3 DEF SelectAgent
  <2>2. cmd'[l].saw = a /\ cmd'[l].seen = IF a = NoAgent THEN NoRow ELSE rows[a]
    BY <1>0, <2>1 DEF Command
  <2> QED BY <1>3, <2>1, <2>2 DEF SelectAgent, Present
<1>4. ASSUME NEW l \in Launchers, cmd'[l].pc = "row"
      PROVE  cmd'[l] = cmd[l] \/ SelectAgent(l)
  BY <1>4, Steps, Others, Origins, WorldKeeps DEF vars
<1>5. MergeIsCurrent'
  <2> SUFFICES ASSUME NEW l \in Launchers, cmd'[l].pc = "row", cmd'[l].saw # NoAgent
               PROVE  \/ rows'[cmd'[l].saw] = Gone
                      \/ /\ rows'[cmd'[l].saw] \notin {NoRow, Gone}
                         /\ Desired(rows'[cmd'[l].saw]) = Desired(cmd'[l].seen)
    BY DEF MergeIsCurrent, Present, Desired, CreateDefaultLocalRuntimeAgent
  <2>1. CASE SelectAgent(l) BY <1>3, <2>1 DEF Present
  <2>2. CASE cmd'[l] = cmd[l]
    <3>1. PICK a \in Agents : cmd[l].saw = a BY <1>0, <2>2, Fields
    <3> QED BY <1>2, <2>2, <3>1
  <2> QED BY <1>4, <2>1, <2>2
<1>6. InsertsDefault' BY <1>3, <1>4, LocalRuntimeAssumption DEF RowInv, InsertsDefault
<1> QED BY <1>1, <1>5, <1>6 DEF RowInv

(* The agent part of EditsAreKept: a merge keeps tools and prompt.          *)
LEMMA RowsAreKept ==
  ASSUME TypeOK, RowInv, [Next]_vars, NEW a \in Agents, Present(a), Present(a)'
  PROVE  /\ rows[a].tools \subseteq rows'[a].tools
         /\ rows[a].prompt # "blank" => rows'[a].prompt \in {rows[a].prompt, Trim(rows[a].prompt)}
<1>1. rows[a] \in Row /\ rows[a].prompt \in Prompts
  BY DEF TypeOK, RowInv, RowsArePrompted
<1>2. CASE rows'[a] = Desired(rows[a])
  BY <1>1, <1>2 DEF Desired, CreateDefaultLocalRuntimeAgent, Trim, Prompts
<1> QED BY <1>2, RowSteps DEF RowStep, Present

-----------------------------------------------------------------------------
(* The processes.                                                           *)

(* A start has just spawned the service p.                                  *)
Spawned(l, p) ==
  /\ Spawn(l) /\ cmd[l].old[cmd[l].at] = NoPid
  /\ cmd'[l].pc = "record" /\ cmd'[l].pid = p /\ cmd'[l].at = cmd[l].at
  /\ proc'[p].kind = cmd[l].at

(* A service that was not told to end was there before, or is new.          *)
LEMMA ProcSteps ==
  ASSUME TypeOK, [Next]_vars, NEW p \in Pids, proc'[p].kind \in Services
  PROVE  \/ /\ proc[p].kind = proc'[p].kind
            /\ ~proc'[p].killed => ~proc[p].killed
         \/ \E l \in Launchers : Spawned(l, p)
<1>0. proc \in [Pids -> Process] /\ cmd \in [Launchers -> Command] BY DEF TypeOK
<1>1. ASSUME NEW l \in Launchers, Spawn(l) PROVE proc'[p] = proc[p] \/ Spawned(l, p)
  <2>1. CASE proc' = proc BY <2>1
  <2>2. CASE /\ cmd[l].old[cmd[l].at] = NoPid
             /\ \E q \in Pids : /\ NewProcess(q, cmd[l].at)
                                /\ cmd' = [cmd EXCEPT ![l].pc = "record", ![l].pid = q]
    <3>1. PICK q \in Pids : /\ proc' = [proc EXCEPT ![q] = [kind |-> cmd[l].at, st |-> "booting", killed |-> FALSE]]
                            /\ cmd' = [cmd EXCEPT ![l].pc = "record", ![l].pid = q]
      BY <2>2 DEF NewProcess
    <3>2. CASE q # p BY <1>0, <3>1, <3>2
    <3>3. CASE q = p
      <4>1. cmd'[l].pc = "record" /\ cmd'[l].pid = p /\ cmd'[l].at = cmd[l].at
        BY <1>0, <3>1, <3>3 DEF Command
      <4>2. proc'[p].kind = cmd[l].at BY <1>0, <3>1, <3>3
      <4> QED BY <1>1, <2>2, <4>1, <4>2 DEF Spawned
    <3> QED BY <3>2, <3>3
  <2> QED BY <1>1, <2>1, <2>2 DEF Spawn
<1>2. ASSUME NEW l \in Launchers, StopKill(l) PROVE proc[p].kind = proc'[p].kind /\ (~proc'[p].killed => ~proc[p].killed)
  <2>1. CASE proc' = proc BY <2>1
  <2>2. CASE proc' = [proc EXCEPT ![cmd[l].pid].killed = TRUE]
    BY <1>0, <2>2 DEF Process
  <2> QED BY <1>2, <2>1, <2>2 DEF StopKill
<1>3. ASSUME NEW q \in Pids, Listen(q) \/ Ends(q) \/ Dies(q) \/ Foreign(q)
      PROVE  proc[p].kind = proc'[p].kind /\ (~proc'[p].killed => ~proc[p].killed)
  <2>1. CASE Listen(q) BY <1>0, <2>1 DEF Listen, NoProc, Process, Services
  <2>2. CASE Ends(q) \/ Dies(q) BY <1>0, <2>2 DEF Ends, Dies, NoProc, Services
  <2>3. CASE Foreign(q) BY <1>0, <2>3 DEF Foreign, NewProcess, Services
  <2> QED BY <1>3, <2>1, <2>2, <2>3
<1>4. CASE proc' = proc BY <1>4
<1>5. ASSUME NEW l \in Launchers, Acts(l), ~Spawn(l), ~StopKill(l) PROVE proc' = proc BY <1>5, Writers
<1>6. World => \/ \E q \in Pids : Listen(q) \/ Ends(q) \/ Dies(q) \/ Foreign(q)
               \/ proc' = proc
  BY DEF World, UserAgent, UserSettings
<1> QED BY <1>1, <1>2, <1>3, <1>4, <1>5, <1>6, Steps DEF vars

LEMMA SettingsPreserved == ASSUME TypeOK, SettingsComeFirst, [Next]_vars PROVE SettingsComeFirst'
<1> SUFFICES ASSUME settings' = "none" PROVE SettingsComeFirst' BY DEF SettingsComeFirst
<1>1. ASSUME NEW l \in Launchers PROVE ~DefaultSettings(l) BY DEF DefaultSettings, WriteRuntimeSettings
<1>2. settings = "none"
  BY <1>1, Steps, Writers DEF World, Listen, Ends, Dies, Foreign, UserAgent, UserSettings,
     WriteRuntimeSettings, vars
<1>3. ASSUME NEW l \in Launchers PROVE cmd[l].pc \in Ended \cup {"settings", "stop", "kill"}
  BY <1>2 DEF SettingsComeFirst
<1>4. ASSUME NEW o \in Launchers PROVE cmd'[o].pc \in Ended \cup {"settings", "stop", "kill"}
  <2>1. ASSUME NEW l \in Launchers, Acts(l) PROVE cmd'[o].pc \in Ended \cup {"settings", "stop", "kill"}
    <3>1. CASE o = l BY <1>1, <1>2, <1>3, <2>1, <3>1, Origins
    <3>2. CASE o # l BY <1>3, <2>1, <3>2, Others
    <3> QED BY <3>1, <3>2
  <2> QED BY <1>3, <2>1, Steps, WorldKeeps DEF vars
<1>5. ASSUME NEW p \in Pids PROVE proc'[p].kind \notin Services
  <2>1. \A l \in Launchers : cmd[l].pc # "spawn" BY <1>3 DEF Ended
  <2> QED BY <1>2, <2>1, ProcSteps DEF SettingsComeFirst, Spawned, Spawn
<1> QED BY <1>4, <1>5 DEF SettingsComeFirst

-----------------------------------------------------------------------------
(* Commands that do not overlap.                                            *)

LEMMA LappedStays == ASSUME TypeOK, [Next]_vars, ~lapped' PROVE ~lapped /\ \A l \in Launchers : ~Cut(l)
<1>1. ASSUME NEW l \in Launchers, Acts(l) PROVE ~lapped
  BY <1>1, Writers DEF Begin, Cut, TypeOK
<1>2. ASSUME NEW l \in Launchers PROVE ~Cut(l) BY DEF Cut
<1> QED BY <1>1, <1>2, Steps, WorldKeeps DEF vars

(* A command that acts without overlapping is running, or begins alone, or  *)
(* only fails.                                                              *)
LEMMA WhoActs ==
  ASSUME TypeOK, NEW l \in Launchers, Acts(l), ~lapped', ~lapped, CommandsAreAlone,
         NEW o \in Launchers, o # l, Running(o)
  PROVE  LoadConfigFails(l)
<1>1. ~Begin(l, "start") /\ ~Begin(l, "stop") /\ ~Cut(l) BY DEF Begin, Cut
<1>2. ~Step(l)
  <2>1. ~Running(l) BY DEF CommandsAreAlone
  <2> QED BY <2>1 DEF Running, Ended, Step, DefaultSettings, InsertKey, OpenKeyFile, WriteKeyFile, SelectAgent,
             WriteAgent, CheckTracked, CheckPort, Decide, Build, Spawn, Record, Wait, WaitTimeout,
             StopCheck, StopKill
<1> QED BY <1>1, <1>2 DEF Acts

LEMMA AlonePreserved ==
  ASSUME TypeOK, [Next]_vars, ~lapped', ~lapped, CommandsAreAlone PROVE CommandsAreAlone'
<1>1. ASSUME NEW l \in Launchers, Acts(l) PROVE CommandsAreAlone'
  <2>1. \A o \in Launchers : o # l => cmd'[o] = cmd[o] BY <1>1, Others
  <2>2. ASSUME NEW o \in Launchers, o # l, Running(o) PROVE ~Running(l)'
    <3>1. LoadConfigFails(l) BY <1>1, <2>2, WhoActs
    <3>2. cmd'[l].pc = "failed" BY <3>1, EndPlace DEF LoadConfigFails
    <3> QED BY <3>2 DEF Running, Ended
  <2> QED BY <2>1, <2>2 DEF CommandsAreAlone, Running
<1>2. CASE UNCHANGED cmd BY <1>2 DEF CommandsAreAlone, Running
<1> QED BY <1>1, <1>2, Steps, WorldKeeps DEF vars

LEMMA NoSettingsPreserved ==
  ASSUME TypeOK, [Next]_vars, ~lapped', ~lapped, CommandsAreAlone, SettingsComeFirst, NoSettingsYet
  PROVE  NoSettingsYet'
<1> SUFFICES ASSUME NEW o \in Launchers, cmd'[o].pc = "settings" PROVE settings' = "none" BY DEF NoSettingsYet
<1>1. ASSUME NEW l \in Launchers, Acts(l) PROVE settings' = "none"
  <2>1. CASE o = l
    <3>1. Begin(l, "start") /\ settings = "none" BY <1>1, <2>1, Origins
    <3> QED BY <3>1 DEF Begin
  <2>2. CASE o # l
    <3>1. cmd'[o] = cmd[o] BY <1>1, <2>2, Others
    <3>2. Running(o) /\ settings = "none" BY <3>1 DEF Running, Ended, NoSettingsYet
    <3>3. LoadConfigFails(l) BY <1>1, <2>2, <3>2, WhoActs
    <3> QED BY <3>2, <3>3 DEF LoadConfigFails
  <2> QED BY <2>1, <2>2
<1>2. CASE World
  <2>1. settings = "none" BY <1>2, WorldKeeps DEF NoSettingsYet
  <2>2. ~Reachable("gateway") BY <2>1 DEF SettingsComeFirst, Reachable, Services
  <2> QED BY <1>2, <2>1, <2>2 DEF World, Listen, Ends, Dies, Foreign, UserAgent, UserSettings
<1>3. CASE UNCHANGED vars BY <1>3 DEF NoSettingsYet, vars
<1> QED BY <1>1, <1>2, <1>3, Steps

(* Forgetting a pid that is dead forgets no service.                        *)
LEMMA DeadIsForgotten ==
  ASSUME TypeOK, NEW p \in Pids, Serves(p), NEW s \in Services, ~Alive(pidFile[s]),
         pidFile[proc[p].kind] = p
  PROVE  proc[p].kind # s
<1>1. Alive(p) BY LocalRuntimeAssumption DEF Serves, Alive, Services
<1> QED BY <1>1

LEMMA TrackedPreserved ==
  ASSUME TypeOK, [Next]_vars, ~lapped', ~lapped, CommandsAreAlone, TrackedSoon, FoundHolds
  PROVE  TrackedSoon'
<1>0. cmd \in [Launchers -> Command] /\ pidFile \in [Services -> Pids \cup {NoPid}] /\ proc \in [Pids -> Process]
  BY DEF TypeOK
<1> SUFFICES ASSUME NEW p \in Pids, Serves(p)'
             PROVE  \/ pidFile'[proc'[p].kind] = p
                    \/ \E l \in Launchers : cmd'[l].pc = "record" /\ cmd'[l].pid = p /\ cmd'[l].at = proc'[p].kind
  BY DEF TrackedSoon
<1>1. CASE \E l \in Launchers : Spawned(l, p) BY <1>1 DEF Spawned
<1>2. CASE Serves(p) /\ proc'[p].kind = proc[p].kind
  <2> DEFINE s == proc[p].kind
  <2>0. s \in Services BY <1>2 DEF Serves
  <2>1. ASSUME NEW l \in Launchers, Record(l)
        PROVE  pidFile'[s] = p
    <3>1. cmd[l].at \in Services BY <1>0, Fields
    <3>2. pidFile' = [pidFile EXCEPT ![cmd[l].at] = cmd[l].pid] /\ cmd[l].pc = "record" BY <2>1 DEF Record
    <3>3. Running(l) BY <3>2 DEF Running, Ended
    <3>4. ASSUME NEW o \in Launchers, cmd[o].pc = "record" PROVE o = l
      BY <3>3, <3>4 DEF CommandsAreAlone, Running, Ended
    <3>5. CASE s # cmd[l].at
      <4>1. pidFile[s] = p BY <1>2, <3>4, <3>5 DEF TrackedSoon
      <4> QED BY <1>0, <2>0, <3>2, <3>5, <4>1
    <3>6. CASE s = cmd[l].at
      <4>1. cmd[l].at \in Ahead(l) BY <3>1 DEF Ahead, Services
      <4>2. cmd[l].pid = p
        <5>1. CASE cmd[l].old[cmd[l].at] = NoPid
          BY <1>2, <3>2, <3>6, <4>1, <5>1 DEF FoundHolds
        <5>2. CASE cmd[l].old[cmd[l].at] # NoPid
          <6>1. cmd[l].pid = pidFile[s] BY <3>2, <3>6, <4>1, <5>2 DEF FoundHolds
          <6> QED BY <1>2, <3>4, <6>1 DEF TrackedSoon
        <5> QED BY <5>1, <5>2
      <4> QED BY <1>0, <3>1, <3>2, <3>6, <4>2
    <3> QED BY <3>5, <3>6
  <2>2. ASSUME NEW l \in Launchers, CheckTracked(l) \/ StopCheck(l)
        PROVE  pidFile'[s] = p
    <3>1. cmd[l].at \in Services BY <1>0, Fields
    <3>2. Running(l) /\ cmd[l].pc # "record" BY <2>2 DEF CheckTracked, StopCheck, Running, Ended
    <3>3. pidFile[s] = p BY <1>2, <3>2 DEF TrackedSoon, CommandsAreAlone, Running, Ended
    <3>4. \/ pidFile' = pidFile
          \/ ~Alive(pidFile[cmd[l].at]) /\ pidFile' = [pidFile EXCEPT ![cmd[l].at] = NoPid]
      BY <2>2 DEF CheckTracked, StopCheck
    <3>5. ~Alive(pidFile[cmd[l].at]) => s # cmd[l].at BY <1>2, <3>1, <3>3, DeadIsForgotten
    <3> QED BY <1>0, <2>0, <3>3, <3>4, <3>5
  <2>3. ASSUME NEW l \in Launchers, StopKill(l)
        PROVE  pidFile'[s] = p
    <3>1. cmd[l].at \in Services BY <1>0, Fields
    <3>2. Running(l) /\ cmd[l].pc = "kill" BY <2>3 DEF StopKill, Running, Ended
    <3>3. pidFile[s] = p BY <1>2, <3>2 DEF TrackedSoon, CommandsAreAlone, Running, Ended
    <3>4. cmd[l].pid = pidFile[cmd[l].at] BY <3>2 DEF FoundHolds
    <3>5. \/ pidFile' = pidFile
          \/ /\ proc' = [proc EXCEPT ![cmd[l].pid].killed = TRUE]
             /\ pidFile' = [pidFile EXCEPT ![cmd[l].at] = NoPid]
      BY <2>3 DEF StopKill
    <3>6. CASE pidFile' = pidFile BY <3>3, <3>6
    <3>7. CASE /\ proc' = [proc EXCEPT ![cmd[l].pid].killed = TRUE]
               /\ pidFile' = [pidFile EXCEPT ![cmd[l].at] = NoPid]
      <4>1. cmd[l].pid # p
        <5>1. SUFFICES ASSUME cmd[l].pid = p PROVE FALSE OBVIOUS
        <5>2. proc'[p].killed BY <1>0, <3>7, <5>1 DEF Process
        <5> QED BY <5>2 DEF Serves
      <4>2. s # cmd[l].at BY <3>3, <3>4, <4>1
      <4> QED BY <1>0, <2>0, <3>3, <3>7, <4>2
    <3> QED BY <3>5, <3>6, <3>7
  <2>4. ASSUME pidFile' = pidFile,
               \A o \in Launchers : cmd[o].pc = "record" => cmd'[o] = cmd[o]
        PROVE  \/ pidFile'[s] = p
               \/ \E l \in Launchers : cmd'[l].pc = "record" /\ cmd'[l].pid = p /\ cmd'[l].at = s
    BY <1>2, <2>4 DEF TrackedSoon
  <2>5. ASSUME NEW l \in Launchers, Acts(l), ~Record(l), ~CheckTracked(l), ~StopCheck(l), ~StopKill(l)
        PROVE  /\ pidFile' = pidFile
               /\ \A o \in Launchers : cmd[o].pc = "record" => cmd'[o] = cmd[o]
    <3>1. pidFile' = pidFile BY <2>5, Writers
    <3>2. cmd[l].pc # "record"
      BY <2>5, LappedStays
      DEF Acts, Step, Begin, LoadConfigFails, Running, Ended, DefaultSettings, InsertKey, OpenKeyFile, WriteKeyFile,
          SelectAgent, WriteAgent, CheckPort, Decide, Build, Spawn, Wait, WaitTimeout
    <3> QED BY <2>5, <3>1, <3>2, Others
  <2>6. CASE World \/ UNCHANGED vars BY <1>2, <2>4, <2>6, WorldKeeps DEF vars
  <2> QED BY <1>2, <2>1, <2>2, <2>3, <2>4, <2>5, <2>6, Steps
<1>3. proc'[p].kind \in Services /\ ~proc'[p].killed BY DEF Serves
<1> QED BY <1>1, <1>2, <1>3, ProcSteps DEF Serves

(* What FoundHolds says of one command.                                     *)
Found(l) ==
  /\ cmd[l].pc \in {"decide", "build"} => cmd[l].at = "gateway"
  /\ cmd[l].pc = "kill" => cmd[l].pid = pidFile[cmd[l].at]
  /\ cmd[l].pc = "record" /\ cmd[l].old[cmd[l].at] # NoPid => cmd[l].pid = cmd[l].old[cmd[l].at]
  /\ cmd[l].pc \in {"build", "spawn", "record"} => \A s \in Ahead(l) :
       /\ cmd[l].old[s] # NoPid => pidFile[s] = cmd[l].old[s]
       /\ cmd[l].old[s] = NoPid => \A p \in Pids : Serves(p) /\ proc[p].kind = s =>
            cmd[l].pc = "record" /\ cmd[l].at = s /\ cmd[l].pid = p

(* A step that leaves the command and the pid files alone, and starts no    *)
(* service.                                                                 *)
LEMMA FoundStays ==
  ASSUME NEW l \in Launchers, Found(l), cmd'[l] = cmd[l], pidFile' = pidFile,
         \A p \in Pids : Serves(p)' => Serves(p) /\ proc'[p].kind = proc[p].kind
  PROVE  Found(l)'
  BY DEF Found, Ahead

(* Steps of the command itself.                                             *)
LEMMA FoundOwn ==
  ASSUME TypeOK, [Next]_vars, ~lapped', ~lapped, CommandsAreAlone, TrackedSoon, FoundHolds,
         NEW l \in Launchers, Acts(l)
  PROVE  Found(l)'
<1>0. cmd \in [Launchers -> Command] /\ cmd[l] \in Command /\ Found(l) BY DEF TypeOK, FoundHolds, Found
<1>f. cmd[l].at \in Services /\ cmd[l].old \in [Services -> Pids \cup {NoPid}] BY <1>0, Fields
<1>1. CASE CheckTracked(l) \/ CheckPort(l)
  <2>1. CASE Checked(l)
    <3>1. /\ cmd'[l].pc \in {"check", "decide"}
          /\ cmd'[l].pc = "decide" => cmd'[l].at = "gateway"
      BY <1>0, <2>1 DEF Checked, Command
    <3> QED BY <3>1 DEF Found
  <2>2. CASE cmd'[l].pc \in {"fetch", "failed"} BY <2>2 DEF Found
  <2>3. To(l, "fetch") => cmd'[l].pc = "fetch" BY <1>0 DEF Command
  <2> QED BY <1>1, <2>1, <2>2, <2>3, EndPlace DEF CheckTracked, CheckPort
<1>2. CASE Decide(l)
  <2>1. /\ cmd'[l].old = [s \in Services |-> ReusedPid(s)]
        /\ cmd'[l].pc \in {"build", "spawn"} /\ cmd'[l].at = cmd[l].at /\ cmd[l].pc = "decide"
        /\ UNCHANGED <<pidFile, proc>>
    BY <1>0, <1>2 DEF Decide, Command
  <2>2. cmd'[l].at = "gateway" BY <1>0, <2>1 DEF Found
  <2>3. Running(l) BY <2>1 DEF Running, Ended
  <2>4. ASSUME NEW s \in Services
        PROVE  /\ ReusedPid(s) # NoPid => pidFile[s] = ReusedPid(s)
               /\ ReusedPid(s) = NoPid => \A p \in Pids : ~(Serves(p) /\ proc[p].kind = s)
    <3>1. ReusedPid(s) # NoPid => pidFile[s] = ReusedPid(s) BY DEF ReusedPid
    <3>2. ASSUME NEW p \in Pids, Serves(p), proc[p].kind = s PROVE ReusedPid(s) # NoPid
      <4>1. pidFile[s] = p BY <2>1, <2>3, <3>2 DEF TrackedSoon, CommandsAreAlone, Running, Ended
      <4>2. Alive(p) BY <3>2, LocalRuntimeAssumption DEF Serves, Alive, Services
      <4> QED BY <4>1, <4>2, LocalRuntimeAssumption DEF ReusedPid
    <3> QED BY <3>1, <3>2
  <2>5. \A p \in Pids : Serves(p)' <=> Serves(p) BY <2>1 DEF Serves
  <2> QED BY <2>1, <2>2, <2>4, <2>5 DEF Found, Ahead, Services
<1>3. CASE Build(l)
  <2>1. CASE End(l, "failed") BY <2>1, EndPlace DEF Found
  <2>2. CASE To(l, "spawn")
    <3>1. /\ cmd'[l].pc = "spawn" /\ cmd'[l].at = cmd[l].at /\ cmd'[l].old = cmd[l].old
          /\ cmd[l].pc = "build" /\ UNCHANGED <<pidFile, proc>>
      BY <1>0, <1>3, <2>2 DEF Build, Command
    <3>2. \A p \in Pids : Serves(p)' <=> Serves(p) BY <3>1 DEF Serves
    <3> QED BY <1>0, <3>1, <3>2 DEF Found, Ahead
  <2> QED BY <1>3, <2>1, <2>2 DEF Build
<1>4. CASE Record(l)
  <2>1. CASE cmd[l].at = "gateway"
    <3>1. /\ cmd'[l].pc = "spawn" /\ cmd'[l].at = "web" /\ cmd'[l].old["web"] = cmd[l].old["web"]
          /\ cmd[l].pc = "record" /\ pidFile' = [pidFile EXCEPT !["gateway"] = cmd[l].pid] /\ proc' = proc
      BY <1>0, <1>f, <1>4, <2>1 DEF Record, Command, Services
    <3>2. pidFile'["web"] = pidFile["web"] BY <3>1 DEF TypeOK, Services
    <3>3. \A p \in Pids : Serves(p)' <=> Serves(p) BY <3>1 DEF Serves
    <3> QED BY <1>0, <2>1, <3>1, <3>2, <3>3 DEF Found, Ahead, Services
  <2>2. CASE cmd[l].at # "gateway"
    <3>1. cmd'[l].pc = "wait" BY <1>0, <1>4, <2>2 DEF Record, Command
    <3> QED BY <3>1 DEF Found
  <2> QED BY <2>1, <2>2
<1>5. CASE Spawn(l)
  <2>0. cmd[l].pc = "spawn" /\ pidFile' = pidFile BY <1>5 DEF Spawn
  <2>1. CASE cmd'[l].pc = "failed" BY <2>1 DEF Found
  <2>2. CASE cmd'[l].pc = "record" /\ cmd'[l].at = cmd[l].at /\ cmd'[l].old = cmd[l].old
    <3>1. cmd[l].old[cmd[l].at] # NoPid => cmd'[l].pid = cmd[l].old[cmd[l].at]
      BY <1>0, <1>5, <2>2 DEF Spawn, Command
    <3>2. ASSUME NEW s \in Ahead(l), cmd[l].old[s] = NoPid, NEW p \in Pids, Serves(p)', proc'[p].kind = s
          PROVE  cmd'[l].at = s /\ cmd'[l].pid = p
      <4>1. s \in Services BY <3>2 DEF Ahead, Services
      <4>2. ~(Serves(p) /\ proc[p].kind = s) BY <1>0, <2>0, <3>2 DEF Found
      <4>3. PICK o \in Launchers : Spawned(o, p) BY <3>2, <4>1, <4>2, ProcSteps DEF Serves
      <4>4. o = l
        <5>1. cmd[o].pc = "spawn" BY <4>3 DEF Spawned, Spawn
        <5> QED BY <2>0, <5>1 DEF CommandsAreAlone, Running, Ended
      <4> QED BY <3>2, <4>3, <4>4 DEF Spawned
    <3>3. \A s \in Ahead(l) : cmd[l].old[s] # NoPid => pidFile[s] = cmd[l].old[s] BY <1>0, <2>0 DEF Found
    <3>4. Ahead(l)' = Ahead(l) BY <2>2 DEF Ahead
    <3> QED BY <2>0, <2>2, <3>1, <3>2, <3>3, <3>4 DEF Found
  <2>3. cmd'[l].pc = "failed" \/ (cmd'[l].pc = "record" /\ cmd'[l].at = cmd[l].at /\ cmd'[l].old = cmd[l].old)
    BY <1>0, <1>5, EndPlace DEF Spawn, Command
  <2> QED BY <2>1, <2>2, <2>3
<1>6. CASE StopCheck(l)
  <2>1. CASE Stopped(l) BY <2>1, StoppedPlace DEF Found
  <2>2. CASE cmd' = [cmd EXCEPT ![l].pc = "kill", ![l].pid = pidFile[cmd[l].at]] /\ UNCHANGED pidFile
    <3>1. cmd'[l].pc = "kill" /\ cmd'[l].pid = pidFile[cmd[l].at] /\ cmd'[l].at = cmd[l].at
      BY <1>0, <2>2 DEF Command
    <3> QED BY <2>2, <3>1 DEF Found
  <2> QED BY <1>6, <2>1, <2>2 DEF StopCheck
<1>7. CASE cmd'[l].pc \notin {"decide", "build", "spawn", "record", "kill"} BY <1>7 DEF Found
<1> QED BY <1>1, <1>2, <1>3, <1>4, <1>5, <1>6, <1>7, Origins

LEMMA FoundPreserved ==
  ASSUME TypeOK, [Next]_vars, ~lapped', ~lapped, CommandsAreAlone, TrackedSoon, FoundHolds
  PROVE  FoundHolds'
<1> SUFFICES ASSUME NEW o \in Launchers PROVE Found(o)' BY DEF FoundHolds, Found
<1>0. Found(o) BY DEF FoundHolds, Found
<1>1. ASSUME NEW l \in Launchers, Acts(l) PROVE Found(o)'
  <2>1. CASE o = l BY <1>1, <2>1, FoundOwn
  <2>2. CASE o # l /\ Running(o)
    <3>1. LoadConfigFails(l) BY <1>1, <2>2, WhoActs
    <3>2. cmd'[o] = cmd[o] BY <1>1, <2>2, Others
    <3>3. UNCHANGED <<pidFile, proc>> BY <3>1 DEF LoadConfigFails
    <3>4. \A p \in Pids : Serves(p)' <=> Serves(p) BY <3>3 DEF Serves
    <3> QED BY <1>0, <3>2, <3>3, <3>4, FoundStays
  <2>3. CASE o # l /\ ~Running(o)
    <3>1. cmd'[o].pc \in Ended BY <1>1, <2>3, Others DEF Running
    <3> QED BY <3>1 DEF Found, Ended
  <2> QED BY <2>1, <2>2, <2>3
<1>2. CASE World \/ UNCHANGED vars
  <2>1. cmd' = cmd /\ pidFile' = pidFile BY <1>2, WorldKeeps DEF vars
  <2>2. ASSUME NEW p \in Pids, Serves(p)' PROVE Serves(p) /\ proc'[p].kind = proc[p].kind
    <3>1. proc'[p].kind \in Services /\ ~proc'[p].killed BY <2>2 DEF Serves
    <3>2. ASSUME NEW l \in Launchers PROVE ~Spawned(l, p)
      <4>1. cmd'[l].pc = cmd[l].pc BY <2>1
      <4> QED BY <4>1 DEF Spawned, Spawn
    <3> QED BY <3>1, <3>2, ProcSteps DEF Serves
  <2> QED BY <1>0, <2>1, <2>2, FoundStays
<1> QED BY <1>1, <1>2, Steps

-----------------------------------------------------------------------------
(* One agent of the name.                                                   *)

LEMMA CalmStays ==
  ASSUME TypeOK, [Next]_vars, faults' = 0
  PROVE  faults = 0 /\ \A a \in Agents : ~UserAgent(a)
<1>0. faults \in Nat BY LocalRuntimeAssumption DEF TypeOK
<1>1. ~Fault BY <1>0 DEF Fault
<1>2. ASSUME NEW l \in Launchers, Acts(l) PROVE faults = 0
  <2>1. CASE CheckPort(l) \/ Cut(l) BY <1>1, <2>1 DEF CheckPort, Cut
  <2> QED BY <1>2, <2>1, Writers
<1>3. World => faults = 0 /\ \A a \in Agents : ~UserAgent(a)
  BY <1>1 DEF World, Listen, Ends, Dies, Foreign, UserAgent, UserSettings
<1>4. \A a \in Agents : ~UserAgent(a) BY <1>1 DEF UserAgent
<1> QED BY <1>2, <1>3, <1>4, Steps DEF vars

LEMMA AgentPreserved ==
  ASSUME TypeOK, RowInv, [Next]_vars, ~lapped', ~lapped, faults' = 0, CommandsAreAlone,
         AtMostOne, NoneToInsert
  PROVE  AtMostOne' /\ NoneToInsert'
<1>0. cmd \in [Launchers -> Command] /\ rows \in [Agents -> Row] BY DEF TypeOK
<1>1. ASSUME NEW l \in Launchers, WriteAgent(l) PROVE AtMostOne' /\ NoneToInsert'
  <2>1. AtMostOne'
    <3>1. CASE UNCHANGED rows BY <3>1 DEF AtMostOne, Present
    <3>2. CASE /\ cmd[l].saw \in Agents /\ Present(cmd[l].saw)
               /\ rows' = [rows EXCEPT ![cmd[l].saw] = Desired(rows[cmd[l].saw])]
      BY <1>0, <3>2 DEF AtMostOne, Present
    <3>3. ASSUME cmd[l].saw = NoAgent, NEW b \in Agents, rows[b] = NoRow,
                 rows' = [rows EXCEPT ![b] = Desired(cmd[l].seen)]
          PROVE  AtMostOne'
      <4>1. \A a \in Agents : ~Present(a) BY <1>1, <3>3 DEF NoneToInsert, WriteAgent
      <4> QED BY <1>0, <3>3, <4>1 DEF AtMostOne, Present
    <3> QED BY <1>1, <3>1, <3>2, <3>3, WhatIsWritten
  <2>2. ASSUME NEW o \in Launchers, cmd'[o].pc = "row" PROVE FALSE
    <3>1. cmd[l].pc = "row" /\ cmd'[l].pc = "check" BY <1>0, <1>1 DEF WriteAgent, Command
    <3>2. o # l BY <2>2, <3>1
    <3>3. cmd'[o] = cmd[o] BY <1>1, <3>2, Others DEF Acts, Step
    <3> QED BY <2>2, <3>1, <3>2, <3>3 DEF CommandsAreAlone, Running, Ended
  <2> QED BY <2>1, <2>2 DEF NoneToInsert
<1>2. ASSUME rows' = rows PROVE AtMostOne' /\ NoneToInsert'
  <2>1. AtMostOne' BY <1>2 DEF AtMostOne, Present
  <2>2. ASSUME NEW o \in Launchers, cmd'[o].pc = "row", cmd'[o].saw = NoAgent
        PROVE  \A a \in Agents : ~Present(a)
    <3>1. cmd'[o] = cmd[o] \/ SelectAgent(o)
      BY <2>2, Steps, Others, Origins, WorldKeeps DEF vars
    <3>2. CASE cmd'[o] = cmd[o] BY <2>2, <3>2 DEF NoneToInsert
    <3>3. CASE SelectAgent(o) BY <1>0, <2>2, <3>3 DEF SelectAgent, Command
    <3> QED BY <3>1, <3>2, <3>3
  <2> QED BY <1>2, <2>1, <2>2 DEF NoneToInsert, Present
<1>3. ASSUME NEW l \in Launchers, Acts(l), ~WriteAgent(l) PROVE rows' = rows BY <1>3, Writers
<1>4. World => rows' = rows
  BY CalmStays DEF World, Listen, Ends, Dies, Foreign, UserSettings
<1> QED BY <1>1, <1>2, <1>3, <1>4, Steps DEF vars

-----------------------------------------------------------------------------
LEMMA IndInvInit == Init => IndInv
<1> SUFFICES ASSUME Init PROVE IndInv OBVIOUS
<1>1. TypeOK BY TypeInit
<1>2. \A l \in Launchers : cmd[l] = Idle /\ cmd[l].pc = "idle" BY DEF Init, Idle
<1>3. \A a \in Agents : ~Present(a) BY DEF Init, Present
<1>4. \A p \in Pids : ~Serves(p) /\ proc[p].kind = "none" BY DEF Init, Serves, NoProc, Services
<1>5. KeyInv BY <1>2, LocalRuntimeAssumption DEF Init, KeyInv, KeyFileIsStored, KeyedIsStored
<1>6. RowInv BY <1>2, <1>3 DEF RowInv, RowsArePrompted, MergeIsCurrent, InsertsDefault
<1>7. SettingsComeFirst BY <1>2, <1>4 DEF SettingsComeFirst, Ended, Services
<1>8. AloneInv
  BY <1>2, <1>4 DEF AloneInv, CommandsAreAlone, Running, Ended, NoSettingsYet, TrackedSoon, FoundHolds
<1>9. AgentInv BY <1>2, <1>3 DEF AgentInv, AtMostOne, NoneToInsert
<1> QED BY <1>1, <1>5, <1>6, <1>7, <1>8, <1>9 DEF IndInv

LEMMA IndInvStep == IndInv /\ [Next]_vars => IndInv'
<1> SUFFICES ASSUME IndInv, [Next]_vars PROVE IndInv' OBVIOUS
<1> USE DEF IndInv
<1>1. TypeOK' BY TypeStep
<1>2. KeyInv' BY KeyPreserved
<1>3. RowInv' BY RowPreserved
<1>4. SettingsComeFirst' BY SettingsPreserved
<1>5. AloneInv'
  <2> SUFFICES ASSUME ~lapped'
               PROVE  CommandsAreAlone' /\ NoSettingsYet' /\ TrackedSoon' /\ FoundHolds'
    BY DEF AloneInv
  <2>1. ~lapped /\ CommandsAreAlone /\ NoSettingsYet /\ TrackedSoon /\ FoundHolds
    BY LappedStays DEF AloneInv
  <2> QED BY <2>1, AlonePreserved, NoSettingsPreserved, TrackedPreserved, FoundPreserved
<1>6. AgentInv'
  <2> SUFFICES ASSUME ~lapped', faults' = 0 PROVE AtMostOne' /\ NoneToInsert' BY DEF AgentInv
  <2>1. ~lapped /\ faults = 0 BY LappedStays, CalmStays
  <2> QED BY <2>1, AgentPreserved DEF AloneInv, AgentInv
<1> QED BY <1>1, <1>2, <1>3, <1>4, <1>5, <1>6

(* The inductive invariant of the local runtime: what a command has found   *)
(* out holds until it acts on it, unless commands overlap.                  *)
THEOREM RuntimeIsInvariant == Spec => []IndInv
  BY IndInvInit, IndInvStep, PTL DEF Spec

(* The key file is true wherever a start is killed, and starts that do not  *)
(* overlap leave one agent of the name.                                     *)
THEOREM RuntimeIsSound == Spec => []RuntimeInv
<1>1. IndInv => RuntimeInv
  <2> SUFFICES ASSUME IndInv PROVE RuntimeInv OBVIOUS
  <2>1. TypeOK /\ KeyFileIsStored BY DEF IndInv, KeyInv
  <2>2. OneAgent
    <3> DEFINE S == {a \in Agents : Present(a)}
    <3> SUFFICES ASSUME ~lapped, ~(faults > 0) PROVE ~(Cardinality(S) > 1) BY DEF OneAgent
    <3>1. faults = 0
      <4>1. faults \in Nat BY <2>1, LocalRuntimeAssumption DEF TypeOK
      <4> QED BY <4>1
    <3>2. AtMostOne BY <3>1 DEF IndInv, AgentInv
    <3>3. S = {} \/ \E a \in Agents : S = {a} BY <3>2 DEF AtMostOne
    <3>4. Cardinality({}) = 0 /\ \A a \in Agents : Cardinality({a}) = 1 BY FS_EmptySet, FS_Singleton
    <3>5. Cardinality(S) = 0 \/ Cardinality(S) = 1 BY <3>3, <3>4
    <3> QED BY <3>5
  <2> QED BY <2>1, <2>2 DEF RuntimeInv
<1> QED BY <1>1, RuntimeIsInvariant, PTL

(* When no command is running, stop finds every service that was started,   *)
(* whatever processes died and whatever pids were given to others.          *)
THEOREM ServicesAreTracked == Spec => []NothingUntracked
<1>1. IndInv => NothingUntracked
  <2> SUFFICES ASSUME IndInv, ~lapped, \A l \in Launchers : ~Running(l),
                      NEW p \in Pids, proc[p].kind \in Services, ~proc[p].killed
               PROVE  pidFile[proc[p].kind] = p
    BY DEF NothingUntracked
  <2>1. TrackedSoon BY DEF IndInv, AloneInv
  <2> QED BY <2>1 DEF TrackedSoon, Serves, Running, Ended
<1> QED BY <1>1, RuntimeIsInvariant, PTL

(* A start keeps the tools of an agent that exists, and its prompt but for  *)
(* blanks around it, also when it overlaps with others, and the user's      *)
(* locale unless it does.  The provider it replaces.                        *)
THEOREM UserEditsStand == Spec => EditsAreKept
<1> DEFINE Kept ==
      /\ settings = "zh-CN" /\ settings' # settings => lapped
      /\ \A a \in Agents : Present(a) /\ Present(a)' =>
           /\ rows[a].tools \subseteq rows'[a].tools
           /\ rows[a].prompt # "blank" => rows'[a].prompt \in {rows[a].prompt, Trim(rows[a].prompt)}
<1>1. IndInv /\ [Next]_vars => Kept
  <2> SUFFICES ASSUME IndInv, [Next]_vars PROVE Kept OBVIOUS
  <2>1. ASSUME settings = "zh-CN", settings' # settings, ~lapped PROVE FALSE
    <3>1. ASSUME NEW l \in Launchers, Acts(l) PROVE FALSE
      <4>1. cmd[l].pc = "settings" BY <2>1, <3>1, Writers DEF DefaultSettings
      <4> QED BY <2>1, <4>1 DEF IndInv, AloneInv, NoSettingsYet
    <3>2. World => settings' \in {settings, "zh-CN"}
      BY DEF World, Listen, Ends, Dies, Foreign, UserAgent, UserSettings, WriteRuntimeSettings
    <3> QED BY <2>1, <3>1, <3>2, Steps DEF vars
  <2>2. lapped \in BOOLEAN BY DEF IndInv, TypeOK
  <2> QED BY <2>1, <2>2, RowsAreKept DEF IndInv
<1>2. IndInv /\ [Next]_vars => [Kept]_vars BY <1>1
<1> QED BY <1>2, RuntimeIsInvariant, PTL DEF Spec, EditsAreKept
=============================================================================
