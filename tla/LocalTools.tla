----------------------------- MODULE LocalTools -----------------------------
(***************************************************************************)
(* What the local tools may do: paths and the roots they lie in, the       *)
(* decision of evaluateLocalPermission, and what each built-in tool can    *)
(* come to (packages/config, apps/tool-runner-host).                       *)
(*                                                                         *)
(* A path is the sequence of its segments after the root of the file       *)
(* system; only POSIX paths are modelled.                                  *)
(***************************************************************************)
EXTENDS Naturals, Sequences, SequencesExt, FiniteSets

CONSTANTS
  Segments,   \* names that paths are made of, ".." among them
  Dotted,     \* those that begin with two dots
  Cwd,        \* the gateway's directory, which relative paths start from
  MaxDepth    \* bound: segments of a path

ASSUME PathsAssumption ==
  /\ ".." \in Dotted /\ Dotted \subseteq Segments
  /\ Cwd \in Segments \ Dotted /\ MaxDepth \in Nat

Paths == [absolute : BOOLEAN, segs : UNION {[1..n -> Segments] : n \in 1..MaxDepth}]

\* pathModule.normalize, and resolve of what is not absolute.
Descend(at, seg) == IF seg # ".." THEN Append(at, seg) ELSE IF at = <<>> THEN at ELSE Front(at)
Walk(from, segs) ==
  LET at[n \in 0..Len(segs)] == IF n = 0 THEN from ELSE Descend(at[n - 1], segs[n])
  IN  at[Len(segs)]
NormalizePath(p) == Walk(<<>>, IF p.absolute THEN p.segs ELSE <<Cwd>> \o p.segs)

\* pathModule.relative: up to the longest common part, and down again.
Relative(from, to) ==
  LET shared == CHOOSE n \in 0..Len(from) :
        /\ n <= Len(to) /\ SubSeq(from, 1, n) = SubSeq(to, 1, n)
        /\ (n < Len(from) /\ n < Len(to)) => from[n + 1] # to[n + 1]
  IN  [i \in 1..(Len(from) - shared) |-> ".."] \o SubSeq(to, shared + 1, Len(to))

\* A target that is the root or below it by a name that has no two dots first.
IsWithinRoot(target, root) ==
  LET relative == Relative(NormalizePath(root), NormalizePath(target))
  IN  relative = <<>> \/ relative[1] \notin Dotted

\* What being within a root means, and that all paths are.
LiesIn(target, root) == IsPrefix(NormalizePath(root), NormalizePath(target))
Lawful(perm, paths) == perm.all \/ \A p \in paths : \E root \in perm.roots : LiesIn(p, root)

-----------------------------------------------------------------------------
(* Permissions.                                                            *)

DefaultPermissions ==
  [all |-> FALSE, roots |-> {}, shell |-> TRUE, promptFs |-> TRUE, promptShell |-> TRUE]

\* loadGlobalPermissionsConfig: a file that is missing, cannot be read or does
\* not satisfy the schema counts as the defaults.
LoadGlobalPermissions(file) == IF file.valid THEN file.permissions ELSE DefaultPermissions

AllWithin(perm, paths) == perm.all \/ \A p \in paths : \E root \in perm.roots : IsWithinRoot(p, root)

EvaluateLocalPermission(perm, action, paths, elevated) ==
  CASE elevated -> IF perm.promptFs \/ perm.promptShell THEN "requiresApproval" ELSE "deny"
    [] ~elevated /\ action = "read" -> "allow"
    [] ~elevated /\ action = "shell" /\ paths = {} -> "allow"
    [] OTHER -> IF AllWithin(perm, paths) THEN "allow" ELSE "deny"

-----------------------------------------------------------------------------
(* The tools.  A call names its tool, the paths it is to write and, for    *)
(* the shell, its command and whether it needs elevation.  The paths of a  *)
(* command are those it declares, and nothing holds it to them.            *)

Command(executable, evalFlag) == [executable |-> executable, evalFlag |-> evalFlag]
Commands ==
  {Command("shell", FALSE), Command("interpreter", TRUE), Command("interpreter", FALSE), Command("other", TRUE)}

\* Shells are refused, and interpreters with code among their arguments.
ValidateManagedCommandShape(command) ==
  /\ command.executable # "shell"
  /\ ~(command.executable = "interpreter" /\ command.evalFlag)

Plain == Command("other", FALSE)
ShortPaths == {p \in Paths : Len(p.segs) = 1}

Calls ==
  [tool : {"echo", "read", "agent_tasks"}, paths : {{}}, elevated : {FALSE}, command : {Plain}]
    \cup [tool : {"write", "shell"}, paths : {{p} : p \in Paths}, elevated : {FALSE}, command : {Plain}]
    \cup [tool : {"shell"}, paths : {{}} \cup {{p} : p \in ShortPaths}, elevated : BOOLEAN, command : Commands]

\* What a call comes to: ToolExecutionOutput or an error, and whether it acted.
Came(result, acted) == [result |-> result, acted |-> acted]

\* requestApproval: the queue keeps the request and nothing waits for it.
RequestFilesystemApproval == {Came("approval", FALSE)}
RequestShellApproval == {Came("approval", FALSE)}

\* The file system does the work, fails with or without having written, or
\* denies the access, and then an approval is asked for.
Accesses(c) ==
  {Came("ok", c.paths # {}), Came("error", c.paths # {}), Came("error", FALSE)} \cup RequestFilesystemApproval

\* runCommand: a process of the gateway's own user, which may write anywhere or
\* nowhere, whatever it declared, and whatever its exit code and signal.  Access
\* is denied, and an approval asked for, only where it could not be started.
RunCommand ==
  {Came("ok", TRUE), Came("ok", FALSE), Came("error", TRUE), Came("error", FALSE)} \cup RequestShellApproval

WriteText(perm, c) ==
  LET decision == EvaluateLocalPermission(perm, "write", c.paths, FALSE)
  IN  CASE decision = "deny" -> {Came("error", FALSE)}
        [] decision = "requiresApproval" -> RequestFilesystemApproval
        [] OTHER -> Accesses(c)

ExecuteManagedShell(perm, c) ==
  LET decision == EvaluateLocalPermission(perm, "shell", c.paths, c.elevated)
  IN  CASE ~perm.shell \/ ~ValidateManagedCommandShape(c.command) \/ decision = "deny" -> {Came("error", FALSE)}
        [] OTHER -> IF decision = "requiresApproval" THEN RequestShellApproval ELSE RunCommand

\* registerBuiltinTools: what a call of each tool can come to.
Outcomes(perm, c) ==
  CASE c.tool = "echo" -> {Came("ok", FALSE)}
    [] c.tool = "agent_tasks" -> {Came("ok", FALSE), Came("error", FALSE)}
    [] c.tool = "read" -> Accesses(c)
    [] c.tool = "write" -> WriteText(perm, c)
    [] OTHER -> ExecuteManagedShell(perm, c)

\* What the permissions promise of a call that acts: a file is written below a
\* root they name.  A command runs only where the shell is on, its shape is
\* allowed, it needs no elevation, and what it declares to write lies below
\* such a root; what it then writes they do not decide.
CallLawful(perm, c) ==
  /\ Lawful(perm, c.paths)
  /\ c.tool = "shell" => perm.shell /\ ValidateManagedCommandShape(c.command) /\ ~c.elevated
=============================================================================
