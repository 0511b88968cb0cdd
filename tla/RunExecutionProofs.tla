------------------------- MODULE RunExecutionProofs -------------------------
(***************************************************************************)
(* Proofs about the rules that decide what a tool may touch, for all paths *)
(* and flags, and about the run of an agent, for every number of turns,    *)
(* failures, paths and segments.                                           *)
(***************************************************************************)
EXTENDS RunExecution, SequenceTheorems, WellFoundedInduction, TLAPS

-----------------------------------------------------------------------------
(* Induction: a property that fails somewhere fails somewhere first.        *)

LEMMA LeastNatural ==
  ASSUME NEW T, T \subseteq Nat, T # {}
  PROVE  \E x \in T : \A y \in T : x <= y
<1>1. IsWellFoundedOn(OpToRel(<, Nat), Nat) BY NatLessThanWellFounded
<1>2. PICK x \in T : \A y \in T : <<y, x>> \notin OpToRel(<, Nat)
  BY <1>1, WFMin, Zenon
<1>3. \A y \in T : ~(y < x) BY <1>2 DEF OpToRel
<1> QED BY <1>3

(* What holds at 0, and from each number up to N at the next, holds up to N. *)
LEMMA UpTo ==
  ASSUME NEW N \in Nat, NEW S, 0 \in S, \A n \in 1..N : n - 1 \in S => n \in S
  PROVE  \A n \in 0..N : n \in S
<1> SUFFICES ASSUME NEW k \in 0..N, k \notin S PROVE FALSE OBVIOUS
<1> DEFINE T == {n \in 0..N : n \notin S}
<1>1. PICK m \in T : \A y \in T : m <= y
  <2>1. T \subseteq Nat /\ T # {} OBVIOUS
  <2> QED BY <2>1, LeastNatural
<1>2. m \in 1..N /\ m - 1 \notin T BY <1>1
<1> QED BY <1>2

-----------------------------------------------------------------------------
(* Walk, and through it NormalizePath and Resolve.                          *)

WalkTo(at, from, segs, n) ==
  at = [k \in 0..n |-> IF k = 0 THEN from ELSE Descend(at[k - 1], segs[k])]

(* The recursion of Walk defines a function.                                *)
LEMMA WalkExists ==
  ASSUME NEW from, NEW segs, NEW N \in Nat
  PROVE  \E at : WalkTo(at, from, segs, N)
<1> DEFINE S == {n \in Nat : \E at : WalkTo(at, from, segs, n)}
<1>1. 0 \in S
  <2>1. WalkTo([k \in 0..0 |-> from], from, segs, 0) BY DEF WalkTo
  <2> QED BY <2>1
<1>2. ASSUME NEW n \in 1..N, n - 1 \in S PROVE n \in S
  <2>1. PICK at : WalkTo(at, from, segs, n - 1) BY <1>2
  <2> DEFINE on == [k \in 0..n |-> IF k < n THEN at[k] ELSE Descend(at[n - 1], segs[n])]
  <2>2. ASSUME NEW k \in 0..n
        PROVE  on[k] = IF k = 0 THEN from ELSE Descend(on[k - 1], segs[k])
    <3>1. CASE k < n
      <4>1. at[k] = IF k = 0 THEN from ELSE Descend(at[k - 1], segs[k]) BY <2>1, <3>1 DEF WalkTo
      <4>2. on[k] = at[k] /\ (k # 0 => on[k - 1] = at[k - 1]) BY <3>1
      <4> QED BY <4>1, <4>2
    <3>2. CASE k = n BY <3>2
    <3> QED BY <3>1, <3>2
  <2>3. WalkTo(on, from, segs, n) BY <2>2 DEF WalkTo
  <2> QED BY <2>3
<1>3. N \in S
  <2> HIDE DEF S
  <2> QED BY <1>1, <1>2, UpTo
<1> QED BY <1>3

LEMMA WalkWalks ==
  ASSUME NEW from, NEW segs, Len(segs) \in Nat
  PROVE  \E at : WalkTo(at, from, segs, Len(segs)) /\ Walk(from, segs) = at[Len(segs)]
<1> DEFINE at == CHOOSE f : f = [n \in 0..Len(segs) |-> IF n = 0 THEN from ELSE Descend(f[n - 1], segs[n])]
<1>0. PICK f : WalkTo(f, from, segs, Len(segs)) BY WalkExists
<1>1. \E g : g = [n \in 0..Len(segs) |-> IF n = 0 THEN from ELSE Descend(g[n - 1], segs[n])]
  BY <1>0 DEF WalkTo
<1>2. WalkTo(at, from, segs, Len(segs)) BY <1>1 DEF WalkTo
<1>3. Walk(from, segs) = at[Len(segs)] BY DEF Walk
<1> QED BY <1>2, <1>3

(* A step on the way goes up or down, and never notes "..".                 *)
LEMMA DescendType ==
  ASSUME NEW S, NEW at \in Seq(S \ {".."}), NEW seg \in S
  PROVE  Descend(at, seg) \in Seq(S \ {".."})
<1>1. CASE seg # ".." BY <1>1 DEF Descend
<1>2. CASE seg = ".." /\ at # <<>>
  <2>1. Len(at) \in Nat \ {0} BY <1>2
  <2> QED BY <1>2, <2>1 DEF Descend, Front
<1> QED BY <1>1, <1>2 DEF Descend

(* What Walk arrives at is a path without dots.                             *)
LEMMA WalkType ==
  ASSUME NEW S, NEW from \in Seq(S \ {".."}), NEW segs \in Seq(S)
  PROVE  Walk(from, segs) \in Seq(S \ {".."})
<1>0. Len(segs) \in Nat /\ \A n \in 1..Len(segs) : segs[n] \in S OBVIOUS
<1>1. PICK at : WalkTo(at, from, segs, Len(segs)) /\ Walk(from, segs) = at[Len(segs)]
  BY <1>0, WalkWalks
<1> DEFINE T == {n \in 0..Len(segs) : at[n] \in Seq(S \ {".."})}
<1>2. 0 \in T
  <2>1. at[0] = from BY <1>0, <1>1 DEF WalkTo
  <2> QED BY <1>0, <2>1
<1>3. ASSUME NEW n \in 1..Len(segs), n - 1 \in T PROVE n \in T
  <2>1. at[n] = Descend(at[n - 1], segs[n]) BY <1>0, <1>1 DEF WalkTo
  <2> QED BY <1>0, <1>3, <2>1, DescendType
<1>4. Len(segs) \in T
  <2> HIDE DEF T
  <2>1. \A n \in 0..Len(segs) : n \in T BY <1>0, <1>2, <1>3, UpTo
  <2> QED BY <1>0, <2>1
<1> QED BY <1>1, <1>4

-----------------------------------------------------------------------------
(* Relative, and through it IsWithinRoot and IsWithin.                      *)

LEMMA SameBeginning ==
  ASSUME NEW S, NEW s \in Seq(S), NEW t \in Seq(S), NEW n \in Nat, n <= Len(s), n <= Len(t)
  PROVE  SubSeq(s, 1, n) = SubSeq(t, 1, n) <=> \A i \in 1..n : s[i] = t[i]
  BY SubSeqProperties

(* The longest common part of two paths.                                    *)
Shares(from, to, n) ==
  /\ n <= Len(to) /\ SubSeq(from, 1, n) = SubSeq(to, 1, n)
  /\ (n < Len(from) /\ n < Len(to)) => from[n + 1] # to[n + 1]

LEMMA SharesSome ==
  ASSUME NEW S, NEW from \in Seq(S), NEW to \in Seq(S)
  PROVE  \E n \in 0..Len(from) : Shares(from, to, n)
<1> DEFINE T == {n \in 0..Len(from) : n <= Len(to) /\ (n < Len(from) /\ n < Len(to) => from[n + 1] # to[n + 1])}
<1>0. Len(from) \in Nat /\ Len(to) \in Nat OBVIOUS
<1>1. T # {}
  <2>1. CASE Len(from) <= Len(to) BY <1>0, <2>1
  <2>2. CASE Len(to) <= Len(from) BY <1>0, <2>2
  <2> QED BY <1>0, <2>1, <2>2
<1>2. PICK m \in T : \A y \in T : m <= y
  <2>1. T \subseteq Nat BY <1>0
  <2> HIDE DEF T
  <2> QED BY <1>1, <2>1, LeastNatural
<1>3. \A i \in 1..m : from[i] = to[i]
  <2> TAKE i \in 1..m
  <2>0. m \in 0..Len(from) /\ i - 1 \in Nat /\ ~(m <= i - 1) BY <1>0, <1>2
  <2>1. i - 1 \notin T BY <1>2, <2>0
  <2> QED BY <1>0, <1>2, <2>1
<1>4. SubSeq(from, 1, m) = SubSeq(to, 1, m) BY <1>0, <1>2, <1>3, SameBeginning
<1> QED BY <1>2, <1>4 DEF Shares

(* The way from one path to another begins with no dots exactly when the    *)
(* second is the first, or lies below it by such a name.                    *)
LEMMA RelativeMeans ==
  ASSUME NEW S, NEW from \in Seq(S), NEW to \in Seq(S)
  PROVE  LET way == Relative(from, to)
         IN  (way = <<>> \/ way[1] \notin Dotted) <=>
               /\ IsPrefix(from, to)
               /\ Len(from) < Len(to) => to[Len(from) + 1] \notin Dotted
<1>0. Len(from) \in Nat /\ Len(to) \in Nat OBVIOUS
<1> DEFINE n == CHOOSE k \in 0..Len(from) : Shares(from, to, k)
<1>1. n \in 0..Len(from) /\ Shares(from, to, n) BY SharesSome
<1>2. Relative(from, to) = [i \in 1..(Len(from) - n) |-> ".."] \o SubSeq(to, n + 1, Len(to))
  BY DEF Relative, Shares
<1> HIDE DEF n
<1> DEFINE up == [i \in 1..(Len(from) - n) |-> ".."]
           down == SubSeq(to, n + 1, Len(to))
<1>3. n \in Nat /\ n <= Len(from) /\ n <= Len(to) BY <1>0, <1>1 DEF Shares
<1>4. /\ up \in Seq({".."}) /\ Len(up) = Len(from) - n
      /\ down \in Seq(S) /\ Len(down) = Len(to) - n
      /\ n < Len(to) => down[1] = to[n + 1]
  <2>1. Len(from) - n \in Nat BY <1>0, <1>3
  <2>2. up \in Seq({".."}) /\ Len(up) = Len(from) - n BY <2>1
  <2>3. CASE n = Len(to)
    <3>1. down = <<>> BY <1>0, <2>3, SubSeqEmpty
    <3>2. <<>> \in Seq(S) /\ Len(<<>>) = Len(to) - n BY <1>0, <2>3
    <3> HIDE DEF up, down
    <3> QED BY <1>0, <2>2, <2>3, <3>1, <3>2
  <2>4. CASE n < Len(to)
    BY <1>0, <1>3, <2>2, <2>4, SubSeqProperties
  <2> QED BY <1>3, <2>3, <2>4, <1>0
<1>5. CASE n < Len(from)
  <2>1. (up \o down)[1] = ".." /\ Len(up \o down) # 0
    <3>1. up \in Seq(S \cup {".."}) /\ down \in Seq(S \cup {".."}) BY <1>4
    <3>2. up[1] = ".." BY <1>0, <1>3, <1>5
    <3> HIDE DEF up, down
    <3> QED BY <1>0, <1>3, <1>4, <1>5, <3>1, <3>2
  <2>2. ~IsPrefix(from, to)
    <3> SUFFICES ASSUME IsPrefix(from, to) PROVE FALSE OBVIOUS
    <3>1. Len(from) <= Len(to) /\ \A i \in 1..Len(from) : from[i] = to[i]
      BY <1>0, SameBeginning DEF IsPrefix
    <3> QED BY <1>0, <1>1, <1>3, <1>5, <3>1 DEF Shares
  <2> HIDE DEF up, down
  <2>3. up \o down # <<>> BY <2>1
  <2> QED BY <1>2, <2>1, <2>2, <2>3, PathsAssumption DEF up, down
<1>6. CASE n = Len(from)
  <2>1. up = <<>> BY <1>0, <1>6
  <2>2. up \o down = down
    <3> HIDE DEF up, down
    <3> QED BY <1>4, <2>1
  <2>3. IsPrefix(from, to) BY <1>0, <1>1, <1>3, <1>6 DEF IsPrefix, Shares
  <2> HIDE DEF up, down
  <2>4. down = <<>> <=> Len(to) = n BY <1>0, <1>3, <1>4
  <2> QED BY <1>0, <1>2, <1>3, <1>4, <1>6, <2>2, <2>3, <2>4 DEF up, down
<1> QED BY <1>3, <1>5, <1>6, <1>0

-----------------------------------------------------------------------------
(* The permissions of the local tools.                                      *)

\* Paths of any depth.
AnyPath == [absolute : BOOLEAN, segs : Seq(Segments)]

LEMMA PathsAreAny == Paths \subseteq AnyPath
  BY PathsAssumption DEF Paths, AnyPath

LEMMA NormalizeType ==
  ASSUME NEW p \in AnyPath
  PROVE  NormalizePath(p) \in Seq(Segments \ {".."})
<1>1. p.segs \in Seq(Segments) /\ <<Cwd>> \o p.segs \in Seq(Segments)
  BY PathsAssumption DEF AnyPath
<1>2. <<>> \in Seq(Segments \ {".."}) OBVIOUS
<1> QED BY <1>1, <1>2, WalkType DEF NormalizePath

(* isWithinRoot lets a path pass exactly when it is below the root, whatever *)
(* dots it goes over, and the first name below the root does not begin with *)
(* two dots: it lets nothing else pass, and refuses nothing else.           *)
THEOREM WithinRootIsBelow ==
  ASSUME NEW target \in AnyPath, NEW root \in AnyPath
  PROVE  IsWithinRoot(target, root) <=>
           /\ LiesIn(target, root)
           /\ Len(NormalizePath(root)) < Len(NormalizePath(target)) =>
                NormalizePath(target)[Len(NormalizePath(root)) + 1] \notin Dotted
<1>1. NormalizePath(root) \in Seq(Segments) /\ NormalizePath(target) \in Seq(Segments)
  BY NormalizeType
<1> QED BY <1>1, RelativeMeans DEF IsWithinRoot, LiesIn

LEMMA WithinIsLawful ==
  ASSUME NEW p, p.roots \subseteq AnyPath, NEW paths \in SUBSET AnyPath, AllWithin(p, paths)
  PROVE  Lawful(p, paths)
  BY WithinRootIsBelow DEF AllWithin, Lawful

(* What is known of every call a model can make.                            *)
LEMMA CallShape ==
  ASSUME NEW c \in Calls
  PROVE  /\ c.tool \in {"echo", "read", "agent_tasks", "write", "shell"}
         /\ c.paths \in SUBSET AnyPath
         /\ c.elevated \in BOOLEAN
         /\ c.tool \in {"echo", "read", "agent_tasks"} => c.paths = {}
         /\ c.tool = "write" => ~c.elevated
<1>1. ShortPaths \subseteq Paths BY DEF ShortPaths
<1>2. CASE c \in [tool : {"echo", "read", "agent_tasks"}, paths : {{}}, elevated : {FALSE}, command : {Plain}]
  BY <1>2
<1>3. CASE c \in [tool : {"write", "shell"}, paths : {{p} : p \in Paths}, elevated : {FALSE}, command : {Plain}]
  BY <1>3, PathsAreAny
<1>4. CASE c \in [tool : {"shell"}, paths : {{}} \cup {{p} : p \in ShortPaths}, elevated : BOOLEAN, command : Commands]
  BY <1>1, <1>4, PathsAreAny
<1> QED BY <1>2, <1>3, <1>4 DEF Calls

Result == [result : {"ok", "error", "approval"}, acted : BOOLEAN]

LEMMA CameShape ==
  ASSUME NEW r \in {"ok", "error", "approval"}, NEW a \in BOOLEAN
  PROVE  Came(r, a) \in Result /\ Came(r, a).result = r /\ Came(r, a).acted = a
  BY DEF Came, Result

(* A write or a command that is allowed is lawful.                          *)
LEMMA AllowedIsLawful ==
  ASSUME NEW p, p.roots \subseteq AnyPath, NEW paths \in SUBSET AnyPath, paths # {},
         NEW action \in {"write", "shell"}, NEW elevated \in BOOLEAN,
         EvaluateLocalPermission(p, action, paths, elevated) \notin {"deny", "requiresApproval"}
  PROVE  Lawful(p, paths)
<1>1. ~elevated BY DEF EvaluateLocalPermission
<1>2. AllWithin(p, paths) BY <1>1 DEF EvaluateLocalPermission
<1> QED BY <1>2, WithinIsLawful

(* A built-in tool acts only as the permissions promise (CallLawful), and   *)
(* not at all when it asks for an approval.  The orchestration tools touch  *)
(* nothing themselves.                                                      *)
LEMMA OutcomesAreLawful ==
  ASSUME NEW p, p.roots \subseteq AnyPath, NEW c \in Calls, NEW o \in Outcomes(p, c)
  PROVE  /\ o \in Result
         /\ o.acted => CallLawful(p, c) /\ o.result # "approval" /\ c.tool # "agent_tasks"
<1> USE CallShape, CameShape
<1>0. c.paths = {} => Lawful(p, c.paths) BY DEF Lawful
<1>1. CASE c.tool = "echo" BY <1>1 DEF Outcomes
<1>2. CASE c.tool = "agent_tasks" BY <1>2 DEF Outcomes
<1>3. CASE c.tool = "read"
  <2>1. c.paths = {} /\ o \in Accesses(c) BY <1>3 DEF Outcomes
  <2> QED BY <2>1 DEF Accesses, RequestFilesystemApproval
<1>4. CASE c.tool = "write"
  <2>1. o \in WriteText(p, c) BY <1>4 DEF Outcomes
  <2> DEFINE decision == EvaluateLocalPermission(p, "write", c.paths, FALSE)
  <2>2. CASE decision = "deny" BY <2>1, <2>2 DEF WriteText
  <2>3. CASE decision = "requiresApproval" BY <2>1, <2>3 DEF WriteText, RequestFilesystemApproval
  <2>4. CASE decision \notin {"deny", "requiresApproval"}
    <3>1. o \in Accesses(c) BY <2>1, <2>4 DEF WriteText
    <3>2. c.paths # {} => Lawful(p, c.paths) BY <2>4, AllowedIsLawful
    <3> QED BY <1>4, <3>1, <3>2 DEF Accesses, RequestFilesystemApproval, CallLawful
  <2> QED BY <2>2, <2>3, <2>4
<1>5. CASE c.tool = "shell"
  <2>1. o \in ExecuteManagedShell(p, c) BY <1>5 DEF Outcomes
  <2> DEFINE decision == EvaluateLocalPermission(p, "shell", c.paths, c.elevated)
  <2>2. CASE ~p.shell \/ ~ValidateManagedCommandShape(c.command) \/ decision = "deny"
    BY <2>1, <2>2 DEF ExecuteManagedShell
  <2>3. CASE ~(~p.shell \/ ~ValidateManagedCommandShape(c.command) \/ decision = "deny") /\ decision = "requiresApproval"
    BY <2>1, <2>3 DEF ExecuteManagedShell, RequestShellApproval
  <2>4. CASE ~(~p.shell \/ ~ValidateManagedCommandShape(c.command) \/ decision = "deny") /\ decision # "requiresApproval"
    <3>1. o \in RunCommand BY <2>1, <2>4 DEF ExecuteManagedShell
    <3>2. o \in Result /\ (o.acted => o.result # "approval") BY <3>1 DEF RunCommand, RequestShellApproval
    <3>3. Lawful(p, c.paths) BY <1>0, <2>4, AllowedIsLawful
    <3>4. ~c.elevated BY <2>4 DEF EvaluateLocalPermission
    <3>5. p.shell /\ ValidateManagedCommandShape(c.command) BY <2>4
    <3>6. CallLawful(p, c) BY <3>3, <3>4, <3>5 DEF CallLawful
    <3> QED BY <1>5, <3>2, <3>6
  <2> QED BY <2>2, <2>3, <2>4
<1> QED BY <1>1, <1>2, <1>3, <1>4, <1>5

-----------------------------------------------------------------------------
(* The guards of a sandboxed tool.                                          *)

Names == Segments \cup {"..a"}

\* Any configuration whose paths are sequences of names, and that does not
\* name the host which stands for none.
AnyConfig(s) == s.paths \in SUBSET Seq(Names) /\ \A d \in s.domains : d.name # "undefined"

LEMMA ConfigsAreAny == \A s \in SandboxConfigs : AnyConfig(s)
<1>1. ".." \in Names /\ "..a" \in Names BY PathsAssumption DEF Names
<1>2. {<<"..", "..a">>} \subseteq Seq(Names) /\ {} \subseteq Seq(Names) BY <1>1
<1>3. Host("site", TRUE, FALSE).name # "undefined" BY DEF Host
<1> SUFFICES ASSUME NEW s \in SandboxConfigs PROVE AnyConfig(s) OBVIOUS
<1>4. CASE s = [level |-> 1, network |-> TRUE, domains |-> {Host("site", TRUE, FALSE)}, paths |-> {}]
  BY <1>2, <1>3, <1>4 DEF AnyConfig
<1>5. CASE s = [level |-> 2, network |-> FALSE, domains |-> {}, paths |-> {}]
  BY <1>2, <1>5 DEF AnyConfig
<1>6. CASE s = [level |-> 4, network |-> TRUE, domains |-> {}, paths |-> {<<"..", "..a">>}]
  BY <1>2, <1>6 DEF AnyConfig
<1> QED BY <1>4, <1>5, <1>6, Zenon DEF SandboxConfigs

LEMMA ResolveType ==
  ASSUME NEW p \in AnyPath
  PROVE  Resolve(p) \in Seq(Names)
<1>1. p.segs \in Seq(Segments) /\ SandboxDirectory \o p.segs \in Seq(Segments)
  BY PathsAssumption DEF AnyPath, SandboxDirectory
<1>2. <<>> \in Seq(Segments \ {".."}) OBVIOUS
<1>3. Resolve(p) \in Seq(Segments \ {".."}) BY <1>1, <1>2, WalkType DEF Resolve
<1> QED BY <1>3 DEF Names

LEMMA RootsType ==
  ASSUME NEW s, AnyConfig(s), NEW root \in ReadableRoots(s)
  PROVE  root \in Seq(Names)
<1>1. SandboxDirectory \in Seq(Names) BY PathsAssumption DEF SandboxDirectory, Names
<1>2. <<Cwd>> \in Seq(Names \ {".."}) BY PathsAssumption DEF Names
<1>3. ASSUME NEW p \in s.paths PROVE Walk(<<Cwd>>, p) \in Seq(Names)
  <2>1. p \in Seq(Names) BY <1>3 DEF AnyConfig
  <2>2. Walk(<<Cwd>>, p) \in Seq(Names \ {".."}) BY <1>2, <2>1, WalkType
  <2> QED BY <2>2
<1> QED BY <1>1, <1>3 DEF ReadableRoots

LEMMA GuardsMean ==
  ASSUME NEW s, AnyConfig(s), NEW p \in AnyPath
  PROVE  /\ FsGuard(s, "write", p) => Below(p, SandboxDirectory)
         /\ FsGuard(s, "read", p) => \E root \in ReadableRoots(s) : Below(p, root)
<1>1. ASSUME NEW root \in ReadableRoots(s), IsWithin(Resolve(p), root) PROVE Below(p, root)
  <2>1. root \in Seq(Names) /\ Resolve(p) \in Seq(Names) BY RootsType, ResolveType
  <2> QED BY <1>1, <2>1, RelativeMeans DEF IsWithin, Below
<1>2. SandboxDirectory \in ReadableRoots(s) BY DEF ReadableRoots
<1> QED BY <1>1, <1>2 DEF FsGuard, EnsureWriteAccess, EnsureReadAccess

(* Which function is called with what.                                      *)
LEMMA FileOpShape ==
  ASSUME NEW op \in FileOps
  PROVE  /\ op.path \in AnyPath /\ op.to \in AnyPath
         /\ \/ op.name \in {"copy", "rename"}
            \/ op.to = op.path /\ op.name \in {"read", "write", "unwrapped", "access"}
            \/ op.to = op.path /\ op.name = "open" /\ op.flags \in OpenFlags
<1> USE PathsAreAny
<1>0. ShortPaths \subseteq AnyPath BY DEF ShortPaths
<1>1. CASE op \in UNION {FileOp({"read", "write", "unwrapped"}, {p}, {p}, {Flags("none", {})}) : p \in Paths}
  BY <1>1 DEF FileOp
<1>2. CASE op \in FileOp({"copy", "rename"}, ShortPaths, ShortPaths, {Flags("none", {})})
  BY <1>0, <1>2 DEF FileOp
<1>3. CASE op \in UNION {FileOp({"open", "read"}, {p}, {p}, OpenFlags) : p \in ShortPaths}
  BY <1>0, <1>3 DEF FileOp
<1>4. CASE op \in UNION {FileOp({"access"}, {p}, {p}, AccessModes) : p \in ShortPaths}
  BY <1>0, <1>4 DEF FileOp
<1> DEFINE A == UNION {FileOp({"read", "write", "unwrapped"}, {p}, {p}, {Flags("none", {})}) : p \in Paths}
           B == FileOp({"copy", "rename"}, ShortPaths, ShortPaths, {Flags("none", {})})
           C == UNION {FileOp({"open", "read"}, {p}, {p}, OpenFlags) : p \in ShortPaths}
           D == UNION {FileOp({"access"}, {p}, {p}, AccessModes) : p \in ShortPaths}
<1>5. FileOps = ((A \cup B) \cup C) \cup D BY DEF FileOps
<1>6. op \in A \/ op \in B \/ op \in C \/ op \in D
  <2> HIDE DEF A, B, C, D
  <2> QED BY <1>5
<1> QED BY <1>1, <1>2, <1>3, <1>4, <1>6

(* Every flag that lets open change a file is a write flag.                 *)
LEMMA WriteFlags ==
  ASSUME NEW flags \in OpenFlags, flags.kind # "none", flags.of \notin {{}, {"r"}, {"O_EXCL"}}
  PROVE  IsWriteFlag(flags)
<1>1. CASE flags \in {Flags("none", {}), Flags("number", {}), Flags("string", {"r"}), Flags("string", {"a", "x"}), Flags("string", {"r", "+"})}
  BY <1>1 DEF Flags, IsWriteFlag
<1>2. CASE flags \in {Flags("number", {bit}) : bit \in {"O_WRONLY", "O_RDWR", "O_CREAT", "O_TRUNC", "O_EXCL"}}
  BY <1>2 DEF Flags, IsWriteFlag, WriteMask
<1> QED BY <1>1, <1>2 DEF OpenFlags

LEMMA FilesAreGuarded ==
  ASSUME NEW s, AnyConfig(s), NEW op \in FileOps, op.name # "unwrapped",
         op.name = "read" => Changes(op) = {}, FileAllowed(s, op)
  PROVE  FileLawful(s, op)
<1> USE FileOpShape
<1>0. SandboxDirectory \in ReadableRoots(s) BY DEF ReadableRoots
<1>1. \A g \in GuardsOf(op) : FsGuard(s, g[1], g[2]) BY DEF FileAllowed
<1>2. ASSUME NEW p \in AnyPath, Below(p, SandboxDirectory)
      PROVE  \E root \in ReadableRoots(s) : Below(p, root)
  BY <1>0, <1>2
<1>3. CASE op.name = "read"
  <2>1. FsGuard(s, "read", op.path) BY <1>1, <1>3 DEF GuardsOf
  <2>2. Changes(op) = {} BY <1>3
  <2> QED BY <1>3, <2>1, <2>2, GuardsMean DEF FileLawful
<1>4. CASE op.name = "write"
  <2>1. FsGuard(s, "write", op.path) BY <1>1, <1>4 DEF GuardsOf
  <2> QED BY <1>2, <1>4, <2>1, GuardsMean DEF FileLawful, Changes
<1>5. CASE op.name = "access"
  <2>1. FsGuard(s, "write", op.path) \/ FsGuard(s, "read", op.path)
    BY <1>1, <1>5 DEF GuardsOf, EnsureAccessMode
  <2> QED BY <1>2, <1>5, <2>1, GuardsMean DEF FileLawful, Changes
<1>6. CASE op.name = "copy"
  <2>1. FsGuard(s, "read", op.path) /\ FsGuard(s, "write", op.to) BY <1>1, <1>6 DEF GuardsOf
  <2> QED BY <1>2, <1>6, <2>1, GuardsMean DEF FileLawful, Changes
<1>7. CASE op.name = "rename"
  <2>1. FsGuard(s, "write", op.path) /\ FsGuard(s, "write", op.to) BY <1>1, <1>7 DEF GuardsOf
  <2> QED BY <1>2, <1>7, <2>1, GuardsMean DEF FileLawful, Changes
<1>8. CASE op.name = "open"
  <2>1. FsGuard(s, IF IsWriteFlag(op.flags) THEN "write" ELSE "read", op.path)
    BY <1>1, <1>8 DEF GuardsOf
  <2>2. CASE IsWriteFlag(op.flags)
    BY <1>2, <1>8, <2>1, <2>2, GuardsMean DEF FileLawful, Changes
  <2>3. CASE ~IsWriteFlag(op.flags)
    <3>1. Changes(op) = {} BY <1>8, <2>3, WriteFlags DEF Changes
    <3> QED BY <1>8, <2>1, <2>3, <3>1, GuardsMean DEF FileLawful
  <2> QED BY <2>2, <2>3
<1> QED BY <1>3, <1>4, <1>5, <1>6, <1>7, <1>8

LEMMA RequestsAreGuarded ==
  ASSUME NEW s, AnyConfig(s), NEW r \in Requests, r.form # "unwrapped", r.reaches = r.host.name,
         NetworkAllowed(s, r)
  PROVE  NetworkLawful(s, r)
<1>1. s.network BY DEF NetworkAllowed, NetworkGuard
<1>2. CASE s.domains = {} BY <1>1, <1>2 DEF NetworkLawful
<1>3. CASE s.domains # {}
  <2>1. PICK d \in s.domains : ExtractHostname(r) = Host(d.name, FALSE, d.brackets)
    BY <1>3 DEF NetworkAllowed, NetworkGuard
  <2>2. ExtractHostname(r).name \in {r.host.name, "undefined"}
    BY DEF ExtractHostname, ParseUrlHostname, NormalizeHostname, Undefined, Host
  <2>3. ExtractHostname(r).name = d.name BY <2>1 DEF Host
  <2> QED BY <1>1, <2>2, <2>3 DEF NetworkLawful, AnyConfig
<1> QED BY <1>2, <1>3

-----------------------------------------------------------------------------
(* FlattenSeq: the recursion of the library's definition, and what it gives. *)

Join(s, t) == s \o t

FlattenTo(flat, ss, n) ==
  flat = [i \in 1..n |-> IF i = 1 THEN ss[i] ELSE Join(flat[i - 1], ss[i])]

LEMMA FlattenExists ==
  ASSUME NEW ss, NEW N \in Nat
  PROVE  \E flat : FlattenTo(flat, ss, N)
<1> DEFINE S == {n \in Nat : \E flat : FlattenTo(flat, ss, n)}
<1>1. 0 \in S
  <2>1. FlattenTo([i \in 1..0 |-> ss[i]], ss, 0) BY DEF FlattenTo
  <2> QED BY <2>1
<1>2. ASSUME NEW n \in 1..N, n - 1 \in S PROVE n \in S
  <2>1. PICK flat : FlattenTo(flat, ss, n - 1) BY <1>2
  <2> DEFINE on == [i \in 1..n |-> IF i < n THEN flat[i] ELSE IF n = 1 THEN ss[n] ELSE Join(flat[n - 1], ss[n])]
  <2>2. ASSUME NEW i \in 1..n
        PROVE  on[i] = IF i = 1 THEN ss[i] ELSE Join(on[i - 1], ss[i])
    <3>1. CASE i < n
      <4>1. flat[i] = IF i = 1 THEN ss[i] ELSE Join(flat[i - 1], ss[i]) BY <2>1, <3>1 DEF FlattenTo
      <4>2. on[i] = flat[i] /\ (i # 1 => on[i - 1] = flat[i - 1]) BY <3>1
      <4> QED BY <4>1, <4>2
    <3>2. CASE i = n /\ n # 1
      <4>1. on[n - 1] = flat[n - 1] BY <3>2
      <4> QED BY <3>2, <4>1
    <3>3. CASE i = n /\ n = 1 BY <3>3
    <3> QED BY <3>1, <3>2, <3>3
  <2>3. FlattenTo(on, ss, n) BY <2>2 DEF FlattenTo
  <2> QED BY <2>3
<1>3. N \in S
  <2> HIDE DEF S
  <2> QED BY <1>1, <1>2, UpTo
<1> QED BY <1>3

LEMMA FlattenFlattens ==
  ASSUME NEW ss, Len(ss) \in Nat \ {0}
  PROVE  \E flat : FlattenTo(flat, ss, Len(ss)) /\ FlattenSeq(ss) = flat[Len(ss)]
<1> DEFINE flat == CHOOSE f : f = [i \in 1..Len(ss) |-> IF i = 1 THEN ss[i] ELSE f[i - 1] \o ss[i]]
<1>0. PICK f : FlattenTo(f, ss, Len(ss)) BY FlattenExists
<1>1. \E g : g = [i \in 1..Len(ss) |-> IF i = 1 THEN ss[i] ELSE g[i - 1] \o ss[i]]
  BY <1>0 DEF FlattenTo, Join
<1>2. FlattenTo(flat, ss, Len(ss)) BY <1>1 DEF FlattenTo, Join
<1>3. FlattenSeq(ss) = flat[Len(ss)] BY DEF FlattenSeq
<1> QED BY <1>2, <1>3

-----------------------------------------------------------------------------
(* The system call filter.                                                  *)

LEMMA ConcatAt ==
  ASSUME NEW S, NEW s \in Seq(S), NEW t \in Seq(S)
  PROVE  /\ s \o t \in Seq(S) /\ Len(s \o t) = Len(s) + Len(t)
         /\ \A i \in 1..Len(s) : (s \o t)[i] = s[i]
         /\ \A i \in (Len(s) + 1)..(Len(s) + Len(t)) : (s \o t)[i] = t[i - Len(s)]
  OBVIOUS

LEMMA NineInARow ==
  ASSUME NEW a, NEW b, NEW c, NEW d, NEW e, NEW f, NEW g, NEW h, NEW k, NEW s,
         s = (<<a, b, c, d>> \o (<<e, f>> \o <<g, h>>)) \o <<k>>
  PROVE  /\ Len(s) = 9 /\ s[1] = a /\ s[2] = b /\ s[3] = c /\ s[4] = d
         /\ s[5] = e /\ s[6] = f /\ s[7] = g /\ s[8] = h /\ s[9] = k
<1> DEFINE S == {a, b, c, d, e, f, g, h, k}
           x == <<a, b, c, d>>
           y == <<e, f>>
           z == <<g, h>>
           w == <<k>>
<1>1. x \in Seq(S) /\ Len(x) = 4 /\ x[1] = a /\ x[2] = b /\ x[3] = c /\ x[4] = d OBVIOUS
<1>2. y \in Seq(S) /\ Len(y) = 2 /\ y[1] = e /\ y[2] = f OBVIOUS
<1>3. z \in Seq(S) /\ Len(z) = 2 /\ z[1] = g /\ z[2] = h OBVIOUS
<1>4. w \in Seq(S) /\ Len(w) = 1 /\ w[1] = k OBVIOUS
<1>5. s = (x \o (y \o z)) \o w OBVIOUS
<1> HIDE DEF S, x, y, z, w
<1> DEFINE yz == y \o z
<1>6. yz \in Seq(S) /\ Len(yz) = 4 /\ yz[1] = e /\ yz[2] = f /\ yz[3] = g /\ yz[4] = h
  <2>1. /\ yz \in Seq(S) /\ Len(yz) = Len(y) + Len(z)
        /\ \A i \in 1..Len(y) : yz[i] = y[i]
        /\ \A i \in (Len(y) + 1)..(Len(y) + Len(z)) : yz[i] = z[i - Len(y)]
    BY <1>2, <1>3, ConcatAt, Zenon
  <2> HIDE DEF yz
  <2> QED BY <1>2, <1>3, <2>1
<1>7. s = (x \o yz) \o w BY <1>5
<1> HIDE DEF yz
<1> DEFINE v == x \o yz
<1>8. /\ v \in Seq(S) /\ Len(v) = 8 /\ v[1] = a /\ v[2] = b /\ v[3] = c /\ v[4] = d
      /\ v[5] = e /\ v[6] = f /\ v[7] = g /\ v[8] = h
  <2>1. /\ v \in Seq(S) /\ Len(v) = Len(x) + Len(yz)
        /\ \A i \in 1..Len(x) : v[i] = x[i]
        /\ \A i \in (Len(x) + 1)..(Len(x) + Len(yz)) : v[i] = yz[i - Len(x)]
    BY <1>1, <1>6, ConcatAt, Zenon
  <2> HIDE DEF v
  <2> QED BY <1>1, <1>6, <2>1
<1>9. s = v \o w BY <1>7
<1> HIDE DEF v
<1> QED BY <1>4, <1>8, <1>9, ConcatAt

LEMMA FilterIs ==
  /\ Len(SeccompFilter) = 9
  /\ SeccompFilter[1] = Load("arch")
  /\ SeccompFilter[2] = JumpEq("x86_64", 1, 0)
  /\ SeccompFilter[3] = Ret("EPERM")
  /\ SeccompFilter[4] = Load("nr")
  /\ SeccompFilter[5] = JumpEq("mount", 0, 1)
  /\ SeccompFilter[6] = Ret("EPERM")
  /\ SeccompFilter[7] = JumpEq("ptrace", 0, 1)
  /\ SeccompFilter[8] = Ret("EPERM")
  /\ SeccompFilter[9] = Ret("ALLOW")
<1> DEFINE ss == [i \in 1..Len(DeniedSyscalls) |-> <<JumpEq(DeniedSyscalls[i], 0, 1), Ret("EPERM")>>]
<1>1. /\ Len(ss) = 2
      /\ ss[1] = <<JumpEq("mount", 0, 1), Ret("EPERM")>>
      /\ ss[2] = <<JumpEq("ptrace", 0, 1), Ret("EPERM")>>
  BY DEF DeniedSyscalls
<1>2. FlattenSeq(ss) = ss[1] \o ss[2]
  <2> HIDE DEF ss
  <2>0. Len(ss) \in Nat \ {0} BY <1>1
  <2>a. PICK flat : FlattenTo(flat, ss, Len(ss)) /\ FlattenSeq(ss) = flat[Len(ss)]
    BY <2>0, FlattenFlattens
  <2>1. FlattenTo(flat, ss, 2) /\ FlattenSeq(ss) = flat[2] BY <1>1, <2>a
  <2>2. flat[1] = ss[1] /\ flat[2] = Join(flat[1], ss[2]) BY <2>1 DEF FlattenTo
  <2> QED BY <2>1, <2>2 DEF Join
<1>3. SeccompFilter = (<<Load("arch"), JumpEq("x86_64", 1, 0), Ret("EPERM"), Load("nr")>> \o FlattenSeq(ss)) \o <<Ret("ALLOW")>>
  BY DEF SeccompFilter
<1> HIDE DEF ss
<1> QED BY <1>1, <1>2, <1>3, NineInARow

Words == {"none", "x86_64", "i386", "mount", "ptrace", "read"}

\* What the program returns from each place on, for each accumulator.
AtPtrace(w) == IF w = "ptrace" THEN "EPERM" ELSE "ALLOW"
AtMount(w) == IF w = "mount" THEN "EPERM" ELSE AtPtrace(w)
AtArch(call, w) == IF w = "x86_64" THEN AtMount(call.nr) ELSE "EPERM"
Verdict(call, at, acc) ==
  CASE at = 1 -> AtArch(call, call.arch)
    [] at = 2 -> AtArch(call, acc)
    [] at = 4 -> AtMount(call.nr)
    [] at = 5 -> AtMount(acc)
    [] at = 7 -> AtPtrace(acc)
    [] at = 9 -> "ALLOW"
    [] OTHER -> "EPERM"

\* One instruction, and the program.
Instruction(run, call, at, acc) ==
  LET i == SeccompFilter[at]
  IN  CASE i.op = "ret" -> i.k
        [] i.op = "load" -> run[at + 1][call[i.k]]
        [] OTHER -> run[at + 1 + (IF acc = i.k THEN i.jt ELSE i.jf)][acc]

Interprets(run, call) ==
  run = [at \in 1..Len(SeccompFilter) |-> [acc \in Words |-> Instruction(run, call, at, acc)]]

LEMMA FilterRuns ==
  ASSUME NEW call
  PROVE  FilterReturns(call) = (CHOOSE run : Interprets(run, call))[1]["none"]
  BY DEF FilterReturns, Interprets, Instruction, Words

(* What each instruction does.                                              *)
LEMMA Instructions ==
  ASSUME NEW run, NEW call, NEW acc
  PROVE  /\ Instruction(run, call, 1, acc) = run[2][call.arch]
         /\ Instruction(run, call, 2, acc) = IF acc = "x86_64" THEN run[4][acc] ELSE run[3][acc]
         /\ Instruction(run, call, 3, acc) = "EPERM"
         /\ Instruction(run, call, 4, acc) = run[5][call.nr]
         /\ Instruction(run, call, 5, acc) = IF acc = "mount" THEN run[6][acc] ELSE run[7][acc]
         /\ Instruction(run, call, 6, acc) = "EPERM"
         /\ Instruction(run, call, 7, acc) = IF acc = "ptrace" THEN run[8][acc] ELSE run[9][acc]
         /\ Instruction(run, call, 8, acc) = "EPERM"
         /\ Instruction(run, call, 9, acc) = "ALLOW"
<1> USE FilterIs DEF Instruction, Load, JumpEq, Ret
<1>1. Instruction(run, call, 1, acc) = run[2][call.arch] OBVIOUS
<1>2. Instruction(run, call, 2, acc) = IF acc = "x86_64" THEN run[4][acc] ELSE run[3][acc] OBVIOUS
<1>3. Instruction(run, call, 3, acc) = "EPERM" OBVIOUS
<1>4. Instruction(run, call, 4, acc) = run[5][call.nr] OBVIOUS
<1>5. Instruction(run, call, 5, acc) = IF acc = "mount" THEN run[6][acc] ELSE run[7][acc] OBVIOUS
<1>6. Instruction(run, call, 6, acc) = "EPERM" OBVIOUS
<1>7. Instruction(run, call, 7, acc) = IF acc = "ptrace" THEN run[8][acc] ELSE run[9][acc] OBVIOUS
<1>8. Instruction(run, call, 8, acc) = "EPERM" OBVIOUS
<1>9. Instruction(run, call, 9, acc) = "ALLOW" OBVIOUS
<1> QED BY <1>1, <1>2, <1>3, <1>4, <1>5, <1>6, <1>7, <1>8, <1>9, Zenon

LEMMA CallWords ==
  ASSUME NEW call \in Syscalls
  PROVE  call.arch \in Words /\ call.nr \in Words
  BY DEF Syscalls, Words

LEMMA FilterDefined ==
  ASSUME NEW call \in Syscalls
  PROVE  \E run : Interprets(run, call)
<1> DEFINE run == [at \in 1..9 |-> [acc \in Words |-> Verdict(call, at, acc)]]
<1>1. ASSUME NEW at \in 1..9, NEW acc \in Words
      PROVE  Verdict(call, at, acc) = Instruction(run, call, at, acc)
  <2>1. \A a \in 1..9, w \in Words : run[a][w] = Verdict(call, a, w) OBVIOUS
  <2> HIDE DEF run
  <2> QED BY <2>1, Instructions, CallWords DEF Verdict, AtArch, AtMount, AtPtrace
<1>2. Interprets(run, call) BY <1>1, FilterIs DEF Interprets
<1> QED BY <1>2

(* The filter lets exactly the calls pass that are of the architecture and  *)
(* not on the list.                                                         *)
LEMMA SyscallsAreFiltered ==
  ASSUME NEW call \in Syscalls
  PROVE  FilterReturns(call) = "ALLOW" <=>
           call.arch = "x86_64" /\ \A i \in 1..Len(DeniedSyscalls) : DeniedSyscalls[i] # call.nr
<1> DEFINE run == CHOOSE r : Interprets(r, call)
<1>1. Interprets(run, call) BY FilterDefined, Zenon
<1>2. FilterReturns(call) = run[1]["none"] BY FilterRuns
<1> HIDE DEF run
<1>3. ASSUME NEW at \in 1..9, NEW acc \in Words PROVE run[at][acc] = Instruction(run, call, at, acc)
  BY <1>1, FilterIs DEF Interprets
<1>4. "none" \in Words /\ call.arch \in Words /\ call.nr \in Words BY CallWords DEF Words
<1>5. run[1]["none"] = run[2][call.arch] BY <1>3, <1>4, Instructions
<1>6. run[2][call.arch] = IF call.arch = "x86_64" THEN run[4][call.arch] ELSE run[3][call.arch]
  BY <1>3, <1>4, Instructions
<1>7. run[3][call.arch] = "EPERM" BY <1>3, <1>4, Instructions
<1>8. run[4][call.arch] = run[5][call.nr] BY <1>3, <1>4, Instructions
<1>9. run[5][call.nr] = IF call.nr = "mount" THEN run[6][call.nr] ELSE run[7][call.nr]
  BY <1>3, <1>4, Instructions
<1>10. run[7][call.nr] = IF call.nr = "ptrace" THEN run[8][call.nr] ELSE run[9][call.nr]
  BY <1>3, <1>4, Instructions
<1>11. run[6][call.nr] = "EPERM" /\ run[8][call.nr] = "EPERM" /\ run[9][call.nr] = "ALLOW"
  BY <1>3, <1>4, Instructions
<1>12. (\A i \in 1..Len(DeniedSyscalls) : DeniedSyscalls[i] # call.nr) <=> call.nr \notin {"mount", "ptrace"}
  BY DEF DeniedSyscalls
<1> QED BY <1>2, <1>5, <1>6, <1>7, <1>8, <1>9, <1>10, <1>11, <1>12
-----------------------------------------------------------------------------
(* Of the operations that the guards of the worker see for what they are    *)
(* (applyFilesystemSandbox, patchFetch and the socket patches,              *)
(* apply_seccomp_filter), what they let through is what the configuration   *)
(* names: no path that goes over dots and no flags of open write outside of *)
(* the temporary directory, no spelling of a host passes for another, and   *)
(* no architecture gets around the list of system calls.  Of functions that *)
(* are not wrapped, and of options and redirects that lead elsewhere than   *)
(* where the guard looked, it says nothing: those are not Guarded.          *)
THEOREM SandboxIsGuarded ==
  ASSUME NEW s, AnyConfig(s), NEW op \in SandboxOps, Guarded(op), SandboxAllows(s, op)
  PROVE  SandboxLawful(s, op)
<1>1. CASE op \in FileOps
  <2>1. op.kind = "file" BY <1>1 DEF FileOps, FileOp
  <2>2. s.level >= 2 => FileAllowed(s, op) BY <2>1 DEF SandboxAllows
  <2>3. op.name # "unwrapped" /\ (op.name = "read" => Changes(op) = {}) BY <2>1 DEF Guarded
  <2> QED BY <1>1, <2>1, <2>2, <2>3, FilesAreGuarded DEF SandboxLawful
<1>2. CASE op \in Requests
  <2>1. op.kind = "request" BY <1>2 DEF Requests
  <2>2. NetworkAllowed(s, op) BY <2>1 DEF SandboxAllows
  <2>3. op.form # "unwrapped" /\ op.reaches = op.host.name BY <2>1 DEF Guarded
  <2> QED BY <1>2, <2>1, <2>2, <2>3, RequestsAreGuarded DEF SandboxLawful
<1>3. CASE op \in Syscalls
  <2>1. op.kind = "syscall" BY <1>3 DEF Syscalls
  <2>2. SyscallAllowed(s, op) BY <2>1 DEF SandboxAllows
  <2> QED BY <1>3, <2>1, <2>2, SyscallsAreFiltered DEF SandboxLawful, SyscallAllowed, SyscallLawful
<1> QED BY <1>1, <1>2, <1>3 DEF SandboxOps

-----------------------------------------------------------------------------
(* What FlattenSeq returns holds every element of every part.               *)

Holds(s, e) == \E j \in 1..Len(s) : s[j] = e

LEMMA ConcatHolds ==
  ASSUME NEW S, NEW s \in Seq(S), NEW t \in Seq(S), NEW e
  PROVE  Holds(s, e) \/ Holds(t, e) => Holds(s \o t, e)
<1>1. /\ Len(s \o t) = Len(s) + Len(t)
      /\ \A i \in 1..Len(s) : (s \o t)[i] = s[i]
      /\ \A i \in (Len(s) + 1)..(Len(s) + Len(t)) : (s \o t)[i] = t[i - Len(s)]
  BY ConcatAt, Zenon
<1>2. Len(s) \in Nat /\ Len(t) \in Nat OBVIOUS
<1>3. ASSUME NEW j \in 1..Len(s), s[j] = e PROVE Holds(s \o t, e)
  BY <1>1, <1>2, <1>3 DEF Holds
<1>4. ASSUME NEW j \in 1..Len(t), t[j] = e PROVE Holds(s \o t, e)
  <2>1. Len(s) + j \in 1..Len(s \o t) /\ (s \o t)[Len(s) + j] = e BY <1>1, <1>2, <1>4
  <2> QED BY <2>1 DEF Holds
<1> QED BY <1>3, <1>4 DEF Holds

LEMMA FlattenHolds ==
  ASSUME NEW M, NEW ss, Len(ss) \in Nat \ {0}, \A i \in 1..Len(ss) : ss[i] \in Seq(M)
  PROVE  /\ FlattenSeq(ss) \in Seq(M)
         /\ \A i \in 1..Len(ss) : \A e \in M : Holds(ss[i], e) => Holds(FlattenSeq(ss), e)
<1>1. PICK flat : FlattenTo(flat, ss, Len(ss)) /\ FlattenSeq(ss) = flat[Len(ss)]
  BY FlattenFlattens
<1> DEFINE S == {0} \cup {n \in 1..Len(ss) : flat[n] \in Seq(M) /\ \A i \in 1..n : \A e \in M : Holds(ss[i], e) => Holds(flat[n], e)}
<1>2. ASSUME NEW n \in 1..Len(ss), n - 1 \in S PROVE n \in S
  <2>1. CASE n = 1
    <3>1. flat[1] = ss[1] BY <1>1, <2>1 DEF FlattenTo
    <3> QED BY <2>1, <3>1
  <2>2. CASE n # 1
    <3>1. flat[n] = flat[n - 1] \o ss[n] BY <1>1, <2>2 DEF FlattenTo, Join
    <3>2. flat[n - 1] \in Seq(M) /\ \A i \in 1..(n - 1) : \A e \in M : Holds(ss[i], e) => Holds(flat[n - 1], e)
      BY <1>2, <2>2
    <3>3. ss[n] \in Seq(M) OBVIOUS
    <3>4. flat[n] \in Seq(M) BY <3>1, <3>2, <3>3
    <3>5. ASSUME NEW i \in 1..n, NEW e \in M, Holds(ss[i], e) PROVE Holds(flat[n], e)
      <4>1. CASE i = n
        <5>1. Holds(ss[n], e) BY <3>5, <4>1
        <5> QED BY <3>1, <3>2, <3>3, <5>1, ConcatHolds
      <4>2. CASE i # n
        <5>1. i \in 1..(n - 1) BY <4>2
        <5>2. Holds(flat[n - 1], e) BY <3>2, <3>5, <5>1
        <5> QED BY <3>1, <3>2, <3>3, <5>2, ConcatHolds
      <4> QED BY <4>1, <4>2
    <3> QED BY <3>4, <3>5
  <2> QED BY <2>1, <2>2
<1>3. Len(ss) \in S
  <2>1. PICK N \in Nat : N = Len(ss) OBVIOUS
  <2>2. 0 \in S /\ \A n \in 1..N : n - 1 \in S => n \in S BY <1>2, <2>1
  <2> HIDE DEF S
  <2>3. \A n \in 0..N : n \in S BY <2>2, UpTo, Zenon
  <2> QED BY <2>1, <2>3
<1> QED BY <1>1, <1>3

LEMMA RecordedType ==
  ASSUME NEW i \in 0..MaxTurns, NEW step \in Steps
  PROVE  /\ Recorded(i, step) \in Seq(Messages)
         /\ (step.tool # "none" /\ step.result # "unavailable") =>
              Holds(Recorded(i, step), <<FormatToolResultForModel(step.result), i>>)
<1> DEFINE told == <<FormatToolResultForModel(step.result), i>>
           calls == <<<<"calls", i>>>>
           answer == IF step.result = "unavailable" THEN <<>> ELSE <<told>>
           left == IF step.tool = "none" THEN <<>> ELSE calls \o answer
           right == IF step.text THEN <<<<"text", i>>>> ELSE <<>>
<1>1. told \in Messages BY DEF Messages, FormatToolResultForModel
<1>2. <<"calls", i>> \in Messages /\ <<"text", i>> \in Messages BY DEF Messages
<1> HIDE DEF told
<1>3. calls \in Seq(Messages) BY <1>2
<1>4. answer \in Seq(Messages) BY <1>1
<1>5. left \in Seq(Messages) BY <1>3, <1>4
<1>6. right \in Seq(Messages) BY <1>2
<1>7. Recorded(i, step) = left \o right BY DEF Recorded, told
<1>8. ASSUME step.tool # "none", step.result # "unavailable" PROVE Holds(left \o right, told)
  <2>1. left = calls \o answer /\ answer = <<told>> BY <1>8
  <2>2. Holds(answer, told) BY <2>1 DEF Holds
  <2>3. Holds(left, told)
    <3> HIDE DEF calls, answer, left
    <3> QED BY <1>3, <1>4, <2>1, <2>2, ConcatHolds
  <2> HIDE DEF calls, answer, left, right
  <2> QED BY <1>5, <1>6, <2>3, ConcatHolds
<1> HIDE DEF left, right
<1>9. Recorded(i, step) \in Seq(Messages) BY <1>5, <1>6, <1>7
<1> QED BY <1>7, <1>8, <1>9 DEF told

LEMMA ScriptTells ==
  ASSUME NEW all \in Seq(Steps), Len(all) <= MaxTurns
  PROVE  /\ Script(all) \in Seq(Messages)
         /\ \A i \in 1..Len(all) : (all[i].tool # "none" /\ all[i].result # "unavailable") =>
              Holds(Script(all), <<FormatToolResultForModel(all[i].result), i>>)
<1> DEFINE ss == [i \in 1..Len(all) |-> Recorded(i, all[i])]
<1>0. Len(all) \in Nat /\ MaxTurns \in Nat /\ Len(ss) = Len(all) BY RunAssumption
<1>1. CASE Len(all) = 0
  <2>1. Script(all) = FlattenSeq(ss) BY DEF Script
  <2>2. ss = <<>> BY <1>0, <1>1
  <2> HIDE DEF ss
  <2>3. FlattenSeq(ss) = ss BY <1>0, <1>1 DEF FlattenSeq
  <2>4. Script(all) = <<>> BY <2>1, <2>2, <2>3, Zenon
  <2>5. Script(all) \in Seq(Messages) BY <2>4
  <2>6. 1..Len(all) = {} BY <1>1
  <2> QED BY <2>5, <2>6, Zenon
<1>2. CASE Len(all) # 0
  <2>1. ASSUME NEW i \in 1..Len(all)
        PROVE  /\ ss[i] \in Seq(Messages)
               /\ (all[i].tool # "none" /\ all[i].result # "unavailable") =>
                    Holds(ss[i], <<FormatToolResultForModel(all[i].result), i>>)
               /\ <<FormatToolResultForModel(all[i].result), i>> \in Messages
    <3>1. all[i] \in Steps /\ i \in 0..MaxTurns BY <1>0
    <3>2. <<FormatToolResultForModel(all[i].result), i>> \in Messages
      BY <3>1 DEF FormatToolResultForModel, Messages
    <3> QED BY <3>1, <3>2, RecordedType
  <2>2. Script(all) = FlattenSeq(ss) BY DEF Script
  <2> HIDE DEF ss
  <2>3. Len(ss) \in Nat \ {0} /\ \A i \in 1..Len(ss) : ss[i] \in Seq(Messages) BY <1>0, <1>2, <2>1
  <2>4. /\ FlattenSeq(ss) \in Seq(Messages)
        /\ \A i \in 1..Len(ss) : \A e \in Messages : Holds(ss[i], e) => Holds(FlattenSeq(ss), e)
    BY <2>3, FlattenHolds
  <2> QED BY <1>0, <2>1, <2>2, <2>4
<1> QED BY <1>1, <1>2
-----------------------------------------------------------------------------
(* The inductive invariant.  CompletedIsWhole speaks of the end of a run,   *)
(* and its ground is laid on the way: what is stored and what is still to   *)
(* be stored, which handlers are still at work, and what the steps say of   *)
(* those that are not.                                                      *)

Said == <<<<"system", 0>>, <<"user", 0>>>>

\* Where the execution is decides what the row can say, and the other way.
PlaceGivesStatus ==
  /\ (status = "none") = (pc = "new")
  /\ pc = "begin" => status = "pending"
  /\ pc \in {"system", "user", "resolve", "llm", "tool", "append"} => status = "running"
  /\ pc = "failing" => status \in {"pending", "running"}
  /\ (status \in {"completed", "failed"}) = (pc = "end")

\* What is stored, and what is to be, make up the prologue and the script.
StoredSoFar ==
  /\ status \in {"none", "pending"} \/ pc = "system" => messages = <<>>
  /\ pc = "user" => messages = <<<<"system", 0>>>>
  /\ pc \in {"resolve", "llm", "tool"} => messages = Said
  /\ pc = "append" => messages \o todo = Said \o Script(steps)
  /\ status = "completed" => messages = Said \o Script(steps)

\* A turn is taken only while the agent has one left.
WithinTurns ==
  /\ Len(steps) <= agent.turns
  /\ pc \in {"new", "begin", "system", "user", "resolve"} => steps = <<>>
  /\ pc \in {"llm", "tool"} => Len(steps) < agent.turns
  /\ pc = "append" \/ status = "completed" => steps # <<>>

\* The run waits for one handler at most, that of the turn it is in; the others
\* are late and their calls have timed out.  Nothing has come of any of them.
HandlersAtWork ==
  /\ \A h \in handlers :
       /\ IF h.late THEN h.tool # "sandboxed" /\ h.turn <= Len(steps) /\ steps[h.turn].result = "timeout" /\ steps[h.turn].tool # "none"
          ELSE pc = "tool" /\ h.turn = Len(steps) + 1
       /\ h.turn \notin approvals /\ \A w \in acted : w.turn # h.turn
       /\ IsToolAllowed(h.tool)
       /\ \A o \in h.may : o.acted => h.lawful /\ o.result # "approval" /\ h.tool # "agent_tasks"
  /\ \A h, g \in handlers : h.turn = g.turn => h = g

\* What was done in a turn is what its step says, or its call had timed out.
StepsTell ==
  /\ \A w \in acted :
       /\ w.lawful /\ w.turn \notin approvals
       /\ w.turn <= Len(steps) /\ steps[w.turn].tool # "none"
       /\ steps[w.turn].result \in {"ok", "error", "timeout"}
  /\ \A t \in approvals :
       /\ t <= Len(steps) /\ steps[t].tool # "none"
       /\ steps[t].result \in {"approval", "timeout"}
  /\ agent.mode = "coordinator" => acted = {}

IndInv == TypeOK /\ PlaceGivesStatus /\ StoredSoFar /\ WithinTurns /\ HandlersAtWork /\ StepsTell

LEMMA Parameters ==
  ASSUME TypeOK
  PROVE  /\ MaxTurns \in Nat \ {0} /\ MaxFaults \in Nat
         /\ agent.turns \in 1..MaxTurns /\ agent.mode \in {"standard", "coordinator"}
         /\ Len(steps) \in Nat
         /\ Said \in Seq(Messages) /\ <<"system", 0>> \in Messages /\ <<"user", 0>> \in Messages
<1>1. MaxTurns \in Nat \ {0} /\ MaxFaults \in Nat BY RunAssumption
<1>2. agent.turns \in 1..MaxTurns /\ agent.mode \in {"standard", "coordinator"} BY DEF TypeOK, Agents
<1>3. <<"system", 0>> \in Messages /\ <<"user", 0>> \in Messages BY <1>1 DEF Messages
<1>4. Said \in Seq(Messages) BY <1>3 DEF Said
<1> QED BY <1>1, <1>2, <1>3, <1>4 DEF TypeOK

LEMMA AppendAt ==
  ASSUME NEW S, NEW s \in Seq(S), NEW e \in S
  PROVE  /\ Append(s, e) \in Seq(S) /\ Len(Append(s, e)) = Len(s) + 1
         /\ \A i \in 1..Len(s) : Append(s, e)[i] = s[i]
         /\ Append(s, e)[Len(s) + 1] = e
  BY AppendProperties

LEMMA AppendToOne == \A a, b : Append(<<a>>, b) = <<a, b>>
<1> SUFFICES ASSUME NEW a, NEW b PROVE Append(<<a>>, b) = <<a, b>> OBVIOUS
<1> DEFINE S == {a, b}
           s == <<a>>
           t == <<a, b>>
<1>1. s \in Seq(S) /\ Len(s) = 1 /\ s[1] = a /\ b \in S OBVIOUS
<1>2. t \in Seq(S) /\ Len(t) = 2 /\ t[1] = a /\ t[2] = b OBVIOUS
<1> HIDE DEF S, s, t
<1> DEFINE u == Append(s, b)
<1>3. u \in Seq(S) /\ Len(u) = 2 /\ u[1] = a /\ u[2] = b
  <2>1. /\ u \in Seq(S) /\ Len(u) = Len(s) + 1
        /\ \A i \in 1..Len(s) : u[i] = s[i]
        /\ u[Len(s) + 1] = b
    BY <1>1, AppendAt, Zenon
  <2> HIDE DEF u
  <2> QED BY <1>1, <2>1
<1> HIDE DEF u
<1>4. u = t BY <1>2, <1>3, SeqEqual
<1> QED BY <1>4 DEF s, t, u

LEMMA PermissionsType == \A p \in LoadedPermissions : p.roots \subseteq AnyPath
<1> SUFFICES ASSUME NEW file \in PermissionFiles
             PROVE  LoadGlobalPermissions(file).roots \subseteq AnyPath
  BY DEF LoadedPermissions
<1>1. [absolute |-> TRUE, segs |-> <<Cwd>>] \in AnyPath BY PathsAssumption DEF AnyPath
<1>2. file.permissions.roots \subseteq AnyPath
  <2>1. CASE file.permissions = [DefaultPermissions EXCEPT !.roots = {[absolute |-> TRUE, segs |-> <<Cwd>>]}, !.promptFs = FALSE]
    <3>1. file.permissions.roots = {[absolute |-> TRUE, segs |-> <<Cwd>>]} BY <2>1 DEF DefaultPermissions
    <3> QED BY <1>1, <3>1
  <2>2. CASE file.permissions = [DefaultPermissions EXCEPT !.all = TRUE] BY <2>2 DEF DefaultPermissions
  <2>3. CASE file.permissions = [DefaultPermissions EXCEPT !.shell = FALSE, !.promptFs = FALSE, !.promptShell = FALSE]
    BY <2>3 DEF DefaultPermissions
  <2>4. CASE file.permissions = DefaultPermissions BY <2>4 DEF DefaultPermissions
  <2> QED BY <2>1, <2>2, <2>3, <2>4 DEF PermissionFiles
<1> QED BY <1>2 DEF LoadGlobalPermissions, DefaultPermissions

LEMMA InitHolds == Init => IndInv
<1> SUFFICES ASSUME Init PROVE IndInv OBVIOUS
<1> USE DEF Init
<1>1. TypeOK
  <2>1. MaxFaults \in Nat /\ MaxTurns \in Nat BY RunAssumption
  <2> QED BY <2>1 DEF TypeOK
<1>2. PlaceGivesStatus /\ StoredSoFar BY DEF PlaceGivesStatus, StoredSoFar
<1>3. WithinTurns BY <1>1, Parameters DEF WithinTurns
<1>4. HandlersAtWork /\ StepsTell BY DEF HandlersAtWork, StepsTell
<1> QED BY <1>1, <1>2, <1>3, <1>4 DEF IndInv

(* What a step that leaves the calls alone keeps of them.                   *)
LEMMA WorldStays ==
  ASSUME IndInv, UNCHANGED <<config, steps, world>>, pc' = pc \/ pc # "tool"
  PROVE  HandlersAtWork' /\ StepsTell'
  BY DEF IndInv, HandlersAtWork, StepsTell, IsToolAllowed, config, world

(* The types of what such a step keeps as well.                             *)
LEMMA TypesStay ==
  ASSUME IndInv, UNCHANGED <<config, model, world>>,
         pc' \in {"new", "begin", "system", "user", "resolve", "llm", "tool", "append", "failing",
                  "end", "stranded", "dead"},
         status' \in {"none", "pending", "running", "completed", "failed"},
         todo' \in Seq(Messages), messages' \in Seq(Messages),
         timer' \in {"off", "set", "fired"}, faults' \in 0..MaxFaults
  PROVE  TypeOK'
  BY DEF IndInv, TypeOK, config, model, world
-----------------------------------------------------------------------------
(* The actions that leave the steps and the calls alone.                    *)

LEMMA SubmitTaskKeeps == IndInv /\ SubmitTask => IndInv'
<1> SUFFICES ASSUME IndInv, SubmitTask PROVE IndInv' OBVIOUS
<1> USE DEF SubmitTask, IndInv
<1>1. HandlersAtWork' /\ StepsTell' BY WorldStays DEF model
<1>2. TypeOK' BY TypesStay DEF TypeOK
<1>3. PlaceGivesStatus' BY DEF PlaceGivesStatus
<1>4. StoredSoFar' /\ WithinTurns' BY DEF PlaceGivesStatus, StoredSoFar, WithinTurns, model, config
<1> QED BY <1>1, <1>2, <1>3, <1>4

LEMMA BeginKeeps == IndInv /\ Begin => IndInv'
<1> SUFFICES ASSUME IndInv, Begin PROVE IndInv' OBVIOUS
<1> USE Parameters DEF Begin, Storage, IndInv
<1>1. HandlersAtWork' /\ StepsTell' BY WorldStays DEF model
<1>2. TypeOK' BY TypesStay DEF TypeOK
<1>3. PlaceGivesStatus' BY DEF PlaceGivesStatus
<1>4. StoredSoFar' /\ WithinTurns' BY DEF PlaceGivesStatus, StoredSoFar, WithinTurns, model, config
<1> QED BY <1>1, <1>2, <1>3, <1>4

LEMMA PrologueKeeps ==
  IndInv /\ (Prologue("system", "user") \/ Prologue("user", "resolve")) => IndInv'
<1> SUFFICES ASSUME IndInv, NEW role, NEW next, <<role, next>> \in {<<"system", "user">>, <<"user", "resolve">>},
                    Prologue(role, next)
             PROVE  IndInv'
  OBVIOUS
<1> USE Parameters DEF Prologue, Storage, IndInv
<1>0. role \in {"system", "user"} /\ next = (IF role = "system" THEN "user" ELSE "resolve") OBVIOUS
<1>1. HandlersAtWork' /\ StepsTell' BY <1>0, WorldStays DEF model
<1>2. messages \in Seq(Messages) /\ <<role, 0>> \in Messages BY <1>0 DEF TypeOK
<1>3. TypeOK'
  <2>1. Append(messages, <<role, 0>>) \in Seq(Messages) BY <1>2, AppendProperties, Zenon
  <2>2. messages' \in Seq(Messages) BY <1>2, <2>1
  <2> QED BY <1>0, <2>2, TypesStay DEF TypeOK
<1>4. PlaceGivesStatus' BY <1>0 DEF PlaceGivesStatus
<1>5. StoredSoFar'
  <2>1. CASE pc' = "failing" BY <1>0, <2>1 DEF StoredSoFar, PlaceGivesStatus
  <2>2. CASE pc' # "failing"
    <3>1. status = "running" /\ status' = "running" BY <1>0 DEF PlaceGivesStatus
    <3>2. messages' = Append(messages, <<role, 0>>) /\ pc' = next BY <2>2
    <3>3. role = "system" => messages' = <<<<"system", 0>>>> BY <3>2 DEF StoredSoFar
    <3>4. ASSUME role = "user" PROVE messages' = Said
      <4>1. messages = <<<<"system", 0>>>> BY <3>4 DEF StoredSoFar
      <4>2. messages' = Append(<<<<"system", 0>>>>, <<"user", 0>>) BY <3>2, <3>4, <4>1, Zenon
      <4> QED BY <4>2, AppendToOne, Zenon DEF Said
    <3> QED BY <1>0, <3>1, <3>2, <3>3, <3>4 DEF StoredSoFar
  <2> QED BY <2>1, <2>2
<1>6. WithinTurns' BY <1>0 DEF WithinTurns, PlaceGivesStatus, model, config
<1> QED BY <1>1, <1>3, <1>4, <1>5, <1>6

LEMMA MarkRunFailedKeeps == IndInv /\ MarkRunFailed => IndInv'
<1> SUFFICES ASSUME IndInv, MarkRunFailed PROVE IndInv' OBVIOUS
<1> USE Parameters DEF MarkRunFailed, Storage, IndInv
<1>1. HandlersAtWork' /\ StepsTell' BY WorldStays DEF model
<1>2. TypeOK' BY TypesStay DEF TypeOK
<1>3. PlaceGivesStatus' BY DEF PlaceGivesStatus
<1>4. StoredSoFar' /\ WithinTurns' BY DEF PlaceGivesStatus, StoredSoFar, WithinTurns, model, config
<1> QED BY <1>1, <1>2, <1>3, <1>4

LEMMA ResolveModelKeeps == IndInv /\ ResolveModel => IndInv'
<1> SUFFICES ASSUME IndInv, ResolveModel PROVE IndInv' OBVIOUS
<1> USE Parameters DEF ResolveModel, IndInv
<1>1. HandlersAtWork' /\ StepsTell' BY WorldStays DEF model
<1>2. TypeOK' BY TypesStay DEF TypeOK
<1>3. PlaceGivesStatus' BY DEF PlaceGivesStatus
<1>4. StoredSoFar' BY DEF PlaceGivesStatus, StoredSoFar, model
<1>5. WithinTurns' BY DEF PlaceGivesStatus, WithinTurns, model, config
<1> QED BY <1>1, <1>2, <1>3, <1>4, <1>5

LEMMA ModelGivesUpKeeps == IndInv /\ (LlmFails \/ AbortedCall \/ Abort) => IndInv'
<1> SUFFICES ASSUME IndInv, LlmFails \/ AbortedCall \/ Abort PROVE IndInv' OBVIOUS
<1> USE Parameters DEF LlmFails, AbortedCall, Abort, IndInv
<1>1. HandlersAtWork' /\ StepsTell' BY WorldStays DEF model
<1>2. TypeOK' BY TypesStay DEF TypeOK
<1>3. PlaceGivesStatus' BY DEF PlaceGivesStatus
<1>4. StoredSoFar' BY DEF PlaceGivesStatus, StoredSoFar, model
<1>5. WithinTurns' BY DEF PlaceGivesStatus, WithinTurns, model, config
<1> QED BY <1>1, <1>2, <1>3, <1>4, <1>5

LEMMA AppendMessageKeeps == IndInv /\ AppendMessage => IndInv'
<1> SUFFICES ASSUME IndInv, AppendMessage PROVE IndInv' OBVIOUS
<1> USE Parameters DEF AppendMessage, Storage, IndInv
<1>1. HandlersAtWork' /\ StepsTell' BY WorldStays DEF model
<1>2. messages \in Seq(Messages) /\ todo \in Seq(Messages) /\ todo # <<>> BY DEF TypeOK
<1>3. /\ Append(messages, Head(todo)) \in Seq(Messages) /\ Tail(todo) \in Seq(Messages)
      /\ Append(messages, Head(todo)) \o Tail(todo) = messages \o todo
  BY <1>2
<1>4. TypeOK'
  <2>1. messages' \in Seq(Messages) /\ todo' \in Seq(Messages) BY <1>2, <1>3
  <2>2. faults' \in 0..MaxFaults BY DEF TypeOK
  <2> QED BY <2>1, <2>2, TypesStay DEF TypeOK
<1>5. PlaceGivesStatus' BY DEF PlaceGivesStatus
<1>6. StoredSoFar' BY <1>3 DEF PlaceGivesStatus, StoredSoFar, model
<1>7. WithinTurns' BY DEF PlaceGivesStatus, WithinTurns, model, config
<1> QED BY <1>1, <1>4, <1>5, <1>6, <1>7

LEMMA FinishKeeps == IndInv /\ Finish => IndInv'
<1> SUFFICES ASSUME IndInv, Finish PROVE IndInv' OBVIOUS
<1> USE Parameters DEF Finish, Storage, IndInv
<1>1. HandlersAtWork' /\ StepsTell' BY WorldStays DEF model
<1>2. messages \o todo = messages BY DEF TypeOK
<1>3. TypeOK'
  <2>1. faults' \in 0..MaxFaults /\ timer' \in {"off", "set", "fired"} BY DEF TypeOK
  <2>2. pc' \in {"end", "failing"} /\ status' \in {status, "completed"} BY DEF TypeOK
  <2> QED BY <2>1, <2>2, TypesStay DEF TypeOK
<1>4. PlaceGivesStatus' BY DEF PlaceGivesStatus
<1>5. StoredSoFar' BY <1>2 DEF PlaceGivesStatus, StoredSoFar, model
<1>6. WithinTurns' BY DEF PlaceGivesStatus, WithinTurns, model, config
<1> QED BY <1>1, <1>3, <1>4, <1>5, <1>6

LEMMA CrashKeeps == IndInv /\ Crash => IndInv'
<1> SUFFICES ASSUME IndInv, Crash PROVE IndInv' OBVIOUS
<1> USE Parameters DEF Crash, Live, IndInv
<1>1. TypeOK' BY DEF TypeOK, config, model
<1>2. PlaceGivesStatus' BY DEF PlaceGivesStatus
<1>3. StoredSoFar' BY DEF PlaceGivesStatus, StoredSoFar, model
<1>4. WithinTurns' BY DEF PlaceGivesStatus, WithinTurns, model, config
<1>5. HandlersAtWork' BY DEF HandlersAtWork
<1>6. StepsTell' BY DEF StepsTell, config, model
<1> QED BY <1>1, <1>2, <1>3, <1>4, <1>5, <1>6
-----------------------------------------------------------------------------
(* The actions that complete a step of the model.                           *)

LEMMA SteppedKeeps ==
  ASSUME IndInv, pc \in {"llm", "tool"}, NEW step \in Steps, NEW reason \in Reasons \cup {"tool-calls"},
         Stepped(step, reason), UNCHANGED <<agent, status, messages>>
  PROVE  /\ steps' \in Seq(Steps) /\ Len(steps') = Len(steps) + 1 /\ Len(steps') <= MaxTurns
         /\ \A i \in 1..Len(steps) : steps'[i] = steps[i]
         /\ steps'[Len(steps) + 1] = step
         /\ finish' \in Reasons \cup {"none", "tool-calls"} /\ todo' \in Seq(Messages)
         /\ pc' \in {"llm", "append"}
         /\ PlaceGivesStatus' /\ StoredSoFar' /\ WithinTurns'
<1>0. TypeOK /\ PlaceGivesStatus /\ StoredSoFar /\ WithinTurns BY DEF IndInv
<1>1. steps \in Seq(Steps) /\ steps' = Append(steps, step) BY <1>0 DEF TypeOK, Stepped
<1>2. /\ steps' \in Seq(Steps) /\ Len(steps') = Len(steps) + 1
      /\ \A i \in 1..Len(steps) : steps'[i] = steps[i]
      /\ steps'[Len(steps) + 1] = step
  BY <1>1, AppendAt
<1>3. Len(steps) < agent.turns /\ agent.turns <= MaxTurns /\ Len(steps) \in Nat /\ agent.turns \in Nat /\ MaxTurns \in Nat
  BY <1>0, Parameters DEF WithinTurns
<1>4. Len(steps') <= MaxTurns /\ Len(steps') <= agent.turns /\ steps' # <<>>
  BY <1>2, <1>3
<1>5. Script(steps') \in Seq(Messages) BY <1>2, <1>4, ScriptTells
<1>6. status = "running" /\ status' = "running" /\ messages = Said /\ messages' = Said
  BY <1>0 DEF PlaceGivesStatus, StoredSoFar
<1>7. CASE pc' = "append"
  <2>1. todo' = Script(steps') /\ finish' = reason BY <1>7 DEF Stepped
  <2>2. PlaceGivesStatus' BY <1>6, <1>7 DEF PlaceGivesStatus
  <2>3. StoredSoFar' BY <1>6, <1>7, <2>1 DEF StoredSoFar
  <2>4. WithinTurns' BY <1>4, <1>7 DEF WithinTurns
  <2> QED BY <1>2, <1>4, <1>5, <1>7, <2>1, <2>2, <2>3, <2>4
<1>8. CASE pc' # "append"
  <2>1. pc' = "llm" /\ UNCHANGED <<finish, todo>> /\ ~StopWhen(Len(steps')) BY <1>8 DEF Stepped
  <2>2. PlaceGivesStatus' BY <1>6, <2>1 DEF PlaceGivesStatus
  <2>3. StoredSoFar' BY <1>6, <2>1 DEF StoredSoFar
  <2>4. WithinTurns'
    <3>1. Len(steps') < agent.turns BY <1>2, <1>3, <2>1 DEF StopWhen
    <3> QED BY <1>4, <1>6, <2>1, <3>1 DEF WithinTurns
  <2>5. finish' \in Reasons \cup {"none", "tool-calls"} /\ todo' \in Seq(Messages)
    BY <1>0, <2>1 DEF TypeOK
  <2> QED BY <1>2, <1>4, <2>1, <2>2, <2>3, <2>4, <2>5
<1> QED BY <1>7, <1>8

(* The model takes a turn, and no call comes of it.                         *)
LEMMA StepWithoutCall ==
  ASSUME IndInv, pc = "llm", NEW step \in Steps, NEW reason \in Reasons \cup {"tool-calls"},
         Stepped(step, reason), UNCHANGED <<config, status, messages, timer, world, faults>>
  PROVE  IndInv'
<1>0. UNCHANGED <<agent, perm, sandbox, status, messages, timer, handlers, acted, approvals, faults>>
  BY DEF config, world
<1>1. /\ steps' \in Seq(Steps) /\ Len(steps') = Len(steps) + 1 /\ Len(steps') <= MaxTurns
      /\ \A i \in 1..Len(steps) : steps'[i] = steps[i]
      /\ finish' \in Reasons \cup {"none", "tool-calls"} /\ todo' \in Seq(Messages)
      /\ pc' \in {"llm", "append"}
      /\ PlaceGivesStatus' /\ StoredSoFar' /\ WithinTurns'
  BY <1>0, SteppedKeeps
<1>2. TypeOK' BY <1>0, <1>1 DEF IndInv, TypeOK
<1>3. /\ \A h \in handlers : h.turn \in 1..MaxTurns
      /\ \A w \in acted : w.turn \in 1..MaxTurns
      /\ \A t \in approvals : t \in 1..MaxTurns
      /\ Len(steps) \in Nat /\ MaxTurns \in Nat
  BY Parameters DEF IndInv, TypeOK, Handlers
<1>4. HandlersAtWork'
  <2>1. ASSUME NEW h \in handlers
        PROVE  /\ h.late /\ h.tool # "sandboxed" /\ h.turn <= Len(steps')
               /\ steps'[h.turn].result = "timeout" /\ steps'[h.turn].tool # "none"
    BY <1>1, <1>3 DEF IndInv, HandlersAtWork
  <2> QED BY <1>0, <2>1 DEF IndInv, HandlersAtWork, IsToolAllowed
<1>5. StepsTell'
  <2>1. ASSUME NEW w \in acted PROVE w.turn <= Len(steps') /\ steps'[w.turn] = steps[w.turn]
    BY <1>1, <1>3 DEF IndInv, StepsTell
  <2>2. ASSUME NEW t \in approvals PROVE t <= Len(steps') /\ steps'[t] = steps[t]
    BY <1>1, <1>3 DEF IndInv, StepsTell
  <2> QED BY <1>0, <2>1, <2>2 DEF IndInv, StepsTell
<1> QED BY <1>1, <1>2, <1>4, <1>5 DEF IndInv

LEMMA LlmAnswersKeeps ==
  ASSUME NEW reason \in Reasons, NEW text \in BOOLEAN, IndInv, LlmAnswers(reason, text)
  PROVE  IndInv'
<1>1. [tool |-> "none", result |-> "none", text |-> text] \in Steps BY DEF Steps
<1> QED BY <1>1, StepWithoutCall DEF LlmAnswers

(* What is known of the call of a tool when it starts.                      *)
Starts(h) ==
  /\ h \in Handlers /\ h.turn = Turn /\ ~h.late
  /\ \A o \in h.may : o.acted => h.lawful /\ o.result # "approval" /\ h.tool # "agent_tasks"

LEMMA HandlerStarts ==
  ASSUME IndInv, pc = "llm", NEW c \in Calls
  PROVE  Starts(Handler(c))
<1> DEFINE h == Handler(c)
<1>1. Turn \in 1..MaxTurns BY Parameters DEF IndInv, WithinTurns, Turn
<1>2. perm.roots \subseteq AnyPath BY PermissionsType DEF IndInv, TypeOK
<1>3. \A o \in Outcomes(perm, c) :
        o \in Result /\ (o.acted => CallLawful(perm, c) /\ o.result # "approval" /\ c.tool # "agent_tasks")
  BY <1>2, OutcomesAreLawful
<1>4. /\ h.turn = Turn /\ h.tool = c.tool /\ h.may = Outcomes(perm, c) /\ h.lawful = CallLawful(perm, c)
      /\ h.late = FALSE /\ h.held = FALSE
  BY DEF Handler
<1>5. h \in Handlers
  <2>1. c.tool \in ToolNames BY CallShape DEF ToolNames
  <2>2. Outcomes(perm, c) \in SUBSET [result : {"ok", "error", "approval"}, acted : BOOLEAN]
    BY <1>3 DEF Result
  <2>3. CallLawful(perm, c) \in BOOLEAN BY DEF CallLawful
  <2> QED BY <1>1, <2>1, <2>2, <2>3 DEF Handler, Handlers
<1> QED BY <1>3, <1>4, <1>5 DEF Starts

LEMMA SandboxedHandlerStarts ==
  ASSUME IndInv, pc = "llm", NEW op \in SandboxOps, NEW held \in BOOLEAN
  PROVE  Starts(SandboxedHandler(op, held))
<1> DEFINE h == SandboxedHandler(op, held)
           none == {Came("error", FALSE)}
           some == IF SandboxAllows(sandbox, op) THEN {Came("ok", TRUE), Came("error", TRUE)} ELSE {}
           lawful == Guarded(op) => SandboxLawful(sandbox, op)
<1>1. Turn \in 1..MaxTurns BY Parameters DEF IndInv, WithinTurns, Turn
<1>2. SandboxAllows(sandbox, op) => lawful
  BY ConfigsAreAny, SandboxIsGuarded DEF IndInv, TypeOK
<1>3. none \subseteq Result /\ \A o \in none : ~o.acted BY CameShape
<1>4. some \subseteq Result /\ \A o \in some : SandboxAllows(sandbox, op) /\ o.result # "approval" BY CameShape
<1>5. h = [turn |-> Turn, tool |-> "sandboxed", may |-> none \cup some, lawful |-> lawful,
           late |-> FALSE, held |-> held]
  BY DEF SandboxedHandler
<1>8. lawful \in BOOLEAN OBVIOUS
<1> HIDE DEF none, some, lawful
<1>6. \A o \in none \cup some : o.acted => lawful /\ o.result # "approval"
  BY <1>2, <1>3, <1>4
<1>7. h \in Handlers
  <2>1. "sandboxed" \in ToolNames BY DEF ToolNames
  <2>2. none \cup some \in SUBSET [result : {"ok", "error", "approval"}, acted : BOOLEAN]
    BY <1>3, <1>4 DEF Result
  <2> QED BY <1>1, <1>5, <1>8, <2>1, <2>2 DEF Handlers
<1> QED BY <1>5, <1>6, <1>7 DEF Starts
LEMMA LlmCallsKeeps ==
  ASSUME IndInv, NEW h, Starts(h), LlmCalls(h)
  PROVE  IndInv'
<1>0. h \in Handlers /\ h.turn = Len(steps) + 1 /\ ~h.late /\ h.tool \in ToolNames
  BY DEF Starts, Turn, Handlers
<1>1. CASE ~IsToolAllowed(h.tool)
  <2>1. [tool |-> h.tool, result |-> "unavailable", text |-> FALSE] \in Steps BY <1>0 DEF Steps
  <2>2. UNCHANGED <<config, status, messages, timer, world, faults>> BY <1>1 DEF LlmCalls, world
  <2> QED BY <1>1, <2>1, <2>2, StepWithoutCall DEF LlmCalls
<1>2. CASE IsToolAllowed(h.tool)
  <2>0. /\ pc = "llm" /\ pc' = "tool" /\ handlers' = handlers \cup {h}
        /\ UNCHANGED <<agent, perm, sandbox, steps, finish, todo, status, messages, timer, acted, approvals, faults>>
    BY <1>2 DEF LlmCalls, config
  <2>1. TypeOK' BY <1>0, <2>0 DEF IndInv, TypeOK
  <2>2. PlaceGivesStatus' /\ StoredSoFar' /\ WithinTurns'
    BY <2>0 DEF IndInv, PlaceGivesStatus, StoredSoFar, WithinTurns
  <2>3. Len(steps) \in Nat BY Parameters DEF IndInv
  <2>4. \A g \in handlers : g.late /\ g.turn <= Len(steps) BY <2>0 DEF IndInv, HandlersAtWork
  <2>5. \A t \in approvals : t <= Len(steps) BY DEF IndInv, StepsTell
  <2>6. \A w \in acted : w.turn <= Len(steps) BY DEF IndInv, StepsTell
  <2>7. h.turn \notin approvals /\ \A w \in acted : w.turn # h.turn BY <1>0, <2>3, <2>5, <2>6
  <2>8. \A g \in handlers : g.turn # h.turn BY <1>0, <2>3, <2>4
  <2>9. HandlersAtWork'
    <3>1. ASSUME NEW g \in handlers'
          PROVE  /\ IF g.late THEN g.tool # "sandboxed" /\ g.turn <= Len(steps) /\ steps[g.turn].result = "timeout" /\ steps[g.turn].tool # "none"
                    ELSE g.turn = Len(steps) + 1
                 /\ g.turn \notin approvals /\ \A w \in acted : w.turn # g.turn
                 /\ IsToolAllowed(g.tool)
                 /\ \A o \in g.may : o.acted => g.lawful /\ o.result # "approval" /\ g.tool # "agent_tasks"
      BY <1>0, <1>2, <2>0, <2>7 DEF IndInv, HandlersAtWork, Starts
    <3>2. \A f, g \in handlers' : f.turn = g.turn => f = g BY <2>0, <2>8 DEF IndInv, HandlersAtWork
    <3> QED BY <2>0, <3>1, <3>2 DEF HandlersAtWork, IsToolAllowed
  <2>10. StepsTell' BY <2>0 DEF IndInv, StepsTell
  <2> QED BY <2>1, <2>2, <2>9, <2>10 DEF IndInv
<1> QED BY <1>1, <1>2

(* The call of h comes to o, and the step of its turn says so, or that it   *)
(* timed out.                                                               *)
LEMMA CallEnds ==
  ASSUME IndInv, NEW h \in handlers, NEW o, Happened(h, o), UNCHANGED agent,
         o.acted => h.lawful /\ o.result # "approval" /\ h.tool # "agent_tasks",
         Len(steps') \in Nat, Len(steps) <= Len(steps'), \A i \in 1..Len(steps) : steps'[i] = steps[i],
         h.turn <= Len(steps'), steps'[h.turn].tool # "none",
         steps'[h.turn].result \in {o.result, "timeout"} \cap {"ok", "error", "approval", "timeout"},
         \/ ~h.late
         \/ UNCHANGED <<pc, steps>>
  PROVE  /\ handlers' \subseteq Handlers /\ approvals' \subseteq 1..MaxTurns
         /\ acted' \subseteq [turn : 1..MaxTurns, lawful : BOOLEAN]
         /\ HandlersAtWork' /\ StepsTell'
<1>0. TypeOK /\ HandlersAtWork /\ StepsTell BY DEF IndInv
<1>1. /\ handlers' = handlers \ {h}
      /\ acted' = (IF o.acted THEN acted \cup {[turn |-> h.turn, lawful |-> h.lawful]} ELSE acted)
      /\ approvals' = (IF o.result = "approval" THEN approvals \cup {h.turn} ELSE approvals)
  BY DEF Happened
<1>2. h.turn \in 1..MaxTurns /\ h.lawful \in BOOLEAN /\ Len(steps) \in Nat /\ MaxTurns \in Nat
  BY <1>0, Parameters DEF TypeOK, Handlers
<1>3. /\ handlers' \subseteq Handlers /\ approvals' \subseteq 1..MaxTurns
      /\ acted' \subseteq [turn : 1..MaxTurns, lawful : BOOLEAN]
  <2>1. handlers' \subseteq Handlers BY <1>0, <1>1 DEF TypeOK
  <2>2. approvals' \subseteq 1..MaxTurns BY <1>0, <1>1, <1>2 DEF TypeOK
  <2>3. [turn |-> h.turn, lawful |-> h.lawful] \in [turn : 1..MaxTurns, lawful : BOOLEAN] BY <1>2
  <2>4. acted' \subseteq [turn : 1..MaxTurns, lawful : BOOLEAN] BY <1>0, <1>1, <2>3 DEF TypeOK
  <2> QED BY <2>1, <2>2, <2>4
<1>4. \A w \in acted' : w \in acted \/ (o.acted /\ w.turn = h.turn /\ w.lawful = h.lawful)
  BY <1>1
<1>5. \A t \in approvals' : t \in approvals \/ (o.result = "approval" /\ t = h.turn)
  BY <1>1
<1>6. HandlersAtWork'
  <2>1. ASSUME NEW g \in handlers' PROVE g \in handlers /\ g.turn # h.turn
    BY <1>0, <1>1 DEF HandlersAtWork
  <2>2. ASSUME NEW g \in handlers'
        PROVE  g.turn \notin approvals' /\ \A w \in acted' : w.turn # g.turn
    BY <1>0, <1>4, <1>5, <2>1 DEF HandlersAtWork
  <2>3. ASSUME NEW g \in handlers'
        PROVE  IF g.late THEN g.tool # "sandboxed" /\ g.turn <= Len(steps') /\ steps'[g.turn].result = "timeout" /\ steps'[g.turn].tool # "none"
               ELSE pc' = "tool" /\ g.turn = Len(steps') + 1
    <3>1. CASE ~h.late
      <4>1. h.turn = Len(steps) + 1 BY <1>0, <3>1 DEF HandlersAtWork
      <4>2. g.late BY <1>0, <2>1, <4>1 DEF HandlersAtWork
      <4>3. g.turn \in 1..Len(steps) BY <1>0, <1>2, <2>1, <4>2 DEF HandlersAtWork, TypeOK, Handlers
      <4> QED BY <1>0, <1>2, <2>1, <4>2, <4>3 DEF HandlersAtWork
    <3>2. CASE h.late BY <1>0, <2>1, <3>2 DEF HandlersAtWork
    <3> QED BY <3>1, <3>2
  <2> QED BY <1>0, <2>1, <2>2, <2>3 DEF HandlersAtWork, IsToolAllowed
<1>7. StepsTell'
  <2>1. ASSUME NEW w \in acted'
        PROVE  /\ w.lawful /\ w.turn \notin approvals'
               /\ w.turn <= Len(steps') /\ steps'[w.turn].tool # "none"
               /\ steps'[w.turn].result \in {"ok", "error", "timeout"}
    <3>1. CASE w \in acted
      <4>1. w.turn \in 1..Len(steps) BY <1>0, <1>2, <3>1 DEF StepsTell, TypeOK
      <4>2. w.turn # h.turn BY <1>0, <3>1 DEF HandlersAtWork
      <4> QED BY <1>0, <1>2, <1>5, <3>1, <4>1, <4>2 DEF StepsTell
    <3>2. CASE o.acted /\ w.turn = h.turn /\ w.lawful = h.lawful
      <4>1. h.turn \notin approvals BY <1>0 DEF HandlersAtWork
      <4> QED BY <1>5, <3>2, <4>1
    <3> QED BY <1>4, <3>1, <3>2
  <2>2. ASSUME NEW t \in approvals'
        PROVE  /\ t <= Len(steps') /\ steps'[t].tool # "none"
               /\ steps'[t].result \in {"approval", "timeout"}
    <3>1. CASE t \in approvals
      <4>1. t \in 1..Len(steps) BY <1>0, <1>2, <3>1 DEF StepsTell, TypeOK
      <4> QED BY <1>0, <1>2, <3>1, <4>1 DEF StepsTell
    <3>2. CASE o.result = "approval" /\ t = h.turn BY <3>2
    <3> QED BY <1>5, <3>1, <3>2
  <2>3. ASSUME agent.mode = "coordinator" PROVE acted' = {}
    <3>1. h.tool = "agent_tasks" BY <1>0, <2>3 DEF HandlersAtWork, IsToolAllowed
    <3> QED BY <1>0, <1>1, <2>3, <3>1 DEF StepsTell
  <2> QED BY <2>1, <2>2, <2>3 DEF StepsTell
<1> QED BY <1>3, <1>6, <1>7

(* A call that the registry waits for comes to something, and completes the *)
(* step of its turn.                                                        *)
LEMMA CallCompletesStep ==
  ASSUME IndInv, NEW h \in handlers, ~h.late, NEW o, Happened(h, o),
         o.acted => h.lawful /\ o.result # "approval" /\ h.tool # "agent_tasks",
         o.result \in {"ok", "error", "approval", "timeout"},
         Stepped([tool |-> h.tool, result |-> o.result, text |-> FALSE], "tool-calls"),
         UNCHANGED <<config, status, messages, timer, faults>>
  PROVE  IndInv'
<1> DEFINE step == [tool |-> h.tool, result |-> o.result, text |-> FALSE]
<1>0. pc = "tool" /\ h.turn = Len(steps) + 1 BY DEF IndInv, HandlersAtWork
<1>1. h.tool \in ToolNames /\ h.tool # "none" BY DEF IndInv, TypeOK, Handlers, ToolNames
<1>2. step \in Steps BY <1>1 DEF Steps
<1>3. UNCHANGED <<agent, perm, sandbox, status, messages, timer, faults>> BY DEF config
<1>4. /\ steps' \in Seq(Steps) /\ Len(steps') = Len(steps) + 1 /\ Len(steps') <= MaxTurns
      /\ \A i \in 1..Len(steps) : steps'[i] = steps[i]
      /\ steps'[Len(steps) + 1] = step
      /\ finish' \in Reasons \cup {"none", "tool-calls"} /\ todo' \in Seq(Messages)
      /\ pc' \in {"llm", "append"}
      /\ PlaceGivesStatus' /\ StoredSoFar' /\ WithinTurns'
  BY <1>0, <1>2, <1>3, SteppedKeeps
<1>5. Len(steps) \in Nat /\ Len(steps') \in Nat BY <1>4, Parameters DEF IndInv
<1>6. /\ handlers' \subseteq Handlers /\ approvals' \subseteq 1..MaxTurns
      /\ acted' \subseteq [turn : 1..MaxTurns, lawful : BOOLEAN]
      /\ HandlersAtWork' /\ StepsTell'
  <2>1. steps'[h.turn] = step /\ h.turn <= Len(steps') /\ Len(steps) <= Len(steps') BY <1>0, <1>4, <1>5
  <2>2. steps'[h.turn].tool # "none" /\ steps'[h.turn].result = o.result BY <1>1, <2>1
  <2> HIDE DEF step
  <2> QED BY <1>3, <1>4, <1>5, <2>1, <2>2, CallEnds
<1>7. TypeOK' BY <1>3, <1>4, <1>6 DEF IndInv, TypeOK
<1> QED BY <1>4, <1>6, <1>7 DEF IndInv

LEMMA HandlerEndsKeeps ==
  ASSUME IndInv, NEW h \in handlers, HandlerEnds(h)
  PROVE  IndInv'
<1>0. UNCHANGED <<config, status, messages, timer, faults>> BY DEF HandlerEnds
<1>1. PICK o \in h.may :
        /\ Happened(h, o)
        /\ IF h.late THEN UNCHANGED <<steps, finish, todo, pc>>
           ELSE Stepped([tool |-> h.tool, result |-> o.result, text |-> FALSE], "tool-calls")
  BY DEF HandlerEnds
<1>2. o.acted => h.lawful /\ o.result # "approval" /\ h.tool # "agent_tasks" BY DEF IndInv, HandlersAtWork
<1>3. o.result \in {"ok", "error", "approval"} BY DEF IndInv, TypeOK, Handlers
<1>4. CASE ~h.late BY <1>0, <1>1, <1>2, <1>3, <1>4, CallCompletesStep
<1>5. CASE h.late
  <2>1. UNCHANGED <<agent, perm, sandbox, status, messages, timer, faults, steps, finish, todo, pc>>
    BY <1>0, <1>1, <1>5 DEF config
  <2>2. h.turn <= Len(steps) /\ steps[h.turn].result = "timeout" /\ steps[h.turn].tool # "none"
    BY <1>5 DEF IndInv, HandlersAtWork
  <2>3. Len(steps) \in Nat BY Parameters DEF IndInv
  <2>4. /\ handlers' \subseteq Handlers /\ approvals' \subseteq 1..MaxTurns
        /\ acted' \subseteq [turn : 1..MaxTurns, lawful : BOOLEAN]
        /\ HandlersAtWork' /\ StepsTell'
    BY <1>1, <1>2, <2>1, <2>2, <2>3, CallEnds
  <2>5. TypeOK' BY <2>1, <2>4 DEF IndInv, TypeOK
  <2>6. PlaceGivesStatus' /\ StoredSoFar' /\ WithinTurns'
    BY <2>1 DEF IndInv, PlaceGivesStatus, StoredSoFar, WithinTurns
  <2> QED BY <2>4, <2>5, <2>6 DEF IndInv
<1> QED BY <1>4, <1>5

LEMMA SandboxTimeoutKeeps ==
  ASSUME IndInv, NEW h \in handlers, SandboxTimeout(h)
  PROVE  IndInv'
<1>1. PICK o \in h.may : Happened(h, [o EXCEPT !.result = "timeout"]) BY DEF SandboxTimeout
<1> DEFINE end == [o EXCEPT !.result = "timeout"]
<1>2. o \in [result : {"ok", "error", "approval"}, acted : BOOLEAN] BY DEF IndInv, TypeOK, Handlers
<1>3. end.result = "timeout" /\ end.acted = o.acted BY <1>2
<1>4. ~h.late /\ h.tool = "sandboxed" BY DEF SandboxTimeout, IndInv, HandlersAtWork
<1>5. end.acted => h.lawful /\ end.result # "approval" /\ h.tool # "agent_tasks"
  BY <1>3, <1>4 DEF IndInv, HandlersAtWork
<1>6. Stepped([tool |-> h.tool, result |-> end.result, text |-> FALSE], "tool-calls")
  BY <1>3 DEF SandboxTimeout
<1>7. UNCHANGED <<config, status, messages, timer, faults>> BY DEF SandboxTimeout
<1>8. Happened(h, end) BY <1>1
<1> HIDE DEF end
<1> QED BY <1>3, <1>4, <1>5, <1>6, <1>7, <1>8, CallCompletesStep

LEMMA ToolTimeoutKeeps ==
  ASSUME IndInv, NEW h \in handlers, ToolTimeout(h)
  PROVE  IndInv'
<1> DEFINE step == [tool |-> h.tool, result |-> "timeout", text |-> FALSE]
           late == [h EXCEPT !.late = TRUE]
<1>0. /\ UNCHANGED <<agent, perm, sandbox, status, messages, timer, acted, approvals, faults>>
      /\ ~h.late /\ h.tool # "sandboxed" /\ handlers' = (handlers \ {h}) \cup {late}
      /\ Stepped(step, "tool-calls")
  BY DEF ToolTimeout, config
<1>1. h \in Handlers /\ pc = "tool" /\ h.turn = Len(steps) + 1 BY <1>0 DEF IndInv, TypeOK, HandlersAtWork
<1>2. h.tool \in ToolNames /\ h.tool # "none" BY <1>1 DEF Handlers, ToolNames
<1>3. step \in Steps BY <1>2 DEF Steps
<1>4. /\ late \in Handlers /\ late.late /\ late.turn = h.turn /\ late.tool = h.tool
      /\ late.may = h.may /\ late.lawful = h.lawful
  BY <1>1 DEF Handlers
<1>5. /\ steps' \in Seq(Steps) /\ Len(steps') = Len(steps) + 1 /\ Len(steps') <= MaxTurns
      /\ \A i \in 1..Len(steps) : steps'[i] = steps[i]
      /\ steps'[Len(steps) + 1] = step
      /\ finish' \in Reasons \cup {"none", "tool-calls"} /\ todo' \in Seq(Messages)
      /\ pc' \in {"llm", "append"}
      /\ PlaceGivesStatus' /\ StoredSoFar' /\ WithinTurns'
  BY <1>0, <1>1, <1>3, SteppedKeeps
<1>6. Len(steps) \in Nat BY Parameters DEF IndInv
<1> HIDE DEF late
<1>7. TypeOK' BY <1>0, <1>4, <1>5 DEF IndInv, TypeOK
<1>8. HandlersAtWork'
  <2>1. ASSUME NEW g \in handlers, g # h
        PROVE  /\ g.late /\ g.tool # "sandboxed" /\ g.turn \in 1..Len(steps)
               /\ steps[g.turn].result = "timeout" /\ steps[g.turn].tool # "none"
    <3>1. g.turn # h.turn BY <2>1 DEF IndInv, HandlersAtWork
    <3>2. g.turn \in Nat \ {0} BY DEF IndInv, TypeOK, Handlers
    <3> QED BY <1>1, <1>6, <3>1, <3>2 DEF IndInv, HandlersAtWork
  <2>2. ASSUME NEW g \in handlers'
        PROVE  /\ g.late /\ g.tool # "sandboxed" /\ g.turn <= Len(steps')
               /\ steps'[g.turn].result = "timeout" /\ steps'[g.turn].tool # "none"
    <3>1. CASE g = late BY <1>0, <1>1, <1>2, <1>4, <1>5, <1>6, <3>1
    <3>2. CASE g \in handlers /\ g # h BY <1>5, <1>6, <2>1, <3>2
    <3> QED BY <1>0, <3>1, <3>2
  <2>3. ASSUME NEW g \in handlers'
        PROVE  /\ g.turn \notin approvals /\ \A w \in acted : w.turn # g.turn
               /\ IsToolAllowed(g.tool)
               /\ \A o \in g.may : o.acted => g.lawful /\ o.result # "approval" /\ g.tool # "agent_tasks"
    <3>1. CASE g = late BY <1>4, <3>1 DEF IndInv, HandlersAtWork
    <3>2. CASE g \in handlers BY <3>2 DEF IndInv, HandlersAtWork
    <3> QED BY <1>0, <3>1, <3>2
  <2>4. ASSUME NEW f \in handlers', NEW g \in handlers', f.turn = g.turn PROVE f = g
    BY <1>0, <1>1, <1>4, <2>1, <2>4 DEF IndInv, HandlersAtWork
  <2> QED BY <1>0, <2>2, <2>3, <2>4 DEF HandlersAtWork, IsToolAllowed
<1>9. StepsTell'
  <2>1. ASSUME NEW w \in acted PROVE w.turn \in 1..Len(steps) /\ steps'[w.turn] = steps[w.turn]
    <3>1. w.turn \in Nat \ {0} /\ w.turn <= Len(steps) BY DEF IndInv, StepsTell, TypeOK
    <3> QED BY <1>5, <1>6, <3>1
  <2>2. ASSUME NEW t \in approvals PROVE t \in 1..Len(steps) /\ steps'[t] = steps[t]
    <3>1. t \in Nat \ {0} /\ t <= Len(steps) BY DEF IndInv, StepsTell, TypeOK
    <3> QED BY <1>5, <1>6, <3>1
  <2> QED BY <1>0, <1>5, <1>6, <2>1, <2>2 DEF IndInv, StepsTell
<1> QED BY <1>5, <1>7, <1>8, <1>9 DEF IndInv
-----------------------------------------------------------------------------
(* The run.                                                                 *)

LEMMA ExecuteKeeps == IndInv /\ Execute => IndInv'
  BY BeginKeeps, PrologueKeeps, MarkRunFailedKeeps, ResolveModelKeeps, ModelGivesUpKeeps,
     AppendMessageKeeps, FinishKeeps
  DEF Execute

LEMMA NextKeeps == IndInv /\ [Next]_vars => IndInv'
<1> SUFFICES ASSUME IndInv, [Next]_vars PROVE IndInv' OBVIOUS
<1>1. CASE SubmitTask \/ Execute \/ Abort \/ LlmFails \/ Crash
  BY <1>1, SubmitTaskKeeps, ExecuteKeeps, ModelGivesUpKeeps, CrashKeeps
<1>2. ASSUME NEW reason \in Reasons, NEW text \in BOOLEAN, LlmAnswers(reason, text) PROVE IndInv'
  BY <1>2, LlmAnswersKeeps
<1>3. ASSUME NEW c \in Calls, LlmCalls(Handler(c)) PROVE IndInv'
  <2>1. pc = "llm" BY <1>3 DEF LlmCalls
  <2> QED BY <1>3, <2>1, HandlerStarts, LlmCallsKeeps
<1>4. ASSUME NEW op \in SandboxOps, NEW held \in BOOLEAN, LlmCalls(SandboxedHandler(op, held)) PROVE IndInv'
  <2>1. pc = "llm" BY <1>4 DEF LlmCalls
  <2> QED BY <1>4, <2>1, SandboxedHandlerStarts, LlmCallsKeeps
<1>5. ASSUME NEW h \in handlers, HandlerEnds(h) \/ ToolTimeout(h) \/ SandboxTimeout(h) PROVE IndInv'
  BY <1>5, HandlerEndsKeeps, ToolTimeoutKeeps, SandboxTimeoutKeeps
<1>6. CASE UNCHANGED vars
  <2>1. UNCHANGED <<agent, perm, sandbox, pc, status, steps, finish, todo, messages, timer, handlers, acted, approvals, faults>>
    BY <1>6 DEF vars
  <2>2. TypeOK' BY <2>1 DEF IndInv, TypeOK
  <2>3. PlaceGivesStatus' /\ StoredSoFar' /\ WithinTurns'
    BY <2>1 DEF IndInv, PlaceGivesStatus, StoredSoFar, WithinTurns
  <2>4. HandlersAtWork' /\ StepsTell' BY <2>1 DEF IndInv, HandlersAtWork, StepsTell, IsToolAllowed
  <2> QED BY <2>2, <2>3, <2>4 DEF IndInv
<1> QED BY <1>1, <1>2, <1>3, <1>4, <1>5, <1>6 DEF Next

LEMMA IndInvIsEnough == IndInv => RunInv
<1> SUFFICES ASSUME IndInv PROVE RunInv OBVIOUS
<1>0. TypeOK /\ Len(steps) \in Nat /\ Said \in Seq(Messages) BY Parameters DEF IndInv
<1>1. ActsArePermitted BY DEF IndInv, StepsTell, ActsArePermitted
<1>2. ToolsAreGranted BY DEF IndInv, HandlersAtWork, StepsTell, ToolsAreGranted
<1>3. status = "pending" => messages = <<>> BY DEF IndInv, StoredSoFar
<1>4. ASSUME status = "completed"
      PROVE  /\ messages = Said \o Script(steps)
             /\ Len(steps) \in 1..agent.turns
             /\ \A w \in acted : \E told \in {"content", "error"} : Tells(told, w.turn)
             /\ \A t \in approvals : Tells("approval", t) \/ steps[t].result = "timeout"
  <2>1. messages = Said \o Script(steps) BY <1>4 DEF IndInv, StoredSoFar
  <2>2. Len(steps) \in 1..agent.turns BY <1>0, <1>4, Parameters DEF IndInv, WithinTurns, TypeOK
  <2>3. /\ Script(steps) \in Seq(Messages)
        /\ \A i \in 1..Len(steps) : (steps[i].tool # "none" /\ steps[i].result # "unavailable") =>
              Holds(Script(steps), <<FormatToolResultForModel(steps[i].result), i>>)
    BY <1>0, ScriptTells DEF TypeOK
  <2>4. ASSUME NEW i \in 1..Len(steps), steps[i].tool # "none", steps[i].result # "unavailable"
        PROVE  Tells(FormatToolResultForModel(steps[i].result), i)
    <3>1. Holds(messages, <<FormatToolResultForModel(steps[i].result), i>>)
      BY <1>0, <2>1, <2>3, <2>4, ConcatHolds
    <3> QED BY <3>1 DEF Holds, Tells
  <2>5. ASSUME NEW w \in acted PROVE \E told \in {"content", "error"} : Tells(told, w.turn)
    <3>1. w.turn \in 1..Len(steps) /\ steps[w.turn].tool # "none" /\ steps[w.turn].result \in {"ok", "error", "timeout"}
      <4>1. w.turn \in Nat \ {0} /\ w.turn <= Len(steps) BY DEF IndInv, StepsTell, TypeOK
      <4> QED BY <1>0, <4>1 DEF IndInv, StepsTell
    <3>2. FormatToolResultForModel(steps[w.turn].result) \in {"content", "error"}
      BY <3>1 DEF FormatToolResultForModel
    <3>3. steps[w.turn].result # "unavailable" BY <3>1
    <3> QED BY <2>4, <3>1, <3>2, <3>3
  <2>6. ASSUME NEW t \in approvals PROVE Tells("approval", t) \/ steps[t].result = "timeout"
    <3>1. t \in 1..Len(steps) /\ steps[t].tool # "none" /\ steps[t].result \in {"approval", "timeout"}
      <4>1. t \in Nat \ {0} /\ t <= Len(steps) BY DEF IndInv, StepsTell, TypeOK
      <4> QED BY <1>0, <4>1 DEF IndInv, StepsTell
    <3>2. CASE steps[t].result = "approval"
      <4>1. FormatToolResultForModel(steps[t].result) = "approval" /\ steps[t].result # "unavailable"
        BY <3>2 DEF FormatToolResultForModel
      <4> QED BY <2>4, <3>1, <4>1
    <3> QED BY <3>1, <3>2
  <2> QED BY <2>1, <2>2, <2>5, <2>6
<1>5. CompletedIsWhole BY <1>3, <1>4 DEF CompletedIsWhole, Said
<1> QED BY <1>0, <1>1, <1>2, <1>5 DEF RunInv

LEMMA RunIsInvariant == Spec => []IndInv
<1>1. Init => IndInv BY InitHolds
<1>2. IndInv /\ [Next]_vars => IndInv' BY NextKeeps
<1> QED BY <1>1, <1>2, PTL DEF Spec

(* executeRunRequest with its tools: a file that a run wrote lies in the    *)
(* roots that the permissions name, its commands ran as they permit, a      *)
(* sandboxed operation that the guards see kept to its configuration, all   *)
(* by a tool the agent was granted and in a turn that does not wait for an  *)
(* approval; and a run that is stored as completed has told everything, in  *)
(* its order, with the result of every call that changed something, although *)
(* calls that have timed out go on beside it.                               *)
THEOREM RunIsSound == Spec => []RunInv
<1>1. IndInv => RunInv BY IndInvIsEnough
<1> QED BY <1>1, RunIsInvariant, PTL

-----------------------------------------------------------------------------
(* RunExecution implements RunRecords.                                      *)

LEMMA RecordStutters ==
  ASSUME UNCHANGED <<status, messages>> PROVE [Records!RecordsNext]_(Records!recordVars)
  BY DEF Records!recordVars

LEMMA RecordAdvances ==
  ASSUME NEW from, NEW to, status \in from, status' = to, UNCHANGED messages
  PROVE  Records!Advance("run", from, to)
  BY DEF Records!Advance

LEMMA RecordTells ==
  ASSUME IndInv, status = "running", NEW m \in Messages, messages' = Append(messages, m), UNCHANGED status
  PROVE  Records!RecordsNext
<1>1. Len(messages') = Len(messages) + 1 BY DEF IndInv, TypeOK
<1>2. Records!Tell("run") BY <1>1 DEF Records!Tell
<1> QED BY <1>2 DEF Records!RecordsNext

LEMMA RecordStep ==
  IndInv /\ [Next]_vars => [Records!RecordsNext]_(Records!recordVars)
<1> DEFINE Maps == [Records!RecordsNext]_(Records!recordVars)
<1> SUFFICES ASSUME IndInv, [Next]_vars PROVE Maps OBVIOUS
<1>0. PlaceGivesStatus BY DEF IndInv
<1>1. CASE UNCHANGED <<status, messages>> BY <1>1, RecordStutters
<1>2. CASE SubmitTask
  <2>1. Records!Advance("run", {"none"}, "pending")
    BY <1>0, <1>2, RecordAdvances DEF SubmitTask, PlaceGivesStatus
  <2> QED BY <2>1 DEF Records!Create, Records!RecordsNext
<1>3. CASE Begin
  <2>1. CASE status' = "running"
    <3>1. Records!Advance("run", {"pending"}, "running")
      BY <1>0, <1>3, <2>1, RecordAdvances DEF Begin, PlaceGivesStatus
    <3> QED BY <3>1 DEF Records!Start, Records!RecordsNext
  <2> QED BY <1>1, <1>3, <2>1 DEF Begin, Storage
<1>4. CASE Prologue("system", "user") \/ Prologue("user", "resolve")
  <2>1. PICK role \in {"system", "user"} : \E next : Prologue(role, next) BY <1>4
  <2>2. status = "running" /\ status' = status BY <1>0, <2>1 DEF Prologue, PlaceGivesStatus
  <2>3. <<role, 0>> \in Messages BY <2>1, Parameters DEF IndInv
  <2>4. CASE messages' = Append(messages, <<role, 0>>) BY <2>2, <2>3, <2>4, RecordTells
  <2> QED BY <1>1, <2>1, <2>2, <2>4 DEF Prologue, Storage
<1>5. CASE MarkRunFailed
  <2>1. CASE status' = "failed"
    <3>1. Records!Advance("run", {"pending", "running"}, "failed")
      BY <1>0, <1>5, <2>1, RecordAdvances DEF MarkRunFailed, PlaceGivesStatus
    <3> QED BY <3>1 DEF Records!Fail, Records!RecordsNext
  <2> QED BY <1>1, <1>5, <2>1 DEF MarkRunFailed, Storage
<1>6. CASE AppendMessage
  <2>1. status = "running" /\ status' = status BY <1>0, <1>6 DEF AppendMessage, PlaceGivesStatus
  <2>2. Head(todo) \in Messages BY <1>6 DEF AppendMessage, IndInv, TypeOK
  <2>3. CASE messages' = Append(messages, Head(todo)) BY <2>1, <2>2, <2>3, RecordTells
  <2> QED BY <1>1, <1>6, <2>1, <2>3 DEF AppendMessage, Storage
<1>7. CASE Finish
  <2>1. CASE status' = "completed" /\ ~UNCHANGED status
    <3>1. pc = "append" /\ todo = <<>> /\ UNCHANGED messages BY <1>7 DEF Finish
    <3>2. messages = Said \o Script(steps)
      <4>1. messages \o todo = messages BY <3>1 DEF IndInv, TypeOK
      <4> QED BY <3>1, <4>1 DEF IndInv, StoredSoFar
    <3>3. Script(steps) \in Seq(Messages) BY ScriptTells DEF IndInv, TypeOK
    <3>4. Said \in Seq(Messages) /\ Len(Said) = 2
      <4>1. Len(Said) = 2 BY DEF Said
      <4> QED BY <4>1, Parameters DEF IndInv
    <3>5. Len(messages) >= 2 BY <3>2, <3>3, <3>4
    <3>6. Records!Advance("run", {"running"}, "completed")
      BY <1>0, <2>1, <3>1, RecordAdvances DEF PlaceGivesStatus
    <3> QED BY <3>5, <3>6 DEF Records!Complete, Records!Prologue, Records!RecordsNext
  <2> QED BY <1>1, <1>7, <2>1 DEF Finish, Storage
<1>8. CASE ResolveModel \/ AbortedCall \/ Abort \/ LlmFails \/ Crash
  BY <1>1, <1>8 DEF ResolveModel, AbortedCall, Abort, LlmFails, Crash
<1>9. ASSUME NEW reason \in Reasons, NEW text \in BOOLEAN, LlmAnswers(reason, text) PROVE Maps
  BY <1>1, <1>9 DEF LlmAnswers
<1>10. ASSUME NEW h, LlmCalls(h) PROVE Maps BY <1>1, <1>10 DEF LlmCalls
<1>11. ASSUME NEW h \in handlers, HandlerEnds(h) \/ ToolTimeout(h) \/ SandboxTimeout(h) PROVE Maps
  BY <1>1, <1>11 DEF HandlerEnds, ToolTimeout, SandboxTimeout
<1>12. CASE UNCHANGED vars BY <1>1, <1>12 DEF vars
<1> HIDE DEF Maps
<1> QED BY <1>2, <1>3, <1>4, <1>5, <1>6, <1>7, <1>8, <1>9, <1>10, <1>11, <1>12 DEF Next, Execute

(* updateRunStatus and appendMessage: a status goes on to a later one only, *)
(* a run completes after its prologue is stored, and once it is completed   *)
(* or failed no late handler, timer or abort adds a message.                *)
THEOREM RunIsARecord == Spec => ImplementsRunRecords
<1>1. Init => Records!RecordsInit BY DEF Init, Records!RecordsInit
<1> QED BY <1>1, RecordStep, RunIsInvariant, PTL DEF Spec, ImplementsRunRecords, Records!RecordsSpec
=============================================================================
