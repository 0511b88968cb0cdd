---------------------------- MODULE SandboxPolicy ----------------------------
(***************************************************************************)
(* What a sandboxed tool may touch (apps/tool-runner-host and              *)
(* native/sandbox-runner): the guards that the worker puts before its file *)
(* and network functions, and the system call filter of level 4.           *)
(*                                                                         *)
(* Each guard stands beside what the guarded function really touches.  The *)
(* worker wraps a list of functions and looks at their first arguments, so *)
(* there are operations it does not see for what they are: functions that  *)
(* are not on the list, and calls that end up elsewhere than their first   *)
(* arguments say.  They are operations of this module like the others;     *)
(* Guarded tells them apart, and the guards promise nothing of them.       *)
(* Links are not followed, by the guards or here.                          *)
(***************************************************************************)
EXTENDS LocalTools

-----------------------------------------------------------------------------
(* ToolSandboxConfig.                                                      *)

\* The temporary directory, which is the worker's own and where its relative
\* paths start.
SandboxDirectory == <<Cwd, Cwd>>

Host(name, upper, brackets) == [name |-> name, upper |-> upper, brackets |-> brackets]

\* Network to one domain; files and no network; a path to read and any host.
SandboxConfigs ==
  {[level |-> 1, network |-> TRUE, domains |-> {Host("site", TRUE, FALSE)}, paths |-> {}],
   [level |-> 2, network |-> FALSE, domains |-> {}, paths |-> {}],
   [level |-> 4, network |-> TRUE, domains |-> {}, paths |-> {<<"..", "..a">>}]}

-----------------------------------------------------------------------------
(* Files.                                                                  *)

Resolve(p) == Walk(<<>>, IF p.absolute THEN p.segs ELSE SandboxDirectory \o p.segs)

\* The same test as for the permissions, on paths that are resolved.
IsWithin(target, root) ==
  LET relative == Relative(root, target)
  IN  relative = <<>> \/ relative[1] \notin Dotted

\* The allowed paths were resolved by the host, in its own directory.
ReadableRoots(s) == {SandboxDirectory} \cup {Walk(<<Cwd>>, p) : p \in s.paths}

EnsureReadAccess(s, p) == \E root \in ReadableRoots(s) : IsWithin(Resolve(p), root)

EnsureWriteAccess(s, p) == IsWithin(Resolve(p), SandboxDirectory)

WriteMask == {"O_WRONLY", "O_RDWR", "O_APPEND", "O_CREAT", "O_TRUNC"}

\* Flags are absent, a number as the set of its bits, or a string as the set
\* of its letters.
IsWriteFlag(flags) ==
  CASE flags.kind = "number" -> flags.of \cap WriteMask # {}
    [] flags.kind = "string" -> flags.of \cap {"w", "a", "+"} # {}
    [] OTHER -> FALSE

\* The guard that a mode of access asks for.
EnsureAccessMode(mode) == IF mode.kind = "number" /\ "W_OK" \in mode.of THEN "write" ELSE "read"

\* The guards of the worker: its own copy of the functions above.
FsGuard(s, guard, p) == IF guard = "write" THEN EnsureWriteAccess(s, p) ELSE EnsureReadAccess(s, p)

Flags(kind, of) == [kind |-> kind, of |-> of]
OpenFlags ==
  {Flags("none", {}), Flags("number", {}), Flags("string", {"r"}), Flags("string", {"a", "x"}), Flags("string", {"r", "+"})}
    \cup {Flags("number", {bit}) : bit \in {"O_WRONLY", "O_RDWR", "O_CREAT", "O_TRUNC", "O_EXCL"}}

\* An operation has one path or two, and flags if it opens, asks, or reads with
\* options; "unwrapped" stands for the functions that are not on the list.
FileOp(names, from, to, flags) == [kind : {"file"}, name : names, path : from, to : to, flags : flags]

AccessModes == {Flags("none", {}), Flags("number", {"R_OK"}), Flags("number", {"W_OK"})}

FileOps ==
  (UNION {FileOp({"read", "write", "unwrapped"}, {p}, {p}, {Flags("none", {})}) : p \in Paths})
    \cup FileOp({"copy", "rename"}, ShortPaths, ShortPaths, {Flags("none", {})})
    \cup (UNION {FileOp({"open", "read"}, {p}, {p}, OpenFlags) : p \in ShortPaths})
    \cup (UNION {FileOp({"access"}, {p}, {p}, AccessModes) : p \in ShortPaths})

\* applyFilesystemSandbox: the guards that each function calls first.
GuardsOf(op) ==
  CASE op.name = "unwrapped" -> {}
    [] op.name = "read" -> {<<"read", op.path>>}
    [] op.name = "write" -> {<<"write", op.path>>}
    [] op.name = "access" -> {<<EnsureAccessMode(op.flags), op.path>>}
    [] op.name = "copy" -> {<<"read", op.path>>, <<"write", op.to>>}
    [] op.name = "rename" -> {<<"write", op.path>>, <<"write", op.to>>}
    [] OTHER -> {<<IF IsWriteFlag(op.flags) THEN "write" ELSE "read", op.path>>}

FileAllowed(s, op) == \A g \in GuardsOf(op) : FsGuard(s, g[1], g[2])

\* What each function changes; it looks at its other path.  A read whose options
\* bring flags opens the file with them, as open does.
Changes(op) ==
  CASE op.name \in {"write", "unwrapped"} -> {op.path}
    [] op.name = "copy" -> {op.to}
    [] op.name = "rename" -> {op.path, op.to}
    [] op.name \in {"open", "read"} /\ op.flags.kind # "none" /\ op.flags.of \notin {{}, {"r"}, {"O_EXCL"}} -> {op.path}
    [] OTHER -> {}

Below(p, root) == IsPrefix(root, Resolve(p))

FileLawful(s, op) ==
  /\ \A p \in Changes(op) : Below(p, SandboxDirectory)
  /\ \A p \in {op.path, op.to} : \E root \in ReadableRoots(s) : Below(p, root)

-----------------------------------------------------------------------------
(* Network.                                                                *)

\* A request is a URL, arguments with the host second, an object that names it
\* in one of three fields, does not name a host, or is made with a function that
\* is not patched.  With options after the URL, a second field for the host or a
\* redirect it reaches another host than the one that is looked at.
HostNames == {"site", "v6", "other"}
Requests ==
  {r \in [kind : {"request"}, form : {"url", "second", "hostname", "host", "href", "unwrapped"},
          host : [name : HostNames, upper : BOOLEAN, brackets : {FALSE}], reaches : HostNames] :
     r.form \in {"second", "host"} => r.reaches = r.host.name}
  \cup [kind : {"request"}, form : {"none"}, host : {Host("localhost", FALSE, FALSE)}, reaches : {"localhost"}]

Undefined == Host("undefined", FALSE, FALSE)

NormalizeHostname(h) == Host(h.name, FALSE, FALSE)

\* The URL parser puts an IPv6 address into brackets.
ParseUrlHostname(h) == NormalizeHostname(Host(h.name, FALSE, h.name = "v6"))

\* A host field is cut at its first colon, which leaves nothing of an IPv6 address.
ExtractHostname(r) ==
  CASE r.form \in {"url", "href"} -> ParseUrlHostname(r.host)
    [] r.form \in {"second", "hostname"} -> NormalizeHostname(r.host)
    [] r.form = "host" -> IF r.host.name = "v6" THEN Undefined ELSE NormalizeHostname(r.host)
    [] OTHER -> Undefined

\* createNetworkGuard: the domains are put in lower case and nothing else.
NetworkGuard(s, hostname) ==
  /\ s.network
  /\ s.domains = {} \/ hostname \in {Host(d.name, FALSE, d.brackets) : d \in s.domains}

\* patchFetch, patchHttpModule, patchSocketConnectors.
NetworkAllowed(s, r) == r.form = "unwrapped" \/ NetworkGuard(s, ExtractHostname(r))

NetworkLawful(s, r) == s.network /\ (s.domains = {} \/ \E d \in s.domains : d.name = r.reaches)

-----------------------------------------------------------------------------
(* System calls at level 4: the program that apply_seccomp_filter loads.   *)

\* Two that stand for the 22 of the list, each of which adds the same two
\* instructions.  The numbers are those of x86_64 proper: its x32 calls have the
\* same architecture and other numbers, which the list does not name.
DeniedSyscalls == <<"mount", "ptrace">>

Load(word) == [op |-> "load", k |-> word, jt |-> 0, jf |-> 0]
JumpEq(k, jt, jf) == [op |-> "jeq", k |-> k, jt |-> jt, jf |-> jf]
Ret(k) == [op |-> "ret", k |-> k, jt |-> 0, jf |-> 0]

SeccompFilter ==
  <<Load("arch"), JumpEq("x86_64", 1, 0), Ret("EPERM"), Load("nr")>>
    \o FlattenSeq([i \in 1..Len(DeniedSyscalls) |-> <<JumpEq(DeniedSyscalls[i], 0, 1), Ret("EPERM")>>])
    \o <<Ret("ALLOW")>>

Syscalls == [kind : {"syscall"}, arch : {"x86_64", "i386"}, nr : {"mount", "ptrace", "read"}]

\* The kernel's interpreter of such programs.
FilterReturns(call) ==
  LET words == {"none", "x86_64", "i386", "mount", "ptrace", "read"}
      run[pc \in 1..Len(SeccompFilter)] ==
        LET i == SeccompFilter[pc]
        IN  [acc \in words |->
               CASE i.op = "ret" -> i.k
                 [] i.op = "load" -> run[pc + 1][call[i.k]]
                 [] OTHER -> run[pc + 1 + (IF acc = i.k THEN i.jt ELSE i.jf)][acc]]
  IN  run[1]["none"]

SyscallAllowed(s, call) == s.level # 4 \/ FilterReturns(call) = "ALLOW"

SyscallLawful(s, call) ==
  s.level = 4 => call.arch = "x86_64" /\ \A i \in 1..Len(DeniedSyscalls) : DeniedSyscalls[i] # call.nr

-----------------------------------------------------------------------------
SandboxOps == FileOps \cup Requests \cup Syscalls

\* executeMessage: files are guarded from level 2 on, the network always.
SandboxAllows(s, op) ==
  CASE op.kind = "file" -> s.level >= 2 => FileAllowed(s, op)
    [] op.kind = "request" -> NetworkAllowed(s, op)
    [] OTHER -> SyscallAllowed(s, op)

SandboxLawful(s, op) ==
  CASE op.kind = "file" -> s.level >= 2 => FileLawful(s, op)
    [] op.kind = "request" -> NetworkLawful(s, op)
    [] OTHER -> SyscallLawful(s, op)

\* The operations that the guards see for what they are: a wrapped function, read
\* without flags that write, and a request to the host that is looked at.
Guarded(op) ==
  CASE op.kind = "file" -> op.name # "unwrapped" /\ (op.name = "read" => Changes(op) = {})
    [] op.kind = "request" -> op.form # "unwrapped" /\ op.reaches = op.host.name
    [] OTHER -> TRUE
=============================================================================
