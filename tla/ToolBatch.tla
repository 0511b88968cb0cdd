------------------------------ MODULE ToolBatch ------------------------------
(***************************************************************************)
(* ToolRegistry.executeTools of apps/tool-runner-host: the invocations of  *)
(* one model step, executed in the order they were requested, contiguous   *)
(* concurrency-safe ones together and every other one alone.               *)
(*                                                                         *)
(* A call is an executeToolInternal in progress; its handler is the tool's *)
(* own code, which a timeout or an abort does not stop.  Level 0 handlers  *)
(* run in process, under a timer; sandboxed ones (level 1 and up) in a     *)
(* child process that SandboxedToolRunner ends by itself, without a timer  *)
(* here.  A sandboxed call settles when the pipes of its worker close, so  *)
(* that what its handler leaves behind can hold it without limit (the      *)
(* module Sandbox models this); which calls do is chosen at the start.     *)
(***************************************************************************)
EXTENDS Naturals, Sequences, FiniteSets

CONSTANT N      \* number of invocations in the step

ASSUME ToolBatchAssumption == N \in Nat

Invocations == 1..N

(* What the registry knows of the tool an invocation names: nothing, or how *)
(* it was registered.  A fatal tool is concurrency-safe and cancels its     *)
(* siblings when it fails.                                                  *)
Policy == {"unknown", "serial", "safe", "fatal"}

VARIABLES
  policy,     \* policy of the tool each invocation names
  sandboxed,  \* invocations of tools with sandbox level >= 1
  held,       \* of these, the ones that leave something behind which keeps the call open
  next,       \* the invocation the loop of executeTools is at
  batch,      \* concurrentBatch
  call,       \* progress of each call
  handler,    \* progress of each handler
  aborted,    \* calls whose AbortController has been aborted
  orphaned,   \* calls that left an abort promise nobody waits for
  results     \* the results so far, as the invocations they are of

batchVars == <<policy, sandboxed, held, next, batch, call, handler, aborted, orphaned, results>>

Outcome == {"ok", "approval", "failed"}
CallState == {"waiting", "rejected", "running"} \cup Outcome

BatchTypeOK ==
  /\ policy \in [Invocations -> Policy]
  /\ sandboxed \in SUBSET Invocations
  /\ held \in SUBSET sandboxed
  /\ next \in 1..(N + 1)
  /\ batch \in SUBSET Invocations
  /\ call \in [Invocations -> CallState]
  /\ handler \in [Invocations -> {"idle", "running", "over"}]
  /\ aborted \in SUBSET Invocations
  /\ orphaned \in SUBSET Invocations
  /\ results \in Seq(Invocations)

BatchInit ==
  /\ policy \in [Invocations -> Policy]
  /\ sandboxed \in SUBSET Invocations
  /\ held \in SUBSET sandboxed
  /\ next = 1
  /\ batch = {}
  /\ call = [i \in Invocations |-> "waiting"]
  /\ handler = [i \in Invocations |-> "idle"]
  /\ aborted = {}
  /\ orphaned = {}
  /\ results = <<>>

-----------------------------------------------------------------------------
IsConcurrencySafe(i) == policy[i] \in {"safe", "fatal"}
CancelsSiblings(i)   == policy[i] = "fatal"

InFlight(i) == call[i] \in {"rejected", "running"}

(* Calls of S begin together.  Each one is rejected (the tool is unknown or *)
(* its arguments do not validate), or its handler starts, or, at level 0,   *)
(* the handler throws at once; in a batch that leaves the promise that      *)
(* waits for the abort signal with nobody to handle its rejection.          *)
Begin(S) ==
  \E how \in [S -> {"rejected", "running", "threw"}] :
    /\ \A i \in S :
         /\ policy[i] = "unknown" => how[i] = "rejected"
         /\ how[i] = "threw" => i \notin sandboxed
    /\ call' = [i \in Invocations |->
                  IF i \notin S THEN call[i]
                  ELSE IF how[i] = "running" THEN "running" ELSE "rejected"]
    /\ handler' = [i \in Invocations |->
                     IF i \in S /\ how[i] = "running" THEN "running" ELSE handler[i]]
    /\ orphaned' = orphaned \cup {i \in S : how[i] = "threw" /\ i \in batch}

(* Mutant: the batch is not flushed before a serial tool.                   *)
RunAlone_unflushed ==
  /\ next \in Invocations
  /\ ~IsConcurrencySafe(next)
  /\ call[next] = "waiting"
  /\ Begin({next})
  /\ UNCHANGED <<policy, sandboxed, held, next, batch, aborted, results>>

(* A concurrency-safe invocation joins the batch.                           *)
Collect ==
  /\ next \in Invocations
  /\ IsConcurrencySafe(next)
  /\ batch' = batch \cup {next}
  /\ next' = next + 1
  /\ UNCHANGED <<policy, sandboxed, held, call, handler, aborted, orphaned, results>>

(* flushBatch, before a serial invocation and at the end: the batch runs,   *)
FlushBatch ==
  /\ next \in Invocations => ~IsConcurrencySafe(next)
  /\ batch # {}
  /\ \A i \in batch : call[i] = "waiting"
  /\ Begin(batch)
  /\ UNCHANGED <<policy, sandboxed, held, next, batch, aborted, results>>

(* Mutant: only the first result of the batch is kept.                      *)
BatchDone_first ==
  /\ batch # {}
  /\ \A i \in batch : call[i] \in Outcome
  /\ results' = Append(results, next - Cardinality(batch))
  /\ batch' = {}
  /\ UNCHANGED <<policy, sandboxed, held, next, call, handler, aborted, orphaned>>

(* and its results, which Promise.all returns in the order of the calls,    *)
(* are added when the last one is there.                                    *)
BatchDone ==
  /\ batch # {}
  /\ \A i \in batch : call[i] \in Outcome
  /\ results' = results \o [k \in 1..Cardinality(batch) |-> Len(results) + k]
  /\ batch' = {}
  /\ UNCHANGED <<policy, sandboxed, held, next, call, handler, aborted, orphaned>>

(* A serial invocation runs on its own,                                     *)
RunAlone ==
  /\ next \in Invocations
  /\ ~IsConcurrencySafe(next)
  /\ batch = {}
  /\ call[next] = "waiting"
  /\ Begin({next})
  /\ UNCHANGED <<policy, sandboxed, held, next, batch, aborted, results>>

(* and the loop goes on when it has settled.                                *)
AloneDone ==
  /\ next \in Invocations
  /\ call[next] \in Outcome
  /\ results' = Append(results, next)
  /\ next' = next + 1
  /\ UNCHANGED <<policy, sandboxed, held, batch, call, handler, aborted, orphaned>>

(* Mutant: any failure cancels the siblings.                                *)
Settle_cancelsAlways(i, outcome) ==
  /\ call' = [call EXCEPT ![i] = outcome]
  /\ aborted' = IF outcome # "ok" /\ i \in batch
                THEN aborted \cup (batch \ {i})
                ELSE aborted

(* A call settles; a failed one of a fatal tool, an approval it waits for   *)
(* included, aborts every other call of its batch.                          *)
Settle(i, outcome) ==
  /\ call' = [call EXCEPT ![i] = outcome]
  /\ aborted' = IF outcome # "ok" /\ i \in batch /\ CancelsSiblings(i)
                THEN aborted \cup (batch \ {i})
                ELSE aborted

Reject(i) ==
  /\ call[i] = "rejected"
  /\ Settle(i, "failed")
  /\ UNCHANGED <<policy, sandboxed, held, next, batch, handler, orphaned, results>>

(* The handler comes to its end and settles the call, or finds it settled.  *)
Finish(i) ==
  /\ handler[i] = "running"
  /\ handler' = [handler EXCEPT ![i] = "over"]
  /\ \/ call[i] = "running" /\ \E outcome \in Outcome : Settle(i, outcome)
     \/ call[i] # "running" /\ UNCHANGED <<call, aborted>>
  /\ UNCHANGED <<policy, sandboxed, held, next, batch, orphaned, results>>

(* Mutant: the race of invokeHandler has no timer.                          *)
Timeout_missing(i) ==
  /\ call[i] = "running"
  /\ i \in sandboxed
  /\ i \notin sandboxed
  /\ Settle(i, "failed")
  /\ UNCHANGED <<policy, sandboxed, held, next, batch, handler, orphaned, results>>

(* timeoutMs after a level 0 handler started its call fails; the handler    *)
(* goes on.                                                                 *)
Timeout(i) ==
  /\ call[i] = "running"
  /\ i \notin sandboxed
  /\ Settle(i, "failed")
  /\ UNCHANGED <<policy, sandboxed, held, next, batch, handler, orphaned, results>>

(* An aborted call fails; its handler goes on, at any level.                *)
Cancelled(i) ==
  /\ call[i] = "running"
  /\ i \in aborted
  /\ Settle(i, "failed")
  /\ UNCHANGED <<policy, sandboxed, held, next, batch, handler, orphaned, results>>

-----------------------------------------------------------------------------
Loop == Collect \/ FlushBatch \/ BatchDone \/ RunAlone \/ AloneDone

BatchNext ==
  \/ Loop
  \/ \E i \in Invocations : Reject(i) \/ Finish(i) \/ Timeout(i) \/ Cancelled(i)

BatchSpec == BatchInit /\ [][BatchNext]_batchVars

(* The event loop gets to every continuation, every timer and every abort   *)
(* signal.  A handler that runs in process may never end; a sandboxed one   *)
(* is ended by its runner, unless something it left behind holds it.        *)
BatchFairness ==
  /\ WF_batchVars(Loop)
  /\ \A i \in Invocations :
       /\ WF_batchVars(Reject(i))
       /\ WF_batchVars(Timeout(i))
       /\ WF_batchVars(Cancelled(i))
       /\ WF_batchVars(i \in sandboxed \ held /\ Finish(i))

BatchFairSpec == BatchSpec /\ BatchFairness

-----------------------------------------------------------------------------
Returned == next = N + 1 /\ batch = {}

(* Results come back in the order of the invocations, one for each, and     *)
(* only for calls that have settled, whatever mix of batches, serial calls, *)
(* timeouts and cancellations produced them (registry.ts 311-336).          *)
ResultsInOrder ==
  /\ \A k \in 1..Len(results) : results[k] = k /\ call[k] \in Outcome
  /\ Returned => Len(results) = N

(* A call of a tool that is not concurrency-safe shares its time with no    *)
(* other call (registry.ts 330-331).                                        *)
SerialCallsAlone ==
  \A i, j \in Invocations :
    i # j /\ InFlight(i) /\ InFlight(j) => IsConcurrencySafe(i) /\ IsConcurrencySafe(j)

(* Inductive strengthening: what has been taken off the invocations and has *)
(* no result yet is exactly the batch; whatever is in flight belongs to it, *)
(* or is the serial invocation the loop waits for, and then the batch is    *)
(* empty.                                                                   *)
BatchInv ==
  /\ BatchTypeOK
  /\ Len(results) < next
  /\ batch = (Len(results) + 1)..(next - 1)
  /\ \A i \in batch : IsConcurrencySafe(i)
  /\ \A k \in 1..Len(results) : results[k] = k /\ call[k] \in Outcome
  /\ \A i \in Invocations : call[i] # "waiting" => i <= next
  /\ next \in Invocations /\ call[next] # "waiting" =>
       batch = {} /\ ~IsConcurrencySafe(next)

(* Two invocations may be in one batch: no serial one between them.         *)
Siblings(i, j) ==
  \A k \in Invocations : (i <= k /\ k <= j) \/ (j <= k /\ k <= i) => IsConcurrencySafe(k)

(* A call is cancelled only for a sibling of its own batch that failed and  *)
(* whose tool asks for it (registry.ts 293-304).                            *)
CancelledForSibling ==
  \A i \in aborted : \E j \in Invocations \ {i} :
    CancelsSiblings(j) /\ call[j] \in {"failed", "approval"} /\ Siblings(i, j)

(* executeTools returns even if in-process handlers hang: the timer of such *)
(* a call, or the abort of its batch, settles it (registry.ts 127-156).     *)
(* Two things keep it from returning.  A handler that throws synchronously  *)
(* leaves its abort promise without a handler (registry.ts 128-144), and a  *)
(* failed sibling that rejects it ends the process.  And a sandboxed call   *)
(* has no timer here (registry.ts 138): one that is held (sandbox.ts 316)   *)
(* runs for ever, unless a sibling of its batch cancels it.                 *)
AlwaysReturns ==
  \/ <>(Returned \/ aborted \cap orphaned # {})
  \/ <>[](\E i \in held \ aborted : call[i] = "running")
=============================================================================
