----------------------------- MODULE MCScheduler -----------------------------
(* Scheduler for TLC.                                                       *)
EXTENDS Scheduler, TLC

(* The safety run: ticks and runs are interchangeable.                      *)
Symmetry == Permutations(Ticks) \cup Permutations(Runs)

(* The progress run: runs are numbers and get their identifiers in order.   *)
(* No job may overlap itself, so that one whose run is active is skipped;   *)
(* one job fires at every instant, often enough for the breaker, and the    *)
(* other one at the last instant only.                                      *)
RunsInOrder ==
  \A r, s \in Runs : r < s /\ runState'[s] # "none" => runState'[r] # "none"

OneFiresOften ==
  /\ \A j \in Jobs : ~concurrent[j]
  /\ LET often == CHOOSE j \in Jobs : TRUE
     IN  \A j \in Jobs : period[j] = IF j = often THEN 1 ELSE MaxTime

ProgressInit == Init /\ OneFiresOften

ProgressSpec == ProgressInit /\ [][Next]_vars /\ Fairness
=============================================================================
