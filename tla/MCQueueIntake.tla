---------------------------- MODULE MCQueueIntake ----------------------------
(* QueueIntake for TLC: payloads, entries and clients are interchangeable.  *)
EXTENDS QueueIntake, TLC

Symmetry ==
  Permutations(Payloads) \cup Permutations(Entries) \cup Permutations(Clients)
=============================================================================
