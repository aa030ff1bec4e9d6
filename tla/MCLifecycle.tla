---------------------------- MODULE MCLifecycle ----------------------------
(* Instances of InsightLifecycle small enough for TLC. *)
EXTENDS InsightLifecycle, TLC

\* Requests are interchangeable; tickets and proposals are not told apart either.
RequestSymmetry == Permutations(Requests)
=============================================================================
