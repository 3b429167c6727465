---------------------------- MODULE MCClientPool ----------------------------
(* Three connections and two concurrent callers. The width of the cursor   *)
(* is small (cfg), so that it wraps within a run, and does not divide 3.   *)
EXTENDS PoolHistory, TLC

\* Callers differ in nothing but their name; all that is checked is safety.
CallerSymmetry == Permutations(Callers)
=============================================================================
