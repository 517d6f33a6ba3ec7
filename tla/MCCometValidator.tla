--------------------------- MODULE MCCometValidator ---------------------------
(***************************************************************************)
(* Instances of CometValidator for TLC: two validators, both of whose      *)
(* signatures are required.                                                *)
(***************************************************************************)
EXTENDS CometValidator, TLC

CONSTANTS v1, v2, r1, r2

MCWeight == [v \in Validators |-> 1]

\* Bounds: two goroutines alive at the same time, handlers included, and one node
\* that goes down.
MCOneFails ==
    /\ Cardinality(UNION {{<<n, t>> : t \in tasks[n]} : n \in Validators})
         + Cardinality(UNION {{<<n, k>> : k \in spawned[n]} : n \in Validators}) <= 2
    /\ Cardinality({n \in Validators : ~Up(n) \/ restarts[n] > 0}) <= 1

MCSymmetry == Permutations(Validators)
=============================================================================
