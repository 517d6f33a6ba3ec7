------------------------------- MODULE MCLegacy -------------------------------
(***************************************************************************)
(* Instances of LegacyConsensus for TLC.                                   *)
(***************************************************************************)
EXTENDS LegacyConsensus

MCWeight == [v \in Validators |-> 1]

\* Bounds of the search: at most one node panics, at most one is between two of its
\* critical sections, and at most one double sign is recorded.
MCOneBetween ==
    /\ Cardinality(evidence) <= 1
    /\ Cardinality({n \in Validators : ~Up(n)}) <= 1
    /\ Cardinality({n \in Validators :
         loop[n] # "none" \/ built[n] # NoHeader \/ n \in catching}) <= 1
=============================================================================
