----------------------------- MODULE ValidatorSet -----------------------------
(***************************************************************************)
(* types.ValidatorSet (internal/types/types.go): the signature thresholds  *)
(* that gate every checkpoint and every ValidationBundle submission.       *)
(* Two rules coexist in the code.  Epoch-level ValidationBundle signatures *)
(* are counted (CheckThreshold).  Checkpoint signatures are weighed        *)
(* (CheckWeightedThreshold) when some validator has a weight and counted   *)
(* otherwise.                                                              *)
(***************************************************************************)
EXTENDS Integers, FiniteSets, Folds

CONSTANTS
    Validators,      \* the IDs of ValidatorSet.Validators
    ThresholdNum,    \* ValidatorSet.ThresholdNum
    ThresholdDenom,  \* ValidatorSet.ThresholdDenom
    Weight           \* Validator.Weight of each validator

-----------------------------------------------------------------------------
\* What ValidatorSet.Validate accepts, and a set that is not empty.
ASSUME ValidatorsAssumption == IsFiniteSet(Validators) /\ Validators # {}

ASSUME ThresholdAssumption ==
    /\ ThresholdNum \in Nat \ {0}
    /\ ThresholdDenom \in Nat \ {0}
    /\ ThresholdNum <= ThresholdDenom

ASSUME WeightAssumption == Weight \in [Validators -> Nat]

-----------------------------------------------------------------------------
\* num/denom of a total, rounded up with the division, remainder and increment
\* of the code.
ShareRoundedUp(total) ==
    (total * ThresholdNum) \div ThresholdDenom
      + (IF (total * ThresholdNum) % ThresholdDenom > 0 THEN 1 ELSE 0)

RequiredSignatures ==
    LET required == ShareRoundedUp(Cardinality(Validators))
    IN  IF required < 1 THEN 1 ELSE required

CheckThreshold(numSignatures) == numSignatures >= RequiredSignatures

\* Sum of the weights of a set of validators.
WeightOf(S) ==
    MapThenFoldSet(LAMBDA a, b : a + b, 0, LAMBDA v : Weight[v],
                   LAMBDA T : CHOOSE v \in T : TRUE, S)

TotalWeight == WeightOf(Validators)

RequiredWeight == ShareRoundedUp(TotalWeight)

CheckWeightedThreshold(signers) == WeightOf(signers \cap Validators) >= RequiredWeight

\* The choice between the two rules that the checkpoint signature handlers make.
CheckpointThreshold(signers) ==
    IF TotalWeight > 0
    THEN CheckWeightedThreshold(signers)
    ELSE CheckThreshold(Cardinality(signers))
=============================================================================
