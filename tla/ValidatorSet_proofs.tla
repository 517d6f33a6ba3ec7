-------------------------- MODULE ValidatorSet_proofs --------------------------
(***************************************************************************)
(* What the thresholds of types.ValidatorSet guarantee, for every set of   *)
(* validators and every threshold that ValidatorSet.Validate accepts.      *)
(***************************************************************************)
EXTENDS ValidatorSet, FiniteSetTheorems, TLAPS

\* The number of validators is a positive natural.
LEMMA CardinalityValidators == Cardinality(Validators) \in Nat \ {0}
  BY ValidatorsAssumption, FS_CardinalityType, FS_EmptySet

\* The division, remainder and increment of the code round the share up.
LEMMA ShareBounds ==
  ASSUME NEW total \in Nat
  PROVE  /\ ShareRoundedUp(total) \in Nat
         /\ ShareRoundedUp(total) <= total
         /\ ShareRoundedUp(total) * ThresholdDenom >= total * ThresholdNum
<1> DEFINE p == total * ThresholdNum
           q == p \div ThresholdDenom
           r == p % ThresholdDenom
<1>1. p \in Nat /\ p <= total * ThresholdDenom
  BY ThresholdAssumption
<1>2. q \in Nat /\ r \in 0..(ThresholdDenom - 1) /\ p = ThresholdDenom * q + r
  BY <1>1, ThresholdAssumption
<1>3. ShareRoundedUp(total) = q + (IF r > 0 THEN 1 ELSE 0)
  BY DEF ShareRoundedUp
<1> HIDE DEF p, q, r
<1>4. CASE r = 0
  <2>1. ThresholdDenom * q <= ThresholdDenom * total
    BY <1>1, <1>2, <1>4, ThresholdAssumption
  <2>2. q <= total
    BY <1>2, <2>1, ThresholdAssumption
  <2> QED
    BY <1>2, <1>3, <1>4, <2>2, ThresholdAssumption DEF p
<1>5. CASE r > 0
  <2>1. ThresholdDenom * q < ThresholdDenom * total
    BY <1>1, <1>2, <1>5, ThresholdAssumption
  <2>2. q + 1 <= total
    BY <1>2, <2>1, ThresholdAssumption
  <2>3. (q + 1) * ThresholdDenom >= p
    BY <1>2, ThresholdAssumption
  <2> QED
    BY <1>2, <1>3, <1>5, <2>2, <2>3, ThresholdAssumption DEF p
<1> QED
  BY <1>2, <1>4, <1>5

\* RequiredSignatures asks for at least one signature and never for more than there
\* are validators: the threshold of a bundle can always be met.
THEOREM ThresholdReachable == RequiredSignatures \in 1..Cardinality(Validators)
<1>1. ShareRoundedUp(Cardinality(Validators)) \in 0..Cardinality(Validators)
  BY CardinalityValidators, ShareBounds
<1> QED
  BY <1>1, CardinalityValidators DEF RequiredSignatures

\* With a threshold above one half, two sets of validators that CheckThreshold accepts
\* share a validator: two different bundles of an epoch cannot both reach it unless
\* some validator signed both.
THEOREM QuorumsIntersect ==
  ASSUME 2 * ThresholdNum > ThresholdDenom,
         NEW P \in SUBSET Validators, NEW Q \in SUBSET Validators,
         CheckThreshold(Cardinality(P)), CheckThreshold(Cardinality(Q))
  PROVE  P \cap Q # {}
<1> DEFINE size == Cardinality(Validators)
<1>1. size \in Nat \ {0}
  BY CardinalityValidators
<1>2. /\ RequiredSignatures \in Nat
      /\ RequiredSignatures * ThresholdDenom >= size * ThresholdNum
  <2>1. /\ ShareRoundedUp(size) \in Nat
        /\ ShareRoundedUp(size) * ThresholdDenom >= size * ThresholdNum
    BY <1>1, ShareBounds
  <2>2. CASE ShareRoundedUp(size) < 1
    <3>1. ShareRoundedUp(size) = 0 /\ RequiredSignatures = 1
      BY <2>1, <2>2 DEF RequiredSignatures
    <3> HIDE DEF size
    <3> QED
      BY <1>1, <2>1, <3>1, ThresholdAssumption
  <2> QED
    BY <2>1, <2>2 DEF RequiredSignatures
<1> HIDE DEF size
<1>3. size < 2 * RequiredSignatures
  <2>1. size * ThresholdDenom < size * (2 * ThresholdNum)
    BY <1>1, ThresholdAssumption
  <2>2. size * (2 * ThresholdNum) <= (2 * RequiredSignatures) * ThresholdDenom
    BY <1>1, <1>2, ThresholdAssumption
  <2>3. size * ThresholdDenom < (2 * RequiredSignatures) * ThresholdDenom
    BY <1>1, <1>2, <2>1, <2>2, ThresholdAssumption
  <2> QED
    BY <1>1, <1>2, <2>3, ThresholdAssumption
<1>4. /\ IsFiniteSet(P) /\ IsFiniteSet(Q)
      /\ Cardinality(P) \in Nat /\ Cardinality(Q) \in Nat
  BY ValidatorsAssumption, FS_Subset, FS_CardinalityType
<1>5. Cardinality(P) + Cardinality(Q) > size
  BY <1>1, <1>2, <1>3, <1>4 DEF CheckThreshold
<1>6. Cardinality(P \cup Q) <= size
  <2>1. P \cup Q \subseteq Validators
    OBVIOUS
  <2> QED
    BY <2>1, ValidatorsAssumption, FS_Subset DEF size
<1>7. Cardinality(P \cup Q) = Cardinality(P) + Cardinality(Q) - Cardinality(P \cap Q)
  BY <1>4, FS_Union
<1>8. Cardinality(P \cap Q) # 0
  BY <1>1, <1>4, <1>5, <1>6, <1>7
<1> QED
  BY <1>8, FS_EmptySet
=============================================================================
