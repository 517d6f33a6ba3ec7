---------------------------- MODULE SignerBitmaps ----------------------------
(***************************************************************************)
(* The validator set as a list that is edited and sorted                   *)
(* (internal/types/types.go), the FSM that collects signatures by position *)
(* in that list (internal/consensus/fsm.go), the bit operations it uses    *)
(* (checkpoint.go), and the node's own way to the same bitmap              *)
(* (createSignersBitmap in internal/validator/node.go).                    *)
(*                                                                         *)
(* A byte is the set of its bits, an id a number.                          *)
(***************************************************************************)
EXTENDS Integers, Sequences, FiniteSets, FiniteSetsExt, SequencesExt

CONSTANTS
    Ids,            \* validator ids, numbers
    Changing,       \* those that are put into the set or taken out of it
    Sizes,          \* sizes of the validator set at first
    ThresholdNum, ThresholdDenom,
    MaxEdits        \* bound: changes of the validator set

VARIABLES
    validators,     \* the list
    state,          \* "Idle", "Collecting" or "Finalized"
    header,         \* the FSM has a header
    bitmap,         \* the FSM's bitmap
    signed,         \* ids whose signatures the node holds
    edits

bitmapVars == <<validators, state, header, bitmap, signed, edits>>

\* In order of ids, as the configuration's loader sorts them.
BitmapInit ==
    /\ \E size \in Sizes : validators = [i \in 1 .. size |-> i]
    /\ state = "Idle" /\ header = FALSE /\ bitmap = <<>> /\ signed = {} /\ edits = 0

-----------------------------------------------------------------------------
(* ValidatorSet                                                            *)

\* Position in the list, from 0; -1 when there is none.
IndexByID(list, id) ==
    IF id \in Range(list) THEN Min({i \in DOMAIN list : list[i] = id}) - 1 ELSE -1

\* Faulty: does not look for the id.
UpsertedAppends(id) == Append(validators, id)

\* An id that is there keeps its place.
Upserted(id) == IF id \in Range(validators) THEN validators ELSE Append(validators, id)

Edit(list) ==
    /\ ~header /\ edits < MaxEdits /\ edits' = edits + 1
    /\ validators' = list
    /\ UNCHANGED <<state, header, bitmap, signed>>

UpsertValidator(id) == Edit(Upserted(id))

RemoveValidator(id) == id \in Range(validators) /\ Len(validators) > 1 /\ Edit(RemoveAt(validators, IndexByID(validators, id) + 1))

SortValidators == Edit(SortSeq(validators, LAMBDA i, j : i < j))

RequiredSignatures ==
    LET n == Len(validators) * ThresholdNum
    IN  Max({1, n \div ThresholdDenom + IF n % ThresholdDenom > 0 THEN 1 ELSE 0})

-----------------------------------------------------------------------------
(* Bits                                                                    *)

SetBit(b, idx) ==
    LET byte == idx \div 8 + 1
        grown == [n \in 1 .. Max({Len(b), byte}) |-> IF n <= Len(b) THEN b[n] ELSE {}]
    IN  [grown EXCEPT ![byte] = @ \cup {idx % 8}]

BitIsSet(b, idx) == idx \div 8 < Len(b) /\ idx % 8 \in b[idx \div 8 + 1]

CountBits(b) == MapThenSumSet(LAMBDA n : Cardinality(b[n]), DOMAIN b)

\* Faulty: rounds down, and bits beyond the end are left out.
BitmapBytesFloor(n) == n \div 8

BitmapBytes(n) == (n + 7) \div 8

\* createSignersBitmap and createSignersBitmapLocked.
SignersBitmap ==
    IF signed = {} THEN <<>>
    ELSE [byte \in 1 .. BitmapBytes(Len(validators)) |->
            {bit \in 0 .. 7 : \E id \in signed : IndexByID(validators, id) = 8 * (byte - 1) + bit}]

-----------------------------------------------------------------------------
(* FSM                                                                     *)

StartProposal ==
    /\ state' = "Collecting" /\ header' = TRUE /\ bitmap' = <<>> /\ signed' = {}
    /\ UNCHANGED <<validators, edits>>

\* The signature of a validator of the set; also after the collection has ended.
OnSignature(id) ==
    /\ state # "Idle" /\ header /\ IndexByID(validators, id) >= 0
    /\ bitmap' = SetBit(bitmap, IndexByID(validators, id))
    /\ signed' = signed \cup {id}
    /\ UNCHANGED <<validators, state, header, edits>>

\* The time for collecting is over.
Tick ==
    /\ state = "Collecting" /\ state' = "Idle"
    /\ UNCHANGED <<validators, header, bitmap, signed, edits>>

MoveToFinalized ==
    /\ state = "Collecting" /\ state' = "Finalized"
    /\ UNCHANGED <<validators, header, bitmap, signed, edits>>

Reset ==
    /\ state' = "Idle" /\ header' = FALSE /\ bitmap' = <<>> /\ signed' = {}
    /\ UNCHANGED <<validators, edits>>

Reached == CountBits(bitmap) >= RequiredSignatures

BitmapNext ==
    \/ \E id \in Changing : UpsertValidator(id) \/ RemoveValidator(id)
    \/ \E id \in Ids : OnSignature(id)
    \/ SortValidators \/ StartProposal \/ Tick \/ MoveToFinalized \/ Reset

-----------------------------------------------------------------------------
\* Both bitmaps name exactly the validators that have signed, each once however often it signed,
\* also beyond the first byte and after the set was changed and sorted.
SignersNamed ==
    /\ CountBits(bitmap) = Cardinality(signed)
    /\ \A id \in Range(validators) :
         LET idx == IndexByID(validators, id)
         IN  (id \in signed <=> BitIsSet(bitmap, idx)) /\ (id \in signed <=> BitIsSet(SignersBitmap, idx))

\* When every validator has signed the threshold is reached, whatever edits led to the set.
AllSignedReaches == Range(validators) \subseteq signed => Reached
=============================================================================
