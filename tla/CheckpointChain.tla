--------------------------- MODULE CheckpointChain ---------------------------
(***************************************************************************)
(* Chain (internal/consensus/chain_manager.go): every node's in-memory     *)
(* chain of checkpoint headers over a store, and the hash that links them  *)
(* (internal/crypto/checkpoint.go).                                        *)
(*                                                                         *)
(* A hash is the record of what went into it.  Every node puts the same    *)
(* signatures into a finalized header, in the order of a Go map's          *)
(* iteration.  A signature is a number, its place in the byte order.  A    *)
(* restarted node has an empty chain over the old store.                   *)
(*                                                                         *)
(* Calls under one lock are atomic; those of GetCheckpoint share theirs.   *)
(***************************************************************************)
EXTENDS Naturals, Sequences, FiniteSets, SequencesExt, TLC

CONSTANTS
    Nodes,
    Epochs,         \* an interval of Nat \ {0}
    Roots,          \* contents of the Merkle roots
    Signatures,     \* numbers
    MaxRestarts     \* bound: restarts and crashes of all nodes

VARIABLES
    finalized,      \* epoch -> header that the validators agreed on
    checkpoints,    \* each node's map: epoch -> header
    latest,         \* each node: the latest header, in a set
    stored,         \* each node's store: epoch -> header in the form of package types
    added,          \* history: each node and epoch, hashes of the headers added
    restarts

chainVars == <<finalized, checkpoints, latest, stored, added, restarts>>

ChainInit ==
    /\ finalized = <<>>
    /\ checkpoints = [n \in Nodes |-> <<>>]
    /\ latest = [n \in Nodes |-> {}]
    /\ stored = [n \in Nodes |-> <<>>]
    /\ added = [n \in Nodes |-> [e \in Epochs |-> {}]]
    /\ restarts = 0

-----------------------------------------------------------------------------
(* Hashes                                                                  *)

\* A hash of 32 bytes, or none, which is written as zeros.
None == [zeros |-> 32]

\* Faulty: signatures in the order in which the node put them.
sortSignaturesNot(sigs) == sigs

sortSignatures(sigs) == SortSeq(sigs, LAMBDA s, t : s < t)

\* Roots that are absent or of the wrong length are written as zeros.
NoRoots == {"nil", "empty"}
writeMerkleRoots(h) == IF h.roots \in NoRoots THEN "zeros" ELSE h.roots

ComputeHash(h) == [epoch |-> h.epoch, parent |-> h.parent, roots |-> writeMerkleRoots(h)]

writeSignatures(h) == [count |-> Len(h.sigs), sigs |-> sortSignatures(h.sigs), bitmap |-> h.bitmap]

ComputeHashForVerification(h) == [base |-> ComputeHash(h), signatures |-> writeSignatures(h)]

ComputeParentHash(hs) == IF hs = {} THEN None ELSE ComputeHashForVerification(CHOOSE h \in hs : TRUE)

-----------------------------------------------------------------------------
(* Conversion for the store                                                *)

\* Hexadecimal strings; no roots become empty strings, and empty strings no roots.
HexRoots(roots) == IF roots \in NoRoots THEN "" ELSE roots
DecodedRoots(hex) == IF hex = "" THEN "nil" ELSE hex

\* Faulty: leaves out the bitmap.
convertToTypesHeaderWithoutBitmap(h) ==
    [Epoch |-> h.epoch, ParentCPHash |-> h.parent, Roots |-> HexRoots(h.roots), ECDSASignatures |-> h.sigs, SignersBitmap |-> {}]

\* Of all the fields, those that the hash covers.
convertToTypesHeader(h) ==
    [Epoch |-> h.epoch, ParentCPHash |-> h.parent, Roots |-> HexRoots(h.roots), ECDSASignatures |-> h.sigs, SignersBitmap |-> h.bitmap]

convertFromTypesHeader(t) ==
    [epoch |-> t.Epoch, parent |-> t.ParentCPHash, roots |-> DecodedRoots(t.Roots), sigs |-> t.ECDSASignatures, bitmap |-> t.SignersBitmap]

-----------------------------------------------------------------------------
(* Operations                                                              *)

GetHeight(n) == IF latest[n] = {} THEN 0 ELSE (CHOOSE h \in latest[n] : TRUE).epoch

\* A leader builds the next header on its own chain and collects signatures for it.
Finalize(n, e, root, signers) ==
    /\ e \notin DOMAIN finalized /\ e > GetHeight(n)
    /\ finalized' = (e :> [epoch |-> e, parent |-> ComputeParentHash(latest[n]), roots |-> root, signers |-> signers]) @@ finalized
    /\ UNCHANGED <<checkpoints, latest, stored, added, restarts>>

Accepts(n, h) ==
    latest[n] # {} =>
        /\ h.epoch > GetHeight(n)
        /\ h.parent # None => h.parent = ComputeParentHash(latest[n])

\* Without a parent hash the header gets one.
Linked(n, h) == IF h.parent = None THEN [h EXCEPT !.parent = ComputeParentHash(latest[n])] ELSE h

\* A header that cannot be persisted stays in memory.
AddCheckpoint(n, e, order, persisted) ==
    LET f == finalized[e]
        h == Linked(n, [epoch |-> e, parent |-> f.parent, roots |-> f.roots, sigs |-> order, bitmap |-> f.signers])
    IN  /\ Accepts(n, h)
        /\ checkpoints' = [checkpoints EXCEPT ![n] = (e :> h) @@ @]
        /\ latest' = [latest EXCEPT ![n] = {h}]
        /\ stored' = IF persisted THEN [stored EXCEPT ![n] = (e :> convertToTypesHeader(h)) @@ @] ELSE stored
        /\ added' = [added EXCEPT ![n][e] = @ \cup {ComputeHashForVerification(h)}]
        /\ UNCHANGED <<finalized, restarts>>

\* NewChain and SetStore.
Restart(n) ==
    /\ restarts < MaxRestarts /\ restarts' = restarts + 1
    /\ checkpoints' = [checkpoints EXCEPT ![n] = <<>>]
    /\ latest' = [latest EXCEPT ![n] = {}]
    /\ UNCHANGED <<finalized, stored, added>>

\* A header in memory is returned; one that is only in the store is kept in memory too.  Calls
\* run at the same time, as each holds only the read lock: one that finds the map being written
\* by another either has no effect on it or ends the process ("concurrent map writes"), which
\* starts again over its store.
GetCheckpoint(n, e) ==
    /\ e \notin DOMAIN checkpoints[n] /\ e \in DOMAIN stored[n]
    /\ \/ /\ checkpoints' = [checkpoints EXCEPT ![n] = (e :> convertFromTypesHeader(stored[n][e])) @@ @]
          /\ UNCHANGED <<finalized, latest, stored, added, restarts>>
       \/ Restart(n)

ChainNext ==
    \E n \in Nodes :
        \/ Restart(n)
        \/ \E e \in Epochs :
             \/ GetCheckpoint(n, e)
             \/ \E root \in Roots, signers \in SUBSET Signatures \ {{}} : Finalize(n, e, root, signers)
             \/ /\ e \in DOMAIN finalized
                /\ \E order \in SetToSeqs(finalized[e].signers), persisted \in BOOLEAN :
                     AddCheckpoint(n, e, order, persisted)

-----------------------------------------------------------------------------
\* Two nodes with the same latest checkpoint accept the same children, in whatever order each
\* of them put the signatures into the header.
SameLatestSameHash ==
    \A n, m \in Nodes : \A h \in latest[n], g \in latest[m] :
        h.epoch = g.epoch /\ ComputeHash(h) = ComputeHash(g) /\ h.bitmap = g.bitmap =>
            ComputeParentHash({h}) = ComputeParentHash({g})

\* A checkpoint loaded from the store after a restart has the hash it was added with, so that it
\* still is the parent of its child.
LoadedAsAdded ==
    \A n \in Nodes : \A e \in DOMAIN checkpoints[n] :
        ComputeHashForVerification(checkpoints[n][e]) \in added[n][e]
=============================================================================
