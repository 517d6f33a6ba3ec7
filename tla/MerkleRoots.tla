----------------------------- MODULE MerkleRoots -----------------------------
(***************************************************************************)
(* The two Merkle trees of the repository: crypto.ComputeMerkleRoot        *)
(* (internal/crypto/checkpoint.go), a loop over the levels, from which a   *)
(* header's roots come, here the event root over execution reports, and    *)
(* consensus.MerkleTree (internal/consensus/merkle.go), recursive and over *)
(* raw data.                                                               *)
(*                                                                         *)
(* A hash is the tuple of what is hashed, an id a sequence of characters.  *)
(* Two lists of reports grow together: what two nodes put under a root.    *)
(***************************************************************************)
EXTENDS Naturals, Sequences

CONSTANTS
    Reports,        \* records [assignment, intent, agent, time, result]
    MaxReports      \* bound: length of a list

VARIABLES
    mine, theirs    \* the two lists

merkleVars == <<mine, theirs>>

MerkleInit == mine = <<>> /\ theirs = <<>>

MerkleNext ==
    /\ Len(mine) < MaxReports
    /\ \E r, s \in Reports : mine' = Append(mine, r) /\ theirs' = Append(theirs, s)

-----------------------------------------------------------------------------
hash(data) == <<"hash", data>>

Hashed(list) == [n \in DOMAIN list |-> hash(list[n])]

EmptyRoot == <<"zeros">>

\* One turn of the loop of crypto.ComputeMerkleRoot.
NextLevel(current) ==
    [n \in 1 .. ((Len(current) + 1) \div 2) |->
        hash(<<current[2 * n - 1], current[IF 2 * n <= Len(current) THEN 2 * n ELSE 2 * n - 1]>>)]

\* crypto.ComputeMerkleRoot: the level after each turn, until one node is left.
ComputeMerkleRoot(hashes) ==
    LET current[turn \in 0 .. MaxReports] ==
            IF turn = 0 THEN hashes
            ELSE IF Len(current[turn - 1]) > 1 THEN NextLevel(current[turn - 1]) ELSE current[turn - 1]
    IN  IF hashes = <<>> THEN EmptyRoot ELSE current[MaxReports][1]

\* What the code writes into the hash of a report: three ids one after the other, with nothing
\* between them, and the time.  The result and the status are not written.
Written(r) == r.assignment \o r.intent \o r.agent \o <<r.time>>

\* Faulty: every leaf is hashed from the first report (the loop variable's address).
WrittenFirst(reports) == [n \in DOMAIN reports |-> Written(reports[1])]

WrittenAll(reports) == [n \in DOMAIN reports |-> Written(reports[n])]

ComputeEventRoot(reports) == ComputeMerkleRoot(Hashed(WrittenAll(reports)))

-----------------------------------------------------------------------------
emptyHash == hash(<<>>)

\* Faulty: an odd node goes up as it is.
HashPairPromoted(nodes, i) ==
    IF i + 1 <= Len(nodes) THEN hash(<<nodes[i], nodes[i + 1]>>) ELSE nodes[i]

\* A pair, or an odd node with itself.
HashPair(nodes, i) ==
    IF i + 1 <= Len(nodes) THEN hash(<<nodes[i], nodes[i + 1]>>) ELSE hash(<<nodes[i], nodes[i]>>)

RECURSIVE computeRoot(_)
computeRoot(nodes) ==
    IF nodes = <<>> THEN emptyHash
    ELSE IF Len(nodes) = 1 THEN nodes[1]
    ELSE computeRoot([n \in 1 .. ((Len(nodes) + 1) \div 2) |-> HashPair(nodes, 2 * n - 1)])

\* NewMerkleTree hashes its data first.
TreeRoot(data) == IF data = <<>> THEN emptyHash ELSE computeRoot(Hashed(data))

-----------------------------------------------------------------------------
SameLengths(r, s) ==
    /\ Len(r.assignment) = Len(s.assignment) /\ Len(r.intent) = Len(s.intent)
    /\ Len(r.agent) = Len(s.agent)

\* Lists of one length with one root name, place by place, the same assignment, intent and agent
\* at the same time, provided the ids have the same lengths; otherwise they agree in what is
\* written one after the other.  Of results a root says nothing.  (A list of odd length and the
\* list with its last entry doubled share a root.)
RootBindsList ==
    ComputeEventRoot(mine) = ComputeEventRoot(theirs) =>
        \A n \in DOMAIN mine :
          /\ Written(mine[n]) = Written(theirs[n])
          /\ SameLengths(mine[n], theirs[n]) =>
               /\ mine[n].assignment = theirs[n].assignment /\ mine[n].intent = theirs[n].intent
               /\ mine[n].agent = theirs[n].agent /\ mine[n].time = theirs[n].time

\* The loop and the recursion compute the same root of the same entries.
TreesAgree == mine # <<>> => TreeRoot(WrittenAll(mine)) = ComputeEventRoot(mine)
=============================================================================
