------------------------------ MODULE MCLibrary ------------------------------
(***************************************************************************)
(* Model checking the parts that keep state of their own behind a mutex:   *)
(* the matcher's library (MatcherLibrary, which extends its five parts),   *)
(* the streams of the agents (IntentStream), the stores (Stores), signer   *)
(* bitmaps (SignerBitmaps), Merkle roots (MerkleRoots) and the             *)
(* configuration of a validator (NodeConfig).                              *)
(*                                                                         *)
(* These parts share no state, so nothing is gained by interleaving them:  *)
(* `part' names the one that a behaviour runs.  The bounds of the          *)
(* matcher's parts are in the configuration, those of the others with      *)
(* their INSTANCE.                                                         *)
(***************************************************************************)
EXTENDS MatcherLibrary, IntentStream

CONSTANT i1

VARIABLE part

MCPrice == [a \in {"a1", "a2"} |-> IF a = "a1" THEN 1 ELSE 2]

\* Two batches on two intents, one of them on an intent that the matcher does not know.
MCBatches ==
    {<<[id |-> "b1", intent |-> "i1"]>>,
     <<[id |-> "b2", intent |-> "i1"], [id |-> "b3", intent |-> "i2"], [id |-> "b4", intent |-> "i1"]>>,
     <<[id |-> "b5", intent |-> "i3"], [id |-> "b6", intent |-> "i2"]>>}

\* Epochs whose decimal forms sort the other way round.
VARIABLES mem, db, storeCalls
Store == INSTANCE Stores WITH
    Epochs <- {9, 10}, Validators <- {"v1", "v2"}, Intents <- {"i1"}, Agents <- {"a1", "a2"},
    Records <- {"r1"}, Blobs <- {"b1", "b2"}, ListLimit <- 2, MaxCalls <- 4, calls <- storeCalls
storeVars == <<mem, db, storeCalls>>

\* Sets of two and nine validators: part of a byte, one bit more than a byte, and, when one of
\* the nine is removed, a full byte.
VARIABLES validators, state, header, bitmap, signers, edits
Bitmaps == INSTANCE SignerBitmaps WITH
    Ids <- 1..10, Changing <- {1, 10}, Sizes <- {2, 9}, ThresholdNum <- 3, ThresholdDenom <- 4,
    MaxEdits <- 2, signed <- signers
bitmapsVars == <<validators, state, header, bitmap, signers, edits>>

\* A report, one in which a character has moved to the next id and the result differs, and one
\* of another intent.
MCReport ==
    [assignment |-> <<"a", "b">>, intent |-> <<"c">>, agent |-> <<"d">>, time |-> 1, result |-> "ok"]
MCReports ==
    {MCReport,
     [MCReport EXCEPT !.assignment = <<"a">>, !.intent = <<"b", "c">>, !.result = "failed"],
     [MCReport EXCEPT !.intent = <<"d">>]}

VARIABLES mine, theirs
Merkle == INSTANCE MerkleRoots WITH Reports <- MCReports, MaxReports <- 5
merkleVars == <<mine, theirs>>

\* A shared subnet file with and without the chain, TLS, peers, Raft and readable durations; a
\* validator's own file that sets some values and none; flags that select and override them.
Address(h) == <<h, "7000">>

SubnetFile ==
    [id |-> "", subnetID |-> "0xs", port |-> 0, shortTimeouts |-> FALSE, executor |-> "", signer |-> "ecdsa",
     key |-> "k", policy |-> "", tls |-> TRUE, demoSigners |-> FALSE, durations |-> TRUE, storage |-> "", root |-> "r",
     chain |-> [enabled |-> FALSE, rpc |-> "", contract |-> "", ttl |-> ""],
     raft |-> [enable |-> TRUE, bootstrap |-> FALSE, bind |-> "", peers |-> <<>>],
     gossip |-> [enable |-> TRUE, seeds |-> <<>>],
     set |-> [min |-> 2, num |-> 2, denom |-> 3, validators |->
                <<[id |-> "v1", raft |-> Address("h1"), gossip |-> Address("h1"), endpoint |-> Address("h1")],
                  [id |-> "v2", raft |-> Address("h2"), gossip |-> <<>>, endpoint |-> <<"", "", "1">>],
                  [id |-> "v3", raft |-> <<>>, gossip |-> <<>>, endpoint |-> <<>>]>>]]

MCSubnetFiles ==
    {SubnetFile,
     [SubnetFile EXCEPT !.chain = [enabled |-> TRUE, rpc |-> "u", contract |-> "0xsubnet", ttl |-> ""]],
     [SubnetFile EXCEPT !.chain.enabled = TRUE, !.tls = FALSE],
     [SubnetFile EXCEPT !.raft.peers = <<[id |-> "v2", address |-> <<"", "", "1">>]>>],
     [SubnetFile EXCEPT !.raft.enable = FALSE],
     [SubnetFile EXCEPT !.durations = FALSE]}

PlainFile ==
    [SubnetFile EXCEPT !.root = "", !.raft.enable = FALSE, !.gossip.enable = FALSE, !.set.validators = <<>>]

MCValidatorFiles ==
    {PlainFile, [PlainFile EXCEPT !.raft.enable = TRUE], [PlainFile EXCEPT !.port = 9191, !.storage = "d", !.raft.bind = "b",
                                  !.raft.peers = <<[id |-> "v1", address |-> Address("h9")]>>]}

\* Flags with the values of cmd/validator/main.go.
Flags ==
    [files |-> "split", id |-> "", storage |-> "./data", port |-> 9090,
     raftEnable |-> FALSE, raftBootstrap |-> FALSE, raftBind |-> "127.0.0.1:7000", raftPeers |-> <<>>,
     gossipEnable |-> FALSE, gossipSeeds |-> <<>>, endpoints |-> <<>>,
     type |-> "raft", count |-> 4, num |-> 3, denom |-> 4, pubkeys |-> <<>>, key |-> "",
     root |-> "", enableRoot |-> FALSE,
     home |-> "./cometbft-data", chainEnabled |-> FALSE, chainRPC |-> "", contract |-> "", cacheSize |-> 1024]

Keys == <<[id |-> "v1", key |-> <<"v1", "k1">>], [id |-> "v2", key |-> <<"v2", "k2">>]>>

MCFlagSets ==
    {Flags,
     [Flags EXCEPT !.files = "none"],
     [Flags EXCEPT !.files = "own only"],
     [Flags EXCEPT !.raftEnable = TRUE, !.pubkeys = Keys, !.key = "k1"],
     [Flags EXCEPT !.pubkeys = Keys, !.key = "k1"],
     [Flags EXCEPT !.pubkeys = Keys, !.key = "k2"],
     [Flags EXCEPT !.pubkeys = Keys, !.key = "not a key", !.home = ""],
     [Flags EXCEPT !.pubkeys = Keys, !.files = "single", !.num = 1, !.type = "cometbft", !.home = ""],
     [Flags EXCEPT !.raftPeers = <<<<"v1", "h1", "1">>, <<"v2", "h2", "2">>>>, !.chainEnabled = TRUE, !.pubkeys = Keys, !.chainRPC = "u"]}

VARIABLES inputs, stage, file, flags, config
Config == INSTANCE NodeConfig WITH
    Nodes <- {"v1", "v2"}, SubnetFiles <- MCSubnetFiles, ValidatorFiles <- MCValidatorFiles,
    FlagSets <- MCFlagSets, Plain <- "v1"
configVars == <<inputs, stage, file, flags, config>>

-----------------------------------------------------------------------------
otherVars == <<storeVars, bitmapsVars, merkleVars, configVars>>
vars == <<part, auctionVars, managerVars, distributorVars, feedVars, bidVars, streamVars, otherVars>>

\* The part that runs; the others of these have no state.
OtherInit ==
    /\ IF part = "stores" THEN Store!Init
       ELSE mem = <<>> /\ db = <<>> /\ storeCalls = <<>>
    /\ IF part = "bitmaps" THEN Bitmaps!BitmapInit
       ELSE validators = <<>> /\ state = <<>> /\ header = <<>> /\ bitmap = <<>>
            /\ signers = <<>> /\ edits = <<>>
    /\ IF part = "merkle" THEN Merkle!MerkleInit
       ELSE mine = <<>> /\ theirs = <<>>
    /\ IF part = "config" THEN Config!Init
       ELSE inputs = <<>> /\ stage = <<>> /\ file = <<>> /\ flags = <<>> /\ config = <<>>

\* A part of the matcher that does not run stays at its initial state.
Init ==
    /\ part \in {"auction", "manager", "distributor", "feed", "bids", "streams", "stores",
                 "bitmaps", "merkle", "config"}
    /\ AuctionInit /\ ManagerInit /\ FeedInit /\ BidInit /\ StreamInit
    /\ DistributorInit
    /\ part # "distributor" => intent = [kind |-> "other", remaining |-> 0, priority |-> "normal"]
    /\ OtherInit

Next ==
    \/ /\ part = "auction" /\ AuctionNext
       /\ UNCHANGED <<part, managerVars, distributorVars, feedVars, bidVars, streamVars, otherVars>>
    \/ /\ part = "manager" /\ ManagerNext
       /\ UNCHANGED <<part, auctionVars, distributorVars, feedVars, bidVars, streamVars, otherVars>>
    \/ /\ part = "distributor" /\ DistributorNext
       /\ UNCHANGED <<part, auctionVars, managerVars, feedVars, bidVars, streamVars, otherVars>>
    \/ /\ part = "feed" /\ FeedNext
       /\ UNCHANGED <<part, auctionVars, managerVars, distributorVars, bidVars, streamVars, otherVars>>
    \/ /\ part = "bids" /\ BidNext
       /\ UNCHANGED <<part, auctionVars, managerVars, distributorVars, feedVars, streamVars, otherVars>>
    \/ /\ part = "streams" /\ StreamNext
       /\ UNCHANGED <<part, auctionVars, managerVars, distributorVars, feedVars, bidVars, otherVars>>
    \/ /\ UNCHANGED <<part, auctionVars, managerVars, distributorVars, feedVars, bidVars, streamVars>>
       /\ \/ /\ part = "stores" /\ Store!Next
             /\ UNCHANGED <<bitmapsVars, merkleVars, configVars>>
          \/ /\ part = "bitmaps" /\ Bitmaps!BitmapNext
             /\ UNCHANGED <<storeVars, merkleVars, configVars>>
          \/ /\ part = "merkle" /\ Merkle!MerkleNext
             /\ UNCHANGED <<storeVars, bitmapsVars, configVars>>
          \/ /\ part = "config" /\ Config!Next
             /\ UNCHANGED <<storeVars, bitmapsVars, merkleVars>>

Spec == Init /\ [][Next]_vars

\* Bounds of the search: no more than two tasks are being handed over or monitored, lists under
\* a Merkle root differ in two places at most, and the search of the streams ends with main.
\* Their intents are alike: the first one submitted is called i1.
MCBounds ==
    /\ Cardinality(handing) + Cardinality(monitored) <= 2
    /\ part = "merkle" => Cardinality({n \in DOMAIN mine : mine[n] # theirs[n]}) <= 2
    /\ phase # "exited"
    /\ rootPending # <<>> => rootPending[1] = i1

-----------------------------------------------------------------------------
(* What the runs check of each part; the parts' modules explain the names  *)

\* The code has two stores, two bitmaps and two Merkle trees.  What is saved is found again: both
\* stores give the same headers in the same order, the same records and all evidence, though all
\* kinds of values share one key space.  Both bitmaps of a header name its signers, also beyond
\* the first byte and after the set was sorted again.  An event root binds what is hashed, by
\* both trees.
DataInv ==
    /\ part = "stores" =>
        /\ Store!ReadsAgree /\ Store!HeadersAgree /\ Store!EvidenceKept
        /\ Store!QueryFindsEvidence /\ Store!RecordsAgree
    /\ part = "bitmaps" => Bitmaps!SignersNamed /\ Bitmaps!AllSignedReaches
    /\ part = "merkle" => Merkle!RootBindsList /\ Merkle!TreesAgree

\* Whichever mix of files and flags they were started with, nodes of one subnet file agree on
\* the validator set and its order, and Raft gets the peers that were written for it.
ConfigInv ==
    part = "config" =>
        Config!PeersSurvive /\ Config!ValidatorSetsAgree

\* A node that runs Raft from the two files the deployment guide shows has the peers the guide
\* promises.  It is violated: the files must enable Raft, --raft-enable does not do.
PeersExtracted == part = "config" => Config!PeersExtracted
=============================================================================
