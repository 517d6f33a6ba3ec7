----------------------------- MODULE MCServices -----------------------------
(***************************************************************************)
(* Model checking the services around the consensus: signed calls          *)
(* (AuthInterceptor), on-chain participants (ParticipantVerifier), signed  *)
(* messages (SignedMessages), the rules and scores of execution reports    *)
(* (ReportRules), the RootLayer client (RootLayerClient), the spreading of *)
(* checkpoint signatures (SignatureGossip), the submission of bundles      *)
(* (BundleSubmission) and the chain of checkpoints (CheckpointChain).      *)
(*                                                                         *)
(* These parts share no state, so nothing is gained by interleaving them:  *)
(* `part' names the one that a behaviour runs.  The bounds of a part are   *)
(* in the configuration, those of the chain with its INSTANCE.            *)
(***************************************************************************)
EXTENDS AuthInterceptor, RootLayerClient, SignatureGossip, ReportRules, ParticipantVerifier,
        SignedMessages, BundleSubmission

CONSTANTS nonce2, n1, n2

VARIABLE part

\* Reports of every status; one that is late, two that are large (with and without the evidence
\* a large result takes), two of an assignment that the caller does not know.
Evidence == {"proof", "environment", "inputs", "outputs"}
Report(status, result, error, evidence, usage, assignment, ts) ==
    [status |-> status, result |-> result, error |-> error, evidence |-> evidence,
     usage |-> usage, assignment |-> assignment, ts |-> ts]
MCReports ==
    {Report("success", 1, "none", Evidence, "sane", "t1", 1),
     Report("success", 1, "none", Evidence, "none", "t2", 1),
     Report("success", 1, "none", Evidence, "none", "t1", 3),
     Report("success", 2, "none", Evidence, "sane", "t1", 1),
     Report("success", 2, "none", Evidence \cup {"transcript", "references"}, "sane", "t1", 2),
     Report("failed", 0, "given", Evidence, "none", "t2", 2),
     Report("partial", 0, "none", Evidence, "none", "t1", 1),
     Report("partial", 0, "none", {}, "unrealistic", "t1", 0)}
MCAssignmentTimes == [t \in {"t1"} |-> 1]
MCPolicies == [min : 0..1, max : {0, 1, 3}, proof : {TRUE}, confidence : {0, 100}]

\* A report whose group can be built and one whose group cannot, submitted twice over.
MCIntentOf == [r \in {"r1", "r2"} |-> IF r = "r1" THEN "i1" ELSE "incomplete"]

VARIABLES finalized, checkpoints, chainLatest, stored, added, restarts
Chain == INSTANCE CheckpointChain WITH
    Nodes <- {"n1", "n2"}, Epochs <- {1, 2}, Roots <- {"r1", "empty"}, Signatures <- {1, 2},
    MaxRestarts <- 1, latest <- chainLatest
chainVars == <<finalized, checkpoints, chainLatest, stored, added, restarts>>

-----------------------------------------------------------------------------
serviceVars == <<authVars, verifierVars, messagesVars, ruleVars, clientVars, gossipVars, bundleVars>>
vars == <<part, serviceVars, chainVars>>

\* A part that does not run stays at its initial state.
Init ==
    /\ part \in {"auth", "verifier", "messages", "rules", "client", "gossip", "bundles", "chain"}
    /\ IF part = "chain" THEN Chain!ChainInit
       ELSE finalized = <<>> /\ checkpoints = <<>> /\ chainLatest = <<>> /\ stored = <<>>
            /\ added = <<>> /\ restarts = <<>>
    /\ AuthInit /\ ClientInit /\ GossipInit /\ MessagesInit /\ BundleInit
    /\ RulesInit /\ (part # "rules" => policy = CHOOSE p \in Policies : TRUE)
    /\ VerifierInit /\ (part # "verifier" => registered = [a \in Addresses |-> FALSE])

Next ==
    \/ /\ part = "auth" /\ AuthNext
       /\ UNCHANGED <<part, verifierVars, messagesVars, ruleVars, clientVars, gossipVars,
                      bundleVars, chainVars>>
    \/ /\ part = "verifier" /\ VerifierNext
       /\ UNCHANGED <<part, authVars, messagesVars, ruleVars, clientVars, gossipVars,
                      bundleVars, chainVars>>
    \/ /\ part = "messages" /\ MessagesNext
       /\ UNCHANGED <<part, authVars, verifierVars, ruleVars, clientVars, gossipVars,
                      bundleVars, chainVars>>
    \/ /\ part = "rules" /\ RulesNext
       /\ UNCHANGED <<part, authVars, verifierVars, messagesVars, clientVars, gossipVars,
                      bundleVars, chainVars>>
    \/ /\ part = "client" /\ ClientNext
       /\ UNCHANGED <<part, authVars, verifierVars, messagesVars, ruleVars, gossipVars,
                      bundleVars, chainVars>>
    \/ /\ part = "gossip" /\ GossipNext
       /\ UNCHANGED <<part, authVars, verifierVars, messagesVars, ruleVars, clientVars,
                      bundleVars, chainVars>>
    \/ /\ part = "bundles" /\ BundleNext
       /\ UNCHANGED <<part, authVars, verifierVars, messagesVars, ruleVars, clientVars,
                      gossipVars, chainVars>>
    \/ /\ part = "chain" /\ Chain!ChainNext
       /\ UNCHANGED <<part, serviceVars>>

Spec == Init /\ [][Next]_vars

\* Bounds of the search: of two requests the one with nonce2 is complete and well signed.  Nodes
\* that gossip are alike: the one that stops is called n3.
MCBounds ==
    /\ \A r \in sent : r.nonce = nonce2 => r.key /\ r.good
    /\ Running(n1) /\ Running(n2)

-----------------------------------------------------------------------------
\* Two nodes with the same latest checkpoint accept the same children, in whatever order each
\* of them put the signatures into the header; a checkpoint loaded after a restart has the
\* hash it was added with.
ChainInv == part = "chain" => Chain!SameLatestSameHash /\ Chain!LoadedAsAdded
=============================================================================
