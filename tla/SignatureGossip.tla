--------------------------- MODULE SignatureGossip ---------------------------
(***************************************************************************)
(* The Raft+Gossip engine behind the ConsensusEngine interface             *)
(* (internal/consensus/raft/consensus.go) with its gossip layer            *)
(* (gossip_manager.go, gossip_delegate.go): checkpoints are committed by   *)
(* Raft, signatures of checkpoints are spread by memberlist and counted by *)
(* every node on its own.                                                  *)
(*                                                                         *)
(* A signature carries its signer but no epoch: the receiver files it      *)
(* under the epoch of its own latest checkpoint.  memberlist takes queued  *)
(* messages from the delegate and sends them to some of the other nodes,   *)
(* once, over UDP; one that is lost stays under way for ever.              *)
(*                                                                         *)
(* The two steps of BroadcastSignature (file, queue) and of the receiver   *)
(* (read the latest epoch, file) are each one action: the second step      *)
(* commutes with those of other goroutines that may come between.          *)
(***************************************************************************)
EXTENDS Naturals, Sequences, FiniteSets, SequencesExt

CONSTANTS
    Nodes,          \* validators
    MaxEpoch,       \* bound: checkpoints
    MaxSigns,       \* bound: signatures broadcast
    MaxStops        \* bound: nodes that stop

VARIABLES
    engine,         \* each node: "created", "ready" or "stopped"
    committed,      \* checkpoints in the Raft log, one per epoch
    latest,         \* epoch of each node's latest checkpoint
    signatures,     \* each node: epoch -> signatures filed under it
    queue,          \* each node's delegate: messages to be broadcast
    net,            \* messages under way, with their receivers
    broadcast,      \* history: every signature for which BroadcastSignature was called
    handed          \* history: what memberlist took from the delegates

gossipVars == <<engine, committed, latest, signatures, queue, net, broadcast, handed>>

\* NewConsensus: Raft and gossip run from here on.
GossipInit ==
    /\ engine = [n \in Nodes |-> "created"]
    /\ committed = 0
    /\ latest = [n \in Nodes |-> 0]
    /\ signatures = [n \in Nodes |-> [e \in 0 .. MaxEpoch |-> {}]]
    /\ queue = [n \in Nodes |-> <<>>]
    /\ net = {} /\ broadcast = {} /\ handed = {}

-----------------------------------------------------------------------------
(* Start, Stop and Raft                                                    *)

IsReady(n) == engine[n] = "ready"
Running(n) == engine[n] # "stopped"

Start(n) ==
    /\ engine[n] = "created"
    /\ engine' = [engine EXCEPT ![n] = "ready"]
    /\ UNCHANGED <<committed, latest, signatures, queue, net, broadcast, handed>>

\* Gossip is left and shut down, then Raft.  An engine that was not started stays as it is.
Stop(n) ==
    /\ engine[n] = "ready" /\ Cardinality({m \in Nodes : ~Running(m)}) < MaxStops
    /\ engine' = [engine EXCEPT ![n] = "stopped"]
    /\ UNCHANGED <<committed, latest, signatures, queue, net, broadcast, handed>>

\* On the leader, which may be any node.
ProposeCheckpoint(n) ==
    /\ IsReady(n) /\ committed < MaxEpoch
    /\ committed' = committed + 1
    /\ UNCHANGED <<engine, latest, signatures, queue, net, broadcast, handed>>

OnCheckpointCommitted(n) ==
    /\ Running(n) /\ latest[n] < committed
    /\ latest' = [latest EXCEPT ![n] = @ + 1]
    /\ UNCHANGED <<engine, committed, signatures, queue, net, broadcast, handed>>

-----------------------------------------------------------------------------
(* Signatures                                                              *)

\* Faulty: a list of signatures instead of a map by signer.
storeSignatureAlways(n, sig, epoch) ==
    [signatures EXCEPT ![n][epoch] = @ \cup {sig}]

\* A later signature of a signer replaces the earlier one.
storeSignature(n, sig, epoch) ==
    [signatures EXCEPT ![n][epoch] = {s \in @ : s.signer # sig.signer} \cup {sig}]

\* GossipManager hands it to the delegate.
QueueSignature(n, sig) == [queue EXCEPT ![n] = Append(@, sig)]

\* The node's own signature is filed under the epoch it is for and given to the delegate.
BroadcastSignature(n) ==
    /\ IsReady(n) /\ Cardinality(broadcast) < MaxSigns
    /\ \E epoch \in 1 .. latest[n] :
         LET sig == [signer |-> n, made |-> epoch]
         IN  /\ sig \notin broadcast
             /\ broadcast' = broadcast \cup {sig}
             /\ signatures' = storeSignature(n, sig, epoch)
             /\ queue' = QueueSignature(n, sig)
    /\ UNCHANGED <<engine, committed, latest, net, handed>>

\* Faulty: what does not fit is dropped with the rest of the queue.
GetBroadcastsLimited(n) == {queue[n][1]}

\* All of the queue, whatever the limit.
GetBroadcasts(n) == Range(queue[n])

\* The other members.  NewGossipManager joins the seeds and goes on when it cannot: a node that
\* is not a member yet, or that memberlist does not choose, is one that never receives.
Members(n) == Nodes \ {n}

\* memberlist takes the queue, which the delegate clears.
Gossip(n) ==
    /\ Running(n) /\ queue[n] # <<>>
    /\ net' = net \cup (Members(n) \X GetBroadcasts(n))
    /\ handed' = handed \cup GetBroadcasts(n)
    /\ queue' = [queue EXCEPT ![n] = <<>>]
    /\ UNCHANGED <<engine, committed, latest, signatures, broadcast>>

handleSignature(n, sig, epoch) == storeSignature(n, sig, epoch)

\* NotifyMsg skips the node's own signatures; the handler takes the latest checkpoint's epoch.
NotifyMsg(n, sig) ==
    /\ Running(n) /\ <<n, sig>> \in net /\ sig.signer # n
    /\ net' = net \ {<<n, sig>>}
    /\ signatures' = handleSignature(n, sig, latest[n])
    /\ UNCHANGED <<engine, committed, latest, queue, broadcast, handed>>

GetSignatures(n, epoch) == signatures[n][epoch]

RequiredSignatures == 3

CheckThreshold(n, epoch) == Cardinality(GetSignatures(n, epoch)) >= RequiredSignatures

GossipNext ==
    \E n \in Nodes :
         \/ Start(n) \/ Stop(n) \/ ProposeCheckpoint(n) \/ OnCheckpointCommitted(n)
         \/ BroadcastSignature(n) \/ Gossip(n)
         \/ \E sig \in broadcast : NotifyMsg(n, sig)

-----------------------------------------------------------------------------
\* An epoch that reaches the threshold has the signatures of three validators, although one
\* validator's signatures of several epochs may all be filed under it.
ThresholdIsThreeValidators ==
    \A n \in Nodes, epoch \in 1 .. MaxEpoch :
        CheckThreshold(n, epoch) =>
            Cardinality({sig.signer : sig \in {s \in broadcast : s.made <= committed}}) >= RequiredSignatures

\* A signature accepted for broadcast waits in the queue or has been given to memberlist.
NoBroadcastLost ==
    \A n \in Nodes : \A sig \in broadcast :
        sig.signer = n => sig \in Range(queue[n]) \cup handed

\* Neither a node's count of signatures nor the way of a signature to memberlist can deceive.
GossipInv == ThresholdIsThreeValidators /\ NoBroadcastLost
=============================================================================
