----------------------------- MODULE RaftValidator -----------------------------
(***************************************************************************)
(* The validator node in Raft + gossip mode: internal/validator/node.go,   *)
(* handlers.go, internal/consensus/raft and internal/consensus/            *)
(* chain_manager.go.                                                       *)
(*                                                                         *)
(* Execution reports and checkpoint headers are replicated through a Raft  *)
(* log.  RaftFSM.Apply hands every committed entry to the node in a        *)
(* goroutine of its own, so the handlers run late and in any order (this   *)
(* delay also stands for a follower whose log lags behind).  A             *)
(* committed checkpoint makes each node sign it, sign one ValidationBundle *)
(* digest for the epoch over the intents it has pending, and gossip both   *)
(* signatures.  The leader submits to RootLayer when either collection     *)
(* reaches its threshold: the two collections start two different          *)
(* submission goroutines.                                                  *)
(*                                                                         *)
(* One action is one critical section of n.mu, with the unlocked code that *)
(* follows it up to the next one.  External parts, modelled from how the   *)
(* node uses them: hashicorp/raft (log, leadership), memberlist (gossip),  *)
(* RootLayer (accepted).                                                   *)
(***************************************************************************)
EXTENDS ValidatorSet, Sequences

CONSTANTS
    Reports,             \* execution reports; one value per report key
    IntentOf,            \* report -> its intent key (intent:assignment:agent)
    MaxIntentsPerEpoch,  \* node.go constant of that name
    NoHeader,            \* the nil *pb.CheckpointHeader
    MaxLog,              \* bound: entries of the Raft log
    MaxEpoch,            \* bound: highest epoch proposed
    MaxProposals,        \* bound: headers ever built
    RootLayerMayFail,    \* whether RootLayer may be unreachable or a call fail
    MaxElections,        \* bound: leader changes
    MaxRestarts          \* bound: restarts of each node

\* Intent keys are naturals so that the key order that breaks FIFO ties is <.
ASSUME ReportsAssumption == IsFiniteSet(Reports) /\ IntentOf \in [Reports -> Nat]

ASSUME BoundsAssumption ==
    /\ MaxIntentsPerEpoch \in Nat \ {0}
    /\ MaxLog \in Nat
    /\ MaxEpoch \in Nat
    /\ MaxProposals \in Nat
    /\ MaxElections \in Nat
    /\ MaxRestarts \in Nat
    /\ RootLayerMayFail \in BOOLEAN

Intents == {IntentOf[r] : r \in Reports}
Epochs == 0..MaxEpoch
HeaderIds == 1..MaxProposals

\* A hash is the list of header ids from the oldest ancestor to the header, an
\* injective stand-in for SHA-256; <<>> is the empty ParentCpHash.  The id
\* stands for timestamp, roots and proposer signature: no two proposals share it.
Hashes == Seq(HeaderIds)

Header == [id : HeaderIds, epoch : Epochs, parent : Hashes, proposer : Validators]

ASSUME NoHeaderAssumption == NoHeader \notin Header

Hash(h) == Append(h.parent, h.id)

CheckpointSig == [signer : Validators, hash : Hashes]

\* The digest signed for an epoch covers the header and the ordered items.
Digest == [hash : Hashes, intents : Seq(Intents)]
BundleSig == [signer : Validators, digest : Digest]

Signers(sigs) == {s.signer : s \in sigs}

Entry == [type : {"report"}, report : Reports]
           \cup [type : {"checkpoint"}, header : Header]

\* A checkpoint signature is gossiped in the form it was made in: R||S||V in 65
\* bytes, or DER.
Message == [type : {"signature"}, signer : Validators, hash : Hashes, form : {"rsv", "der"}]
             \cup [type : {"bundle"}, signer : Validators, epoch : Epochs, digest : Digest]

\* Goroutines between two critical sections, with the copies they carry.
Task == [kind : {"sign"}, header : Header, intents : SUBSET Intents]
          \cup [kind : {"store"}, header : Header, fifo : Seq(Intents)]
          \cup [kind : {"broadcast"}, header : Header]
          \cup [kind : {"finalize"}]
          \cup [kind : {"submit"}, epoch : Epochs]
          \cup [kind : {"sleep"}, path : {"checkpoint", "bundle"}, header : Header,
                intents : SUBSET Intents]
          \cup [kind : {"clear"}, intents : SUBSET Intents]

Proposal == [phase : {"idle"}]
              \cup [phase : {"building"}, parent : Hashes]
              \cup [phase : {"applying"}, header : Header]

Idle == [phase |-> "idle"]

Store == [latest : Epochs \cup {-1},
          headers : [Epochs -> Header \cup {NoHeader}],
          sigs : [Epochs -> SUBSET CheckpointSig]]

Signing == [signer : Validators, epoch : Epochs, digest : Digest]

VARIABLES
    \* hashicorp/raft
    leader,             \* the leader of the latest term
    leaders,            \* nodes whose raft.State() is Leader, deposed ones included
    log,                \* committed entries
    replicating,        \* header appended by the leader and not yet committed
    elections,
    handled,            \* per node: log entries whose handler goroutine has run
    \* Node fields
    pendingReports,
    receivedAt,         \* reportReceivedAt; 0 is "no entry"
    currentEpoch,
    currentCheckpoint,
    signatures,
    chainLatest,        \* chain.latest
    proposal,           \* where proposeCheckpointRaft stands
    proposals,          \* headers built so far, the source of ids
    epochIntents,       \* <<>> is "no entry"
    epochSigs,          \* epochValidationSignatures
    triggered,          \* epochSubmissionTriggered
    tasks,
    \* process and disk
    status,
    restarts,
    store,              \* LevelDB
    \* network and RootLayer
    gossip,             \* every message ever queued for gossip
    accepted,           \* intents RootLayer has accepted
    sent,               \* history, per life of a node: epochs whose batch
                        \* submitValidationBundlesForEpoch has sent
    signed              \* history: ValidationBatch digests signed

raftVars == <<leader, leaders, log, replicating, elections>>
reportVars == <<pendingReports, receivedAt>>
checkpointVars == <<currentEpoch, currentCheckpoint, signatures, chainLatest>>
proposalVars == <<proposal, proposals>>
bundleVars == <<epochSigs, triggered>>
processVars == <<status, restarts>>
rootVars == <<accepted, sent>>

vars == <<leader, leaders, log, replicating, elections, handled,
          pendingReports, receivedAt, currentEpoch, currentCheckpoint, signatures,
          chainLatest, proposal, proposals, epochIntents, epochSigs, triggered, tasks,
          status, restarts, store, gossip, accepted, sent, signed>>

Up(n) == status[n] = "up"
IsLeader(n) == n \in leaders

-----------------------------------------------------------------------------
\* NewNode with an empty store; the first leader has been elected.
Init ==
    /\ leader \in Validators
    /\ leaders = {leader}
    /\ log = <<>>
    /\ replicating = NoHeader
    /\ elections = 0
    /\ handled = [n \in Validators |-> {}]
    /\ pendingReports = [n \in Validators |-> {}]
    /\ receivedAt = [n \in Validators |-> [i \in Intents |-> 0]]
    /\ currentEpoch = [n \in Validators |-> 0]
    /\ currentCheckpoint = [n \in Validators |-> NoHeader]
    /\ signatures = [n \in Validators |-> {}]
    /\ chainLatest = [n \in Validators |-> NoHeader]
    /\ proposal = [n \in Validators |-> Idle]
    /\ proposals = 0
    /\ epochIntents = [n \in Validators |-> [e \in Epochs |-> <<>>]]
    /\ epochSigs = [n \in Validators |-> [e \in Epochs |-> {}]]
    /\ triggered = [n \in Validators |-> {}]
    /\ tasks = [n \in Validators |-> {}]
    /\ status = [n \in Validators |-> "up"]
    /\ restarts = [n \in Validators |-> 0]
    /\ store = [n \in Validators |->
                  [latest |-> -1, headers |-> [e \in Epochs |-> NoHeader],
                   sigs |-> [e \in Epochs |-> {}]]]
    /\ gossip = {}
    /\ accepted = {}
    /\ sent = [n \in Validators |-> {}]
    /\ signed = {}

-----------------------------------------------------------------------------
(***************************************************************************)
(* hashicorp/raft (external)                                               *)
(***************************************************************************)

\* A new term.  The entry the old leader was replicating is in the new leader's
\* log or it is lost.  The old leader may not know yet that it is deposed.
Elect(n) ==
    /\ elections < MaxElections
    /\ Up(n) /\ ~(n = leader /\ IsLeader(n))
    /\ elections' = elections + 1
    /\ leader' = n
    /\ leaders' = leaders \cup {n}
    /\ replicating' = NoHeader
    /\ \/ log' = log
       \/ /\ replicating # NoHeader /\ Len(log) < MaxLog
          /\ log' = Append(log, [type |-> "checkpoint", header |-> replicating])
    /\ UNCHANGED <<handled, reportVars, checkpointVars, proposalVars, epochIntents,
                   bundleVars, tasks, processVars, store, gossip, rootVars, signed>>

\* A leader loses its quorum or learns of a newer term.  (Bound: the last leader
\* the instance may elect stays.)
StepDown(n) ==
    /\ IsLeader(n) /\ (n # leader \/ elections < MaxElections)
    /\ leaders' = leaders \ {n}
    /\ UNCHANGED <<leader, log, replicating, elections, handled, reportVars,
                   checkpointVars, proposalVars, epochIntents, bundleVars, tasks,
                   processVars, store, gossip, rootVars, signed>>

CommitCheckpoint ==
    /\ replicating # NoHeader /\ leader \in leaders /\ Len(log) < MaxLog
    /\ log' = Append(log, [type |-> "checkpoint", header |-> replicating])
    /\ replicating' = NoHeader
    /\ UNCHANGED <<leader, leaders, elections, handled, reportVars, checkpointVars,
                   proposalVars, epochIntents, bundleVars, tasks, processVars, store,
                   gossip, rootVars, signed>>

-----------------------------------------------------------------------------
(***************************************************************************)
(* Execution reports                                                       *)
(***************************************************************************)

\* processExecutionReportRaft on the leader: not pending here, so replicate it.
\* Only the leader of the latest term commits; on a deposed one Apply fails and
\* nothing changes.  A follower forwards to the leader.
ProcessExecutionReport(n, r) ==
    /\ Up(n) /\ IsLeader(n) /\ n = leader
    /\ r \notin pendingReports[n]
    /\ Len(log) < MaxLog
    /\ log' = Append(log, [type |-> "report", report |-> r])
    /\ UNCHANGED <<leader, leaders, replicating, elections, handled, reportVars,
                   checkpointVars, proposalVars, epochIntents, bundleVars, tasks,
                   processVars, store, gossip, rootVars, signed>>

\* Wall-clock seconds as dense ranks: a new reading equals the latest one or is
\* one above it.
ClockReadings(n) ==
    {t \in 1..MaxLog : /\ \A i \in Intents : receivedAt[n][i] <= t
                       /\ t = 1 \/ \E i \in Intents : receivedAt[n][i] \in {t - 1, t}}

OnExecutionReportCommitted(n, i) ==
    /\ Up(n) /\ i \notin handled[n] /\ log[i].type = "report"
    /\ handled' = [handled EXCEPT ![n] = @ \cup {i}]
    /\ \/ log[i].report \in pendingReports[n] /\ UNCHANGED reportVars
       \/ /\ log[i].report \notin pendingReports[n]
          /\ pendingReports' = [pendingReports EXCEPT ![n] = @ \cup {log[i].report}]
          /\ \E t \in ClockReadings(n) :
               receivedAt' = [receivedAt EXCEPT ![n][IntentOf[log[i].report]] = t]
    /\ UNCHANGED <<raftVars, checkpointVars, proposalVars, epochIntents,
                   bundleVars, tasks, processVars, store, gossip, rootVars, signed>>

PendingIntents(n) == {IntentOf[r] : r \in pendingReports[n]}

-----------------------------------------------------------------------------
(***************************************************************************)
(* Proposing a checkpoint: consensusLoop on the leader                     *)
(***************************************************************************)

\* checkRaftCheckpointTrigger, proposeCheckpointRaft and the first read of
\* buildCheckpointHeader.  The checkpoint interval may always have elapsed.
StartProposal(n) ==
    /\ Up(n) /\ IsLeader(n) /\ proposal[n] = Idle
    /\ pendingReports[n] # {}
    /\ proposals < MaxProposals
    /\ proposal' = [proposal EXCEPT ![n] =
         [phase |-> "building",
          parent |-> IF chainLatest[n] = NoHeader THEN <<>> ELSE Hash(chainLatest[n])]]
    /\ UNCHANGED <<raftVars, handled, reportVars, checkpointVars, proposals, epochIntents,
                   bundleVars, tasks, processVars, store, gossip, rootVars, signed>>

\* The epoch is read, without the lock, after the parent.  The header becomes
\* the current checkpoint before it is replicated.
ProposeCheckpointRaft(n) ==
    /\ Up(n) /\ proposal[n].phase = "building"
    /\ proposals < MaxProposals /\ currentEpoch[n] <= MaxEpoch
    /\ LET h == [id |-> proposals + 1, epoch |-> currentEpoch[n],
                 parent |-> proposal[n].parent, proposer |-> n]
       IN  /\ currentCheckpoint' = [currentCheckpoint EXCEPT ![n] = h]
           /\ signatures' = [signatures EXCEPT ![n] = {[signer |-> n, hash |-> Hash(h)]}]
           /\ proposal' = [proposal EXCEPT ![n] = [phase |-> "applying", header |-> h]]
           /\ replicating' = IF IsLeader(n) /\ n = leader THEN h ELSE replicating
    /\ proposals' = proposals + 1
    /\ UNCHANGED <<leader, leaders, log, elections, handled, reportVars, currentEpoch,
                   chainLatest, epochIntents, bundleVars, tasks, processVars, store,
                   gossip, rootVars, signed>>

\* raft.Apply returns: the entry is committed, or leadership or the entry is
\* lost.  A failed proposal is only logged.
ApplyCheckpointReturns(n) ==
    /\ Up(n) /\ proposal[n].phase = "applying"
    /\ ~IsLeader(n) \/ replicating # proposal[n].header
    /\ proposal' = [proposal EXCEPT ![n] = Idle]
    /\ UNCHANGED <<raftVars, handled, reportVars, checkpointVars, proposals, epochIntents,
                   bundleVars, tasks, processVars, store, gossip, rootVars, signed>>

-----------------------------------------------------------------------------
(***************************************************************************)
(* A committed checkpoint                                                  *)
(***************************************************************************)

\* Chain.AddCheckpoint: increasing epochs, and the parent is the latest header.
ChainAccepts(latest, h) ==
    \/ latest = NoHeader
    \/ h.epoch > latest.epoch /\ h.parent \in {<<>>, Hash(latest)}

\* AddCheckpoint fills in an empty ParentCpHash, which changes the header's hash.
AutoSetParent(latest, h) ==
    IF latest # NoHeader /\ ChainAccepts(latest, h) /\ h.parent = <<>>
    THEN [id |-> h.id, epoch |-> h.epoch, parent |-> Hash(latest), proposer |-> h.proposer]
    ELSE h

\* saveCheckpoint, with the signatures held when it is called.
SaveCheckpoint(n, h) ==
    store' = [store EXCEPT ![n] =
      [latest |-> h.epoch,
       headers |-> [@.headers EXCEPT ![h.epoch] = h],
       sigs |-> IF signatures[n] = {} THEN @.sigs
                ELSE [@.sigs EXCEPT ![h.epoch] = signatures[n]]]]

\* Faulty: trusts the order in which the handlers run.
EpochAfterAnyHeader(n, h) == h.epoch + 1

\* Faulty: leaves an epoch out.
EpochAfterGap(n, h) == IF h.epoch >= currentEpoch[n] THEN h.epoch + 2 ELSE currentEpoch[n]

\* The epoch a node is in after it has seen a committed header.
EpochAfter(n, h) == IF h.epoch >= currentEpoch[n] THEN h.epoch + 1 ELSE currentEpoch[n]

\* Faulty: adds to the signatures of the previous checkpoint.
SignaturesKept(n, h) == signatures[n] \cup {[signer |-> n, hash |-> Hash(h)]}

\* Signatures are reset for a new checkpoint; the node's own is the first.
SignaturesReset(n, h) == {[signer |-> n, hash |-> Hash(h)]}

\* Faulty: gives up on a header that the chain does not accept.
FollowUpIfChained(n, h) ==
    IF ChainAccepts(chainLatest[n], h) THEN {[kind |-> "broadcast", header |-> h]} ELSE {}

\* What the handler does after its first critical section: with nothing pending
\* there is no ValidationBundle to sign.
FollowUp(n, h) ==
    {IF pendingReports[n] = {}
     THEN [kind |-> "broadcast", header |-> h]
     ELSE [kind |-> "sign", header |-> h, intents |-> PendingIntents(n)]}

\* The first critical section of handleCommittedCheckpoint.  A header the chain
\* refuses is logged and handled all the same.
HandleCommittedCheckpoint(n, i) ==
    /\ Up(n) /\ i \notin handled[n] /\ log[i].type = "checkpoint"
    /\ handled' = [handled EXCEPT ![n] = @ \cup {i}]
    /\ LET h == AutoSetParent(chainLatest[n], log[i].header)
       IN  /\ chainLatest' =
                [chainLatest EXCEPT ![n] = IF ChainAccepts(@, log[i].header) THEN h ELSE @]
           /\ SaveCheckpoint(n, h)
           /\ currentCheckpoint' = [currentCheckpoint EXCEPT ![n] = h]
           /\ currentEpoch' = [currentEpoch EXCEPT ![n] = EpochAfter(n, h)]
           /\ signatures' = [signatures EXCEPT ![n] = SignaturesReset(n, h)]
           /\ tasks' = [tasks EXCEPT ![n] = @ \cup FollowUp(n, h)]
    /\ UNCHANGED <<raftVars, reportVars, proposalVars, epochIntents, bundleVars,
                   processVars, gossip, rootVars, signed>>

\* The FIFO order of signAndGossipValidationBundles: reception time, then key;
\* intents without a time come last.
FifoBefore(time, i, j) ==
    IF time[i] = time[j] THEN i < j
    ELSE time[i] # 0 /\ (time[j] = 0 \/ time[i] < time[j])

\* The oldest MaxIntentsPerEpoch intents of S in FIFO order: a singleton set.
FifoSelections(time, S) ==
    LET size == IF Cardinality(S) > MaxIntentsPerEpoch
                THEN MaxIntentsPerEpoch ELSE Cardinality(S)
    IN  {s \in [1..size -> S] :
           /\ \A p, q \in 1..size : p < q => FifoBefore(time, s[p], s[q])
           /\ \A i \in S : \/ \E p \in 1..size : s[p] = i
                           \/ \A p \in 1..size : FifoBefore(time, s[p], i)}

\* signAndGossipValidationBundles up to the write of epochIntents.
SignValidationBundle(n, t) ==
    /\ Up(n) /\ t \in tasks[n] /\ t.kind = "sign"
    /\ \E fifo \in FifoSelections(receivedAt[n], t.intents) :
         /\ epochIntents' = [epochIntents EXCEPT ![n][t.header.epoch] = fifo]
         /\ signed' = signed \cup {[signer |-> n, epoch |-> t.header.epoch,
                                    digest |-> [hash |-> Hash(t.header), intents |-> fifo]]}
         /\ tasks' = [tasks EXCEPT ![n] = (@ \ {t}) \cup
                        {[kind |-> "store", header |-> t.header, fifo |-> fifo]}]
    /\ UNCHANGED <<raftVars, handled, reportVars, checkpointVars, proposalVars, bundleVars,
                   processVars, store, gossip, rootVars>>

\* storeEpochValidationSignature: the first signature of a signer is kept.
StoreSignature(sigs, s) == IF s.signer \in Signers(sigs) THEN sigs ELSE sigs \cup {s}

\* Faulty: one signature short of the threshold.
ShouldTriggerEarly(n, e, sigs) ==
    /\ CheckThreshold(Cardinality(Signers(sigs)) + 1)
    /\ e \notin triggered[n] /\ IsLeader(n)

\* Faulty: does not look at epochSubmissionTriggered.
ShouldTriggerAgain(n, e, sigs) ==
    CheckThreshold(Cardinality(Signers(sigs))) /\ IsLeader(n)

\* Both callers of storeEpochValidationSignature start the submission of the
\* epoch once, on a node that is leader when the threshold is met.
ShouldTrigger(n, e, sigs) ==
    /\ CheckThreshold(Cardinality(Signers(sigs)))
    /\ e \notin triggered[n] /\ IsLeader(n)

\* Two critical sections, joined: signatures of an epoch only grow, so the second
\* one finds the threshold met whenever the first one did.
StoreAndTrigger(n, e, s, done, next) ==
    LET sigs == StoreSignature(epochSigs[n][e], s)
    IN  /\ epochSigs' = [epochSigs EXCEPT ![n][e] = sigs]
        /\ \/ /\ ShouldTrigger(n, e, sigs)
              /\ triggered' = [triggered EXCEPT ![n] = @ \cup {e}]
              /\ tasks' = [tasks EXCEPT ![n] =
                             (@ \ done) \cup next \cup {[kind |-> "submit", epoch |-> e]}]
           \/ /\ ~ShouldTrigger(n, e, sigs)
              /\ triggered' = triggered
              /\ tasks' = [tasks EXCEPT ![n] = (@ \ done) \cup next]

\* The rest of signAndGossipValidationBundles.
StoreOwnSignature(n, t) ==
    /\ Up(n) /\ t \in tasks[n] /\ t.kind = "store"
    /\ LET e == t.header.epoch
           digest == [hash |-> Hash(t.header), intents |-> t.fifo]
       IN  /\ StoreAndTrigger(n, e, [signer |-> n, digest |-> digest], {t},
                              {[kind |-> "broadcast", header |-> t.header]})
           /\ gossip' = gossip \cup
                {[type |-> "bundle", signer |-> n, epoch |-> e, digest |-> digest]}
    /\ UNCHANGED <<raftVars, handled, reportVars, checkpointVars, proposalVars,
                   epochIntents, processVars, store, rootVars, signed>>

\* signCheckpoint: ECDSASigner.Sign returns R||S||V.
SignCheckpoint(n, h) ==
    [type |-> "signature", signer |-> n, hash |-> Hash(h), form |-> "rsv"]

\* The last part of handleCommittedCheckpoint.  The threshold is tested on the
\* signatures held now, whichever checkpoint they are for.
BroadcastSignature(n, t) ==
    /\ Up(n) /\ t \in tasks[n] /\ t.kind = "broadcast"
    /\ gossip' = gossip \cup {SignCheckpoint(n, t.header)}
    /\ tasks' = [tasks EXCEPT ![n] = (@ \ {t}) \cup
         (IF CheckpointThreshold(Signers(signatures[n])) /\ IsLeader(n)
          THEN {[kind |-> "finalize"]} ELSE {})]
    /\ UNCHANGED <<raftVars, handled, reportVars, checkpointVars, proposalVars,
                   epochIntents, bundleVars, processVars, store, rootVars, signed>>

-----------------------------------------------------------------------------
(***************************************************************************)
(* Gossip.  Messages are never removed: each may be delivered late, twice, *)
(* out of order or not at all.  memberlist does not deliver to the sender. *)
(***************************************************************************)

\* verifySignature: ecdsa.VerifyASN1, which takes DER only.
Verifies(n, m) ==
    currentCheckpoint[n] # NoHeader /\ m.hash = Hash(currentCheckpoint[n]) /\ m.form = "der"

\* Every return before the signature is added leaves the node as it is.  No node
\* makes a signature that verifies (GossipSpecIsSpec), so this handler changes
\* nothing and is not an action of Next: GossipNext has it.
OnGossipSignatureReceived(n, m) ==
    /\ Up(n) /\ m \in gossip /\ m.type = "signature" /\ m.signer # n
    /\ Verifies(n, m)
    /\ m.signer \notin Signers(signatures[n])
    /\ LET sigs == signatures[n] \cup {[signer |-> m.signer, hash |-> m.hash]}
       IN  /\ signatures' = [signatures EXCEPT ![n] = sigs]
           /\ tasks' = [tasks EXCEPT ![n] = @ \cup
                (IF CheckpointThreshold(Signers(sigs)) /\ IsLeader(n)
                 THEN {[kind |-> "finalize"]} ELSE {})]
    /\ UNCHANGED <<raftVars, handled, reportVars, currentEpoch, currentCheckpoint,
                   chainLatest, proposalVars, epochIntents, bundleVars, processVars,
                   store, gossip, rootVars, signed>>

OnValidationBundleSignatureReceived(n, m) ==
    /\ Up(n) /\ m \in gossip /\ m.type = "bundle" /\ m.signer # n
    /\ StoreAndTrigger(n, m.epoch, [signer |-> m.signer, digest |-> m.digest], {}, {})
    /\ UNCHANGED <<raftVars, handled, reportVars, checkpointVars, proposalVars,
                   epochIntents, processVars, store, gossip, rootVars, signed>>

-----------------------------------------------------------------------------
(***************************************************************************)
(* Submission to RootLayer                                                 *)
(***************************************************************************)

\* finalizeCheckpointAfterGossip copies the checkpoint and every pending report;
\* submitToRootLayerWithData returns at once when there is no report or no
\* connection, and otherwise sleeps for 15 seconds.
FinalizeCheckpointAfterGossip(n, t) ==
    /\ Up(n) /\ t \in tasks[n] /\ t.kind = "finalize"
    /\ \/ /\ currentCheckpoint[n] = NoHeader \/ pendingReports[n] = {} \/ RootLayerMayFail
          /\ tasks' = [tasks EXCEPT ![n] = @ \ {t}]
       \/ /\ currentCheckpoint[n] # NoHeader /\ pendingReports[n] # {}
          /\ tasks' = [tasks EXCEPT ![n] = (@ \ {t}) \cup
               {[kind |-> "sleep", path |-> "checkpoint",
                 header |-> currentCheckpoint[n], intents |-> PendingIntents(n)]}]
    /\ UNCHANGED <<raftVars, handled, reportVars, checkpointVars, proposalVars,
                   epochIntents, bundleVars, processVars, store, gossip, rootVars, signed>>

\* Faulty: everything pending now instead of what was signed for the epoch.
AvailableNow(n, e) == PendingIntents(n)

\* The intents signed for the epoch whose report is still pending.
Available(n, e) ==
    {epochIntents[n][e][p] : p \in 1..Len(epochIntents[n][e])} \cap PendingIntents(n)

\* The guards of submitValidationBundlesForEpoch: the epoch's checkpoint is the
\* current one, intents were recorded, at least half of their reports are here.
CanSubmit(n, e) ==
    /\ currentCheckpoint[n] # NoHeader /\ currentCheckpoint[n].epoch = e
    /\ epochIntents[n][e] # <<>>
    /\ 2 * Cardinality(Available(n, e)) >= Len(epochIntents[n][e])
    /\ Available(n, e) # {}

SubmitValidationBundlesForEpoch(n, t) ==
    /\ Up(n) /\ t \in tasks[n] /\ t.kind = "submit"
    /\ tasks' = [tasks EXCEPT ![n] = (@ \ {t}) \cup
         (IF CanSubmit(n, t.epoch)
          THEN {[kind |-> "sleep", path |-> "bundle", header |-> currentCheckpoint[n],
                 intents |-> Available(n, t.epoch)]}
          ELSE {})]
    /\ UNCHANGED <<raftVars, handled, reportVars, checkpointVars, proposalVars,
                   epochIntents, bundleVars, processVars, store, gossip, rootVars, signed>>

\* Everything a process loses when it exits.
LoseVolatileState(n) ==
    /\ leaders' = leaders \ {n}
    /\ handled' = [handled EXCEPT ![n] = {}]
    /\ pendingReports' = [pendingReports EXCEPT ![n] = {}]
    /\ receivedAt' = [receivedAt EXCEPT ![n] = [i \in Intents |-> 0]]
    /\ currentEpoch' = [currentEpoch EXCEPT ![n] = 0]
    /\ currentCheckpoint' = [currentCheckpoint EXCEPT ![n] = NoHeader]
    /\ signatures' = [signatures EXCEPT ![n] = {}]
    /\ chainLatest' = [chainLatest EXCEPT ![n] = NoHeader]
    /\ proposal' = [proposal EXCEPT ![n] = Idle]
    /\ epochIntents' = [epochIntents EXCEPT ![n] = [e \in Epochs |-> <<>>]]
    /\ epochSigs' = [epochSigs EXCEPT ![n] = [e \in Epochs |-> {}]]
    /\ triggered' = [triggered EXCEPT ![n] = {}]
    /\ tasks' = [tasks EXCEPT ![n] = {}]
    /\ sent' = [sent EXCEPT ![n] = {}]

\* The batch a woken goroutine sends: convertToValidationBatchGroup attaches the
\* bundle signatures held now for the header's epoch.
BatchOf(n, t) ==
    [path |-> t.path, header |-> t.header, items |-> t.intents,
     sigs |-> epochSigs[n][t.header.epoch]]

\* Faulty: every intent of the batch, the rejected ones too.
ClearedAll(t, ok) == {[kind |-> "clear", intents |-> t.intents]}

\* Reports are cleared for the intents whose result is Ok.
ClearedAfter(t, ok) == IF ok = {} THEN {} ELSE {[kind |-> "clear", intents |-> ok]}

\* submitValidationBundleBatch: RootLayer answers item by item.
SubmitBatch(n, t) ==
    /\ Up(n) /\ t \in tasks[n] /\ t.kind = "sleep"
    /\ BatchOf(n, t).sigs # {}
    /\ sent' = [sent EXCEPT ![n] =
                  IF t.path = "bundle" THEN @ \cup {t.header.epoch} ELSE @]
    /\ \E ok \in SUBSET t.intents :
         /\ accepted' = accepted \cup ok
         /\ tasks' = [tasks EXCEPT ![n] = (@ \ {t}) \cup ClearedAfter(t, ok)]
    /\ UNCHANGED <<raftVars, handled, reportVars, checkpointVars, proposalVars,
                   epochIntents, bundleVars, processVars, store, gossip, signed>>

\* The same call failing: panic when no signature is held for the epoch, and
\* panic when the RPC returns an error, whatever RootLayer did with the batch.
SubmitBatchPanics(n, t) ==
    /\ Up(n) /\ t \in tasks[n] /\ t.kind = "sleep"
    /\ \/ BatchOf(n, t).sigs = {} /\ accepted' = accepted
       \/ /\ BatchOf(n, t).sigs # {} /\ RootLayerMayFail
          /\ \E ok \in SUBSET t.intents : accepted' = accepted \cup ok
    /\ status' = [status EXCEPT ![n] = "panicked"]
    /\ LoseVolatileState(n)
    /\ UNCHANGED <<leader, log, replicating, elections, proposals, restarts, store, gossip,
                   signed>>

\* clearReportsForIntent for one of the intents RootLayer accepted; the lock is
\* released between two of them.
ClearReports(n, t, i) ==
    /\ Up(n) /\ t \in tasks[n] /\ t.kind = "clear" /\ i \in t.intents
    /\ pendingReports' = [pendingReports EXCEPT ![n] = {r \in @ : IntentOf[r] # i}]
    /\ receivedAt' = [receivedAt EXCEPT ![n][i] = 0]
    /\ tasks' = [tasks EXCEPT ![n] = (@ \ {t}) \cup
         (IF t.intents = {i} THEN {} ELSE {[kind |-> "clear", intents |-> t.intents \ {i}]})]
    /\ UNCHANGED <<raftVars, handled, checkpointVars, proposalVars, epochIntents,
                   bundleVars, processVars, store, gossip, rootVars, signed>>

-----------------------------------------------------------------------------
(***************************************************************************)
(* Process exit and restart                                                *)
(***************************************************************************)

Crash(n) ==
    /\ Up(n) /\ restarts[n] < MaxRestarts
    /\ status' = [status EXCEPT ![n] = "down"]
    /\ LoseVolatileState(n)
    /\ UNCHANGED <<leader, log, replicating, elections, proposals, restarts, store, gossip,
                   accepted, signed>>

\* NewNode: loadCheckpoint, then Raft replays its log through the FSM.
Restart(n) ==
    /\ ~Up(n) /\ restarts[n] < MaxRestarts
    /\ status' = [status EXCEPT ![n] = "up"]
    /\ restarts' = [restarts EXCEPT ![n] = @ + 1]
    /\ LET e == store[n].latest
       IN  IF e = -1
           THEN UNCHANGED checkpointVars
           ELSE /\ currentEpoch' = [currentEpoch EXCEPT ![n] = e + 1]
                /\ currentCheckpoint' = [currentCheckpoint EXCEPT ![n] = store[n].headers[e]]
                /\ signatures' = [signatures EXCEPT ![n] = store[n].sigs[e]]
                /\ chainLatest' = [chainLatest EXCEPT ![n] = store[n].headers[e]]
    /\ UNCHANGED <<raftVars, handled, reportVars, proposalVars, epochIntents, bundleVars,
                   tasks, store, gossip, rootVars, signed>>

-----------------------------------------------------------------------------
Next ==
    \/ CommitCheckpoint
    \/ \E n \in Validators :
         \/ Elect(n) \/ StepDown(n) \/ Crash(n) \/ Restart(n)
         \/ \E r \in Reports : ProcessExecutionReport(n, r)
         \/ \E i \in 1..Len(log) :
              OnExecutionReportCommitted(n, i) \/ HandleCommittedCheckpoint(n, i)
         \/ StartProposal(n) \/ ProposeCheckpointRaft(n) \/ ApplyCheckpointReturns(n)
         \/ \E t \in tasks[n] :
              \/ SignValidationBundle(n, t) \/ StoreOwnSignature(n, t)
              \/ BroadcastSignature(n, t) \/ FinalizeCheckpointAfterGossip(n, t)
              \/ SubmitValidationBundlesForEpoch(n, t) \/ SubmitBatch(n, t)
              \/ SubmitBatchPanics(n, t) \/ \E i \in Intents : ClearReports(n, t, i)
         \/ \E m \in gossip : OnValidationBundleSignatureReceived(n, m)

Spec == Init /\ [][Next]_vars

\* With the handler of gossiped checkpoint signatures.
GossipNext ==
    \/ Next
    \/ \E n \in Validators : \E m \in gossip : OnGossipSignatureReceived(n, m)

GossipSpec == Init /\ [][GossipNext]_vars

\* The Go scheduler runs every goroutine that is ready: handlers of committed
\* entries and the goroutines they start make progress.
FairSpec ==
    /\ Spec
    /\ \A n \in Validators :
         /\ WF_vars(\E i \in 1..Len(log) :
                      OnExecutionReportCommitted(n, i) \/ HandleCommittedCheckpoint(n, i))
         /\ WF_vars(\E t \in tasks[n] :
                      \/ SignValidationBundle(n, t) \/ StoreOwnSignature(n, t)
                      \/ BroadcastSignature(n, t))

\* Submitting goroutines run to their end too, and a gossiped message reaches
\* every node that is up.
FairGossipSpec ==
    /\ GossipSpec
    /\ \A n \in Validators :
         /\ WF_vars(\E i \in 1..Len(log) :
                      OnExecutionReportCommitted(n, i) \/ HandleCommittedCheckpoint(n, i))
         /\ WF_vars(\E t \in tasks[n] :
                      \/ SignValidationBundle(n, t) \/ StoreOwnSignature(n, t)
                      \/ BroadcastSignature(n, t))
         /\ WF_vars(\E t \in tasks[n] :
                      \/ FinalizeCheckpointAfterGossip(n, t)
                      \/ SubmitValidationBundlesForEpoch(n, t))
         /\ WF_vars(\E t \in tasks[n] : SubmitBatch(n, t) \/ SubmitBatchPanics(n, t))
         /\ WF_vars(\E m \in gossip : OnGossipSignatureReceived(n, m))
         /\ WF_vars(\E m \in gossip : OnValidationBundleSignatureReceived(n, m))
-----------------------------------------------------------------------------
\* Every variable keeps its type; the ranges of epochs and goroutines bound what
\* the handlers may compute.
TypeOK ==
    /\ leader \in Validators
    /\ leaders \subseteq Validators
    /\ log \in Seq(Entry)
    /\ replicating \in Header \cup {NoHeader}
    /\ elections \in Nat
    /\ handled \in [Validators -> SUBSET (1..Len(log))]
    /\ pendingReports \in [Validators -> SUBSET Reports]
    /\ receivedAt \in [Validators -> [Intents -> Nat]]
    /\ currentEpoch \in [Validators -> 0..MaxEpoch + 1]
    /\ currentCheckpoint \in [Validators -> Header \cup {NoHeader}]
    /\ signatures \in [Validators -> SUBSET CheckpointSig]
    /\ chainLatest \in [Validators -> Header \cup {NoHeader}]
    /\ proposal \in [Validators -> Proposal]
    /\ proposals \in 0..MaxProposals
    /\ epochIntents \in [Validators -> [Epochs -> Seq(Intents)]]
    /\ epochSigs \in [Validators -> [Epochs -> SUBSET BundleSig]]
    /\ triggered \in [Validators -> SUBSET Epochs]
    /\ tasks \in [Validators -> SUBSET Task]
    /\ status \in [Validators -> {"up", "down", "panicked"}]
    /\ restarts \in [Validators -> 0..MaxRestarts]
    /\ store \in [Validators -> Store]
    /\ gossip \subseteq Message
    /\ accepted \subseteq Intents
    /\ sent \in [Validators -> SUBSET Epochs]
    /\ signed \subseteq Signing

-----------------------------------------------------------------------------
\* However the handler goroutines are reordered, a node never falls back to an
\* epoch whose committed checkpoint it has already handled: the epoch it will
\* propose next is above all of them (the ">=" test of handleCommittedCheckpoint).
EpochAheadOfHandled ==
    \A n \in Validators : \A i \in handled[n] :
      log[i].type = "checkpoint" => log[i].header.epoch < currentEpoch[n]

\* A report the node has been handed is still pending there or RootLayer has
\* accepted its intent: failed items, panics of others, leader changes, and the
\* two concurrent submission paths never drop one (clearReportsForIntent is
\* called for successful intents only).
NoReportLost ==
    \A n \in Validators : \A i \in handled[n] :
      log[i].type = "report" =>
        \/ log[i].report \in pendingReports[n]
        \/ IntentOf[log[i].report] \in accepted

\* The batches that n may hand to RootLayer now.
Outgoing(n) == {BatchOf(n, t) : t \in {u \in tasks[n] : u.kind = "sleep"}}

\* A batch that submitValidationBundlesForEpoch hands to RootLayer carries
\* signatures of at least RequiredSignatures distinct validators: the threshold
\* tested when the goroutine was started still holds when it wakes up, any number
\* of checkpoints, leader changes and signatures later.
BundleQuorum ==
    \A n \in Validators : \A b \in Outgoing(n) :
      b.path = "bundle" => CheckThreshold(Cardinality(Signers(b.sigs)))

\* A batch that submitValidationBundlesForEpoch hands to RootLayer holds only
\* intents that the submitter itself signed for that epoch ("Use epochIntents
\* instead of pendingReports"), whatever has been committed or cleared since.
BundleItemsSigned ==
    \A n \in Validators : \A b \in Outgoing(n) :
      b.path = "bundle" =>
        \E d \in signed :
          /\ d.signer = n /\ d.epoch = b.header.epoch
          /\ b.items \subseteq {d.digest.intents[p] : p \in 1..Len(d.digest.intents)}

\* Once a committed checkpoint has been handled, every signature a node holds is
\* for the checkpoint it holds, so the threshold is never met by signatures of
\* two different headers.
SignaturesMatchCheckpoint ==
    \A n \in Validators :
      (\E i \in handled[n] : log[i].type = "checkpoint") =>
        \A s \in signatures[n] : /\ currentCheckpoint[n] # NoHeader
                                 /\ s.hash = Hash(currentCheckpoint[n])

BundleTasks(n, e) ==
    {t \in tasks[n] : \/ t.kind = "submit" /\ t.epoch = e
                      \/ t.kind = "sleep" /\ t.path = "bundle" /\ t.header.epoch = e}

\* In one life of a process at most one submitValidationBundlesForEpoch runs for
\* an epoch, and none is running after one has sent its batch: repeated and late
\* signatures, and leadership lost and regained, never start a second one.
OneBundleSubmissionPerEpoch ==
    \A n \in Validators, e \in Epochs :
      /\ \A t, u \in BundleTasks(n, e) : t = u
      /\ e \in sent[n] => BundleTasks(n, e) = {}

\* Every committed checkpoint is eventually signed and gossiped by every node,
\* unless the node goes down, also when its handlers run out of order, when two headers carry the
\* same epoch and when the node's own chain refuses the header.
EveryNodeSigns ==
    \A n \in Validators, k \in HeaderIds :
      (\E i \in 1..Len(log) : log[i].type = "checkpoint" /\ log[i].header.id = k) ~>
        \/ ~Up(n)
        \/ \E m \in gossip : /\ m.type = "signature" /\ m.signer = n
                             /\ m.hash[Len(m.hash)] = k

-----------------------------------------------------------------------------
(***************************************************************************)
(* What the documentation says, refuted by the code.                       *)
(***************************************************************************)

\* Leader n has cleared all its reports, so it proposes nothing that would replace
\* its checkpoint, and v has signed and gossiped that checkpoint.
IdleLeaderAwaits(n, v) ==
    /\ Up(n) /\ IsLeader(n) /\ pendingReports[n] = {} /\ proposal[n] = Idle
    /\ currentCheckpoint[n] # NoHeader
    /\ \E m \in gossip : /\ m.type = "signature" /\ m.signer = v
                         /\ m.hash = Hash(currentCheckpoint[n])

\* docs/consensus_modes.md: "Gossip protocol collects signatures"; node.go:
\* "Otherwise wait for gossip to collect signatures (handled by
\* onGossipSignatureReceived)".  A leader with all the time in the world ends up
\* with the signature of every validator that has gossiped one for its checkpoint.
GossipCollectsSignatures ==
    \A n, v \in Validators :
      IdleLeaderAwaits(n, v) ~> ~IdleLeaderAwaits(n, v) \/ v \in Signers(signatures[n])
=============================================================================
