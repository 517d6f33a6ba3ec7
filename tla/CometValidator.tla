---------------------------- MODULE CometValidator ----------------------------
(***************************************************************************)
(* The validator node in CometBFT mode: internal/consensus/cometbft and    *)
(* the CometBFT paths of internal/validator/node.go and handlers.go.       *)
(*                                                                         *)
(* Reports, checkpoint headers and ValidationBundle signatures are all     *)
(* CometBFT transactions.  Every node runs SubnetABCIApp, which keeps its  *)
(* state in memory only: after a restart Info answers height 0 and         *)
(* CometBFT replays the chain.  FinalizeBlock starts one goroutine per     *)
(* transaction, so the node's handlers run late and in any order.  There   *)
(* is no leader: every validator proposes a checkpoint per interval, and   *)
(* every node that sees the threshold of an epoch's signatures submits.    *)
(*                                                                         *)
(* A block holds one transaction.  Each intent has one report, so reports  *)
(* stand for their intents.  The checkpoint signatures and the chain,      *)
(* which no decision of this mode depends on, are left out; the            *)
(* header's id stands for timestamp, roots and parent.  External:          *)
(* CometBFT (mempool, blocks), RootLayer (accepted).                       *)
(***************************************************************************)
EXTENDS ValidatorSet, Sequences

CONSTANTS
    Reports,             \* execution reports, one per intent
    MaxIntentsPerEpoch,  \* node.go constant of that name
    NoHeader,            \* the nil *pb.CheckpointHeader
    MaxBlocks,           \* bound: transactions committed
    MaxEpoch,            \* bound: highest epoch proposed
    MaxProposals,        \* bound: headers ever built
    MaxRestarts,         \* bound: restarts of each node
    RootLayerMayFail     \* whether a RootLayer call may fail

ASSUME CometAssumption ==
    /\ IsFiniteSet(Reports)
    /\ MaxIntentsPerEpoch \in Nat \ {0}
    /\ MaxBlocks \in Nat /\ MaxEpoch \in Nat /\ MaxProposals \in Nat /\ MaxRestarts \in Nat
    /\ RootLayerMayFail \in BOOLEAN

Epochs == 0..MaxEpoch
Header == [id : 1..MaxProposals, epoch : Epochs]

ASSUME NoHeaderAssumption == NoHeader \notin Header

\* The digest covers the header and the items, in an order all nodes compute alike.
Digest == [id : 1..MaxProposals, intents : SUBSET Reports]
BundleSig == [signer : Validators, digest : Digest]
Signers(sigs) == {s.signer : s \in sigs}

Tx == [type : {"report"}, report : Reports]
        \cup [type : {"checkpoint"}, header : Header]
        \cup [type : {"bundle"}, signer : Validators, epoch : Epochs, digest : Digest]

\* Goroutines between two critical sections of n.mu, with the copies they carry.
Task == [kind : {"sign"}, header : Header, intents : SUBSET Reports]
          \cup [kind : {"store"}, header : Header, intents : SUBSET Reports]
          \cup [kind : {"submit"}, epoch : Epochs]
          \cup [kind : {"sleep"}, header : Header, intents : SUBSET Reports]
          \cup [kind : {"clear"}, intents : SUBSET Reports]

App == [height : 0..MaxBlocks, epoch : Epochs, checkpoints : [Epochs -> Header \cup {NoHeader}],
        reports : SUBSET Reports]

VARIABLES
    \* CometBFT
    mempool,            \* transactions that passed CheckTx and are in no block yet
    blocks,             \* the transactions of the chain
    app,                \* per node: SubnetABCIApp
    spawned,            \* per node: heights whose handler goroutine has yet to run
    handled,            \* per node: heights whose handler has run in this life
    \* Node fields
    pendingReports,
    currentEpoch,
    currentCheckpoint,
    building,           \* header built by proposeCheckpointCometBFT and not yet set
    proposals,          \* headers built so far, the source of ids
    epochIntents,       \* {} is "no entry"
    epochSigs,          \* epochValidationSignatures
    triggered,          \* epochSubmissionTriggered
    tasks,
    \* process, disk and RootLayer
    status,
    restarts,
    store,              \* the header that checkpoint:latest:epoch leads to
    accepted,           \* intents RootLayer has accepted
    sent                \* history, per life: epochs whose batch was sent

chainVars == <<mempool, blocks>>
appVars == <<app, spawned, handled>>
checkpointVars == <<currentEpoch, currentCheckpoint, building, proposals>>
bundleVars == <<epochSigs, triggered>>
processVars == <<status, restarts, store>>
rootVars == <<accepted, sent>>

vars == <<mempool, blocks, app, spawned, handled, pendingReports, currentEpoch,
          currentCheckpoint, building, proposals, epochIntents, epochSigs, triggered,
          tasks, status, restarts, store, accepted, sent>>

Up(n) == status[n] = "up"
InBlocks(tx) == \E k \in 1..Len(blocks) : blocks[k] = tx

\* NewSubnetABCIApp: nothing is read back from disk.
NewApp == [height |-> 0, epoch |-> 0, checkpoints |-> [e \in Epochs |-> NoHeader],
           reports |-> {}]

Init ==
    /\ mempool = {} /\ blocks = <<>>
    /\ app = [n \in Validators |-> NewApp]
    /\ spawned = [n \in Validators |-> {}]
    /\ handled = [n \in Validators |-> {}]
    /\ pendingReports = [n \in Validators |-> {}]
    /\ currentEpoch = [n \in Validators |-> 0]
    /\ currentCheckpoint = [n \in Validators |-> NoHeader]
    /\ building = [n \in Validators |-> NoHeader]
    /\ proposals = 0
    /\ epochIntents = [n \in Validators |-> [e \in Epochs |-> {}]]
    /\ epochSigs = [n \in Validators |-> [e \in Epochs |-> {}]]
    /\ triggered = [n \in Validators |-> {}]
    /\ tasks = [n \in Validators |-> {}]
    /\ status = [n \in Validators |-> "up"]
    /\ restarts = [n \in Validators |-> 0]
    /\ store = [n \in Validators |-> NoHeader]
    /\ accepted = {}
    /\ sent = [n \in Validators |-> {}]

-----------------------------------------------------------------------------
(***************************************************************************)
(* The mempool and the application                                         *)
(***************************************************************************)

\* SubnetABCIApp.CheckTx: a signature for epoch 0 is "invalid epoch".
CheckTx(tx) == tx.type = "bundle" => tx.epoch # 0

\* Mempool.CheckTx with a nil callback: a transaction in the cache is an error
\* to the caller, one that the application turns away is dropped in silence.
\* The cache, which also remembers committed transactions, is lost on a restart.
InCache(n, tx) == tx \in mempool \/ (InBlocks(tx) /\ restarts[n] = 0)

ProcessExecutionReport(n, r) ==
    LET tx == [type |-> "report", report |-> r]
    IN  /\ Up(n) /\ r \notin pendingReports[n]
        /\ CheckTx(tx) /\ ~InCache(n, tx)
        /\ mempool' = mempool \cup {tx}
        /\ UNCHANGED <<blocks, appVars, pendingReports, checkpointVars,
                       epochIntents, bundleVars, tasks, processVars, rootVars>>

\* CometBFT puts a transaction of the mempool in the next block.
CommitBlock ==
    /\ Len(blocks) < MaxBlocks
    /\ \E tx \in mempool : blocks' = Append(blocks, tx) /\ mempool' = mempool \ {tx}
    /\ UNCHANGED <<appVars, pendingReports, checkpointVars, epochIntents,
                   bundleVars, tasks, processVars, rootVars>>

\* Faulty: the application leaves out a checkpoint that the node is already beyond.
DeliverIfAhead(n, a, tx) ==
    CASE tx.type = "report" -> [a EXCEPT !.reports = @ \cup {tx.report}]
      [] tx.type = "checkpoint" ->
           IF tx.header.epoch < currentEpoch[n] THEN a
           ELSE [a EXCEPT !.epoch = tx.header.epoch, !.checkpoints[tx.header.epoch] = tx.header]
      [] tx.type = "bundle" -> a

\* deliverCheckpoint, deliverExecutionReport, deliverValidationBundleSignature.
Deliver(n, a, tx) ==
    CASE tx.type = "report" -> [a EXCEPT !.reports = @ \cup {tx.report}]
      [] tx.type = "checkpoint" ->
           [a EXCEPT !.epoch = tx.header.epoch, !.checkpoints[tx.header.epoch] = tx.header]
      [] tx.type = "bundle" -> a

\* FinalizeBlock and the Commit after it.  Each transaction starts its handler.
FinalizeBlock(n) ==
    LET height == app[n].height + 1
    IN  /\ Up(n) /\ height <= Len(blocks)
        /\ app' = [app EXCEPT ![n] = Deliver(n, [@ EXCEPT !.height = height], blocks[height])]
        /\ spawned' = [spawned EXCEPT ![n] = @ \cup {height}]
        /\ UNCHANGED <<chainVars, handled, pendingReports, checkpointVars, epochIntents,
                       bundleVars, tasks, processVars, rootVars>>

\* Query "/checkpoint/latest": epoch 0 counts as "no checkpoints".
QueryLatest(n) ==
    IF app[n].epoch = 0 THEN NoHeader ELSE app[n].checkpoints[app[n].epoch]

GetLatestCheckpoint(n) == app[n].checkpoints[app[n].epoch]

\* Commit's application hash, which is also what GetState shows.
AppHash(n) ==
    <<app[n].epoch, Cardinality({e \in Epochs : app[n].checkpoints[e] # NoHeader}),
      Cardinality(app[n].reports)>>

-----------------------------------------------------------------------------
(***************************************************************************)
(* Proposing: consensusLoop on every node                                  *)
(***************************************************************************)

\* checkCometBFTCheckpointTrigger and buildCheckpointHeader, which reads the
\* epoch without the lock.  The interval may always have elapsed.
BuildCheckpoint(n) ==
    /\ Up(n) /\ building[n] = NoHeader
    /\ proposals < MaxProposals /\ currentEpoch[n] <= MaxEpoch
    /\ building' = [building EXCEPT ![n] = [id |-> proposals + 1, epoch |-> currentEpoch[n]]]
    /\ proposals' = proposals + 1
    /\ UNCHANGED <<chainVars, appVars, pendingReports, currentEpoch, currentCheckpoint,
                   epochIntents, bundleVars, tasks, processVars, rootVars>>

\* Consensus.ProposeCheckpoint: an error when the engine is not ready or the mempool is full;
\* a transaction the application turns away is none.
ProposeCheckpoint(tx) ==
    mempool' \in {mempool, IF CheckTx(tx) THEN mempool \cup {tx} ELSE mempool}

\* The rest of proposeCheckpointCometBFT: the header is the current checkpoint
\* before, and even if it is never, committed.
ProposeCheckpointCometBFT(n) ==
    LET tx == [type |-> "checkpoint", header |-> building[n]]
    IN  /\ Up(n) /\ building[n] # NoHeader
        /\ currentCheckpoint' = [currentCheckpoint EXCEPT ![n] = building[n]]
        /\ building' = [building EXCEPT ![n] = NoHeader]
        /\ ProposeCheckpoint(tx)
        /\ UNCHANGED <<blocks, appVars, pendingReports, currentEpoch, proposals,
                       epochIntents, bundleVars, tasks, processVars, rootVars>>

-----------------------------------------------------------------------------
(***************************************************************************)
(* The handlers of committed transactions                                  *)
(***************************************************************************)

\* The goroutine of height k has run.
Ran(n, k) ==
    /\ spawned' = [spawned EXCEPT ![n] = @ \ {k}]
    /\ handled' = [handled EXCEPT ![n] = @ \cup {k}]

HandleExecutionReportCommitted(n, k) ==
    /\ Up(n) /\ k \in spawned[n] /\ blocks[k].type = "report"
    /\ Ran(n, k)
    /\ pendingReports' = [pendingReports EXCEPT ![n] = @ \cup {blocks[k].report}]
    /\ UNCHANGED <<chainVars, app, checkpointVars, epochIntents, bundleVars, tasks,
                   processVars, rootVars>>

\* Faulty: follows the order in which the handlers run.
EpochAfterAnyHeader(n, h) == h.epoch + 1

EpochAfter(n, h) == IF h.epoch >= currentEpoch[n] THEN h.epoch + 1 ELSE currentEpoch[n]

\* handleCommittedCheckpoint without gossip: saves the header, makes it current
\* and signs the bundle of what is pending.
HandleCommittedCheckpoint(n, k) ==
    /\ Up(n) /\ k \in spawned[n] /\ blocks[k].type = "checkpoint"
    /\ Ran(n, k)
    /\ LET h == blocks[k].header
       IN  /\ store' = [store EXCEPT ![n] = h]
           /\ currentCheckpoint' = [currentCheckpoint EXCEPT ![n] = h]
           /\ currentEpoch' = [currentEpoch EXCEPT ![n] = EpochAfter(n, h)]
           /\ tasks' = [tasks EXCEPT ![n] = @ \cup
                (IF pendingReports[n] = {} THEN {}
                 ELSE {[kind |-> "sign", header |-> h, intents |-> pendingReports[n]]})]
    /\ UNCHANGED <<chainVars, app, pendingReports, building, proposals, epochIntents,
                   bundleVars, status, restarts, rootVars>>

\* Faulty: "signature received before intents recorded" is dropped.
StoreSignatureIfKnown(n, e, s) ==
    IF s.signer \in Signers(epochSigs[n][e]) \/ epochIntents[n][e] = {}
    THEN epochSigs[n][e] ELSE epochSigs[n][e] \cup {s}

\* storeEpochValidationSignature: the first signature of a signer is kept.
StoreSignature(n, e, s) ==
    IF s.signer \in Signers(epochSigs[n][e]) THEN epochSigs[n][e]
    ELSE epochSigs[n][e] \cup {s}

\* Faulty: one signature short of the threshold.
ShouldTriggerEarly(n, e, sigs) ==
    CheckThreshold(Cardinality(Signers(sigs)) + 1) /\ e \notin triggered[n]

\* "In CometBFT mode, any node can submit."
ShouldTrigger(n, e, sigs) ==
    CheckThreshold(Cardinality(Signers(sigs))) /\ e \notin triggered[n]

\* Store a signature and start the submission of its epoch; done is the goroutine
\* this ends.
StoreAndTrigger(n, e, s, done) ==
    LET sigs == StoreSignature(n, e, s)
        start == ShouldTrigger(n, e, sigs)
    IN  /\ epochSigs' = [epochSigs EXCEPT ![n][e] = sigs]
        /\ triggered' = [triggered EXCEPT ![n] = IF start THEN @ \cup {e} ELSE @]
        /\ tasks' = [tasks EXCEPT ![n] = (@ \ done) \cup
                       (IF start THEN {[kind |-> "submit", epoch |-> e]} ELSE {})]

HandleValidationSignatureFromCometBFT(n, k) ==
    /\ Up(n) /\ k \in spawned[n] /\ blocks[k].type = "bundle"
    /\ Ran(n, k)
    /\ StoreAndTrigger(n, blocks[k].epoch,
                       [signer |-> blocks[k].signer, digest |-> blocks[k].digest], {})
    /\ UNCHANGED <<chainVars, app, pendingReports, checkpointVars, epochIntents,
                   processVars, rootVars>>

\* signAndGossipValidationBundles up to the write of epochIntents.  Which intents
\* are the oldest depends on when this node's handlers ran: any may be.
SignValidationBundle(n, t) ==
    /\ Up(n) /\ t \in tasks[n] /\ t.kind = "sign"
    /\ \E S \in SUBSET t.intents :
         /\ Cardinality(S) = IF Cardinality(t.intents) > MaxIntentsPerEpoch
                             THEN MaxIntentsPerEpoch ELSE Cardinality(t.intents)
         /\ epochIntents' = [epochIntents EXCEPT ![n][t.header.epoch] = S]
         /\ tasks' = [tasks EXCEPT ![n] = (@ \ {t}) \cup
                        {[kind |-> "store", header |-> t.header, intents |-> S]}]
    /\ UNCHANGED <<chainVars, appVars, pendingReports, checkpointVars, bundleVars,
                   processVars, rootVars>>

\* broadcastValidationSignatureToCometBFT: three attempts, then the signature is
\* lost; a rejection by the application is not an error to it.  The timestamp
\* makes a signature that was committed before a new transaction.
BroadcastSignature(tx) ==
    \/ UNCHANGED mempool
    \/ CheckTx(tx) /\ mempool' = mempool \cup {tx}

\* The rest of signAndGossipValidationBundles.
StoreOwnSignature(n, t) ==
    /\ Up(n) /\ t \in tasks[n] /\ t.kind = "store"
    /\ LET e == t.header.epoch
           digest == [id |-> t.header.id, intents |-> t.intents]
       IN  /\ StoreAndTrigger(n, e, [signer |-> n, digest |-> digest], {t})
           /\ BroadcastSignature([type |-> "bundle", signer |-> n, epoch |-> e,
                                  digest |-> digest])
    /\ UNCHANGED <<blocks, appVars, pendingReports, checkpointVars, epochIntents,
                   processVars, rootVars>>

-----------------------------------------------------------------------------
(***************************************************************************)
(* Submission to RootLayer, by any node                                    *)
(***************************************************************************)

Available(n, e) == epochIntents[n][e] \cap pendingReports[n]

SubmitValidationBundlesForEpoch(n, t) ==
    /\ Up(n) /\ t \in tasks[n] /\ t.kind = "submit"
    /\ LET h == currentCheckpoint[n]
           items == Available(n, t.epoch)
           ready == /\ h # NoHeader /\ h.epoch = t.epoch /\ items # {}
                    /\ 2 * Cardinality(items) >= Cardinality(epochIntents[n][t.epoch])
       IN  tasks' = [tasks EXCEPT ![n] = (@ \ {t}) \cup
                       (IF ready THEN {[kind |-> "sleep", header |-> h, intents |-> items]}
                        ELSE {})]
    /\ UNCHANGED <<chainVars, appVars, pendingReports, checkpointVars, epochIntents,
                   bundleVars, processVars, rootVars>>

\* Faulty: every intent of the batch, the rejected ones too.
ClearedAll(t, ok) == {[kind |-> "clear", intents |-> t.intents]}

ClearedAfter(t, ok) == IF ok = {} THEN {} ELSE {[kind |-> "clear", intents |-> ok]}

\* submitValidationBundleBatch 15 seconds later; RootLayer answers item by item.
SubmitBatch(n, t) ==
    /\ Up(n) /\ t \in tasks[n] /\ t.kind = "sleep"
    /\ sent' = [sent EXCEPT ![n] = @ \cup {t.header.epoch}]
    /\ \E ok \in SUBSET t.intents :
         /\ accepted' = accepted \cup ok
         /\ tasks' = [tasks EXCEPT ![n] = (@ \ {t}) \cup ClearedAfter(t, ok)]
    /\ UNCHANGED <<chainVars, appVars, pendingReports, checkpointVars, epochIntents,
                   bundleVars, processVars>>

\* clearReportsForIntent; the lock is released between two intents.
ClearReports(n, t, i) ==
    /\ Up(n) /\ t \in tasks[n] /\ t.kind = "clear" /\ i \in t.intents
    /\ pendingReports' = [pendingReports EXCEPT ![n] = @ \ {i}]
    /\ tasks' = [tasks EXCEPT ![n] = (@ \ {t}) \cup
         (IF t.intents = {i} THEN {} ELSE {[kind |-> "clear", intents |-> t.intents \ {i}]})]
    /\ UNCHANGED <<chainVars, appVars, checkpointVars, epochIntents, bundleVars,
                   processVars, rootVars>>

-----------------------------------------------------------------------------
(***************************************************************************)
(* Process exit and restart                                                *)
(***************************************************************************)

LoseVolatileState(n) ==
    /\ status' = [status EXCEPT ![n] = "down"]
    /\ app' = [app EXCEPT ![n] = NewApp]
    /\ spawned' = [spawned EXCEPT ![n] = {}]
    /\ handled' = [handled EXCEPT ![n] = {}]
    /\ pendingReports' = [pendingReports EXCEPT ![n] = {}]
    /\ currentEpoch' = [currentEpoch EXCEPT ![n] = 0]
    /\ currentCheckpoint' = [currentCheckpoint EXCEPT ![n] = NoHeader]
    /\ building' = [building EXCEPT ![n] = NoHeader]
    /\ epochIntents' = [epochIntents EXCEPT ![n] = [e \in Epochs |-> {}]]
    /\ epochSigs' = [epochSigs EXCEPT ![n] = [e \in Epochs |-> {}]]
    /\ triggered' = [triggered EXCEPT ![n] = {}]
    /\ tasks' = [tasks EXCEPT ![n] = {}]
    /\ sent' = [sent EXCEPT ![n] = {}]
    /\ UNCHANGED <<chainVars, proposals, restarts, store>>

Crash(n) ==
    /\ Up(n) /\ restarts[n] < MaxRestarts
    /\ LoseVolatileState(n)
    /\ UNCHANGED accepted

\* submitValidationBundleBatch panics when the call fails, whatever RootLayer did.
SubmitBatchPanics(n, t) ==
    /\ Up(n) /\ t \in tasks[n] /\ t.kind = "sleep" /\ RootLayerMayFail
    /\ \E ok \in SUBSET t.intents : accepted' = accepted \cup ok
    /\ LoseVolatileState(n)

\* loadCheckpoint: "Start from next epoch".
EpochOnBoot(n) == IF store[n] = NoHeader THEN 0 ELSE store[n].epoch + 1

\* loadCheckpoint; then CometBFT replays every block into the new application.
Restart(n) ==
    /\ ~Up(n) /\ restarts[n] < MaxRestarts
    /\ status' = [status EXCEPT ![n] = "up"]
    /\ restarts' = [restarts EXCEPT ![n] = @ + 1]
    /\ currentCheckpoint' = [currentCheckpoint EXCEPT ![n] = store[n]]
    /\ currentEpoch' = [currentEpoch EXCEPT ![n] = EpochOnBoot(n)]
    /\ UNCHANGED <<chainVars, appVars, pendingReports, building, proposals, epochIntents,
                   bundleVars, tasks, store, rootVars>>

-----------------------------------------------------------------------------
Next ==
    \/ CommitBlock
    \/ \E n \in Validators :
         \/ Crash(n) \/ Restart(n) \/ FinalizeBlock(n)
         \/ BuildCheckpoint(n) \/ ProposeCheckpointCometBFT(n)
         \/ \E r \in Reports : ProcessExecutionReport(n, r)
         \/ \E k \in spawned[n] :
              \/ HandleExecutionReportCommitted(n, k) \/ HandleCommittedCheckpoint(n, k)
              \/ HandleValidationSignatureFromCometBFT(n, k)
         \/ \E t \in tasks[n] :
              \/ SignValidationBundle(n, t) \/ StoreOwnSignature(n, t)
              \/ SubmitValidationBundlesForEpoch(n, t) \/ SubmitBatch(n, t)
              \/ SubmitBatchPanics(n, t) \/ \E i \in Reports : ClearReports(n, t, i)

Spec == Init /\ [][Next]_vars

-----------------------------------------------------------------------------
\* Two nodes at the same height give the same answers to every query, also when
\* one of them has lost its memory, replayed the chain and meanwhile submits and
\* clears reports: the application is a function of the blocks alone.
ReplicasAgree ==
    \A n, m \in Validators :
      Up(n) /\ Up(m) /\ app[n].height = app[m].height =>
        /\ AppHash(n) = AppHash(m) /\ QueryLatest(n) = QueryLatest(m)
        /\ GetLatestCheckpoint(n) = GetLatestCheckpoint(m)
        /\ app[n].checkpoints = app[m].checkpoints

\* However the handlers of committed transactions are reordered, no signature is
\* lost to a node: the signer of every bundle transaction it has handled counts
\* for the epoch, also when it came before the checkpoint and the intents.
CommittedSignaturesCount ==
    \A n \in Validators : \A k \in handled[n] :
      blocks[k].type = "bundle" => blocks[k].signer \in Signers(epochSigs[n][blocks[k].epoch])

\* A node never falls back to an epoch whose committed checkpoint it has handled,
\* in this life or (once replay has reached it) in an earlier one.
EpochAheadOfHandled ==
    \A n \in Validators : \A k \in handled[n] :
      blocks[k].type = "checkpoint" => blocks[k].header.epoch < currentEpoch[n]

\* A node that replays the chain beside others that did not restart becomes one of
\* them: its application answers as theirs do (ReplicasAgree), and its own epoch never
\* falls back to a checkpoint it has handled (EpochAheadOfHandled).
ReplayInv == ReplicasAgree /\ EpochAheadOfHandled

\* A report handed to a node is still pending there or RootLayer has accepted it,
\* although every node submits and clears on its own.
NoReportLost ==
    \A n \in Validators : \A k \in handled[n] :
      blocks[k].type = "report" => blocks[k].report \in pendingReports[n] \cup accepted

\* A batch about to be sent carries signatures of the required number of
\* validators, and its epoch has been sent by no other goroutine of this process.
BatchesAreDue ==
    \A n \in Validators : \A t \in {u \in tasks[n] : u.kind = "sleep"} :
      /\ CheckThreshold(Cardinality(Signers(epochSigs[n][t.header.epoch])))
      /\ t.header.epoch \notin sent[n]

\* Every variable keeps its type.
TypeOK ==
    /\ mempool \subseteq Tx /\ blocks \in Seq(Tx)
    /\ app \in [Validators -> App]
    /\ spawned \in [Validators -> SUBSET (1..MaxBlocks)]
    /\ handled \in [Validators -> SUBSET (1..MaxBlocks)]
    /\ pendingReports \in [Validators -> SUBSET Reports]
    /\ currentEpoch \in [Validators -> 0..MaxEpoch + 1]
    /\ currentCheckpoint \in [Validators -> Header \cup {NoHeader}]
    /\ building \in [Validators -> Header \cup {NoHeader}]
    /\ proposals \in 0..MaxProposals
    /\ epochIntents \in [Validators -> [Epochs -> SUBSET Reports]]
    /\ epochSigs \in [Validators -> [Epochs -> SUBSET BundleSig]]
    /\ triggered \in [Validators -> SUBSET Epochs]
    /\ tasks \in [Validators -> SUBSET Task]
    /\ status \in [Validators -> {"up", "down"}]
    /\ restarts \in [Validators -> 0..MaxRestarts]
    /\ store \in [Validators -> Header \cup {NoHeader}]
    /\ accepted \subseteq Reports
    /\ sent \in [Validators -> SUBSET Epochs]

=============================================================================
