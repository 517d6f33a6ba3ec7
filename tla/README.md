# A TLA+ model of the PIN AI Subnet

The Subnet matches user *intents* to *agents* and has a committee of
*validators* agree on what the agents executed. This directory holds TLA+
modules that model the code, TLC configurations that check them on small
instances, and TLAPS proofs, for every value of the constants, of the safety of the
validators in all three consensus modes, of recovery, of the matcher and its library, and
of the services and pipelines around them. Paths below are relative to the repository root.

An agent bids for an intent at the *matcher*; the matcher closes the bidding
window, assigns the intent to the best bid, records the assignment on the chain
and at the RootLayer, and hands the task to the agent. The agent sends an
*execution report* to a validator. Validators put reports and *checkpoints* in a
replicated log (Raft, or CometBFT), sign the validation bundle of each checkpoint's
reports, and submit it with the signatures to the RootLayer.

## The system

| Component | State | Operations | Interacts with |
|---|---|---|---|
| Validator node, Raft mode (`internal/validator/node.go`, `handlers.go`) | pending reports, epoch and checkpoint, checkpoint and bundle signatures, submission flags | reports, proposals, committed entries, gossip handlers, two submission paths | Raft log (callbacks), gossip, RootLayer, LevelDB |
| Raft log, snapshots and boot (`raft_fsm.go`, `NewNode`, `saveCheckpoint`) | FSM maps, snapshot, stored checkpoint | Apply, Snapshot, Restore, load, save, Stop | hashicorp/raft, LevelDB |
| Engine wrapper and gossip (`raft/consensus.go`, `gossip_*.go`) | broadcast queue, signatures by epoch | BroadcastSignature, GetBroadcasts, NotifyMsg | memberlist |
| CometBFT mode (`internal/consensus/cometbft`, node's CometBFT paths) | ABCI application, mempool, node fields | CheckTx, FinalizeBlock, handlers, proposal, submission, replay | CometBFT, RootLayer |
| Leader rotation (`state_machine.go`, `leader_tracker.go`, engine-less branches) | FSM state, leader of the epoch, collected signatures | propose, sign, finalize, time out, fail over | gRPC; `Start` refuses such a node today, the handlers are still served |
| Checkpoint chain, bitmaps, Merkle roots (`chain_manager.go`, `fsm.go`, `checkpoint.go`, `merkle.go`) | headers by epoch, latest; signers | AddCheckpoint, GetCheckpoint, AddSignature | node, store |
| Validator service (`server.go`, `report_validator.go`, `handlers.go`) | rate limit, receipts, scores | single and batched reports, forwarding to the leader | node, other validators |
| Authentication and verification (`auth_interceptor.go`, `blockchain/verifier*.go`, `crypto`, `grpc/interceptors`) | nonces, key cache, verdict cache | authenticate, verify, sign | contract |
| Matcher server (`internal/matcher/server.go`) | intents with windows, bids, assignments, streams | AddIntent, bids, window loop, answers, runner-up, streams, pulling, shutdown | RootLayer, chain, agents |
| Matcher library (`bidbook.go`, `matching_engine.go`, `assignment_manager.go`, `simple_task_manager.go`, `task_distributor.go`, `intent_puller.go`) | books, assignments, tasks, subscriptions | close, match, assign, send, time out, retry, pull | not yet wired into the server |
| Storage (`internal/storage`) | in-memory maps; LevelDB keys | save, get, list | all |
| RootLayer client (`complete_client.go`) | connection | submit, batch, stream | RootLayer |
| Start and stop (`cmd/*/main.go`, `Node.Start`, `Node.Stop`) | what runs and what is open | start, signal, stop | all |
| Configuration (`internal/config`, flags) | files, flags, resulting configuration | load, merge, validate | start |

What is hard in this code, line by line and with the property that is about it, is
the hazard list of `PROJECT.json`. In short: every committed log entry is handled
in its own goroutine, so handlers run in any order; a checkpoint is signed twice
(as a checkpoint and as a bundle), and each of the two signature collections starts
a submission of its own that reads state late; gossip is one-shot; leaders are
deposed without knowing it; nodes replay their log after a restart, load their
checkpoint beside that replay, and panic on RootLayer errors; the CometBFT
application forgets everything and replays from height 0; timers race late answers;
mutexes are given up between a decision and its effect; shutdown waits for handlers
that wait for a quorum.

What makes each part correct:

* *validators*: a report that a node was handed is never dropped before RootLayer
  accepted it; epochs never go back; signatures of different headers are never
  counted together; a bundle is submitted with a quorum, only with items that were
  signed, and once per epoch and process; every committed checkpoint is signed.
* *recovery*: what a node loads was committed, its FSM is that of a prefix of the
  log, boot ends, and reports come back by replay.
* *services*: a signed call is authenticated once, a verdict is fresh, a receipt
  means a committed report, and a call is answered.
* *matcher*: one live assignment per intent, nothing executed that RootLayer and the
  chain do not know, an accepted assignment is final, no intent is missed.
* *stop and start*: both end, and the store outlives Raft.

## Modules

| Module | Models |
|---|---|
| `ValidatorSet` | the signature thresholds |
| `RaftValidator` | a committee of validators in Raft + gossip mode; extends `ValidatorSet` |
| `RaftRecovery` | one validator's FSM, snapshots, boot, the writes of `saveCheckpoint`, stop |
| `ReplicatedState` | abstract: a state machine that is always that of a prefix of the log |
| `BundleSubmission` | building, retrying, clearing of bundles; deprecated signatures per intent |
| `SignatureGossip` | the engine wrapper and the gossip queue |
| `CometValidator` | validators in CometBFT mode; extends `ValidatorSet` |
| `LegacyConsensus` | leader rotation; extends `ValidatorSet` |
| `CheckpointChain`, `SignerBitmaps`, `MerkleRoots` | the chain of headers and its hash; the validator list, bitmaps and the FSM that fills them; both Merkle trees |
| `ReportService`, `ReportRules` | receipts, batches, forwarding; rules and scores of reports |
| `AuthInterceptor`, `ParticipantVerifier`, `SignedMessages` | nonces and keys; the on-chain verdict cache; canonical forms and who signed what when |
| `Matcher`, `BidBatches`, `IntentStream` | the matcher server: assignments; batched bids against the window loop; intents from RootLayer to agent, and shutdown |
| `Auction`, `TaskManager`, `TaskDistributor`, `IntentFeed` | the matcher library |
| `BidChoice` | the bids on an intent and findRunnerUp; extended by the two that hand tasks on |
| `MatcherLibrary` | the library and `BidBatches` side by side, with what they promise together |
| `Stores` | `InMemory` and `LevelDBStore` driven by the same calls |
| `RootLayerClient` | connection and submissions |
| `NodeLifecycle`, `NodeConfig` | start and stop; files and flags |
| `MCRaftValidator`, `MCRecovery`, `MCCometValidator`, `MCLegacy`, `MCMatcher` | instances for TLC |
| `MCServices`, `MCPipelines`, `MCLibrary` | instances of several parts that share no state |
| `ValidatorSet_proofs`, `RaftValidator_proofs`, `RaftRecovery_proofs`, `CometValidator_proofs`, `LegacyConsensus_proofs`, `Matcher_proofs` | theorems about the module of that name |
| `Services_proofs` | theorems about `AuthInterceptor`, `RootLayerClient`, `SignatureGossip`, `ReportRules`, `ParticipantVerifier`, `SignedMessages`, `BundleSubmission` |
| `Pipelines_proofs` | theorems about `ReportService`, `IntentStream`, `NodeLifecycle`, `MatcherLibrary` |

The `map` of `PROJECT.json` gives the source lines of each definition. Definitions
whose comment begins with "Faulty" are plausible mistakes in that code; each
conjunct of each property of a passing run is violated when one of them (`mutants`)
takes the place of the definition that follows it.

In every module an action is one critical section of a mutex with the unlocked code
that follows it up to the next one; what a goroutine carries from one to the next is
a record (`tasks`, `loop`, `calls`, `subs`, ...). Calls to RootLayer, chain and
other processes end in any of the outcomes the code distinguishes, and a failed call
may have taken effect.

### RaftValidator

What a goroutine carries between two critical sections is a record in `tasks[n]`;
the kinds follow the code:

    handleCommittedCheckpoint: HandleCommittedCheckpoint -> "sign" -> "store" -> "broadcast"
    checkpoint threshold:      "finalize" -> "sleep" (path "checkpoint") -> "clear"
    bundle threshold:          "submit"   -> "sleep" (path "bundle")     -> "clear"

`handled[n]` is the set of log entries whose goroutine has run on `n`; picking them
in any order models both `go handler.On...Committed` and a lagging follower.
`proposal[n]` keeps the parent hash that `buildCheckpointHeader` read before it read
the epoch. `leaders` holds every node that believes to lead, `leader` the one of the
latest term, the only one whose entries commit. `gossip` only grows: a message may be
delivered late, repeatedly or never. `store[n]` survives `Crash`; `Restart` is
`loadCheckpoint` and an empty `handled`, so that the log is replayed.

A checkpoint signature has a `form`: signers make R||S||V, and verifiers take DER. So
`OnGossipSignatureReceived` never adds one, and is an action of `GossipSpec` only, of
which `GossipSpecIsSpec` proves that it has the behaviours of `Spec` and no others. The
checkpoint path is therefore started only by validators whose own signature is the
threshold.

Abstractions. A header hash is the list of header ids from the first ancestor, an
injective stand-in for SHA-256 (`CheckpointChain` has the hash in detail). Intent keys
are naturals because FIFO ties are broken by key. Reception times are dense ranks.
Validators are honest and their signatures unforgeable. The clock of the checkpoint
interval is nondeterministic. The step that stores a bundle signature and the step
that tests `epochSubmissionTriggered` are joined: signatures of an epoch only grow, and
a repeated delivery tests the flag again. `saveCheckpoint` is one step here and three
in `RaftRecovery`; `BundleSubmission` opens the submission's own steps.

### RaftRecovery and ReplicatedState

`RaftRecovery` follows one process through `Boot` (Raft replays from its snapshot
while `NewNode` has not loaded the checkpoint yet), handlers in any order, failed or
interrupted Puts, snapshots, `Stop`, which closes the store under running handlers,
and crash. `ReplicatedState` has three variables (the log, how much of it is applied,
the state) and says the state is the fold of the applied prefix. The refinement mapping is
the pair of the FSM's checkpoints and its current epoch; the FSM's map of reports is not part of it,
because reports below a snapshot are not given back to the node (`ReportsReplayed`
therefore speaks of a log that is replayed from its first entry).

### CometValidator

A block holds one transaction. `FinalizeBlock` starts a goroutine per transaction
(`spawned`), which runs late and in any order. There is no leader: each validator
proposes, and each that counts the threshold submits. A crash empties application and
node; `store` keeps the checkpoint, and the chain is replayed from height 0.

### LegacyConsensus

The loop goroutine decides under the lock and acts under it later (`loop[n]`).
`HandleFinalized` gives the lock up between its two critical sections; `catching` holds
the nodes where some call of it waits for the second one, and any number may. The
network delivers any header or signature ever sent, late or repeatedly. A signature
has an encoding, because the signer's and the verifier's differ.

### Matcher and its neighbours

Handlers hold `s.mu` throughout and are single actions, RPCs included.
`tryAssignToRunnerUp` is a record in `runnerUps` that goes through the phases
`select`, `create`, `chain`, `root`, because it calls `createAssignment` without the
lock. A submission that fails takes it on through `reopen`, `rematch` or `drop`,
`drop bids`, then `forget` and `cleanup`, one write of `handleAssignmentFailureLocked`
each; a window is therefore its two flags. BiddingEndTime is left out: a window may
close at once. An agent answers only tasks it received (`delivered`), any number of times. The
Go runtime may end the process on a concurrent map access or on a send on a closed
channel; the matcher keeps nothing on disk, so this is a behaviour that stops.
`BidBatches` gives up the lock between two bids of a batch, `IntentStream` follows
an intent from RootLayer's stream or poll to an agent's channel, with the windows that
close, which is broadcast, and open again, which is not (`windows`).

The library objects are driven by the caller their interfaces are made for, each with
a lock of its own. Where the code can panic (on nil, on a closed channel) the module has a
crashed outcome (`managerCrashed`, `feedCrashed`).

### Services and data

`AuthInterceptor!SignRequest` stamps a request with any time: the agent's clock is not the
server's. In `MerkleRoots` the leaf of a report is the hash of what the code writes, three ids
with nothing between them and the time; `RootBindsList` says what a root then stands for.
`CheckpointChain!GetCheckpoint` fills the map under the read lock, so that concurrent calls
may end the process: a second outcome of that action. `MeantPeers` in `NodeConfig` says which
peers the files and flags of a node speak of.

### Composite instances

`MCServices` and `MCPipelines` extend several modules that share no variable and make no call
to each other (`MCServices` instantiates the chain); `MCLibrary` extends `MatcherLibrary` and
`IntentStream` and instantiates the rest. Interleaving them would only multiply states, so `part` names the one a behaviour runs. A part that does not run stays at an initial
state, or has no state and its invariant is guarded by `part`. In `MCPipelines` fairness
is assumed of the part that runs.

## Runs

Bounds are CONSTANTS that appear in guards; `CHECK_DEADLOCK FALSE` is used because
these bounds let an instance stop.

| Run | Instance | Shows |
|---|---|---|
| `MCRaft_pair` | 2 validators (both must sign), 1 checkpoint, `MaxIntentsPerEpoch = 1`, RootLayer failing; 2 intents, or 1 intent with 1 leader change and 1 restart per node | NoReportLost, BundleItemsSigned with more intents than an epoch may hold and items accepted one by one; TypeOK, BundleQuorum, OneBundleSubmissionPerEpoch with a deposed leader, panics and replay |
| `MCRaft_single` | 1 validator without weights, 2 intents, 2 epochs, 1 restart, `FairSpec` | EpochAheadOfHandled, SignaturesMatchCheckpoint under reordered and same-epoch headers, where both submission paths start on the node's own signature; EveryNodeSigns |
| `MCRecovery_boot` | 1 validator, 3 log entries, 1 restart, 1 snapshot | ReplicaOfLog (the refinement), LoadFindsHeader, ReportsReplayed, BootCompletes |
| `MCComet_replay` | 2 validators, one of which restarts, 1 report, 2 proposals, 4 blocks, RootLayer failing | ReplayInv (replicas agree, epochs do not fall back), CommittedSignaturesCount, NoReportLost, BatchesAreDue |
| `MCLegacy_rotation` | 2 validators, 2 epochs, 2 proposals | RotationInv (the leader is the epoch's, one header is collected), NeverGoesBack |
| `MCMatcher_intent` | 1 intent, 2 bidders, 3 assignments, 3 streams; equal prices, a missing address, an odd status | OneLiveAssignment (besides those a goroutine is about to delete), ConfirmedIsRecorded, ConfirmedIsFinal |
| `MCServices` | 8 parts: auth (2 handlers, 2 nonces, timestamps behind and ahead, a window of one second of two ticks), verifier (cache of 1, 2 lookups), messages (2), rules (8 reports, 12 policies, batches of 2), client (2 goroutines, 2 connections), gossip (3 nodes, 2 epochs), bundles (2 overlapping submissions), chain (2 nodes, 2 epochs, a restart) | the safety of the services, below |
| `MCPipelines` | 3 parts: reports (2 nodes, one of which may hang, a batch of 2, 1 election; nodes are alike, so the first leader is fixed), the way of an intent to the matcher over a stream that breaks once, with a page and a channel of one, start and stop with 2 handlers and a replayed block | receipts, and what must eventually happen, below |
| `MCLibrary` | 10 parts: auction (3 bidders), task manager, distributor (6 kinds, 4 deadlines), feed (2 pulls), bid batches, an agent's stream (2 intents, a channel of 2 for the openings and closings of both), stores (4 calls, epochs 9 and 10), bitmaps (2, 8 and 9 validators, two of ten come and go), Merkle (two lists of up to 5 out of 3 reports, ids of one and two characters), configuration (2 nodes, 6 x 3 files, 9 flag sets, `--raft-enable` with and without Raft in the files among them) | the library properties, below |

Why these bounds are enough to be interesting: three log entries are the least that
let a later one be handled before an earlier one and two headers share an epoch; two
validators with a 2/3 threshold make every signature needed, so a lost one matters;
two goroutines are the least that let both submission paths, or two handlers, meet;
three assignments let both bidders reject and the first one be asked again; channels
of one fill with two intents; nine validators need a second byte; epochs 9 and 10 sort
differently as text. The `CONSTRAINT`s of the larger instances bound goroutines alive
at the same time or how many nodes fail; that of `MCRaft_pair` follows a second report only
without failures. No run with a liveness property has one, nor symmetry.
`MCPipelines` has no agents (`Agents = {}`), of whom none of its properties speaks; `MCLibrary` has one.

The invariant of a part is the conjunction of the named properties of its module,
and the runs have one invariant per part or per group of parts with the same job.

| `MCServices` | Conjuncts |
|---|---|
| AuthenticatedOnce | a signed call passes once, though nonces are dropped and timestamps are whole seconds; twice at most if it was stamped so far ahead that its timestamp outlives its nonce |
| VerifierInv | VerdictIsFresh: a verdict is no older than a cache entry may be, plus one call; CacheIsBounded under concurrent lookups |
| MessagesInv | AcceptedAsSigned, CallIsFresh, ReportIsOfAssignee: a message is accepted as it was signed, in time, from the assignee |
| RulesInv | VerdictIsOwn: no report of a batch is judged by another's assignment; InRangeScoresHigher |
| ClientInv | AckedIsRecorded: what the client acknowledges RootLayer has; NoConnectionLeaked |
| GossipInv | ThresholdIsThreeValidators though signatures are filed under moving epochs; NoBroadcastLost |
| BundlesInv | ClearedIsRecorded, GroupSignedForEpoch, RecordedOncePerSubmission under failures, lost answers and overlapping submissions |
| ChainInv | SameLatestSameHash, LoadedAsAdded: nodes agree on the hash a child names as its parent, also after a restart |

| `MCPipelines` | Conjuncts |
|---|---|
| ReceiptsInv | ReceiptMeansCommitted across a change of leadership; ReceiptsCoverBatch |
| StoreOutlivesRaft | the store is closed after the last committed entry was applied to it |
| CallsAnswered | a node that keeps running answers every call though the leader hangs |
| IntentsGoOn | EveryIntentAdded: an intent gets its window though the stream breaks and polling sees one page; FeedReleased: goroutines end after the cancel |
| StartAndStopEnd | StartEnds: CometBFT's start ends; StopsOnSignal: a node told to stop exits |

| `MCLibrary` | Conjuncts |
|---|---|
| AuctionInv | ClosedIsAnnounced, AssignedOncePerCause, IntentIndexResolves, AllBidsAreOfTheBook |
| TasksInv | NoTaskForgotten, AgentIndexAgrees (manager); TimeoutWithinLimits, RetriesBounded, RetryAvoidsFailed (distributor) |
| IntakeInv | NoIntentMissed, BroadcastOnce (feed); AcceptedIsMatched, AcksFollowBids (batches of bids) |
| StreamInv | StreamMissesNothing: a streaming agent is told of every added intent, unless its channel was full or the window was closed when the stream listed the open ones; ChannelClosedOnce |
| DataInv | ReadsAgree, HeadersAgree, EvidenceKept, QueryFindsEvidence, RecordsAgree (stores); SignersNamed, AllSignedReaches (bitmaps); RootBindsList, TreesAgree (Merkle roots) |
| ConfigInv | PeersSurvive, ValidatorSetsAgree |

### Fairness

* `RaftValidator!FairSpec`: weak fairness of the handlers of committed entries and of the
  goroutines they start. They wait only for a mutex that is always released. Nothing
  is assumed of elections, gossip, RootLayer or the clock.
* `RaftRecovery!Fairness`: Raft applies what is committed, each handler and each step
  of the boot goes on. Snapshots, crashes, RootLayer's answers are free.
* `ReportService!ServiceFairness`: a goroutine that can go on does; the five-second deadline of a
  forwarded call comes, also when the other node hangs.
* `IntentStream!StreamFairness`: goroutines go on, tickers tick, gRPC dials again after
  a break. `RestoreStreaming`, the case of a `select` that its ticker makes ready
  again and again, has strong fairness. Agents and signals are free.
* `RaftValidator!FairGossipSpec`: as `FairSpec`, and submitting goroutines run to their end
  and gossip reaches every node that is up. It is the best the network can do, so that the
  counterexample of `MCRaft_doc_gossip` blames nothing else.
* `NodeLifecycle!LifeFairness`: main, handlers, and what the engine starts go on; an
  Apply ends by a commit, which nothing promises, or by Raft's shutdown.

### Runs that are expected to fail

Each refutes a sentence of the documentation or of a comment (`findings` in
`PROJECT.json` quote them):

| Run | What happens |
|---|---|
| `MCRaft_doc_gossip` | a leader that waits for gossiped checkpoint signatures never gets one: they are R||S||V and verified as DER |
| `MCMatcher_doc_lock` | while the runner-up goroutine cleans up after a failed submission without the lock, the window loop matches the intent again |
| `MCConfig_doc_peers` | with `--raft-enable` and files that leave Raft off, as the guide's do, a node runs Raft without peers |

Also seen while modelling, without a run of their own:

* with rotating leaders, too, a signature that a validator makes with its own signer verifies nowhere
  (`LegacyConsensus!Verifies`): `Signer` documents a DER signature and returns R||S||V;
* a failed batch call panics (`SubmitBatchPanics`) where docs/architecture.md
  promises a fallback to individual submission;
* the checkpoint path sends all pending intents although only `MaxIntentsPerEpoch` were signed;
* a window that is opened again is not broadcast, and one that is closed is not listed to a
  new stream, so an agent may never hear of an intent it could bid for (`WindowReopens`);
* the failure handling that runs without the lock may delete the matching result of the next
  match (`ForgetResult`);
* the leaf of the event root covers no result or status, and the ids in it are not separated;
* `Chain.GetCheckpoint` writes its map under the read lock. The node never calls `SetStore`,
  so its chain has no store to fill the map from;
* a request stamped up to 300 s ahead may be replayed in the second in which its nonce is
  forgotten and its timestamp is still in the window;
* a checkpoint is saved before its signatures are reset, so a restarted node holds
  signatures of the previous header until the next reset;
* reports below a snapshot are not given back to a restarted node;
* `CheckTx` calls checkpoint epoch 0 valid and turns away bundle signatures of epoch 0;
* an intent may return to an agent that rejected it, once another one has rejected it;
* an agent that reconnects before its old stream ended gets no tasks;
* an assignment that the chain took and RootLayer refused is dropped by the matcher and
  stays on the chain (`CloseAndFail`).

## Proofs

All theorems hold for every validator set, threshold, set of reports, intents, calls and
bids and every bound, under the named assumptions of the modules:
`ValidatorsAssumption`, `ThresholdAssumption`, `WeightAssumption` (what
`ValidatorSet.Validate` accepts, a non-empty committee), `ReportsAssumption`,
`BoundsAssumption`, `CometAssumption`, `RecoveryAssumption`, `LegacyAssumption`,
`MatcherAssumption` (finitely many reports, naturals for bounds), `BidsAssumption`,
`NoHeaderAssumption` (nil is no header), `RotationAssumption` (validators are
numbered as the leader tracker counts them), `AuctionAssumption` and `FeedAssumption`
(finitely many agents and pulling goroutines, a natural channel size), `PricesAssumption`
(a task has a bid, prices are naturals), `KindsAssumption` (kinds of an intent have settings)
and `BatchesAssumption` (a batch is a non-empty sequence of bids). TLC
evaluates them on every run of these modules. These theorems have hypotheses of their own:

* `AuthBounds`: a handler is not suspended between two of its steps for longer than the nonce's life
  outlasts the window (299 s with the code's 300 s and 600 s). This leaves room for the
  timestamp, which is rounded down to a second: unless it is stamped ahead by almost the whole
  window (`StampedAhead`), its nonce is remembered as long as it can still be found in it;
* `GossipBounds`: finitely many nodes, a natural number of epochs;
* `RulesBounds`: sizes, times and the bounds of a policy are not negative;
* `VerifierBounds`, `MessageBounds`, `BundleBounds`: the life and size of the cache, times
  and drifts are naturals, there are finitely many reports and at least one checkpoint;
* `StreamInvHolds`: a page and a channel have a natural size.

Each theorem rests on an inductive invariant that TLC checked on the instance of
the run first.

* `ValidatorSet_proofs`: `ThresholdReachable` and `QuorumsIntersect`, from bounds
  on the rounded share and the library's facts on cardinalities.
* `RaftValidator_proofs`: `LogInv` adds to the properties that a process that is
  down has handled nothing (`DownIsEmpty`; otherwise `Restart` would break
  `EpochAheadOfHandled`) and that reports are only cleared for accepted intents
  (`ClearAccepted`, the reason for `NoReportLost`). `SubmissionInv` relates flags,
  goroutines and history: a triggered epoch holds a quorum (`TriggeredQuorum`), each
  triggered epoch has one goroutine at most and only triggered epochs were sent
  (`OneTask`, `SentTriggered`), recorded intents and those of a sleeping goroutine were
  signed (`EpochIntentsSigned`, `TaskItemsSigned`). Theorems: `TypeCorrect`,
  `EpochAheadOfHandledHolds`, `NoReportLostHolds`, `SignaturesMatchCheckpointHolds`,
  `BundleQuorumHolds`, `BundleItemsSignedHolds`, `OneBundleSubmissionPerEpochHolds`;
  `GossipSpecIsSpec` extends them to `GossipSpec`, since every gossiped checkpoint signature
  is R||S||V.
* `RaftRecovery_proofs`: `RecoveryInv` says of a `saveCheckpoint` under way that its
  header is committed and on disk before the pointer moves (`SaveInv`), of a boot that
  has read the pointer that the header is there (`PointerInv`), and of every applied
  report that it is with its handler, held or cleared (`ReportsHeld`). Theorems:
  `LoadFindsHeaderHolds`, `LoadReadsCommittedHolds`, `ReportsReplayedHolds`.
  `ReplicaInv` adds that the FSM and the snapshot are `StateAt` of the applied index and
  of the snapshot's; with it `ReplicaOfLogHolds` shows that every step is one of
  `ReplicatedState` or a stutter. `StateAt` is a recursive function: that it is well
  defined and does not change when the log grows is proved from the least index
  where it would, since induction over its argument cannot be instantiated.
* `CometValidator_proofs`: `AppsReplay` says an application is the replay of the blocks
  up to its height, `HandledInv` that each handled block is accounted for in the node's
  own fields (`Accounted`) and that only accepted reports are being cleared
  (`ClearsAccepted`), `SubmissionInv` is as in Raft mode, without a leader. Theorems:
  `TypeCorrect`, `ReplayInvHolds`, `CommittedSignaturesCountHolds`,
  `NoReportLostHolds`, `BatchesAreDueHolds`.
* `LegacyConsensus_proofs`: in `LegacyInv` a collecting node has signed its header in both
  of its collections and, unless `HandleFinalized` is between its critical sections,
  verifies signatures against that header (`Collects`). Without the second part a late
  signature of another header would be counted. Theorems: `RotationInvHolds` and the
  action property `NeverGoesBackHolds`.
* `Matcher_proofs`: a goroutine is in charge of its intent until it sets `Matched` to false
  (`InCharge`), and owns its assignment until it deletes it (`Owning`). `MatcherInv` says that
  an intent with a current assignment (live and not failed) or a goroutine in charge is kept
  from the window loop (`BusyIsMatched`), that it has one such goroutine (`OneRunnerUp`),
  alone or with its own pending assignment (`RunnerUpAlone`, `RunnerUpPending`), that an
  assignment has one owner (`OneOwner`), and that ids are fresh (`IdsUsed`, `Exclusive`).
  Two assignments of an intent may be pending while goroutines clean up, which
  `MCMatcher_doc_lock` shows; `OneLiveAssignment` says that one of them at most is not
  about to be deleted, and that no agent was given one of the others.
  Theorems: `TypeCorrect`, `OneLiveAssignmentHolds`, `ConfirmedIsRecordedHolds`,
  `ConfirmedIsFinalHolds`.
* `Pipelines_proofs`: in `ServiceInv` pending reports are committed (a duplicate's
  receipt rests on that), receipts given so far are true and end at a rejection where
  the batch does (`CallIsSound`), and a waiting call waits for the report it is at
  (`WaitsForReport`: the answer of a forwarded call is taken over as its own).
  In `StreamIInv` a streaming agent has been told of each intent of the matcher, has that
  queued or lost it to a full channel, except for the one that AddIntent has inserted and not
  yet broadcast and those skipped (`HasAllBut`), whose window was closed when it listed the
  open ones and is closed or re-opened since (`SkippedClosed`); a stream's channel is within its capacity and closed once, when
  its handler has left. `RaftStopsFirst` says that past the second step of `Node.Stop` Raft
  is down, and that the store is open as long as Raft is up. Theorems:
  `ReceiptsInvHolds`, `StreamInvHolds`, `StoreOutlivesRaftHolds`.

  The matcher's library has an invariant per object. `AssignIInv` (auction) adds that an
  intent without an index entry is entitled to one more assignment (`EntitledWithoutIndex`),
  which is why a match may create one whenever the index is empty. `ManagerIInv` and
  `DistributorIInv` add types only: what the properties say is inductive. That findRunnerUp
  finds a cheapest bid at all rests on the least element of a set of naturals. `FeedIInv`
  counts each broadcast made or due against a processed record (`BroadcastsCounted`), says
  that what was or will be broadcast is pending (`BroadcastIsPending`), and that a current
  subscription has had each pending intent, is about to be sent it, or will see it broadcast
  (`PendingReachesAll`): NoIntentMissed speaks of the moment all that has ended, and is not
  inductive alone. `BidIInv` says of a call at work that its acknowledgements are those of
  its first bids (`AnswersInOrder`) and have no refusal unless partial success is allowed
  (`RefusalEnds`), that a book has exactly the bids acknowledged so far, by all calls
  together (`BookIsAccepted`), and that a closed book is the matched one
  (`ClosedIsMatched`). Theorems: `AuctionInvHolds`, `TasksInvHolds`, `IntakeInvHolds`.
* `Services_proofs`: `AuthInv` (a nonce belongs to one request, the nonce of a request
  that passed is remembered or was forgotten after its life, when only a request stamped ahead
  is still in the window, and after a second time it outlives that too (`Remembered`); at most
  one handler holds it),
  `CallsInv` (what a call has been answered RootLayer has recorded), `SpreadInv`
  (one signature per signer under each epoch, of committed checkpoints), `JudgedInv`
  (verdicts are in the order of the batch, scores are those of the policy; in its range
  the time score is at least 80, which no bonus outside it makes up for), `FreshInv` (a
  positive answer on its way into the cache was true when its call ended, `AnswerIsYoung`; a
  positive entry does not outlive the agent's activity by more than its life and a call,
  `EntryIsYoung`; addresses in the cache are distinct), `TrueMessages` (every signed message
  is one its agent meant, in a form it is signed in; an accepted message with that form has
  those fields), `SoundBundles` (the keys of a submission are its items in order, each
  result that is true belongs to a recorded bundle, and bundles still to be sent were not
  recorded, `SubIsSound`). Theorems: `AuthenticatedOnceHolds`,
  `ClientInvHolds`, `GossipInvHolds`, `RulesInvHolds`, `VerifierInvHolds`,
  `MessagesInvHolds`, `BundlesInvHolds`.

Only model-checked:

* liveness, which is out of the prover's reach: EveryNodeSigns, BootCompletes,
  CallsAnswered, IntentsGoOn, StartAndStopEnd;
* ChainInv of `MCServices`; DataInv and ConfigInv of `MCLibrary`. `TreesAgree`
  and `RootBindsList` are about RECURSIVE operators, which the prover cannot reason about. The others are about data:
  listings, keys, bitmaps and address lists are made with SelectSeq, sorting and folds,
  which are recursive, and what these return for every input takes an induction that cannot
  be instantiated;
* the three violations.

Proved and without a run: the type invariants of `Matcher` and `CometValidator`,
and `LoadReadsCommitted`.
With chain submission off the matcher is covered by the proofs only.

## Not modelled

* *Raft without gossip*: kept "for backward compatibility"; it submits directly after a
  commit, without the signatures of others, so none of the collection happens.
  `cleanupOldEpochData` runs only from `OnCheckpointFinalized`, which no engine calls;
  `processVoteExtensions` has no caller.
* *RootLayer mock and plain gRPC client*: stand-ins and a wrapper of generated calls.
* *Signing primitives*: curve arithmetic and keys; only the encodings and canonical forms matter
  to the protocol and are modelled.
* *Configuration*: values that are only handed on, default timeouts, logging and metrics settings.
* *Logging, metrics, SDK examples, tools, generated protobuf*: no protocol state.
* *The protocols of hashicorp/raft, memberlist, CometBFT*: external, modelled by what the code
  uses of them.

## Plan

1. *(done)* `ValidatorSet`, `RaftValidator`, `Matcher` and the proofs of their safety.
2. *(done)* Recovery with its abstract specification, CometBFT, leader rotation, the
   services, the matcher library, storage, chain, configuration, start and stop.
3. *(done)* Proofs for recovery with its refinement, CometBFT, leader rotation, receipts,
   streams, stopping, authentication, verifier, messages, RootLayer client, gossip, report
   rules and bundles.
4. *(done)* Proofs for the matcher's library and the batches of bids. The theorem modules are
   joined where their components share no names.
5. Left to TLC for good are liveness and the invariants about recursive data named above. A
   change to the code starts at the module of its component: run the instance, then the
   inductive invariant of the proof module as an invariant of that instance, then tlapm.
