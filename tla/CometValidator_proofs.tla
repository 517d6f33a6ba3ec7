------------------------- MODULE CometValidator_proofs -------------------------
(***************************************************************************)
(* Proofs about CometValidator, for any number of validators, reports,     *)
(* blocks, epochs and restarts: the replayed application is a function of  *)
(* the blocks, handlers in any order lose neither signatures nor reports,  *)
(* and a node sends a batch only when it is due.                           *)
(***************************************************************************)
EXTENDS CometValidator, ValidatorSet_proofs

-----------------------------------------------------------------------------
(***************************************************************************)
(* Types                                                                   *)
(***************************************************************************)

\* Heights are those of blocks, and a node that is down has nothing in memory.
HeightInv ==
    /\ Len(blocks) <= MaxBlocks
    /\ \A n \in Validators :
         /\ app[n].height <= Len(blocks)
         /\ spawned[n] \subseteq 1..Len(blocks) /\ handled[n] \subseteq 1..Len(blocks)
         /\ ~Up(n) => handled[n] = {} /\ spawned[n] = {} /\ tasks[n] = {}

TypeInv == TypeOK /\ HeightInv

\* A fresh application is an application.
LEMMA NewAppType == NewApp \in App /\ NewApp.height = 0
  BY CometAssumption DEF NewApp, App, Epochs

\* The first state is well typed.
LEMMA InitType == Init => TypeInv
<1> SUFFICES ASSUME Init PROVE TypeInv
  OBVIOUS
<1>1. app \in [Validators -> App] /\ \A n \in Validators : app[n].height = 0
  BY NewAppType DEF Init
<1>2. currentEpoch \in [Validators -> 0..MaxEpoch + 1] /\ proposals \in 0..MaxProposals
  BY CometAssumption DEF Init
<1>3. restarts \in [Validators -> 0..MaxRestarts]
  BY CometAssumption DEF Init
<1>4. /\ epochIntents \in [Validators -> [Epochs -> SUBSET Reports]]
      /\ epochSigs \in [Validators -> [Epochs -> SUBSET BundleSig]]
  BY DEF Init
<1>5. blocks \in Seq(Tx) /\ Len(blocks) = 0
  BY DEF Init
<1>6. TypeOK
  BY <1>1, <1>2, <1>3, <1>4, <1>5 DEF Init, TypeOK
<1>7. HeightInv
  BY <1>1, <1>5, CometAssumption DEF Init, HeightInv, Up
<1> QED
  BY <1>6, <1>7 DEF TypeInv

\* A block at a height of the chain is a transaction, told apart by its type.
LEMMA BlockType ==
  ASSUME TypeInv, NEW k \in 1..Len(blocks)
  PROVE  /\ blocks[k] \in Tx
         /\ blocks[k].type = "report" => blocks[k].report \in Reports
         /\ blocks[k].type = "checkpoint" =>
              blocks[k].header \in Header /\ blocks[k].header.epoch \in Epochs
         /\ blocks[k].type = "bundle" =>
              /\ blocks[k].epoch \in Epochs
              /\ [signer |-> blocks[k].signer, digest |-> blocks[k].digest] \in BundleSig
<1>1. blocks[k] \in Tx
  BY DEF TypeInv, TypeOK
<1> QED
  BY <1>1 DEF Tx, Header, BundleSig

\* Delivering a transaction keeps the type and the height.
LEMMA DeliverType ==
  ASSUME NEW n \in Validators, NEW a \in App, NEW tx \in Tx
  PROVE  Deliver(n, a, tx) \in App /\ Deliver(n, a, tx).height = a.height
<1>1. CASE tx.type = "report"
  <2>1. tx.report \in Reports
    BY <1>1 DEF Tx
  <2> QED
    BY <1>1, <2>1 DEF Deliver, App
<1>2. CASE tx.type = "checkpoint"
  <2>1. tx.header \in Header /\ tx.header.epoch \in Epochs
    BY <1>2 DEF Tx, Header
  <2>2. Deliver(n, a, tx) = [[a EXCEPT !.epoch = tx.header.epoch]
                               EXCEPT !.checkpoints[tx.header.epoch] = tx.header]
    BY <1>2 DEF Deliver
  <2> QED
    BY <2>1, <2>2 DEF App
<1>3. CASE tx.type = "bundle"
  BY <1>3 DEF Deliver, App
<1> QED
  BY <1>1, <1>2, <1>3 DEF Tx

\* The mempool and the chain keep their types.
LEMMA ChainType ==
  ASSUME TypeInv,
         CommitBlock \/ \E n \in Validators, r \in Reports : ProcessExecutionReport(n, r)
  PROVE  TypeInv'
<1> USE DEF appVars, checkpointVars, bundleVars, processVars, rootVars
<1>1. CASE CommitBlock
  <2>1. PICK tx \in mempool : blocks' = Append(blocks, tx) /\ mempool' = mempool \ {tx}
    BY <1>1 DEF CommitBlock
  <2>2. tx \in Tx
    BY DEF TypeInv, TypeOK
  <2>3. /\ blocks' \in Seq(Tx) /\ Len(blocks') = Len(blocks) + 1 /\ Len(blocks) \in Nat
        /\ Len(blocks') <= MaxBlocks /\ mempool' \subseteq Tx
    BY <1>1, <2>1, <2>2, CometAssumption DEF CommitBlock, TypeInv, TypeOK
  <2>4. 1..Len(blocks) \subseteq 1..Len(blocks')
    BY <2>3
  <2>5. UNCHANGED <<app, spawned, handled, tasks, status>>
    BY <1>1 DEF CommitBlock
  <2>6. \A n \in Validators : app[n].height \in Nat
    BY CometAssumption DEF TypeInv, TypeOK, App
  <2>7. \A n \in Validators : app[n].height <= Len(blocks')
    BY <2>3, <2>6 DEF TypeInv, HeightInv
  <2>8. HeightInv'
    BY <2>3, <2>4, <2>5, <2>7 DEF TypeInv, HeightInv, Up
  <2> QED
    BY <1>1, <2>3, <2>8 DEF CommitBlock, TypeInv, TypeOK
<1>2. ASSUME NEW n \in Validators, NEW r \in Reports, ProcessExecutionReport(n, r)
      PROVE  TypeInv'
  <2>1. [type |-> "report", report |-> r] \in Tx
    BY DEF Tx
  <2>2. mempool' \subseteq Tx
    BY <1>2, <2>1 DEF ProcessExecutionReport, TypeInv, TypeOK
  <2> QED
    BY <1>2, <2>2 DEF ProcessExecutionReport, TypeInv, TypeOK, HeightInv, Up
<1> QED
  BY <1>1, <1>2

\* A step of a node that is up keeps the heights when it takes handlers to run or
\* marks them as run.
LEMMA HeightFrame ==
  ASSUME TypeInv, NEW n \in Validators, Up(n), UNCHANGED <<blocks, app, status>>,
         NEW S \in SUBSET (1..Len(blocks)), NEW D \in SUBSET (1..Len(blocks)), NEW T,
         spawned' = [spawned EXCEPT ![n] = S], handled' = [handled EXCEPT ![n] = D],
         tasks' = [tasks EXCEPT ![n] = T]
  PROVE  HeightInv'
<1>1. \A m \in Validators :
        /\ spawned'[m] = IF m = n THEN S ELSE spawned[m]
        /\ handled'[m] = IF m = n THEN D ELSE handled[m]
        /\ tasks'[m] = IF m = n THEN T ELSE tasks[m]
  BY DEF TypeInv, TypeOK
<1>2. ASSUME NEW m \in Validators
      PROVE  /\ app'[m].height <= Len(blocks')
             /\ spawned'[m] \subseteq 1..Len(blocks') /\ handled'[m] \subseteq 1..Len(blocks')
             /\ status'[m] # "up" => handled'[m] = {} /\ spawned'[m] = {} /\ tasks'[m] = {}
  <2>1. CASE m = n
    <3>1. spawned'[m] = S /\ handled'[m] = D
      BY <1>1, <2>1
    <3>2. app'[m].height <= Len(blocks') /\ blocks' = blocks /\ status'[m] = "up"
      BY <2>1 DEF TypeInv, HeightInv, Up
    <3> QED
      BY <3>1, <3>2
  <2>2. CASE m # n
    BY <1>1, <2>2 DEF TypeInv, HeightInv, Up
  <2> QED
    BY <2>1, <2>2
<1> QED
  BY <1>2 DEF TypeInv, HeightInv, Up

\* The same for a step that leaves the handlers alone.
LEMMA QuietHeights ==
  ASSUME TypeInv, NEW n \in Validators, Up(n),
         UNCHANGED <<blocks, app, status, spawned, handled>>,
         NEW T, tasks' = [tasks EXCEPT ![n] = T]
  PROVE  HeightInv'
<1>1. /\ spawned' = [spawned EXCEPT ![n] = spawned[n]]
      /\ handled' = [handled EXCEPT ![n] = handled[n]]
  BY DEF TypeInv, TypeOK
<1>2. spawned[n] \in SUBSET (1..Len(blocks)) /\ handled[n] \in SUBSET (1..Len(blocks))
  BY DEF TypeInv, HeightInv
<1> QED
  BY <1>1, <1>2, HeightFrame

\* FinalizeBlock keeps the types.
LEMMA FinalizeType ==
  ASSUME TypeInv, NEW n \in Validators, FinalizeBlock(n)
  PROVE  /\ TypeInv'
         /\ app[n].height + 1 \in 1..Len(blocks)
         /\ app'[n].height = app[n].height + 1
<1> DEFINE height == app[n].height + 1
           new == Deliver(n, [app[n] EXCEPT !.height = height], blocks[height])
<1>1. /\ height <= Len(blocks) /\ app' = [app EXCEPT ![n] = new]
      /\ spawned' = [spawned EXCEPT ![n] = @ \cup {height}] /\ Up(n)
      /\ UNCHANGED <<mempool, blocks, handled, pendingReports, currentEpoch,
                     currentCheckpoint, building, proposals, epochIntents, epochSigs, triggered,
                     tasks, status, restarts, store, accepted, sent>>
  BY DEF FinalizeBlock, chainVars, checkpointVars, bundleVars, processVars, rootVars
<1>2. app[n] \in App /\ app[n].height \in 0..MaxBlocks
  BY DEF TypeInv, TypeOK, App
<1>3. /\ Len(blocks) \in Nat /\ Len(blocks) <= MaxBlocks
  BY DEF TypeInv, TypeOK, HeightInv
<1>4. height \in 1..Len(blocks) /\ height \in 1..MaxBlocks /\ height \in 0..MaxBlocks
  BY <1>1, <1>2, <1>3, CometAssumption
<1>5. [app[n] EXCEPT !.height = height] \in App /\ [app[n] EXCEPT !.height = height].height = height
  BY <1>2, <1>4 DEF App
<1>6. blocks[height] \in Tx
  BY <1>4, BlockType
<1>7. new \in App /\ new.height = height
  BY <1>5, <1>6, DeliverType
<1> HIDE DEF new, height
<1>8. app' \in [Validators -> App] /\ spawned' \in [Validators -> SUBSET (1..MaxBlocks)]
  BY <1>1, <1>4, <1>7 DEF TypeInv, TypeOK
<1>9. TypeOK'
  BY <1>1, <1>8 DEF TypeInv, TypeOK
<1>10. \A m \in Validators : /\ app'[m] = IF m = n THEN new ELSE app[m]
                             /\ spawned'[m] = IF m = n THEN spawned[m] \cup {height} ELSE spawned[m]
  BY <1>1 DEF TypeInv, TypeOK
<1>11. HeightInv'
  BY <1>1, <1>3, <1>4, <1>7, <1>10 DEF TypeInv, HeightInv, Up
<1> QED
  BY <1>4, <1>7, <1>9, <1>10, <1>11 DEF TypeInv, height

\* Building and proposing a checkpoint keep the types.
LEMMA ProposeType ==
  ASSUME TypeInv, NEW n \in Validators, BuildCheckpoint(n) \/ ProposeCheckpointCometBFT(n)
  PROVE  TypeInv'
<1> USE DEF chainVars, appVars, checkpointVars, bundleVars, processVars, rootVars
<1>1. CASE BuildCheckpoint(n)
  <2>1. currentEpoch[n] \in Epochs /\ proposals + 1 \in 1..MaxProposals
    BY <1>1, CometAssumption DEF BuildCheckpoint, TypeInv, TypeOK, Epochs
  <2>2. [id |-> proposals + 1, epoch |-> currentEpoch[n]] \in Header
    BY <2>1 DEF Header
  <2>3. building' \in [Validators -> Header \cup {NoHeader}] /\ proposals' \in 0..MaxProposals
    BY <1>1, <2>1, <2>2 DEF BuildCheckpoint, TypeInv, TypeOK
  <2> QED
    BY <1>1, <2>3 DEF BuildCheckpoint, TypeInv, TypeOK, HeightInv, Up
<1>2. CASE ProposeCheckpointCometBFT(n)
  <2> DEFINE tx == [type |-> "checkpoint", header |-> building[n]]
  <2>1. building[n] \in Header
    BY <1>2 DEF ProposeCheckpointCometBFT, TypeInv, TypeOK
  <2>2. tx \in Tx
    BY <2>1 DEF Tx
  <2>3. mempool' = mempool \/ mempool' = mempool \cup {tx}
    BY <1>2 DEF ProposeCheckpointCometBFT, ProposeCheckpoint
  <2>4. mempool' \subseteq Tx
    BY <2>2, <2>3 DEF TypeInv, TypeOK
  <2>5. /\ currentCheckpoint' \in [Validators -> Header \cup {NoHeader}]
        /\ building' \in [Validators -> Header \cup {NoHeader}]
    BY <1>2, <2>1 DEF ProposeCheckpointCometBFT, TypeInv, TypeOK
  <2> QED
    BY <1>2, <2>4, <2>5 DEF ProposeCheckpointCometBFT, TypeInv, TypeOK, HeightInv, Up
<1> QED
  BY <1>1, <1>2

\* The mark of a handler that has run is the height of a block.
LEMMA RanType ==
  ASSUME TypeInv, NEW n \in Validators, NEW k \in spawned[n], Ran(n, k)
  PROVE  /\ k \in 1..Len(blocks) /\ k \in 1..MaxBlocks
         /\ spawned[n] \ {k} \in SUBSET (1..Len(blocks))
         /\ handled[n] \cup {k} \in SUBSET (1..Len(blocks))
         /\ spawned' \in [Validators -> SUBSET (1..MaxBlocks)]
         /\ handled' \in [Validators -> SUBSET (1..MaxBlocks)]
         /\ spawned' = [spawned EXCEPT ![n] = spawned[n] \ {k}]
         /\ handled' = [handled EXCEPT ![n] = handled[n] \cup {k}]
<1>1. k \in 1..Len(blocks) /\ k \in 1..MaxBlocks
  BY DEF TypeInv, TypeOK, HeightInv
<1> QED
  BY <1>1 DEF Ran, TypeInv, TypeOK, HeightInv

\* Storing an epoch signature keeps the types of what it writes.
LEMMA StoreAndTriggerType ==
  ASSUME TypeInv, NEW n \in Validators, NEW e \in Epochs, NEW s \in BundleSig,
         NEW done, StoreAndTrigger(n, e, s, done)
  PROVE  /\ epochSigs' \in [Validators -> [Epochs -> SUBSET BundleSig]]
         /\ triggered' \in [Validators -> SUBSET Epochs]
         /\ tasks' \in [Validators -> SUBSET Task]
         /\ \E T : tasks' = [tasks EXCEPT ![n] = T]
<1>1. StoreSignature(n, e, s) \subseteq BundleSig
  BY DEF StoreSignature, TypeInv, TypeOK
<1>2. [kind |-> "submit", epoch |-> e] \in Task
  BY DEF Task
<1>3. epochSigs' \in [Validators -> [Epochs -> SUBSET BundleSig]]
  BY <1>1 DEF StoreAndTrigger, TypeInv, TypeOK
<1>4. triggered' \in [Validators -> SUBSET Epochs]
  <2>1. triggered' = triggered \/ triggered' = [triggered EXCEPT ![n] = @ \cup {e}]
    BY DEF StoreAndTrigger, TypeInv, TypeOK
  <2> QED
    BY <2>1, SMTT(30) DEF TypeInv, TypeOK
<1>5. PICK new \in SUBSET Task : tasks' = [tasks EXCEPT ![n] = (tasks[n] \ done) \cup new]
  <2>1. \/ tasks' = [tasks EXCEPT ![n] = (tasks[n] \ done) \cup {}]
        \/ tasks' = [tasks EXCEPT ![n] = (tasks[n] \ done) \cup {[kind |-> "submit", epoch |-> e]}]
    BY DEF StoreAndTrigger
  <2> QED
    BY <1>2, <2>1
<1> QED
  BY <1>3, <1>4, <1>5 DEF TypeInv, TypeOK

\* The handlers of committed transactions keep the types.
LEMMA HandlerType ==
  ASSUME TypeInv, NEW n \in Validators, NEW k \in spawned[n],
         \/ HandleExecutionReportCommitted(n, k) \/ HandleCommittedCheckpoint(n, k)
         \/ HandleValidationSignatureFromCometBFT(n, k)
  PROVE  TypeInv'
<1> USE DEF chainVars, checkpointVars, bundleVars, processVars, rootVars
<1>1. Up(n) /\ Ran(n, k) /\ UNCHANGED <<blocks, app, status>>
  BY DEF HandleExecutionReportCommitted, HandleCommittedCheckpoint,
     HandleValidationSignatureFromCometBFT
<1>2. /\ k \in 1..Len(blocks)
      /\ spawned[n] \ {k} \in SUBSET (1..Len(blocks))
      /\ handled[n] \cup {k} \in SUBSET (1..Len(blocks))
      /\ spawned' \in [Validators -> SUBSET (1..MaxBlocks)]
      /\ handled' \in [Validators -> SUBSET (1..MaxBlocks)]
      /\ spawned' = [spawned EXCEPT ![n] = spawned[n] \ {k}]
      /\ handled' = [handled EXCEPT ![n] = handled[n] \cup {k}]
  BY <1>1, RanType
<1>3. CASE HandleExecutionReportCommitted(n, k)
  <2>1. blocks[k].report \in Reports
    BY <1>2, <1>3, BlockType DEF HandleExecutionReportCommitted
  <2>2. pendingReports' \in [Validators -> SUBSET Reports]
    BY <1>3, <2>1 DEF HandleExecutionReportCommitted, TypeInv, TypeOK
  <2>3. tasks' = [tasks EXCEPT ![n] = tasks[n]]
    BY <1>3 DEF HandleExecutionReportCommitted, TypeInv, TypeOK
  <2>4. HeightInv'
    BY <1>1, <1>2, <2>3, HeightFrame
  <2> QED
    BY <1>2, <1>3, <2>2, <2>4 DEF HandleExecutionReportCommitted, TypeInv, TypeOK
<1>4. CASE HandleCommittedCheckpoint(n, k)
  <2> DEFINE h == blocks[k].header
             new == IF pendingReports[n] = {} THEN {}
                    ELSE {[kind |-> "sign", header |-> h, intents |-> pendingReports[n]]}
  <2>1. h \in Header /\ h.epoch \in Epochs
    BY <1>2, <1>4, BlockType DEF HandleCommittedCheckpoint
  <2>2. /\ store' = [store EXCEPT ![n] = h]
        /\ currentCheckpoint' = [currentCheckpoint EXCEPT ![n] = h]
        /\ currentEpoch' = [currentEpoch EXCEPT ![n] = EpochAfter(n, h)]
        /\ tasks' = [tasks EXCEPT ![n] = tasks[n] \cup new]
    BY <1>4 DEF HandleCommittedCheckpoint
  <2>3. new \in SUBSET Task
    <3>1. pendingReports[n] \in SUBSET Reports
      BY DEF TypeInv, TypeOK
    <3>2. [kind |-> "sign", header |-> h, intents |-> pendingReports[n]] \in Task
      BY <2>1, <3>1 DEF Task
    <3> QED
      BY <3>2
  <2> HIDE DEF h, new
  <2>4. EpochAfter(n, h) \in 0..MaxEpoch + 1
    BY <2>1, CometAssumption DEF EpochAfter, Epochs, TypeInv, TypeOK
  <2>5. /\ store' \in [Validators -> Header \cup {NoHeader}]
        /\ currentCheckpoint' \in [Validators -> Header \cup {NoHeader}]
        /\ currentEpoch' \in [Validators -> 0..MaxEpoch + 1]
        /\ tasks' \in [Validators -> SUBSET Task]
    BY <2>1, <2>2, <2>3, <2>4 DEF TypeInv, TypeOK
  <2>6. HeightInv'
    BY <1>1, <1>2, <2>2, HeightFrame
  <2> QED
    BY <1>2, <1>4, <2>5, <2>6 DEF HandleCommittedCheckpoint, TypeInv, TypeOK
<1>5. CASE HandleValidationSignatureFromCometBFT(n, k)
  <2> DEFINE s == [signer |-> blocks[k].signer, digest |-> blocks[k].digest]
  <2>1. blocks[k].epoch \in Epochs /\ s \in BundleSig
    BY <1>2, <1>5, BlockType DEF HandleValidationSignatureFromCometBFT
  <2>2. StoreAndTrigger(n, blocks[k].epoch, s, {})
    BY <1>5 DEF HandleValidationSignatureFromCometBFT
  <2> HIDE DEF s
  <2>3. /\ epochSigs' \in [Validators -> [Epochs -> SUBSET BundleSig]]
        /\ triggered' \in [Validators -> SUBSET Epochs]
        /\ tasks' \in [Validators -> SUBSET Task]
        /\ \E T : tasks' = [tasks EXCEPT ![n] = T]
    BY <2>1, <2>2, StoreAndTriggerType
  <2>4. HeightInv'
    BY <1>1, <1>2, <2>3, HeightFrame
  <2> QED
    BY <1>2, <1>5, <2>3, <2>4 DEF HandleValidationSignatureFromCometBFT, TypeInv, TypeOK
<1> QED
  BY <1>3, <1>4, <1>5

\* The goroutines that sign, store, submit and clear keep the types.
LEMMA TaskType ==
  ASSUME TypeInv, NEW n \in Validators, NEW t \in tasks[n],
         \/ SignValidationBundle(n, t) \/ StoreOwnSignature(n, t)
         \/ SubmitValidationBundlesForEpoch(n, t) \/ SubmitBatch(n, t)
         \/ \E i \in Reports : ClearReports(n, t, i)
  PROVE  TypeInv'
<1> USE DEF chainVars, appVars, checkpointVars, bundleVars, processVars, rootVars
<1>1. t \in Task
  BY DEF TypeInv, TypeOK
<1>2. Up(n) /\ UNCHANGED <<blocks, app, status, spawned, handled>>
  BY DEF SignValidationBundle, StoreOwnSignature, SubmitValidationBundlesForEpoch,
     SubmitBatch, ClearReports
<1>3. CASE SignValidationBundle(n, t)
  <2>1. t.header \in Header /\ t.header.epoch \in Epochs /\ t.intents \subseteq Reports
    BY <1>1, <1>3 DEF SignValidationBundle, Task, Header
  <2>2. PICK S \in SUBSET t.intents :
          /\ epochIntents' = [epochIntents EXCEPT ![n][t.header.epoch] = S]
          /\ tasks' = [tasks EXCEPT ![n] = (tasks[n] \ {t}) \cup
                         {[kind |-> "store", header |-> t.header, intents |-> S]}]
    BY <1>3 DEF SignValidationBundle
  <2>3. S \in SUBSET Reports
    BY <2>1
  <2>4. [kind |-> "store", header |-> t.header, intents |-> S] \in Task
    BY <2>1, <2>3 DEF Task
  <2>5. tasks' \in [Validators -> SUBSET Task]
    BY <2>2, <2>4 DEF TypeInv, TypeOK
  <2>6. epochIntents' \in [Validators -> [Epochs -> SUBSET Reports]]
    BY <2>1, <2>2, <2>3 DEF TypeInv, TypeOK
  <2>7. HeightInv'
    BY <1>2, <2>2, QuietHeights
  <2> QED
    BY <1>3, <2>5, <2>6, <2>7 DEF SignValidationBundle, TypeInv, TypeOK
<1>4. CASE StoreOwnSignature(n, t)
  <2> DEFINE digest == [id |-> t.header.id, intents |-> t.intents]
             s == [signer |-> n, digest |-> digest]
             tx == [type |-> "bundle", signer |-> n, epoch |-> t.header.epoch,
                    digest |-> digest]
  <2>1. /\ t.header \in Header /\ t.header.epoch \in Epochs /\ t.header.id \in 1..MaxProposals
        /\ t.intents \in SUBSET Reports
    BY <1>1, <1>4 DEF StoreOwnSignature, Task, Header
  <2>2. digest \in Digest
    BY <2>1 DEF Digest
  <2>3. /\ StoreAndTrigger(n, t.header.epoch, s, {t})
        /\ mempool' = mempool \/ mempool' = mempool \cup {tx}
    BY <1>4 DEF StoreOwnSignature, BroadcastSignature
  <2> HIDE DEF digest
  <2>4. s \in BundleSig /\ tx \in Tx
    BY <2>1, <2>2 DEF BundleSig, Tx
  <2>5. mempool' \subseteq Tx
    BY <2>3, <2>4 DEF TypeInv, TypeOK
  <2> HIDE DEF s, tx
  <2>6. /\ epochSigs' \in [Validators -> [Epochs -> SUBSET BundleSig]]
        /\ triggered' \in [Validators -> SUBSET Epochs]
        /\ tasks' \in [Validators -> SUBSET Task]
        /\ \E T : tasks' = [tasks EXCEPT ![n] = T]
    BY <2>1, <2>3, <2>4, StoreAndTriggerType
  <2>7. HeightInv'
    BY <1>2, <2>6, QuietHeights
  <2> QED
    BY <1>4, <2>5, <2>6, <2>7 DEF StoreOwnSignature, TypeInv, TypeOK
<1>5. CASE SubmitValidationBundlesForEpoch(n, t)
  <2> DEFINE sleep == [kind |-> "sleep", header |-> currentCheckpoint[n],
                       intents |-> Available(n, t.epoch)]
  <2>1. \/ tasks' = [tasks EXCEPT ![n] = (tasks[n] \ {t}) \cup {}]
        \/ /\ tasks' = [tasks EXCEPT ![n] = (tasks[n] \ {t}) \cup {sleep}]
           /\ currentCheckpoint[n] # NoHeader
    BY <1>5 DEF SubmitValidationBundlesForEpoch
  <2>2. ASSUME currentCheckpoint[n] # NoHeader PROVE sleep \in Task
    <3>1. currentCheckpoint[n] \in Header /\ Available(n, t.epoch) \in SUBSET Reports
      BY <2>2 DEF TypeInv, TypeOK, Available
    <3> QED
      BY <3>1 DEF Task
  <2> HIDE DEF sleep
  <2>3. PICK new \in SUBSET Task : tasks' = [tasks EXCEPT ![n] = (tasks[n] \ {t}) \cup new]
    BY <2>1, <2>2
  <2>4. tasks' \in [Validators -> SUBSET Task]
    BY <2>3 DEF TypeInv, TypeOK
  <2>5. HeightInv'
    BY <1>2, <2>3, QuietHeights
  <2> QED
    BY <1>5, <2>4, <2>5 DEF SubmitValidationBundlesForEpoch, TypeInv, TypeOK
<1>6. CASE SubmitBatch(n, t)
  <2>1. t.header.epoch \in Epochs /\ t.intents \in SUBSET Reports
    BY <1>1, <1>6 DEF SubmitBatch, Task, Header
  <2>2. PICK ok \in SUBSET t.intents :
          /\ accepted' = accepted \cup ok
          /\ tasks' = [tasks EXCEPT ![n] = (tasks[n] \ {t}) \cup ClearedAfter(t, ok)]
    BY <1>6 DEF SubmitBatch
  <2>3. ok \in SUBSET Reports
    BY <2>1
  <2>4. ClearedAfter(t, ok) \in SUBSET Task
    <3>1. [kind |-> "clear", intents |-> ok] \in Task
      BY <2>3 DEF Task
    <3> QED
      BY <3>1 DEF ClearedAfter
  <2>5. tasks' \in [Validators -> SUBSET Task]
    BY <2>2, <2>4 DEF TypeInv, TypeOK
  <2>6. accepted' \subseteq Reports /\ sent' \in [Validators -> SUBSET Epochs]
    BY <1>6, <2>1, <2>2, <2>3 DEF SubmitBatch, TypeInv, TypeOK
  <2>7. HeightInv'
    BY <1>2, <2>2, QuietHeights
  <2> QED
    BY <1>6, <2>5, <2>6, <2>7 DEF SubmitBatch, TypeInv, TypeOK
<1>7. ASSUME NEW i \in Reports, ClearReports(n, t, i) PROVE TypeInv'
  <2> DEFINE rest == [kind |-> "clear", intents |-> t.intents \ {i}]
  <2>1. t.intents \in SUBSET Reports
    BY <1>1, <1>7 DEF ClearReports, Task
  <2>2. rest \in Task
    <3>1. t.intents \ {i} \in SUBSET Reports
      BY <2>1
    <3> QED
      BY <3>1 DEF Task
  <2>3. \/ tasks' = [tasks EXCEPT ![n] = (tasks[n] \ {t}) \cup {}]
        \/ tasks' = [tasks EXCEPT ![n] = (tasks[n] \ {t}) \cup {rest}]
    BY <1>7 DEF ClearReports
  <2> HIDE DEF rest
  <2>4. PICK new \in SUBSET Task : tasks' = [tasks EXCEPT ![n] = (tasks[n] \ {t}) \cup new]
    BY <2>2, <2>3
  <2>5. tasks' \in [Validators -> SUBSET Task]
    BY <2>4 DEF TypeInv, TypeOK
  <2>6. pendingReports' \in [Validators -> SUBSET Reports]
    BY <1>7 DEF ClearReports, TypeInv, TypeOK
  <2>7. HeightInv'
    BY <1>2, <2>4, QuietHeights
  <2> QED
    BY <1>7, <2>5, <2>6, <2>7 DEF ClearReports, TypeInv, TypeOK
<1> QED
  BY <1>3, <1>4, <1>5, <1>6, <1>7

\* What a node holds after its process exits.
LEMMA LoseFacts ==
  ASSUME TypeInv, NEW n \in Validators, LoseVolatileState(n)
  PROVE  /\ UNCHANGED <<mempool, blocks, proposals, restarts, store>>
         /\ \A m \in Validators :
              /\ status'[m] = IF m = n THEN "down" ELSE status[m]
              /\ app'[m] = IF m = n THEN NewApp ELSE app[m]
              /\ spawned'[m] = IF m = n THEN {} ELSE spawned[m]
              /\ handled'[m] = IF m = n THEN {} ELSE handled[m]
              /\ pendingReports'[m] = IF m = n THEN {} ELSE pendingReports[m]
              /\ currentEpoch'[m] = IF m = n THEN 0 ELSE currentEpoch[m]
              /\ triggered'[m] = IF m = n THEN {} ELSE triggered[m]
              /\ tasks'[m] = IF m = n THEN {} ELSE tasks[m]
              /\ sent'[m] = IF m = n THEN {} ELSE sent[m]
              /\ epochSigs'[m] = IF m = n THEN [e \in Epochs |-> {}] ELSE epochSigs[m]
  BY DEF LoseVolatileState, chainVars, TypeInv, TypeOK

\* A process that exits, and one that starts again, keep the types.
LEMMA ProcessType ==
  ASSUME TypeInv, NEW n \in Validators,
         \/ Crash(n) \/ Restart(n) \/ \E t \in tasks[n] : SubmitBatchPanics(n, t)
  PROVE  TypeInv'
<1>1. ASSUME LoseVolatileState(n), accepted' \subseteq Reports PROVE TypeInv'
  <2>1. /\ app' \in [Validators -> App] /\ status' \in [Validators -> {"up", "down"}]
        /\ currentEpoch' \in [Validators -> 0..MaxEpoch + 1]
    BY <1>1, NewAppType, CometAssumption DEF LoseVolatileState, TypeInv, TypeOK
  <2>2. /\ spawned' \in [Validators -> SUBSET (1..MaxBlocks)]
        /\ handled' \in [Validators -> SUBSET (1..MaxBlocks)]
        /\ pendingReports' \in [Validators -> SUBSET Reports]
        /\ currentCheckpoint' \in [Validators -> Header \cup {NoHeader}]
        /\ building' \in [Validators -> Header \cup {NoHeader}]
        /\ tasks' \in [Validators -> SUBSET Task]
        /\ triggered' \in [Validators -> SUBSET Epochs]
        /\ sent' \in [Validators -> SUBSET Epochs]
    BY <1>1 DEF LoseVolatileState, TypeInv, TypeOK
  <2>3. /\ epochIntents' \in [Validators -> [Epochs -> SUBSET Reports]]
        /\ epochSigs' \in [Validators -> [Epochs -> SUBSET BundleSig]]
    BY <1>1 DEF LoseVolatileState, TypeInv, TypeOK
  <2>4. TypeOK'
    BY <1>1, <2>1, <2>2, <2>3 DEF LoseVolatileState, chainVars, TypeInv, TypeOK
  <2>5. NewApp.height <= Len(blocks)
    BY NewAppType DEF TypeInv, TypeOK
  <2>6. HeightInv'
    BY <1>1, <2>5, LoseFacts DEF TypeInv, HeightInv, Up
  <2> QED
    BY <2>4, <2>6 DEF TypeInv
<1>2. CASE Crash(n)
  BY <1>1, <1>2 DEF Crash, TypeInv, TypeOK
<1>3. ASSUME NEW t \in tasks[n], SubmitBatchPanics(n, t) PROVE TypeInv'
  <2>1. t \in Task /\ t.kind = "sleep"
    BY <1>3 DEF SubmitBatchPanics, TypeInv, TypeOK
  <2>2. t.intents \subseteq Reports
    BY <2>1 DEF Task
  <2> QED
    BY <1>1, <1>3, <2>2 DEF SubmitBatchPanics, TypeInv, TypeOK
<1>4. CASE Restart(n)
  <2>1. EpochOnBoot(n) \in 0..MaxEpoch + 1
    <3>1. store[n] = NoHeader \/ store[n].epoch \in Epochs
      BY DEF TypeInv, TypeOK, Header
    <3> QED
      BY <3>1, CometAssumption DEF EpochOnBoot, Epochs
  <2>2. /\ currentEpoch' \in [Validators -> 0..MaxEpoch + 1]
        /\ restarts' \in [Validators -> 0..MaxRestarts]
    BY <1>4, <2>1, CometAssumption DEF Restart, TypeInv, TypeOK
  <2>3. /\ status' \in [Validators -> {"up", "down"}]
        /\ currentCheckpoint' \in [Validators -> Header \cup {NoHeader}]
    BY <1>4 DEF Restart, TypeInv, TypeOK
  <2>4. TypeOK'
    BY <1>4, <2>2, <2>3 DEF Restart, TypeInv, TypeOK, chainVars, appVars, bundleVars, rootVars
  <2>5. \A m \in Validators : status'[m] = IF m = n THEN "up" ELSE status[m]
    BY <1>4 DEF Restart, TypeInv, TypeOK
  <2>6. UNCHANGED <<blocks, app, spawned, handled, tasks>>
    BY <1>4 DEF Restart, chainVars, appVars
  <2>7. HeightInv'
    BY <2>5, <2>6 DEF TypeInv, HeightInv, Up
  <2> QED
    BY <2>4, <2>7 DEF TypeInv
<1> QED
  BY <1>2, <1>3, <1>4

\* Every step keeps the types.
LEMMA NextType == TypeInv /\ [Next]_vars => TypeInv'
<1> SUFFICES ASSUME TypeInv, [Next]_vars PROVE TypeInv'
  OBVIOUS
<1>1. CASE UNCHANGED vars
  BY <1>1 DEF vars, TypeInv, TypeOK, HeightInv, Up
<1>2. CASE Next
  BY <1>2, ChainType, FinalizeType, ProposeType, HandlerType, TaskType, ProcessType DEF Next
<1> QED
  BY <1>1, <1>2

\* Every variable of the CometBFT validator keeps its type.
THEOREM TypeCorrect == Spec => []TypeOK
<1>1. TypeInv => TypeOK
  BY DEF TypeInv
<1> QED
  BY InitType, NextType, <1>1, PTL DEF Spec

-----------------------------------------------------------------------------
(***************************************************************************)
(* The application is a function of the blocks                             *)
(***************************************************************************)

\* The block of a chain at height k is a checkpoint of epoch e.
CheckpointAt(chain, k, e) == chain[k].type = "checkpoint" /\ chain[k].header.epoch = e

ReportsUpTo(chain, height) ==
    {r \in Reports : \E k \in 1..height : chain[k].type = "report" /\ chain[k].report = r}

\* h is the header of the last checkpoint of epoch e up to a height, if there is one.
LastHeader(chain, height, e, h) ==
    \/ h = NoHeader /\ \A k \in 1..height : ~CheckpointAt(chain, k, e)
    \/ \E k \in 1..height : /\ CheckpointAt(chain, k, e) /\ chain[k].header = h
                            /\ \A j \in k + 1..height : ~CheckpointAt(chain, j, e)

\* e is the epoch of the last checkpoint up to a height, or the epoch of a fresh application.
LastEpoch(chain, height, e) ==
    \/ e = 0 /\ \A k \in 1..height : chain[k].type # "checkpoint"
    \/ \E k \in 1..height : /\ CheckpointAt(chain, k, e)
                            /\ \A j \in k + 1..height : chain[j].type # "checkpoint"

\* What SubnetABCIApp holds is what the blocks up to its height say.
ReplayOf(chain, a) ==
    /\ a.reports = ReportsUpTo(chain, a.height)
    /\ \A e \in Epochs : LastHeader(chain, a.height, e, a.checkpoints[e])
    /\ LastEpoch(chain, a.height, a.epoch)

AppsReplay == TypeInv /\ \A n \in Validators : ReplayOf(blocks, app[n])

\* Two applications that are replays of the same height are the same.
LEMMA ReplayUnique ==
  ASSUME NEW chain, NEW a \in App, NEW b \in App, ReplayOf(chain, a), ReplayOf(chain, b),
         a.height = b.height
  PROVE  a.epoch = b.epoch /\ a.checkpoints = b.checkpoints /\ a.reports = b.reports
<1> DEFINE H == a.height
<1>1. H \in Nat
  BY DEF App
<1>2. a.reports = b.reports
  BY DEF ReplayOf
<1>3. a.epoch = b.epoch
  <2>1. LastEpoch(chain, H, a.epoch) /\ LastEpoch(chain, H, b.epoch)
    BY DEF ReplayOf
  <2>2. ASSUME NEW j \in 1..H, NEW k \in 1..H, chain[j].type = "checkpoint",
               chain[k].type = "checkpoint",
               \A i \in j + 1..H : chain[i].type # "checkpoint",
               \A i \in k + 1..H : chain[i].type # "checkpoint"
        PROVE  j = k
    BY <1>1, <2>2
  <2> QED
    BY <1>1, <2>1, <2>2 DEF LastEpoch, CheckpointAt
<1>4. a.checkpoints = b.checkpoints
  <2>1. /\ a.checkpoints \in [Epochs -> Header \cup {NoHeader}]
        /\ b.checkpoints \in [Epochs -> Header \cup {NoHeader}]
    BY DEF App
  <2>2. ASSUME NEW e \in Epochs PROVE a.checkpoints[e] = b.checkpoints[e]
    <3>1. LastHeader(chain, H, e, a.checkpoints[e]) /\ LastHeader(chain, H, e, b.checkpoints[e])
      BY DEF ReplayOf
    <3>2. ASSUME NEW j \in 1..H, NEW k \in 1..H, CheckpointAt(chain, j, e), CheckpointAt(chain, k, e),
                 \A i \in j + 1..H : ~CheckpointAt(chain, i, e),
                 \A i \in k + 1..H : ~CheckpointAt(chain, i, e)
          PROVE  j = k
      BY <1>1, <3>2
    <3> QED
      BY <3>1, <3>2 DEF LastHeader
  <2> QED
    BY <2>1, <2>2
<1> QED
  BY <1>2, <1>3, <1>4

\* Replicas that are replays agree.
LEMMA ReplayAgrees == AppsReplay => ReplicasAgree
<1> SUFFICES ASSUME AppsReplay, NEW n \in Validators, NEW m \in Validators,
                    app[n].height = app[m].height
             PROVE  /\ AppHash(n) = AppHash(m) /\ QueryLatest(n) = QueryLatest(m)
                    /\ GetLatestCheckpoint(n) = GetLatestCheckpoint(m)
                    /\ app[n].checkpoints = app[m].checkpoints
  BY DEF ReplicasAgree
<1>1. app[n] \in App /\ app[m] \in App
  BY DEF AppsReplay, TypeInv, TypeOK
<1>2. /\ app[n].epoch = app[m].epoch /\ app[n].checkpoints = app[m].checkpoints
      /\ app[n].reports = app[m].reports
  BY <1>1, ReplayUnique DEF AppsReplay
<1> QED
  BY <1>2 DEF AppHash, QueryLatest, GetLatestCheckpoint

\* A fresh application is a replay of no block.
LEMMA NewAppReplay ==
  ASSUME NEW chain
  PROVE  ReplayOf(chain, NewApp)
<1>1. 1..NewApp.height = {}
  BY NewAppType
<1>2. /\ NewApp.reports = {} /\ NewApp.epoch = 0
      /\ \A e \in Epochs : NewApp.checkpoints[e] = NoHeader
  BY DEF NewApp
<1> QED
  BY <1>1, <1>2 DEF ReplayOf, ReportsUpTo, LastHeader, LastEpoch

\* A replay stays one while the chain only grows.
LEMMA ReplayGrows ==
  ASSUME NEW chain, NEW more, NEW a \in App, ReplayOf(chain, a),
         \A k \in 1..a.height : more[k] = chain[k]
  PROVE  ReplayOf(more, a)
<1>1. a.height \in Nat
  BY DEF App
<1>2. ReportsUpTo(more, a.height) = ReportsUpTo(chain, a.height)
  BY DEF ReportsUpTo
<1>3. \A e : \A k \in 1..a.height : CheckpointAt(more, k, e) <=> CheckpointAt(chain, k, e)
  BY DEF CheckpointAt
<1>4. \A k \in 1..a.height : \A j \in k + 1..a.height : j \in 1..a.height
  BY <1>1
<1>5. \A e \in Epochs : LastHeader(more, a.height, e, a.checkpoints[e])
  BY <1>3, <1>4 DEF ReplayOf, LastHeader
<1>6. LastEpoch(more, a.height, a.epoch)
  BY <1>3, <1>4 DEF ReplayOf, LastEpoch
<1> QED
  BY <1>2, <1>5, <1>6 DEF ReplayOf

\* FinalizeBlock carries a replay to the next height.
LEMMA DeliverReplay ==
  ASSUME NEW chain, NEW n \in Validators, NEW a \in App, ReplayOf(chain, a),
         a.height + 1 \in 0..MaxBlocks, chain[a.height + 1] \in Tx
  PROVE  ReplayOf(chain, Deliver(n, [a EXCEPT !.height = a.height + 1], chain[a.height + 1]))
<1> DEFINE H == a.height
           K == H + 1
           tx == chain[K]
           up == [a EXCEPT !.height = K]
           b == Deliver(n, up, tx)
<1>1. H \in Nat /\ K \in 1..K /\ 1..K = 1..H \cup {K} /\ K + 1..K = {}
  BY DEF App
<1>2. \A k \in 1..H : K \in k + 1..K /\ k + 1..K = (k + 1..H) \cup {K}
  BY <1>1
<1>3. tx \in Tx
  OBVIOUS
<1>4. /\ up \in App /\ up.height = K /\ up.reports = a.reports /\ up.epoch = a.epoch
      /\ up.checkpoints = a.checkpoints
  BY DEF App
<1>5. b.height = K
  BY <1>3, <1>4, DeliverType
<1>6. /\ a.reports = ReportsUpTo(chain, H)
      /\ \A e \in Epochs : LastHeader(chain, H, e, a.checkpoints[e])
      /\ LastEpoch(chain, H, a.epoch)
  BY DEF ReplayOf
<1> HIDE DEF H, K, up, b, tx
<1>7. chain[K] = tx
  BY DEF tx
<1>8. ASSUME tx.type # "checkpoint"
      PROVE  /\ \A e \in Epochs : LastHeader(chain, K, e, a.checkpoints[e])
             /\ LastEpoch(chain, K, a.epoch)
  <2>1. \A e : ~CheckpointAt(chain, K, e)
    BY <1>7, <1>8 DEF CheckpointAt
  <2>2. \A e \in Epochs : LastHeader(chain, K, e, a.checkpoints[e])
    BY <1>1, <1>2, <1>6, <2>1 DEF LastHeader
  <2>3. LastEpoch(chain, K, a.epoch)
    BY <1>1, <1>2, <1>6, <1>7, <1>8 DEF LastEpoch
  <2> QED
    BY <2>2, <2>3
<1>9. ASSUME tx.type # "report" PROVE a.reports = ReportsUpTo(chain, K)
  BY <1>1, <1>6, <1>7, <1>9 DEF ReportsUpTo
<1>10. CASE tx.type = "report"
  <2>1. tx.report \in Reports
    BY <1>3, <1>10 DEF Tx
  <2>2. b = [up EXCEPT !.reports = @ \cup {tx.report}]
    BY <1>10 DEF b, Deliver
  <2>3. /\ b.reports = a.reports \cup {tx.report} /\ b.epoch = a.epoch
        /\ b.checkpoints = a.checkpoints
    BY <1>4, <2>2 DEF App
  <2>4. a.reports \cup {tx.report} = ReportsUpTo(chain, K)
    BY <1>1, <1>6, <1>7, <1>10, <2>1 DEF ReportsUpTo
  <2> QED
    BY <1>5, <1>8, <1>10, <2>3, <2>4 DEF ReplayOf, b, tx, K, up, H
<1>11. CASE tx.type = "checkpoint"
  <2>1. tx.header \in Header /\ tx.header.epoch \in Epochs
    BY <1>3, <1>11 DEF Tx, Header
  <2>2. b = [up EXCEPT !.epoch = tx.header.epoch, !.checkpoints[tx.header.epoch] = tx.header]
    BY <1>11 DEF b, Deliver
  <2>3. /\ b.reports = a.reports /\ b.epoch = tx.header.epoch
        /\ b.checkpoints = [a.checkpoints EXCEPT ![tx.header.epoch] = tx.header]
    BY <1>4, <2>2 DEF App
  <2>4. a.checkpoints \in [Epochs -> Header \cup {NoHeader}]
    BY DEF App
  <2>5. CheckpointAt(chain, K, tx.header.epoch)
    BY <1>7, <1>11 DEF CheckpointAt
  <2>6. LastEpoch(chain, K, b.epoch)
    BY <1>1, <2>3, <2>5 DEF LastEpoch
  <2>7. ASSUME NEW e \in Epochs PROVE LastHeader(chain, K, e, b.checkpoints[e])
    <3>1. CASE e = tx.header.epoch
      BY <1>1, <1>7, <2>3, <2>4, <2>5, <3>1 DEF LastHeader
    <3>2. CASE e # tx.header.epoch
      <4>1. ~CheckpointAt(chain, K, e) /\ b.checkpoints[e] = a.checkpoints[e]
        BY <1>7, <2>3, <2>4, <3>2 DEF CheckpointAt
      <4> QED
        BY <1>1, <1>2, <1>6, <4>1 DEF LastHeader
    <3> QED
      BY <3>1, <3>2
  <2> QED
    BY <1>5, <1>9, <1>11, <2>3, <2>6, <2>7 DEF ReplayOf, b, tx, K, up, H
<1>12. CASE tx.type = "bundle"
  <2>1. b = up
    BY <1>12 DEF b, Deliver
  <2> QED
    BY <1>4, <1>8, <1>9, <1>12, <2>1 DEF ReplayOf, b, tx, K, up, H
<1> QED
  BY <1>3, <1>10, <1>11, <1>12 DEF Tx

\* Every step keeps every application a replay.
LEMMA NextReplay == AppsReplay /\ [Next]_vars => AppsReplay'
<1> SUFFICES ASSUME AppsReplay, [Next]_vars PROVE AppsReplay'
  OBVIOUS
<1>1. TypeInv /\ TypeInv' /\ Len(blocks) \in Nat
  <2>1. TypeInv
    BY Zenon DEF AppsReplay
  <2>2. TypeInv'
    BY <2>1, NextType, Zenon
  <2>3. blocks \in Seq(Tx)
    BY <2>1 DEF TypeInv, TypeOK
  <2> QED
    BY <2>1, <2>2, <2>3
<1>2. \A m \in Validators : /\ app[m] \in App /\ app[m].height <= Len(blocks)
                            /\ app[m].height \in Nat /\ ReplayOf(blocks, app[m])
  BY DEF AppsReplay, TypeInv, TypeOK, HeightInv, App
<1>3. ASSUME UNCHANGED app, \A k \in 1..Len(blocks) : blocks'[k] = blocks[k]
      PROVE  AppsReplay'
  <2>1. ASSUME NEW m \in Validators PROVE ReplayOf(blocks', app'[m])
    <3>1. \A k \in 1..app[m].height : blocks'[k] = blocks[k]
      BY <1>1, <1>2, <1>3
    <3> QED
      BY <1>2, <1>3, <3>1, ReplayGrows
  <2> QED
    BY <1>1, <2>1 DEF AppsReplay
<1>4. CASE CommitBlock
  <2>1. \A k \in 1..Len(blocks) : blocks'[k] = blocks[k]
    BY <1>4 DEF CommitBlock, TypeInv, TypeOK, AppsReplay
  <2> QED
    BY <1>3, <1>4, <2>1 DEF CommitBlock, appVars
<1>5. ASSUME NEW n \in Validators, FinalizeBlock(n) PROVE AppsReplay'
  <2> DEFINE a == app[n]
             b == Deliver(n, [a EXCEPT !.height = a.height + 1], blocks[a.height + 1])
  <2>1. a.height + 1 \in 1..Len(blocks) /\ Len(blocks) <= MaxBlocks
    BY <1>1, <1>5, FinalizeType DEF TypeInv, HeightInv
  <2>2. blocks[a.height + 1] \in Tx /\ a.height + 1 \in 0..MaxBlocks
    <3>1. blocks[a.height + 1] \in Tx
      BY <1>1, <2>1, BlockType
    <3> QED
      BY <1>1, <2>1, <3>1, CometAssumption
  <2>3. ReplayOf(blocks, b)
    BY <1>2, <2>2, DeliverReplay
  <2>4. app' = [app EXCEPT ![n] = b] /\ blocks' = blocks
    BY <1>5 DEF FinalizeBlock, chainVars
  <2> HIDE DEF b
  <2>5. \A m \in Validators : app'[m] = IF m = n THEN b ELSE app[m]
    BY <1>1, <2>4 DEF TypeInv, TypeOK
  <2>6. \A m \in Validators : ReplayOf(blocks', app'[m])
    BY <1>2, <2>3, <2>4, <2>5
  <2> QED
    BY <1>1, <2>6 DEF AppsReplay
<1>6. ASSUME NEW n \in Validators, LoseVolatileState(n) PROVE AppsReplay'
  <2>1. \A m \in Validators : app'[m] = IF m = n THEN NewApp ELSE app[m]
    BY <1>1, <1>6, LoseFacts
  <2>2. blocks' = blocks
    BY <1>6 DEF LoseVolatileState, chainVars
  <2>3. \A m \in Validators : ReplayOf(blocks', app'[m])
    BY <1>2, <2>1, <2>2, NewAppReplay
  <2> QED
    BY <1>1, <2>3 DEF AppsReplay
<1>7. CASE UNCHANGED <<app, blocks>>
  BY <1>3, <1>7
<1>8. ASSUME NEW n \in Validators,
             \/ Restart(n) \/ BuildCheckpoint(n) \/ ProposeCheckpointCometBFT(n)
             \/ \E r \in Reports : ProcessExecutionReport(n, r)
             \/ \E k \in spawned[n] :
                  \/ HandleExecutionReportCommitted(n, k) \/ HandleCommittedCheckpoint(n, k)
                  \/ HandleValidationSignatureFromCometBFT(n, k)
      PROVE  UNCHANGED <<app, blocks>>
  BY <1>8 DEF Restart, BuildCheckpoint, ProposeCheckpointCometBFT, ProcessExecutionReport,
     HandleExecutionReportCommitted, HandleCommittedCheckpoint,
     HandleValidationSignatureFromCometBFT, chainVars, appVars
<1>9. ASSUME NEW n \in Validators, NEW t \in tasks[n],
             \/ SignValidationBundle(n, t) \/ StoreOwnSignature(n, t)
             \/ SubmitValidationBundlesForEpoch(n, t) \/ SubmitBatch(n, t)
             \/ \E i \in Reports : ClearReports(n, t, i)
      PROVE  UNCHANGED <<app, blocks>>
  BY <1>9 DEF SignValidationBundle, StoreOwnSignature, SubmitValidationBundlesForEpoch,
     SubmitBatch, ClearReports, chainVars, appVars
<1>10. ASSUME NEW n \in Validators, Crash(n) \/ \E t \in tasks[n] : SubmitBatchPanics(n, t)
       PROVE  LoseVolatileState(n)
  BY <1>10 DEF Crash, SubmitBatchPanics
<1>11. CASE UNCHANGED vars
  BY <1>7, <1>11 DEF vars
<1>12. CASE Next
  BY <1>4, <1>5, <1>6, <1>7, <1>8, <1>9, <1>10, <1>12 DEF Next
<1> QED
  BY <1>11, <1>12

\* Every application is a replay of the blocks up to its height.
LEMMA SpecReplay == Spec => []AppsReplay
<1>1. Init => AppsReplay
  BY InitType, NewAppReplay DEF Init, AppsReplay
<1> QED
  BY <1>1, NextReplay, PTL DEF Spec

-----------------------------------------------------------------------------
(***************************************************************************)
(* What has been handled                                                   *)
(***************************************************************************)

\* The node accounts for the transaction of height k: a report is pending or accepted, a
\* checkpoint is behind its epoch, a signature counts.
Accounted(n, k) ==
    /\ blocks[k].type = "report" => blocks[k].report \in pendingReports[n] \cup accepted
    /\ blocks[k].type = "checkpoint" => blocks[k].header.epoch < currentEpoch[n]
    /\ blocks[k].type = "bundle" =>
         blocks[k].signer \in Signers(epochSigs[n][blocks[k].epoch])

\* Only accepted reports are being cleared.
ClearsAccepted ==
    \A n \in Validators : \A t \in tasks[n] : t.kind = "clear" => t.intents \subseteq accepted

HandledInv ==
    /\ TypeInv
    /\ \A n \in Validators : \A k \in handled[n] : Accounted(n, k)
    /\ ClearsAccepted

\* What a step may do to the records of what was handled: signatures and the epoch grow,
\* reports leave when they are accepted, a process that exits forgets all of it.
LEMMA HandledStep ==
  ASSUME HandledInv, TypeInv',
         \A k \in 1..Len(blocks) : blocks'[k] = blocks[k],
         accepted \subseteq accepted',
         \A m \in Validators :
           \/ handled'[m] = {} /\ tasks'[m] = {}
           \/ /\ \A e \in Epochs : epochSigs[m][e] \subseteq epochSigs'[m][e]
              /\ currentEpoch[m] <= currentEpoch'[m]
              /\ pendingReports[m] \subseteq pendingReports'[m] \cup accepted'
              /\ \A t \in tasks'[m] :
                   t.kind = "clear" => t \in tasks[m] \/ t.intents \subseteq accepted'
              /\ \A k \in handled'[m] : k \in handled[m] \/ Accounted(m, k)'
  PROVE  HandledInv'
<1>1. ASSUME NEW m \in Validators, NEW k \in handled'[m], k \in handled[m]
      PROVE  Accounted(m, k)'
  <2>1. k \in 1..Len(blocks) /\ blocks'[k] = blocks[k] /\ Accounted(m, k)
    BY <1>1 DEF HandledInv, TypeInv, HeightInv
  <2>2. /\ \A e \in Epochs : epochSigs[m][e] \subseteq epochSigs'[m][e]
        /\ currentEpoch[m] <= currentEpoch'[m]
        /\ pendingReports[m] \subseteq pendingReports'[m] \cup accepted'
    BY <1>1
  <2>3. /\ currentEpoch[m] \in Int /\ currentEpoch'[m] \in Int
    BY DEF HandledInv, TypeInv, TypeOK
  <2>4. blocks[k].type = "report" => blocks[k].report \in pendingReports'[m] \cup accepted'
    BY <2>1, <2>2 DEF Accounted
  <2>5. blocks[k].type = "checkpoint" => blocks[k].header.epoch < currentEpoch'[m]
    <3>1. blocks[k].type = "checkpoint" => blocks[k].header.epoch \in Epochs
      BY <2>1, BlockType DEF HandledInv
    <3> QED
      BY <2>1, <2>2, <2>3, <3>1 DEF Accounted, Epochs
  <2>6. blocks[k].type = "bundle" =>
          blocks[k].signer \in Signers(epochSigs'[m][blocks[k].epoch])
    <3>1. blocks[k].type = "bundle" => blocks[k].epoch \in Epochs
      BY <2>1, BlockType DEF HandledInv
    <3> QED
      BY <2>1, <2>2, <3>1 DEF Accounted, Signers
  <2> QED
    BY <2>1, <2>4, <2>5, <2>6 DEF Accounted
<1>2. \A m \in Validators : \A k \in handled'[m] : Accounted(m, k)'
  BY <1>1
<1>3. ClearsAccepted'
  BY DEF HandledInv, ClearsAccepted
<1> QED
  BY <1>2, <1>3 DEF HandledInv

\* Steps that leave alone what was handled and what it is accounted by.
LEMMA QuietHandled ==
  ASSUME HandledInv, TypeInv',
         \/ UNCHANGED vars \/ CommitBlock
         \/ \E n \in Validators :
              \/ FinalizeBlock(n) \/ BuildCheckpoint(n) \/ ProposeCheckpointCometBFT(n)
              \/ \E r \in Reports : ProcessExecutionReport(n, r)
  PROVE  HandledInv'
<1>1. UNCHANGED <<handled, epochSigs, currentEpoch, pendingReports, tasks, accepted>>
  BY DEF vars, CommitBlock, FinalizeBlock, BuildCheckpoint, ProposeCheckpointCometBFT,
     ProcessExecutionReport, appVars, checkpointVars, bundleVars, rootVars
<1>2. \A k \in 1..Len(blocks) : blocks'[k] = blocks[k]
  <2>1. CASE CommitBlock
    BY <2>1 DEF CommitBlock, HandledInv, TypeInv, TypeOK
  <2>2. CASE ~CommitBlock
    BY <2>2 DEF vars, FinalizeBlock, BuildCheckpoint, ProposeCheckpointCometBFT,
       ProcessExecutionReport, chainVars
  <2> QED
    BY <2>1, <2>2
<1>3. \A m \in Validators : currentEpoch[m] <= currentEpoch'[m]
  BY <1>1 DEF HandledInv, TypeInv, TypeOK
<1> QED
  BY <1>1, <1>2, <1>3, HandledStep

\* A stored signature counts, and no other is lost.
LEMMA StoreKeeps ==
  ASSUME TypeInv, NEW n \in Validators, NEW e \in Epochs, NEW s \in BundleSig, NEW done,
         StoreAndTrigger(n, e, s, done)
  PROVE  /\ \A m \in Validators, f \in Epochs : epochSigs[m][f] \subseteq epochSigs'[m][f]
         /\ s.signer \in Signers(epochSigs'[n][e])
         /\ \A m \in Validators : \A t \in tasks'[m] :
              t \in tasks[m] \/ (t.kind = "submit" /\ t.epoch = e)
<1>1. /\ epochSigs \in [Validators -> [Epochs -> SUBSET BundleSig]]
      /\ tasks \in [Validators -> SUBSET Task]
  BY DEF TypeInv, TypeOK
<1>2. epochSigs[n][e] \subseteq StoreSignature(n, e, s)
  BY DEF StoreSignature
<1>3. s.signer \in Signers(StoreSignature(n, e, s))
  BY DEF StoreSignature, Signers
<1>4. epochSigs' = [epochSigs EXCEPT ![n][e] = StoreSignature(n, e, s)]
  BY DEF StoreAndTrigger
<1>5. \A m \in Validators, f \in Epochs :
        epochSigs'[m][f] = IF m = n /\ f = e THEN StoreSignature(n, e, s) ELSE epochSigs[m][f]
  BY <1>1, <1>4
<1>6. \A m \in Validators : \A t \in tasks'[m] :
        t \in tasks[m] \/ t = [kind |-> "submit", epoch |-> e]
  BY <1>1 DEF StoreAndTrigger
<1> QED
  BY <1>2, <1>3, <1>5, <1>6

\* Each handler accounts for its transaction.
LEMMA HandlerHandled ==
  ASSUME HandledInv, TypeInv', NEW n \in Validators, NEW k \in spawned[n],
         \/ HandleExecutionReportCommitted(n, k) \/ HandleCommittedCheckpoint(n, k)
         \/ HandleValidationSignatureFromCometBFT(n, k)
  PROVE  HandledInv'
<1> USE DEF chainVars, checkpointVars, bundleVars, processVars, rootVars
<1>1. /\ TypeInv /\ Ran(n, k) /\ blocks' = blocks /\ accepted' = accepted
  BY DEF HandledInv, HandleExecutionReportCommitted, HandleCommittedCheckpoint,
     HandleValidationSignatureFromCometBFT
<1>2. k \in 1..Len(blocks) /\ handled' = [handled EXCEPT ![n] = handled[n] \cup {k}]
  BY <1>1, RanType
<1>3. \A m \in Validators : \A j \in handled'[m] : j \in handled[m] \/ (m = n /\ j = k)
  BY <1>1, <1>2 DEF TypeInv, TypeOK
<1>4. currentEpoch \in [Validators -> 0..MaxEpoch + 1] /\ \A m \in Validators : currentEpoch[m] <= currentEpoch[m]
  BY <1>1 DEF TypeInv, TypeOK
<1>5. CASE HandleExecutionReportCommitted(n, k)
  <2>1. /\ blocks[k].type = "report"
        /\ pendingReports' = [pendingReports EXCEPT ![n] = @ \cup {blocks[k].report}]
        /\ UNCHANGED <<epochSigs, currentEpoch, tasks>>
    BY <1>5 DEF HandleExecutionReportCommitted
  <2>2. \A m \in Validators : /\ pendingReports[m] \subseteq pendingReports'[m]
                              /\ m = n => blocks[k].report \in pendingReports'[m]
    BY <1>1, <2>1 DEF TypeInv, TypeOK
  <2>3. Accounted(n, k)'
    BY <1>1, <2>1, <2>2 DEF Accounted
  <2> QED
    BY <1>1, <1>3, <1>4, <2>1, <2>2, <2>3, HandledStep
<1>6. CASE HandleCommittedCheckpoint(n, k)
  <2> DEFINE h == blocks[k].header
  <2>1. /\ blocks[k].type = "checkpoint"
        /\ currentEpoch' = [currentEpoch EXCEPT ![n] = EpochAfter(n, h)]
        /\ UNCHANGED <<epochSigs, pendingReports>>
    BY <1>6 DEF HandleCommittedCheckpoint
  <2>2. h.epoch \in Epochs
    BY <1>1, <1>2, <2>1, BlockType
  <2>3. /\ EpochAfter(n, h) >= currentEpoch[n] /\ h.epoch < EpochAfter(n, h)
    BY <1>4, <2>2 DEF EpochAfter, Epochs
  <2>4. \A m \in Validators : currentEpoch[m] <= currentEpoch'[m]
    BY <1>4, <2>1, <2>3
  <2>5. Accounted(n, k)'
    BY <1>1, <1>4, <2>1, <2>3 DEF Accounted
  <2>6. \A m \in Validators : \A t \in tasks'[m] : t \in tasks[m] \/ t.kind # "clear"
    <3> DEFINE new == IF pendingReports[n] = {} THEN {}
                      ELSE {[kind |-> "sign", header |-> h, intents |-> pendingReports[n]]}
    <3>1. tasks' = [tasks EXCEPT ![n] = tasks[n] \cup new]
      BY <1>6 DEF HandleCommittedCheckpoint
    <3>2. \A t \in new : t.kind = "sign"
      OBVIOUS
    <3> HIDE DEF new
    <3> QED
      BY <1>1, <3>1, <3>2 DEF TypeInv, TypeOK
  <2> QED
    BY <1>1, <1>3, <2>1, <2>4, <2>5, <2>6, HandledStep
<1>7. CASE HandleValidationSignatureFromCometBFT(n, k)
  <2> DEFINE s == [signer |-> blocks[k].signer, digest |-> blocks[k].digest]
  <2>1. /\ blocks[k].type = "bundle" /\ StoreAndTrigger(n, blocks[k].epoch, s, {})
        /\ UNCHANGED <<pendingReports, currentEpoch>>
    BY <1>7 DEF HandleValidationSignatureFromCometBFT
  <2>2. blocks[k].epoch \in Epochs /\ s \in BundleSig /\ s.signer = blocks[k].signer
    BY <1>1, <1>2, <2>1, BlockType
  <2> HIDE DEF s
  <2>3. /\ \A m \in Validators, f \in Epochs : epochSigs[m][f] \subseteq epochSigs'[m][f]
        /\ s.signer \in Signers(epochSigs'[n][blocks[k].epoch])
        /\ \A m \in Validators : \A t \in tasks'[m] :
             t \in tasks[m] \/ (t.kind = "submit" /\ t.epoch = blocks[k].epoch)
    BY <1>1, <2>1, <2>2, StoreKeeps
  <2>4. Accounted(n, k)'
    BY <1>1, <2>1, <2>2, <2>3 DEF Accounted
  <2> QED
    BY <1>1, <1>3, <1>4, <2>1, <2>3, <2>4, HandledStep
<1> QED
  BY <1>5, <1>6, <1>7

\* The goroutines lose nothing: what they clear has been accepted.
LEMMA TaskHandled ==
  ASSUME HandledInv, TypeInv', NEW n \in Validators, NEW t \in tasks[n],
         \/ SignValidationBundle(n, t) \/ StoreOwnSignature(n, t)
         \/ SubmitValidationBundlesForEpoch(n, t) \/ SubmitBatch(n, t)
         \/ \E i \in Reports : ClearReports(n, t, i)
  PROVE  HandledInv'
<1> USE DEF chainVars, appVars, checkpointVars, bundleVars, rootVars
<1>1. TypeInv /\ t \in Task /\ tasks \in [Validators -> SUBSET Task]
  BY DEF HandledInv, TypeInv, TypeOK
<1>2. /\ UNCHANGED <<blocks, handled, currentEpoch>>
      /\ \A m \in Validators : currentEpoch[m] <= currentEpoch[m]
  BY <1>1 DEF SignValidationBundle, StoreOwnSignature, SubmitValidationBundlesForEpoch,
     SubmitBatch, ClearReports, TypeInv, TypeOK
<1>3. CASE SignValidationBundle(n, t)
  <2>1. \A m \in Validators : \A u \in tasks'[m] : u \in tasks[m] \/ u.kind # "clear"
    BY <1>1, <1>3 DEF SignValidationBundle
  <2>2. UNCHANGED <<epochSigs, pendingReports, accepted>>
    BY <1>3 DEF SignValidationBundle
  <2> QED
    BY <1>2, <2>1, <2>2, HandledStep
<1>4. CASE StoreOwnSignature(n, t)
  <2> DEFINE digest == [id |-> t.header.id, intents |-> t.intents]
             s == [signer |-> n, digest |-> digest]
  <2>1. /\ t.header \in Header /\ t.header.epoch \in Epochs /\ t.header.id \in 1..MaxProposals
        /\ t.intents \in SUBSET Reports
    BY <1>1, <1>4 DEF StoreOwnSignature, Task, Header
  <2>2. s \in BundleSig
    BY <2>1 DEF BundleSig, Digest
  <2>3. StoreAndTrigger(n, t.header.epoch, s, {t}) /\ UNCHANGED <<pendingReports, accepted>>
    BY <1>4 DEF StoreOwnSignature
  <2> HIDE DEF s
  <2>4. /\ \A m \in Validators, f \in Epochs : epochSigs[m][f] \subseteq epochSigs'[m][f]
        /\ \A m \in Validators : \A u \in tasks'[m] :
             u \in tasks[m] \/ (u.kind = "submit" /\ u.epoch = t.header.epoch)
    BY <1>1, <2>1, <2>2, <2>3, StoreKeeps
  <2> QED
    BY <1>2, <2>3, <2>4, HandledStep
<1>5. CASE SubmitValidationBundlesForEpoch(n, t)
  <2>1. \A m \in Validators : \A u \in tasks'[m] : u \in tasks[m] \/ u.kind # "clear"
    <3> DEFINE sleep == [kind |-> "sleep", header |-> currentCheckpoint[n],
                         intents |-> Available(n, t.epoch)]
    <3>1. \/ tasks' = [tasks EXCEPT ![n] = (tasks[n] \ {t}) \cup {}]
          \/ tasks' = [tasks EXCEPT ![n] = (tasks[n] \ {t}) \cup {sleep}]
      BY <1>5 DEF SubmitValidationBundlesForEpoch
    <3>2. sleep.kind = "sleep"
      OBVIOUS
    <3> HIDE DEF sleep
    <3> QED
      BY <1>1, <3>1, <3>2
  <2>2. UNCHANGED <<epochSigs, pendingReports, accepted>>
    BY <1>5 DEF SubmitValidationBundlesForEpoch
  <2> QED
    BY <1>2, <2>1, <2>2, HandledStep
<1>6. CASE SubmitBatch(n, t)
  <2>1. PICK ok \in SUBSET t.intents :
          /\ accepted' = accepted \cup ok
          /\ tasks' = [tasks EXCEPT ![n] = (tasks[n] \ {t}) \cup ClearedAfter(t, ok)]
    BY <1>6 DEF SubmitBatch
  <2>2. \A u \in ClearedAfter(t, ok) : u.intents = ok
    BY DEF ClearedAfter
  <2>3. \A m \in Validators : \A u \in tasks'[m] :
          u \in tasks[m] \/ u.intents \subseteq accepted'
    BY <1>1, <2>1, <2>2
  <2>4. UNCHANGED <<epochSigs, pendingReports>> /\ accepted \subseteq accepted'
    BY <1>6, <2>1 DEF SubmitBatch
  <2> QED
    BY <1>2, <2>3, <2>4, HandledStep
<1>7. ASSUME NEW i \in Reports, ClearReports(n, t, i) PROVE HandledInv'
  <2>1. /\ t.kind = "clear" /\ i \in t.intents
        /\ pendingReports' = [pendingReports EXCEPT ![n] = @ \ {i}]
        /\ UNCHANGED <<epochSigs, accepted>>
    BY <1>7 DEF ClearReports
  <2>2. t.intents \subseteq accepted
    BY <2>1 DEF HandledInv, ClearsAccepted
  <2>3. \A m \in Validators : pendingReports[m] \subseteq pendingReports'[m] \cup accepted'
    BY <1>1, <2>1, <2>2 DEF TypeInv, TypeOK
  <2>4. \A m \in Validators : \A u \in tasks'[m] :
          u \in tasks[m] \/ u.intents \subseteq accepted'
    <3> DEFINE rest == [kind |-> "clear", intents |-> t.intents \ {i}]
    <3>1. \/ tasks' = [tasks EXCEPT ![n] = (tasks[n] \ {t}) \cup {}]
          \/ tasks' = [tasks EXCEPT ![n] = (tasks[n] \ {t}) \cup {rest}]
      BY <1>7 DEF ClearReports
    <3>2. rest.intents = t.intents \ {i}
      OBVIOUS
    <3> HIDE DEF rest
    <3> QED
      BY <1>1, <2>1, <2>2, <3>1, <3>2
  <2> QED
    BY <1>2, <2>1, <2>3, <2>4, HandledStep
<1> QED
  BY <1>3, <1>4, <1>5, <1>6, <1>7

\* A process that exits has handled nothing in its next life.
LEMMA ProcessHandled ==
  ASSUME HandledInv, TypeInv', NEW n \in Validators,
         \/ Crash(n) \/ Restart(n) \/ \E t \in tasks[n] : SubmitBatchPanics(n, t)
  PROVE  HandledInv'
<1>0. TypeInv /\ currentEpoch \in [Validators -> 0..MaxEpoch + 1]
  BY DEF HandledInv, TypeInv, TypeOK
<1>1. ASSUME LoseVolatileState(n), accepted \subseteq accepted' PROVE HandledInv'
  <2>1. blocks' = blocks
    BY <1>1 DEF LoseVolatileState, chainVars
  <2>2. ASSUME NEW m \in Validators, m # n
        PROVE  /\ epochSigs'[m] = epochSigs[m] /\ currentEpoch'[m] = currentEpoch[m]
               /\ pendingReports'[m] = pendingReports[m] /\ tasks'[m] = tasks[m]
               /\ handled'[m] = handled[m]
    BY <1>0, <1>1, <2>2, LoseFacts
  <2>3. handled'[n] = {} /\ tasks'[n] = {}
    BY <1>0, <1>1, LoseFacts
  <2>4. \A m \in Validators : currentEpoch[m] <= currentEpoch[m]
    BY <1>0
  <2> QED
    BY <1>1, <2>1, <2>2, <2>3, <2>4, HandledStep
<1>2. CASE Crash(n) \/ \E t \in tasks[n] : SubmitBatchPanics(n, t)
  BY <1>1, <1>2 DEF Crash, SubmitBatchPanics
<1>3. CASE Restart(n)
  <2>1. /\ UNCHANGED <<blocks, handled, epochSigs, pendingReports, tasks, accepted>>
        /\ ~Up(n) /\ currentEpoch' = [currentEpoch EXCEPT ![n] = EpochOnBoot(n)]
    BY <1>3 DEF Restart, chainVars, appVars, bundleVars, rootVars
  <2>2. handled[n] = {} /\ tasks[n] = {}
    BY <1>0, <2>1 DEF TypeInv, HeightInv
  <2>3. \A m \in Validators : m # n => currentEpoch[m] <= currentEpoch'[m]
    BY <1>0, <2>1
  <2> QED
    BY <2>1, <2>2, <2>3, HandledStep
<1> QED
  BY <1>2, <1>3

\* Every step keeps the account of what was handled.
LEMMA NextHandled == HandledInv /\ [Next]_vars => HandledInv'
<1> SUFFICES ASSUME HandledInv, [Next]_vars PROVE HandledInv'
  OBVIOUS
<1>1. TypeInv'
  BY NextType DEF HandledInv
<1> QED
  BY <1>1, QuietHandled, HandlerHandled, TaskHandled, ProcessHandled DEF Next

\* What was handled is accounted for, always.
LEMMA SpecHandled == Spec => []HandledInv
<1>1. Init => HandledInv
  BY InitType DEF Init, HandledInv, ClearsAccepted
<1> QED
  BY <1>1, NextHandled, PTL DEF Spec

\* A node that replays the chain answers every query as one that never restarted at the same
\* height, and its epoch never falls back to a checkpoint it has handled.
THEOREM ReplayInvHolds == Spec => []ReplayInv
<1>1. AppsReplay /\ HandledInv => ReplayInv
  BY ReplayAgrees DEF ReplayInv, HandledInv, Accounted, EpochAheadOfHandled
<1> QED
  BY SpecReplay, SpecHandled, <1>1, PTL

\* The signer of every bundle transaction that a node has handled counts for its epoch,
\* in whatever order the goroutines of FinalizeBlock ran.
THEOREM CommittedSignaturesCountHolds == Spec => []CommittedSignaturesCount
<1>1. HandledInv => CommittedSignaturesCount
  BY DEF HandledInv, Accounted, CommittedSignaturesCount
<1> QED
  BY SpecHandled, <1>1, PTL

\* A report whose handler ran is pending until RootLayer has accepted it.
THEOREM NoReportLostHolds == Spec => []NoReportLost
<1>1. HandledInv => NoReportLost
  BY DEF HandledInv, Accounted, NoReportLost
<1> QED
  BY SpecHandled, <1>1, PTL

-----------------------------------------------------------------------------
(***************************************************************************)
(* Submission                                                              *)
(***************************************************************************)

\* A goroutine that submits, or waits to send, the batch of an epoch.
Submits(t) == t.kind = "submit" \/ t.kind = "sleep"
TaskEpoch(t) == IF t.kind = "submit" THEN t.epoch ELSE t.header.epoch

\* The flag of an epoch is only set with the threshold reached, which then stays so.
TriggeredQuorum ==
    \A n \in Validators : \A e \in triggered[n] :
      CheckThreshold(Cardinality(Signers(epochSigs[n][e])))

\* A submitting goroutine's epoch is flagged and not yet sent, and no other is for it.
OneTask ==
    \A n \in Validators : \A t \in tasks[n] :
      Submits(t) =>
        /\ TaskEpoch(t) \in triggered[n]
        /\ TaskEpoch(t) \notin sent[n]
        /\ \A u \in tasks[n] : Submits(u) /\ TaskEpoch(u) = TaskEpoch(t) => u = t

SentTriggered == \A n \in Validators : sent[n] \subseteq triggered[n]

SubmissionInv == TypeInv /\ TriggeredQuorum /\ OneTask /\ SentTriggered

\* More signatures never undo a threshold.
LEMMA ThresholdGrows ==
  ASSUME NEW S \in SUBSET BundleSig, NEW T \in SUBSET S,
         CheckThreshold(Cardinality(Signers(T)))
  PROVE  CheckThreshold(Cardinality(Signers(S)))
<1>1. Signers(T) \in SUBSET Signers(S) /\ Signers(S) \in SUBSET Validators
  BY DEF Signers, BundleSig
<1>2. IsFiniteSet(Signers(S)) /\ IsFiniteSet(Signers(T))
  BY <1>1, ValidatorsAssumption, FS_Subset
<1>3. /\ Cardinality(Signers(T)) <= Cardinality(Signers(S))
      /\ Cardinality(Signers(T)) \in Nat /\ Cardinality(Signers(S)) \in Nat
  BY <1>1, <1>2, FS_Subset, FS_CardinalityType
<1>4. RequiredSignatures \in Nat
  BY ThresholdReachable, CardinalityValidators
<1> QED
  BY <1>3, <1>4 DEF CheckThreshold

\* A step that leaves flags, signatures and batches alone and starts no submission.
LEMMA SubmissionFrame ==
  ASSUME SubmissionInv, TypeInv', UNCHANGED <<epochSigs, triggered, sent>>,
         \A m \in Validators : \A t \in tasks'[m] : t \in tasks[m] \/ ~Submits(t)
  PROVE  SubmissionInv'
<1>1. TriggeredQuorum' /\ SentTriggered'
  BY DEF SubmissionInv, TriggeredQuorum, SentTriggered
<1>2. OneTask'
  BY DEF SubmissionInv, OneTask
<1> QED
  BY <1>1, <1>2 DEF SubmissionInv

\* Every step but storing a signature, submitting, sending and exiting is of that kind.
LEMMA QuietSubmission ==
  ASSUME SubmissionInv, TypeInv',
         \/ UNCHANGED vars \/ CommitBlock
         \/ \E n \in Validators :
              \/ FinalizeBlock(n) \/ BuildCheckpoint(n) \/ ProposeCheckpointCometBFT(n)
              \/ Restart(n) \/ \E r \in Reports : ProcessExecutionReport(n, r)
              \/ \E k \in spawned[n] : HandleExecutionReportCommitted(n, k)
  PROVE  SubmissionInv'
<1>1. UNCHANGED <<epochSigs, triggered, sent, tasks>>
  BY DEF vars, CommitBlock, FinalizeBlock, BuildCheckpoint, ProposeCheckpointCometBFT,
     Restart, ProcessExecutionReport, HandleExecutionReportCommitted, bundleVars, rootVars
<1> QED
  BY <1>1, SubmissionFrame

\* Handling a checkpoint, signing and clearing start no submission.
LEMMA OtherTaskSubmission ==
  ASSUME SubmissionInv, TypeInv', NEW n \in Validators,
         \/ \E k \in spawned[n] : HandleCommittedCheckpoint(n, k)
         \/ \E t \in tasks[n] :
              SignValidationBundle(n, t) \/ \E i \in Reports : ClearReports(n, t, i)
  PROVE  SubmissionInv'
<1>1. tasks \in [Validators -> SUBSET Task]
  BY DEF SubmissionInv, TypeInv, TypeOK
<1>2. UNCHANGED <<epochSigs, triggered, sent>>
  BY DEF HandleCommittedCheckpoint, SignValidationBundle, ClearReports, bundleVars, rootVars
<1>3. ASSUME NEW k \in spawned[n], HandleCommittedCheckpoint(n, k)
      PROVE  \A m \in Validators : \A u \in tasks'[m] : u \in tasks[m] \/ ~Submits(u)
  <2> DEFINE new == IF pendingReports[n] = {} THEN {}
                    ELSE {[kind |-> "sign", header |-> blocks[k].header,
                           intents |-> pendingReports[n]]}
  <2>1. tasks' = [tasks EXCEPT ![n] = tasks[n] \cup new]
    BY <1>3 DEF HandleCommittedCheckpoint
  <2>2. \A u \in new : ~Submits(u)
    BY DEF Submits
  <2> HIDE DEF new
  <2> QED
    BY <1>1, <2>1, <2>2
<1>4. ASSUME NEW t \in tasks[n], SignValidationBundle(n, t)
      PROVE  \A m \in Validators : \A u \in tasks'[m] : u \in tasks[m] \/ ~Submits(u)
  BY <1>1, <1>4 DEF SignValidationBundle, Submits
<1>5. ASSUME NEW t \in tasks[n], NEW i \in Reports, ClearReports(n, t, i)
      PROVE  \A m \in Validators : \A u \in tasks'[m] : u \in tasks[m] \/ ~Submits(u)
  BY <1>1, <1>5 DEF ClearReports, Submits
<1> QED
  BY <1>2, <1>3, <1>4, <1>5, SubmissionFrame

\* storeEpochValidationSignature and the test that follows it: signatures are only
\* added, and a submission is started for an epoch that has none.
LEMMA StoreSubmission ==
  ASSUME SubmissionInv, TypeInv', NEW n \in Validators, NEW e \in Epochs, NEW s, NEW done,
         StoreAndTrigger(n, e, s, done), UNCHANGED sent
  PROVE  SubmissionInv'
<1> DEFINE sigs == StoreSignature(n, e, s)
           submit == [kind |-> "submit", epoch |-> e]
<1>1. /\ tasks \in [Validators -> SUBSET Task]
      /\ triggered \in [Validators -> SUBSET Epochs]
      /\ epochSigs \in [Validators -> [Epochs -> SUBSET BundleSig]]
      /\ epochSigs' \in [Validators -> [Epochs -> SUBSET BundleSig]]
  BY DEF SubmissionInv, TypeInv, TypeOK
<1>2. epochSigs' = [epochSigs EXCEPT ![n][e] = sigs] /\ epochSigs[n][e] \subseteq sigs
  BY DEF StoreAndTrigger, StoreSignature
<1>3. \/ /\ CheckThreshold(Cardinality(Signers(sigs))) /\ e \notin triggered[n]
         /\ triggered' = [triggered EXCEPT ![n] = @ \cup {e}]
         /\ tasks' = [tasks EXCEPT ![n] = (@ \ done) \cup {submit}]
      \/ /\ triggered' = triggered
         /\ tasks' = [tasks EXCEPT ![n] = @ \ done]
  <2>1. CASE ShouldTrigger(n, e, sigs)
    BY <2>1 DEF StoreAndTrigger, ShouldTrigger
  <2>2. CASE ~ShouldTrigger(n, e, sigs)
    BY <1>1, <2>2 DEF StoreAndTrigger
  <2> QED
    BY <2>1, <2>2
<1>4. submit.kind = "submit" /\ TaskEpoch(submit) = e
  BY DEF TaskEpoch
<1> HIDE DEF sigs, submit
<1>5. \A m \in Validators, f \in Epochs :
        /\ epochSigs[m][f] \subseteq epochSigs'[m][f]
        /\ epochSigs'[m][f] \subseteq BundleSig
        /\ (m = n /\ f = e) => epochSigs'[m][f] = sigs
  BY <1>1, <1>2
<1>6. \A m \in Validators : triggered[m] \subseteq triggered'[m]
  BY <1>1, <1>3, SMTT(30)
<1>7. TriggeredQuorum'
  <2> SUFFICES ASSUME NEW m \in Validators, NEW f \in triggered'[m]
               PROVE  CheckThreshold(Cardinality(Signers(epochSigs'[m][f])))
    BY DEF TriggeredQuorum
  <2>1. f \in triggered[m] \/ (m = n /\ f = e /\ CheckThreshold(Cardinality(Signers(sigs))))
    BY <1>1, <1>3
  <2>2. CASE f \in triggered[m]
    <3>1. CheckThreshold(Cardinality(Signers(epochSigs[m][f]))) /\ f \in Epochs
      BY <1>1, <2>2 DEF SubmissionInv, TriggeredQuorum
    <3> QED
      BY <1>5, <3>1, ThresholdGrows
  <2> QED
    BY <1>5, <2>1, <2>2
<1>8. SentTriggered'
  BY <1>6 DEF SubmissionInv, SentTriggered
<1>9. \A m \in Validators : \A u \in tasks'[m] : u \in tasks[m] \/ (m = n /\ u = submit)
  BY <1>1, <1>3
<1>10. OneTask'
  <2> SUFFICES ASSUME NEW m \in Validators, NEW t \in tasks'[m], Submits(t)
               PROVE  /\ TaskEpoch(t) \in triggered'[m]
                      /\ TaskEpoch(t) \notin sent[m]
                      /\ \A u \in tasks'[m] :
                           Submits(u) /\ TaskEpoch(u) = TaskEpoch(t) => u = t
    BY DEF OneTask
  <2>1. CASE m = n /\ submit \in tasks'[m] /\ submit \notin tasks[m]
    <3>1. e \notin triggered[n] /\ e \in triggered'[n]
      BY <1>1, <1>3, <2>1
    <3>2. e \notin sent[n]
      BY <3>1 DEF SubmissionInv, SentTriggered
    <3>3. \A u \in tasks'[m] : Submits(u) => u = submit \/ TaskEpoch(u) # e
      BY <1>9, <2>1, <3>1 DEF SubmissionInv, OneTask
    <3> QED
      BY <1>4, <1>6, <1>9, <2>1, <3>1, <3>2, <3>3 DEF SubmissionInv, OneTask
  <2>2. CASE ~(m = n /\ submit \in tasks'[m] /\ submit \notin tasks[m])
    <3>1. tasks'[m] \subseteq tasks[m]
      BY <1>9, <2>2
    <3> QED
      BY <1>6, <3>1 DEF SubmissionInv, OneTask
  <2> QED
    BY <2>1, <2>2
<1> QED
  BY <1>7, <1>8, <1>10 DEF SubmissionInv

\* Both callers of storeEpochValidationSignature.
LEMMA SignatureSubmission ==
  ASSUME SubmissionInv, TypeInv', NEW n \in Validators,
         \/ \E t \in tasks[n] : StoreOwnSignature(n, t)
         \/ \E k \in spawned[n] : HandleValidationSignatureFromCometBFT(n, k)
  PROVE  SubmissionInv'
<1>1. ASSUME NEW t \in tasks[n], StoreOwnSignature(n, t) PROVE SubmissionInv'
  <2>1. t \in Task /\ t.kind = "store"
    BY <1>1 DEF SubmissionInv, TypeInv, TypeOK, StoreOwnSignature
  <2>2. t.header.epoch \in Epochs
    BY <2>1 DEF Task, Header
  <2>3. UNCHANGED sent /\ \E s : StoreAndTrigger(n, t.header.epoch, s, {t})
    BY <1>1 DEF StoreOwnSignature, rootVars
  <2> QED
    BY <2>2, <2>3, StoreSubmission
<1>2. ASSUME NEW k \in spawned[n], HandleValidationSignatureFromCometBFT(n, k)
      PROVE  SubmissionInv'
  <2>1. k \in 1..Len(blocks) /\ TypeInv
    BY DEF SubmissionInv, TypeInv, HeightInv
  <2>2. blocks[k].epoch \in Epochs
    BY <1>2, <2>1, BlockType DEF HandleValidationSignatureFromCometBFT
  <2>3. UNCHANGED sent /\ \E s : StoreAndTrigger(n, blocks[k].epoch, s, {})
    BY <1>2 DEF HandleValidationSignatureFromCometBFT, rootVars
  <2> QED
    BY <2>2, <2>3, StoreSubmission
<1> QED
  BY <1>1, <1>2

\* submitValidationBundlesForEpoch waits for the epoch it was started for.
LEMMA SubmitSubmission ==
  ASSUME SubmissionInv, TypeInv', NEW n \in Validators, NEW t \in tasks[n],
         SubmitValidationBundlesForEpoch(n, t)
  PROVE  SubmissionInv'
<1> DEFINE next == [kind |-> "sleep", header |-> currentCheckpoint[n],
                    intents |-> Available(n, t.epoch)]
<1>1. t.kind = "submit" /\ UNCHANGED <<epochSigs, triggered, sent>>
  BY DEF SubmitValidationBundlesForEpoch, bundleVars, rootVars
<1>2. tasks \in [Validators -> SUBSET Task]
  BY DEF SubmissionInv, TypeInv, TypeOK
<1>3. \/ tasks' = [tasks EXCEPT ![n] = (@ \ {t}) \cup {}]
      \/ /\ tasks' = [tasks EXCEPT ![n] = (@ \ {t}) \cup {next}]
         /\ currentCheckpoint[n].epoch = t.epoch
  BY DEF SubmitValidationBundlesForEpoch
<1>4. next.kind = "sleep" /\ next.header = currentCheckpoint[n]
  OBVIOUS
<1> HIDE DEF next
<1>5. CASE tasks' = [tasks EXCEPT ![n] = (@ \ {t}) \cup {}]
  <2>1. \A m \in Validators : tasks'[m] \subseteq tasks[m]
    BY <1>2, <1>5
  <2> QED
    BY <1>1, <2>1, SubmissionFrame
<1>6. CASE /\ tasks' = [tasks EXCEPT ![n] = (@ \ {t}) \cup {next}]
           /\ currentCheckpoint[n].epoch = t.epoch
  <2>1. Submits(next) /\ TaskEpoch(next) = t.epoch
    BY <1>4, <1>6 DEF Submits, TaskEpoch
  <2>2. Submits(t) /\ TaskEpoch(t) = t.epoch
    BY <1>1 DEF Submits, TaskEpoch
  <2>3. \A m \in Validators : \A u \in tasks'[m] :
          \/ u \in tasks[m] /\ (m = n => u # t)
          \/ m = n /\ u = next
    <3>1. next # t
      BY <1>1, <1>4
    <3> QED
      BY <1>2, <1>6, <3>1
  <2>4. TriggeredQuorum' /\ SentTriggered'
    BY <1>1 DEF SubmissionInv, TriggeredQuorum, SentTriggered
  <2>5. /\ t.epoch \in triggered[n] /\ t.epoch \notin sent[n]
        /\ \A u \in tasks[n] : Submits(u) /\ TaskEpoch(u) = t.epoch => u = t
    BY <2>2 DEF SubmissionInv, OneTask
  <2>6. OneTask'
    BY <1>1, <2>1, <2>3, <2>5 DEF SubmissionInv, OneTask
  <2> QED
    BY <2>4, <2>6 DEF SubmissionInv
<1> QED
  BY <1>3, <1>5, <1>6

\* submitValidationBundleBatch: the batch of an epoch is sent by its only goroutine, which
\* ends.
LEMMA BatchSubmission ==
  ASSUME SubmissionInv, TypeInv', NEW n \in Validators, NEW t \in tasks[n], SubmitBatch(n, t)
  PROVE  SubmissionInv'
<1>1. /\ t.kind = "sleep" /\ sent' = [sent EXCEPT ![n] = @ \cup {t.header.epoch}]
      /\ UNCHANGED <<epochSigs, triggered>>
  BY DEF SubmitBatch, bundleVars
<1>2. PICK ok : tasks' = [tasks EXCEPT ![n] = (@ \ {t}) \cup ClearedAfter(t, ok)]
  BY DEF SubmitBatch
<1>3. /\ tasks \in [Validators -> SUBSET Task] /\ sent \in [Validators -> SUBSET Epochs]
  BY DEF SubmissionInv, TypeInv, TypeOK
<1>4. \A c \in ClearedAfter(t, ok) : ~Submits(c)
  BY DEF ClearedAfter, Submits
<1>5. \A m \in Validators : \A u \in tasks'[m] :
        Submits(u) => u \in tasks[m] /\ (m = n => u # t)
  BY <1>2, <1>3, <1>4
<1>6. Submits(t) /\ TaskEpoch(t) = t.header.epoch
  BY <1>1 DEF Submits, TaskEpoch
<1>7. \A m \in Validators : \A e \in sent'[m] :
        e \in sent[m] \/ (m = n /\ e = t.header.epoch)
  BY <1>1, <1>3
<1>8. TriggeredQuorum'
  BY <1>1 DEF SubmissionInv, TriggeredQuorum
<1>9. SentTriggered'
  BY <1>1, <1>6, <1>7 DEF SubmissionInv, SentTriggered, OneTask
<1>10. OneTask'
  <2> SUFFICES ASSUME NEW m \in Validators, NEW u \in tasks'[m], Submits(u)
               PROVE  /\ TaskEpoch(u) \in triggered[m]
                      /\ TaskEpoch(u) \notin sent'[m]
                      /\ \A w \in tasks'[m] :
                           Submits(w) /\ TaskEpoch(w) = TaskEpoch(u) => w = u
    BY <1>1 DEF OneTask
  <2>1. u \in tasks[m] /\ (m = n => u # t)
    BY <1>5
  <2>2. TaskEpoch(u) \in triggered[m] /\ TaskEpoch(u) \notin sent[m]
    BY <2>1 DEF SubmissionInv, OneTask
  <2>3. \A w \in tasks'[m] : Submits(w) /\ TaskEpoch(w) = TaskEpoch(u) => w = u
    BY <1>5, <2>1 DEF SubmissionInv, OneTask
  <2>4. m = n => TaskEpoch(u) # t.header.epoch
    BY <1>6, <2>1 DEF SubmissionInv, OneTask
  <2> QED
    BY <1>7, <2>2, <2>3, <2>4
<1> QED
  BY <1>8, <1>9, <1>10 DEF SubmissionInv

\* A process that exits forgets its flags, signatures and goroutines together.
LEMMA LoseSubmission ==
  ASSUME SubmissionInv, TypeInv', NEW n \in Validators, LoseVolatileState(n)
  PROVE  SubmissionInv'
<1>1. \A m \in Validators :
        /\ tasks'[m] = IF m = n THEN {} ELSE tasks[m]
        /\ triggered'[m] = IF m = n THEN {} ELSE triggered[m]
        /\ sent'[m] = IF m = n THEN {} ELSE sent[m]
        /\ epochSigs'[m] = IF m = n THEN [e \in Epochs |-> {}] ELSE epochSigs[m]
  BY LoseFacts DEF SubmissionInv
<1>2. TriggeredQuorum' /\ SentTriggered'
  BY <1>1 DEF SubmissionInv, TriggeredQuorum, SentTriggered
<1>3. OneTask'
  BY <1>1 DEF SubmissionInv, OneTask
<1> QED
  BY <1>2, <1>3 DEF SubmissionInv

\* Every step keeps the submission invariant.
LEMMA NextSubmission == SubmissionInv /\ [Next]_vars => SubmissionInv'
<1> SUFFICES ASSUME SubmissionInv, [Next]_vars PROVE SubmissionInv'
  OBVIOUS
<1>1. TypeInv'
  BY NextType DEF SubmissionInv
<1>2. ASSUME NEW n \in Validators, Crash(n) \/ \E t \in tasks[n] : SubmitBatchPanics(n, t)
      PROVE  SubmissionInv'
  BY <1>1, <1>2, LoseSubmission DEF Crash, SubmitBatchPanics
<1> QED
  BY <1>1, <1>2, QuietSubmission, OtherTaskSubmission, SignatureSubmission,
     SubmitSubmission, BatchSubmission DEF Next

\* The submission invariant holds always.
LEMMA SpecSubmission == Spec => []SubmissionInv
<1>1. Init => SubmissionInv
  BY InitType DEF Init, SubmissionInv, TriggeredQuorum, OneTask, SentTriggered
<1> QED
  BY <1>1, NextSubmission, PTL DEF Spec

\* A batch about to be sent has the signatures of the required number of validators, and
\* its epoch has been sent by no other goroutine of the process.
THEOREM BatchesAreDueHolds == Spec => []BatchesAreDue
<1>1. SubmissionInv => BatchesAreDue
  BY DEF SubmissionInv, OneTask, TriggeredQuorum, Submits, TaskEpoch, BatchesAreDue
<1> QED
  BY SpecSubmission, <1>1, PTL
=============================================================================
