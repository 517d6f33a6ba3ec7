------------------------- MODULE RaftValidator_proofs -------------------------
(***************************************************************************)
(* Proofs about RaftValidator, for any number of validators, reports,      *)
(* epochs, elections and restarts: types, the log and what nodes keep of   *)
(* it, and the submissions of submitValidationBundlesForEpoch.             *)
(***************************************************************************)
EXTENDS RaftValidator, ValidatorSet_proofs

-----------------------------------------------------------------------------
(***************************************************************************)
(* Types of the operators                                                  *)
(***************************************************************************)

\* The hash of a header is a hash.
LEMMA HashType == ASSUME NEW h \in Header PROVE Hash(h) \in Hashes
  BY DEF Hash, Header, Hashes

\* AddCheckpoint changes the parent of a header at most.
LEMMA AutoSetParentType ==
  ASSUME NEW latest \in Header \cup {NoHeader}, NEW h \in Header
  PROVE  /\ AutoSetParent(latest, h) \in Header
         /\ AutoSetParent(latest, h).epoch = h.epoch
         /\ AutoSetParent(latest, h).id = h.id
<1>1. CASE latest # NoHeader /\ ChainAccepts(latest, h) /\ h.parent = <<>>
  <2>1. Hash(latest) \in Hashes
    BY <1>1, HashType
  <2> QED
    BY <1>1, <2>1 DEF AutoSetParent, Header
<1> QED
  BY <1>1 DEF AutoSetParent

\* There are finitely many intents.
LEMMA IntentsFinite ==
  ASSUME NEW S \in SUBSET Intents PROVE IsFiniteSet(S) /\ Cardinality(S) \in Nat
<1> DEFINE f == [r \in Reports |-> IntentOf[r]]
<1>1. f \in [Reports -> Intents] /\ \A i \in Intents : \E r \in Reports : f[r] = i
  BY ReportsAssumption DEF Intents
<1>2. f \in Surjection(Reports, Intents)
  BY <1>1 DEF Surjection
<1>3. IsFiniteSet(Intents)
  BY <1>2, ReportsAssumption, FS_Surjection
<1> QED
  BY <1>3, FS_Subset, FS_CardinalityType

\* The selection of signAndGossipValidationBundles is a list of the given intents.
LEMMA FifoType ==
  ASSUME NEW time, NEW S \in SUBSET Intents, NEW fifo \in FifoSelections(time, S)
  PROVE  fifo \in Seq(Intents) /\ {fifo[p] : p \in 1..Len(fifo)} \subseteq S
<1>1. PICK size \in Nat : fifo \in [1..size -> S]
  BY IntentsFinite, BoundsAssumption DEF FifoSelections
<1>2. fifo \in Seq(S) /\ Len(fifo) = size
  BY <1>1
<1> QED
  BY <1>1, <1>2

\* The intents of the pending reports are intents.
LEMMA PendingIntentsType ==
  ASSUME TypeOK, NEW n \in Validators PROVE PendingIntents(n) \subseteq Intents
  BY DEF TypeOK, PendingIntents, Intents

\* The type invariant holds of freshly created nodes.
LEMMA InitType == Init => TypeOK
<1> SUFFICES ASSUME Init PROVE TypeOK
  OBVIOUS
<1>1. store \in [Validators -> Store]
  BY DEF Init, Store
<1>2. proposal \in [Validators -> Proposal]
  BY DEF Init, Proposal, Idle
<1>3. currentEpoch \in [Validators -> 0..MaxEpoch + 1]
  BY BoundsAssumption DEF Init
<1>4. log \in Seq(Entry) /\ handled \in [Validators -> SUBSET (1..Len(log))]
  BY DEF Init
<1>5. /\ epochIntents \in [Validators -> [Epochs -> Seq(Intents)]]
      /\ epochSigs \in [Validators -> [Epochs -> SUBSET BundleSig]]
      /\ receivedAt \in [Validators -> [Intents -> Nat]]
  BY DEF Init
<1>6. proposals \in 0..MaxProposals /\ restarts \in [Validators -> 0..MaxRestarts]
  BY BoundsAssumption DEF Init
<1> QED
  BY <1>1, <1>2, <1>3, <1>4, <1>5, <1>6 DEF Init, TypeOK

-----------------------------------------------------------------------------
(***************************************************************************)
(* Every action preserves the type invariant                               *)
(***************************************************************************)

\* The log grows by one entry and nothing that was handled is forgotten.
LEMMA AppendType ==
  ASSUME TypeOK, NEW e \in Entry, log' = Append(log, e), handled' = handled
  PROVE  log' \in Seq(Entry) /\ handled' \in [Validators -> SUBSET (1..Len(log'))]
<1>1. log' \in Seq(Entry) /\ Len(log') = Len(log) + 1 /\ Len(log) \in Nat
  BY DEF TypeOK
<1>2. 1..Len(log) \subseteq 1..Len(log')
  BY <1>1
<1> QED
  BY <1>1, <1>2 DEF TypeOK

\* Elections, step-downs and commits keep the types.
LEMMA RaftType ==
  ASSUME TypeOK,
         \/ CommitCheckpoint
         \/ \E n \in Validators : \/ Elect(n) \/ StepDown(n)
                                  \/ \E r \in Reports : ProcessExecutionReport(n, r)
  PROVE  TypeOK'
<1> USE DEF reportVars, checkpointVars, proposalVars, bundleVars, processVars, rootVars
<1>1. ASSUME replicating # NoHeader
      PROVE  [type |-> "checkpoint", header |-> replicating] \in Entry
  BY <1>1 DEF TypeOK, Entry
<1>2. CASE CommitCheckpoint
  <2>1. log' \in Seq(Entry) /\ handled' \in [Validators -> SUBSET (1..Len(log'))]
    BY <1>1, <1>2, AppendType DEF CommitCheckpoint
  <2> QED
    BY <1>2, <2>1 DEF CommitCheckpoint, TypeOK
<1>3. ASSUME NEW n \in Validators, Elect(n) PROVE TypeOK'
  <2>1. log' \in Seq(Entry) /\ handled' \in [Validators -> SUBSET (1..Len(log'))]
    <3>1. CASE log' = log
      BY <1>3, <3>1 DEF Elect, TypeOK
    <3>2. CASE /\ replicating # NoHeader
               /\ log' = Append(log, [type |-> "checkpoint", header |-> replicating])
      BY <1>1, <1>3, <3>2, AppendType DEF Elect
    <3> QED
      BY <1>3, <3>1, <3>2 DEF Elect
  <2> QED
    BY <1>3, <2>1 DEF Elect, TypeOK
<1>4. ASSUME NEW n \in Validators, StepDown(n) PROVE TypeOK'
  BY <1>4 DEF StepDown, TypeOK
<1>5. ASSUME NEW n \in Validators, NEW r \in Reports, ProcessExecutionReport(n, r)
      PROVE  TypeOK'
  <2>1. [type |-> "report", report |-> r] \in Entry
    BY DEF Entry
  <2>2. log' \in Seq(Entry) /\ handled' \in [Validators -> SUBSET (1..Len(log'))]
    BY <1>5, <2>1, AppendType DEF ProcessExecutionReport
  <2> QED
    BY <1>5, <2>2 DEF ProcessExecutionReport, TypeOK
<1> QED
  BY <1>2, <1>3, <1>4, <1>5

\* Replicating and receiving an execution report keeps the types.
LEMMA ReportType ==
  ASSUME TypeOK, NEW n \in Validators, NEW i \in 1..Len(log),
         OnExecutionReportCommitted(n, i)
  PROVE  TypeOK'
<1> USE DEF raftVars, checkpointVars, proposalVars, bundleVars, processVars, rootVars
<1>1. log[i] \in Entry /\ log[i].type = "report"
  BY DEF TypeOK, OnExecutionReportCommitted
<1>2. log[i].report \in Reports
  BY <1>1 DEF Entry
<1>3. handled' \in [Validators -> SUBSET (1..Len(log'))]
  BY DEF TypeOK, OnExecutionReportCommitted
<1>4. /\ pendingReports' \in [Validators -> SUBSET Reports]
      /\ receivedAt' \in [Validators -> [Intents -> Nat]]
  <2>1. CASE UNCHANGED reportVars
    BY <2>1 DEF TypeOK, reportVars
  <2>2. CASE /\ pendingReports' = [pendingReports EXCEPT ![n] = @ \cup {log[i].report}]
             /\ \E t \in ClockReadings(n) :
                  receivedAt' = [receivedAt EXCEPT ![n][IntentOf[log[i].report]] = t]
    <3>1. PICK t \in ClockReadings(n) :
            receivedAt' = [receivedAt EXCEPT ![n][IntentOf[log[i].report]] = t]
      BY <2>2
    <3>2. t \in Nat
      BY BoundsAssumption DEF ClockReadings
    <3>3. IntentOf[log[i].report] \in Intents
      BY <1>2 DEF Intents
    <3>4. receivedAt' \in [Validators -> [Intents -> Nat]]
      BY <3>1, <3>2, <3>3 DEF TypeOK
    <3> QED
      BY <1>2, <2>2, <3>4 DEF TypeOK
  <2> QED
    BY <2>1, <2>2 DEF OnExecutionReportCommitted
<1> QED
  BY <1>3, <1>4 DEF TypeOK, OnExecutionReportCommitted

\* The three steps of proposeCheckpointRaft keep the types.
LEMMA ProposalType ==
  ASSUME TypeOK, NEW n \in Validators,
         StartProposal(n) \/ ProposeCheckpointRaft(n) \/ ApplyCheckpointReturns(n)
  PROVE  TypeOK'
<1> USE DEF raftVars, reportVars, bundleVars, processVars, rootVars
<1>1. CASE StartProposal(n)
  <2>1. chainLatest[n] # NoHeader => Hash(chainLatest[n]) \in Hashes
    BY HashType DEF TypeOK
  <2>2. <<>> \in Hashes
    BY DEF Hashes
  <2>3. proposal' \in [Validators -> Proposal]
    BY <1>1, <2>1, <2>2 DEF StartProposal, TypeOK, Proposal
  <2> QED
    BY <1>1, <2>3 DEF StartProposal, TypeOK, checkpointVars
<1>2. CASE ProposeCheckpointRaft(n)
  <2> DEFINE h == [id |-> proposals + 1, epoch |-> currentEpoch[n],
                   parent |-> proposal[n].parent, proposer |-> n]
  <2>1. proposal[n].parent \in Hashes
    BY <1>2 DEF ProposeCheckpointRaft, TypeOK, Proposal
  <2>2. proposals + 1 \in HeaderIds /\ currentEpoch[n] \in Epochs
    BY <1>2, BoundsAssumption, SMTT(30) DEF ProposeCheckpointRaft, TypeOK, HeaderIds, Epochs
  <2>3. h \in Header
    BY <2>1, <2>2 DEF Header
  <2>4. [signer |-> n, hash |-> Hash(h)] \in CheckpointSig
    BY <2>3, HashType DEF CheckpointSig
  <2>5. [phase |-> "applying", header |-> h] \in Proposal
    BY <2>3 DEF Proposal
  <2>6. /\ currentCheckpoint' = [currentCheckpoint EXCEPT ![n] = h]
        /\ signatures' = [signatures EXCEPT ![n] = {[signer |-> n, hash |-> Hash(h)]}]
        /\ proposal' = [proposal EXCEPT ![n] = [phase |-> "applying", header |-> h]]
        /\ replicating' \in {h, replicating}
    BY <1>2 DEF ProposeCheckpointRaft
  <2> HIDE DEF h
  <2>7. /\ currentCheckpoint' \in [Validators -> Header \cup {NoHeader}]
        /\ signatures' \in [Validators -> SUBSET CheckpointSig]
        /\ proposal' \in [Validators -> Proposal]
        /\ replicating' \in Header \cup {NoHeader}
    BY <2>3, <2>4, <2>5, <2>6 DEF TypeOK
  <2>8. proposals' \in 0..MaxProposals
    BY <1>2, BoundsAssumption, SMTT(30) DEF ProposeCheckpointRaft, TypeOK
  <2> QED
    BY <1>2, <2>7, <2>8 DEF ProposeCheckpointRaft, TypeOK
<1>3. CASE ApplyCheckpointReturns(n)
  <2>1. proposal' \in [Validators -> Proposal]
    BY <1>3 DEF ApplyCheckpointReturns, TypeOK, Proposal, Idle
  <2> QED
    BY <1>3, <2>1 DEF ApplyCheckpointReturns, TypeOK, checkpointVars
<1> QED
  BY <1>1, <1>2, <1>3

\* handleCommittedCheckpoint keeps the types.
LEMMA CheckpointType ==
  ASSUME TypeOK, NEW n \in Validators, NEW i \in 1..Len(log),
         HandleCommittedCheckpoint(n, i)
  PROVE  TypeOK'
<1> USE DEF raftVars, reportVars, proposalVars, bundleVars, processVars, rootVars
<1> DEFINE h == AutoSetParent(chainLatest[n], log[i].header)
<1>1. log[i] \in Entry /\ log[i].type = "checkpoint"
  BY DEF TypeOK, HandleCommittedCheckpoint
<1>2. log[i].header \in Header
  BY <1>1 DEF Entry
<1>3. h \in Header
  BY <1>2, AutoSetParentType DEF TypeOK
<1>4. /\ handled' = [handled EXCEPT ![n] = @ \cup {i}]
      /\ chainLatest' =
           [chainLatest EXCEPT ![n] = IF ChainAccepts(@, log[i].header) THEN h ELSE @]
      /\ SaveCheckpoint(n, h)
      /\ currentCheckpoint' = [currentCheckpoint EXCEPT ![n] = h]
      /\ currentEpoch' = [currentEpoch EXCEPT ![n] = EpochAfter(n, h)]
      /\ signatures' = [signatures EXCEPT ![n] = SignaturesReset(n, h)]
      /\ tasks' = [tasks EXCEPT ![n] = @ \cup FollowUp(n, h)]
  BY DEF HandleCommittedCheckpoint
<1> HIDE DEF h
<1>5. h.epoch \in Epochs
  BY <1>3 DEF Header
<1>6. EpochAfter(n, h) \in 0..MaxEpoch + 1
  <2>1. currentEpoch[n] \in 0..MaxEpoch + 1
    BY DEF TypeOK
  <2> QED
    BY <1>5, <2>1, BoundsAssumption DEF EpochAfter, Epochs
<1>7. SignaturesReset(n, h) \subseteq CheckpointSig
  BY <1>3, HashType DEF SignaturesReset, CheckpointSig
<1>8. FollowUp(n, h) \subseteq Task
  BY <1>3, PendingIntentsType DEF FollowUp, Task
<1>9. store' \in [Validators -> Store]
  <2>1. /\ store[n] \in Store /\ signatures[n] \subseteq CheckpointSig
    BY DEF TypeOK
  <2>2. /\ [store[n].headers EXCEPT ![h.epoch] = h] \in [Epochs -> Header \cup {NoHeader}]
        /\ store[n].sigs \in [Epochs -> SUBSET CheckpointSig]
        /\ [store[n].sigs EXCEPT ![h.epoch] = signatures[n]]
             \in [Epochs -> SUBSET CheckpointSig]
    BY <1>3, <1>5, <2>1 DEF Store
  <2>3. [latest |-> h.epoch,
         headers |-> [store[n].headers EXCEPT ![h.epoch] = h],
         sigs |-> IF signatures[n] = {} THEN store[n].sigs
                  ELSE [store[n].sigs EXCEPT ![h.epoch] = signatures[n]]] \in Store
    BY <1>5, <2>2 DEF Store
  <2> QED
    BY <1>4, <2>3 DEF SaveCheckpoint, TypeOK
<1>10. /\ handled' \in [Validators -> SUBSET (1..Len(log))]
       /\ chainLatest' \in [Validators -> Header \cup {NoHeader}]
       /\ currentCheckpoint' \in [Validators -> Header \cup {NoHeader}]
       /\ currentEpoch' \in [Validators -> 0..MaxEpoch + 1]
       /\ signatures' \in [Validators -> SUBSET CheckpointSig]
       /\ tasks' \in [Validators -> SUBSET Task]
  BY <1>3, <1>4, <1>6, <1>7, <1>8 DEF TypeOK
<1> QED
  BY <1>9, <1>10 DEF TypeOK, HandleCommittedCheckpoint

\* Storing an epoch signature keeps the types of what it writes.
LEMMA StoreAndTriggerType ==
  ASSUME TypeOK, NEW n \in Validators, NEW e \in Epochs, NEW s \in BundleSig,
         NEW done, NEW next \in SUBSET Task, StoreAndTrigger(n, e, s, done, next)
  PROVE  /\ epochSigs' \in [Validators -> [Epochs -> SUBSET BundleSig]]
         /\ triggered' \in [Validators -> SUBSET Epochs]
         /\ tasks' \in [Validators -> SUBSET Task]
<1>1. StoreSignature(epochSigs[n][e], s) \subseteq BundleSig
  BY DEF StoreSignature, TypeOK
<1>2. [kind |-> "submit", epoch |-> e] \in Task
  BY DEF Task
<1>3. epochSigs' \in [Validators -> [Epochs -> SUBSET BundleSig]]
  BY <1>1 DEF StoreAndTrigger, TypeOK
<1>4. triggered' \in [Validators -> SUBSET Epochs]
  <2>1. triggered' = triggered \/ triggered' = [triggered EXCEPT ![n] = @ \cup {e}]
    BY DEF StoreAndTrigger
  <2>2. triggered \in [Validators -> SUBSET Epochs]
    BY DEF TypeOK
  <2> QED
    BY <2>1, <2>2
<1>5. tasks' \in [Validators -> SUBSET Task]
  <2>1. PICK new \in SUBSET Task : tasks' = [tasks EXCEPT ![n] = (@ \ done) \cup new]
    <3>1. CASE tasks' = [tasks EXCEPT ![n] = (@ \ done) \cup next]
      BY <3>1
    <3>2. CASE tasks' = [tasks EXCEPT ![n] =
                           (@ \ done) \cup next \cup {[kind |-> "submit", epoch |-> e]}]
      <4>1. tasks' = [tasks EXCEPT ![n] =
                        (@ \ done) \cup (next \cup {[kind |-> "submit", epoch |-> e]})]
        BY <3>2
      <4>2. next \cup {[kind |-> "submit", epoch |-> e]} \in SUBSET Task
        BY <1>2
      <4> QED
        BY <4>1, <4>2
    <3> QED
      BY <3>1, <3>2 DEF StoreAndTrigger
  <2> QED
    BY <2>1 DEF TypeOK
<1> QED
  BY <1>3, <1>4, <1>5

\* Signing, storing and broadcasting keep the types.
LEMMA SignType ==
  ASSUME TypeOK, NEW n \in Validators, NEW t \in tasks[n],
         SignValidationBundle(n, t) \/ StoreOwnSignature(n, t) \/ BroadcastSignature(n, t)
  PROVE  TypeOK'
<1> USE DEF raftVars, reportVars, checkpointVars, proposalVars, processVars, rootVars
<1>1. t \in Task
  BY DEF TypeOK
<1>2. CASE SignValidationBundle(n, t)
  <2>1. t.header \in Header /\ t.intents \in SUBSET Intents
    BY <1>1, <1>2 DEF SignValidationBundle, Task
  <2>2. t.header.epoch \in Epochs /\ Hash(t.header) \in Hashes
    BY <2>1, HashType DEF Header
  <2>3. PICK fifo \in FifoSelections(receivedAt[n], t.intents) :
          /\ epochIntents' = [epochIntents EXCEPT ![n][t.header.epoch] = fifo]
          /\ signed' = signed \cup {[signer |-> n, epoch |-> t.header.epoch,
                                     digest |-> [hash |-> Hash(t.header), intents |-> fifo]]}
          /\ tasks' = [tasks EXCEPT ![n] = (@ \ {t}) \cup
                         {[kind |-> "store", header |-> t.header, fifo |-> fifo]}]
    BY <1>2 DEF SignValidationBundle
  <2>4. fifo \in Seq(Intents)
    BY <2>1, FifoType
  <2>5. [kind |-> "store", header |-> t.header, fifo |-> fifo] \in Task
    BY <2>1, <2>4 DEF Task
  <2>6. [signer |-> n, epoch |-> t.header.epoch,
         digest |-> [hash |-> Hash(t.header), intents |-> fifo]] \in Signing
    BY <2>2, <2>4 DEF Signing, Digest
  <2>7. /\ epochIntents' \in [Validators -> [Epochs -> Seq(Intents)]]
        /\ signed' \subseteq Signing
        /\ tasks' \in [Validators -> SUBSET Task]
    BY <2>2, <2>3, <2>4, <2>5, <2>6 DEF TypeOK
  <2> QED
    BY <1>2, <2>7 DEF SignValidationBundle, TypeOK, bundleVars
<1>3. CASE StoreOwnSignature(n, t)
  <2> DEFINE e == t.header.epoch
             digest == [hash |-> Hash(t.header), intents |-> t.fifo]
  <2>1. t.header \in Header /\ t.fifo \in Seq(Intents)
    BY <1>1, <1>3 DEF StoreOwnSignature, Task
  <2>2. e \in Epochs /\ digest \in Digest
    BY <2>1, HashType DEF Header, Digest
  <2>3. [signer |-> n, digest |-> digest] \in BundleSig
    BY <2>2 DEF BundleSig
  <2>4. [type |-> "bundle", signer |-> n, epoch |-> e, digest |-> digest] \in Message
    BY <2>2 DEF Message
  <2>5. {[kind |-> "broadcast", header |-> t.header]} \in SUBSET Task
    BY <2>1 DEF Task
  <2>6. /\ StoreAndTrigger(n, e, [signer |-> n, digest |-> digest], {t},
                            {[kind |-> "broadcast", header |-> t.header]})
        /\ gossip' = gossip \cup
             {[type |-> "bundle", signer |-> n, epoch |-> e, digest |-> digest]}
    BY <1>3 DEF StoreOwnSignature
  <2> HIDE DEF e, digest
  <2>7. /\ epochSigs' \in [Validators -> [Epochs -> SUBSET BundleSig]]
        /\ triggered' \in [Validators -> SUBSET Epochs]
        /\ tasks' \in [Validators -> SUBSET Task]
    BY <2>2, <2>3, <2>5, <2>6, StoreAndTriggerType
  <2>8. gossip' \subseteq Message
    BY <2>4, <2>6 DEF TypeOK
  <2> QED
    BY <1>3, <2>7, <2>8 DEF StoreOwnSignature, TypeOK
<1>4. CASE BroadcastSignature(n, t)
  <2>1. t.header \in Header
    BY <1>1, <1>4 DEF BroadcastSignature, Task
  <2>2. SignCheckpoint(n, t.header) \in Message
    BY <2>1, HashType DEF Message, SignCheckpoint
  <2>3. [kind |-> "finalize"] \in Task
    BY DEF Task
  <2>4. tasks' \in [Validators -> SUBSET Task] /\ gossip' \subseteq Message
    BY <1>4, <2>2, <2>3 DEF BroadcastSignature, TypeOK
  <2> QED
    BY <1>4, <2>4 DEF BroadcastSignature, TypeOK, bundleVars
<1> QED
  BY <1>2, <1>3, <1>4

\* The gossip handler keeps the types.
LEMMA GossipType ==
  ASSUME TypeOK, NEW n \in Validators, NEW m \in gossip,
         OnValidationBundleSignatureReceived(n, m)
  PROVE  TypeOK'
<1> USE DEF raftVars, reportVars, checkpointVars, proposalVars, processVars, rootVars
<1>1. m \in Message
  BY DEF TypeOK
<1>2. m.signer \in Validators /\ m.epoch \in Epochs /\ m.digest \in Digest
  BY <1>1 DEF OnValidationBundleSignatureReceived, Message
<1>3. [signer |-> m.signer, digest |-> m.digest] \in BundleSig
  BY <1>2 DEF BundleSig
<1>4. StoreAndTrigger(n, m.epoch, [signer |-> m.signer, digest |-> m.digest], {}, {})
  BY DEF OnValidationBundleSignatureReceived
<1>5. {} \in SUBSET Task
  OBVIOUS
<1>6. /\ epochSigs' \in [Validators -> [Epochs -> SUBSET BundleSig]]
      /\ triggered' \in [Validators -> SUBSET Epochs]
      /\ tasks' \in [Validators -> SUBSET Task]
  BY <1>2, <1>3, <1>4, <1>5, StoreAndTriggerType
<1> QED
  BY <1>6 DEF OnValidationBundleSignatureReceived, TypeOK

\* What submitValidationBundlesForEpoch may take is a set of intents.
LEMMA AvailableType ==
  ASSUME TypeOK, NEW n \in Validators, NEW e PROVE Available(n, e) \in SUBSET Intents
  BY PendingIntentsType DEF Available

\* The submission goroutines keep the types.
LEMMA SubmitType ==
  ASSUME TypeOK, NEW n \in Validators, NEW t \in tasks[n],
         \/ FinalizeCheckpointAfterGossip(n, t) \/ SubmitValidationBundlesForEpoch(n, t)
         \/ SubmitBatch(n, t) \/ \E i \in Intents : ClearReports(n, t, i)
  PROVE  TypeOK'
<1> USE DEF raftVars, reportVars, checkpointVars, proposalVars, bundleVars, processVars
<1>1. t \in Task
  BY DEF TypeOK
<1>2. CASE FinalizeCheckpointAfterGossip(n, t)
  <2>1. currentCheckpoint[n] # NoHeader =>
          [kind |-> "sleep", path |-> "checkpoint", header |-> currentCheckpoint[n],
           intents |-> PendingIntents(n)] \in Task
    BY PendingIntentsType DEF TypeOK, Task
  <2>2. tasks' \in [Validators -> SUBSET Task]
    <3>1. CASE tasks' = [tasks EXCEPT ![n] = @ \ {t}]
      BY <3>1 DEF TypeOK
    <3>2. CASE /\ currentCheckpoint[n] # NoHeader
               /\ tasks' = [tasks EXCEPT ![n] = (@ \ {t}) \cup
                    {[kind |-> "sleep", path |-> "checkpoint",
                      header |-> currentCheckpoint[n], intents |-> PendingIntents(n)]}]
      BY <2>1, <3>2 DEF TypeOK
    <3> QED
      BY <1>2, <3>1, <3>2 DEF FinalizeCheckpointAfterGossip
  <2> QED
    BY <1>2, <2>2 DEF FinalizeCheckpointAfterGossip, TypeOK, rootVars
<1>3. CASE SubmitValidationBundlesForEpoch(n, t)
  <2>1. CanSubmit(n, t.epoch) =>
          [kind |-> "sleep", path |-> "bundle", header |-> currentCheckpoint[n],
           intents |-> Available(n, t.epoch)] \in Task
    BY AvailableType DEF TypeOK, Task, CanSubmit
  <2>2. tasks' \in [Validators -> SUBSET Task]
    BY <1>3, <2>1 DEF SubmitValidationBundlesForEpoch, TypeOK
  <2> QED
    BY <1>3, <2>2 DEF SubmitValidationBundlesForEpoch, TypeOK, rootVars
<1>4. CASE SubmitBatch(n, t)
  <2>1. t.header \in Header /\ t.intents \in SUBSET Intents
    BY <1>1, <1>4 DEF SubmitBatch, Task
  <2>2. t.header.epoch \in Epochs
    BY <2>1 DEF Header
  <2>3. PICK ok \in SUBSET t.intents :
          /\ accepted' = accepted \cup ok
          /\ tasks' = [tasks EXCEPT ![n] = (@ \ {t}) \cup ClearedAfter(t, ok)]
    BY <1>4 DEF SubmitBatch
  <2>4. ClearedAfter(t, ok) \subseteq Task
    BY <2>1 DEF ClearedAfter, Task
  <2>5. tasks' \in [Validators -> SUBSET Task] /\ accepted' \subseteq Intents
    BY <2>1, <2>3, <2>4 DEF TypeOK
  <2>6. sent' \in [Validators -> SUBSET Epochs]
    BY <1>4, <2>2 DEF SubmitBatch, TypeOK
  <2> QED
    BY <1>4, <2>5, <2>6 DEF SubmitBatch, TypeOK
<1>5. ASSUME NEW i \in Intents, ClearReports(n, t, i) PROVE TypeOK'
  <2>1. pendingReports' \in [Validators -> SUBSET Reports]
    BY <1>5 DEF ClearReports, TypeOK
  <2>2. receivedAt' \in [Validators -> [Intents -> Nat]]
    BY <1>5 DEF ClearReports, TypeOK
  <2>3. [kind |-> "clear", intents |-> t.intents \ {i}] \in Task
    BY <1>1, <1>5 DEF ClearReports, Task
  <2>4. tasks' \in [Validators -> SUBSET Task]
    <3>1. PICK S \in SUBSET Task : tasks' = [tasks EXCEPT ![n] = (@ \ {t}) \cup S]
      BY <1>5, <2>3, ZenonT(60) DEF ClearReports
    <3> QED
      BY <3>1 DEF TypeOK
  <2> QED
    BY <1>5, <2>1, <2>2, <2>4 DEF ClearReports, TypeOK, rootVars
<1> QED
  BY <1>2, <1>3, <1>4, <1>5

\* What is left of a node that exits is well typed.
LEMMA LoseVolatileStateType ==
  ASSUME TypeOK, NEW n \in Validators, LoseVolatileState(n), log' = log
  PROVE  /\ leaders' \subseteq Validators
         /\ handled' \in [Validators -> SUBSET (1..Len(log'))]
         /\ pendingReports' \in [Validators -> SUBSET Reports]
         /\ receivedAt' \in [Validators -> [Intents -> Nat]]
         /\ currentEpoch' \in [Validators -> 0..MaxEpoch + 1]
         /\ currentCheckpoint' \in [Validators -> Header \cup {NoHeader}]
         /\ signatures' \in [Validators -> SUBSET CheckpointSig]
         /\ chainLatest' \in [Validators -> Header \cup {NoHeader}]
         /\ proposal' \in [Validators -> Proposal]
         /\ epochIntents' \in [Validators -> [Epochs -> Seq(Intents)]]
         /\ epochSigs' \in [Validators -> [Epochs -> SUBSET BundleSig]]
         /\ triggered' \in [Validators -> SUBSET Epochs]
         /\ tasks' \in [Validators -> SUBSET Task]
         /\ sent' \in [Validators -> SUBSET Epochs]
<1>1. /\ [i \in Intents |-> 0] \in [Intents -> Nat]
      /\ [e \in Epochs |-> <<>>] \in [Epochs -> Seq(Intents)]
      /\ [e \in Epochs |-> {}] \in [Epochs -> SUBSET BundleSig]
      /\ 0 \in 0..MaxEpoch + 1
      /\ Idle \in Proposal
  BY BoundsAssumption DEF Idle, Proposal
<1> QED
  BY <1>1 DEF LoseVolatileState, TypeOK

\* Crashes, panics and restarts keep the types.
LEMMA ProcessType ==
  ASSUME TypeOK, NEW n \in Validators,
         Crash(n) \/ Restart(n) \/ \E t \in tasks[n] : SubmitBatchPanics(n, t)
  PROVE  TypeOK'
<1>1. CASE Crash(n)
  BY <1>1, LoseVolatileStateType DEF Crash, TypeOK
<1>2. CASE Restart(n)
  <2> USE DEF raftVars, reportVars, proposalVars, bundleVars, rootVars
  <2>1. restarts' \in [Validators -> 0..MaxRestarts]
    BY <1>2, BoundsAssumption DEF Restart, TypeOK
  <2>2. /\ currentEpoch' \in [Validators -> 0..MaxEpoch + 1]
        /\ currentCheckpoint' \in [Validators -> Header \cup {NoHeader}]
        /\ signatures' \in [Validators -> SUBSET CheckpointSig]
        /\ chainLatest' \in [Validators -> Header \cup {NoHeader}]
    <3>1. CASE store[n].latest = -1
      BY <1>2, <3>1 DEF Restart, TypeOK, checkpointVars
    <3>2. CASE store[n].latest # -1
      <4> DEFINE e == store[n].latest
      <4>1. /\ e \in Epochs /\ e + 1 \in 0..MaxEpoch + 1
            /\ store[n].headers[e] \in Header \cup {NoHeader}
            /\ store[n].sigs[e] \in SUBSET CheckpointSig
        <5>1. store[n] \in Store
          BY DEF TypeOK
        <5>2. /\ e \in Epochs
              /\ store[n].headers \in [Epochs -> Header \cup {NoHeader}]
              /\ store[n].sigs \in [Epochs -> SUBSET CheckpointSig]
          BY <3>2, <5>1 DEF Store
        <5>3. e + 1 \in 0..MaxEpoch + 1
          BY <5>2, BoundsAssumption DEF Epochs
        <5> QED
          BY <5>2, <5>3
      <4>2. /\ currentEpoch' = [currentEpoch EXCEPT ![n] = e + 1]
            /\ currentCheckpoint' = [currentCheckpoint EXCEPT ![n] = store[n].headers[e]]
            /\ signatures' = [signatures EXCEPT ![n] = store[n].sigs[e]]
            /\ chainLatest' = [chainLatest EXCEPT ![n] = store[n].headers[e]]
        BY <1>2, <3>2 DEF Restart
      <4> HIDE DEF e
      <4> QED
        BY <4>1, <4>2 DEF TypeOK
    <3> QED
      BY <3>1, <3>2
  <2> QED
    BY <1>2, <2>1, <2>2 DEF Restart, TypeOK
<1>3. ASSUME NEW t \in tasks[n], SubmitBatchPanics(n, t) PROVE TypeOK'
  <2>1. t.intents \in SUBSET Intents
    <3>1. t \in Task /\ t.kind = "sleep"
      BY <1>3 DEF SubmitBatchPanics, TypeOK
    <3> QED
      BY <3>1 DEF Task
  <2>2. accepted' \subseteq Intents
    BY <1>3, <2>1 DEF SubmitBatchPanics, TypeOK
  <2> QED
    BY <1>3, <2>2, LoseVolatileStateType DEF SubmitBatchPanics, TypeOK
<1> QED
  BY <1>1, <1>2, <1>3

\* Every step keeps the types.
LEMMA NextType == TypeOK /\ [Next]_vars => TypeOK'
<1> SUFFICES ASSUME TypeOK, [Next]_vars PROVE TypeOK'
  OBVIOUS
<1>1. CASE UNCHANGED vars
  BY <1>1 DEF vars, TypeOK
<1>2. CASE Next
  BY <1>2, RaftType, ReportType, ProposalType, CheckpointType, SignType, GossipType,
     SubmitType, ProcessType DEF Next
<1> QED
  BY <1>1, <1>2

\* Every variable of the validators keeps its type: epochs stay in range, the log holds
\* reports and headers, goroutines carry headers and sets of known intents.
THEOREM TypeCorrect == Spec => []TypeOK
  BY InitType, NextType, PTL DEF Spec

-----------------------------------------------------------------------------
(***************************************************************************)
(* What a node remembers of the committed log                              *)
(***************************************************************************)

\* A process that is not up has handled nothing and runs nothing.
DownIsEmpty == \A n \in Validators : ~Up(n) => handled[n] = {} /\ tasks[n] = {}

\* A goroutine clears reports only of intents that RootLayer has accepted.
ClearAccepted ==
    \A n \in Validators : \A t \in tasks[n] : t.kind = "clear" => t.intents \subseteq accepted

\* The inductive invariant behind the three properties of the log.
LogInv ==
    /\ TypeOK
    /\ DownIsEmpty
    /\ ClearAccepted
    /\ EpochAheadOfHandled
    /\ NoReportLost
    /\ SignaturesMatchCheckpoint

\* The invariant of the replicated log holds initially.
LEMMA InitLog == Init => LogInv
  BY InitType DEF Init, LogInv, DownIsEmpty, ClearAccepted, EpochAheadOfHandled,
     NoReportLost, SignaturesMatchCheckpoint, Up

\* A step that handles no entry, leaves the checkpoint state alone, at most extends
\* the log and what RootLayer accepted, and starts no unjustified clearing.
LEMMA LogFrame ==
  ASSUME LogInv, TypeOK',
         UNCHANGED <<status, handled, pendingReports, currentEpoch, currentCheckpoint,
                     signatures>>,
         \A i \in 1..Len(log) : log'[i] = log[i],
         accepted \subseteq accepted',
         \A n \in Validators : ~Up(n) => tasks'[n] = {},
         \A n \in Validators : \A t \in tasks'[n] :
           t \in tasks[n] \/ (t.kind = "clear" => t.intents \subseteq accepted')
  PROVE  LogInv'
<1>1. \A n \in Validators : \A i \in handled[n] : i \in 1..Len(log)
  BY DEF LogInv, TypeOK
<1>2. DownIsEmpty' /\ ClearAccepted'
  BY DEF LogInv, DownIsEmpty, ClearAccepted, Up
<1>3. EpochAheadOfHandled' /\ NoReportLost' /\ SignaturesMatchCheckpoint'
  BY <1>1 DEF LogInv, EpochAheadOfHandled, NoReportLost, SignaturesMatchCheckpoint
<1> QED
  BY <1>2, <1>3 DEF LogInv

\* A goroutine or handler of an up node that changes the node's tasks only, and adds
\* none that clears reports.
LEMMA LogTaskFrame ==
  ASSUME LogInv, TypeOK', NEW n \in Validators, Up(n),
         \A m \in Validators : m # n => tasks'[m] = tasks[m],
         \A t \in tasks'[n] : t \in tasks[n] \/ t.kind # "clear",
         UNCHANGED <<status, handled, pendingReports, currentEpoch, currentCheckpoint,
                     signatures, log, accepted>>
  PROVE  LogInv'
<1>1. \A m \in Validators : ~Up(m) => tasks'[m] = {}
  BY DEF LogInv, DownIsEmpty
<1>2. \A m \in Validators : \A t \in tasks'[m] :
        t \in tasks[m] \/ (t.kind = "clear" => t.intents \subseteq accepted')
  OBVIOUS
<1> QED
  BY <1>1, <1>2, LogFrame

\* Elections, step-downs and commits only extend the log.
LEMMA RaftLog ==
  ASSUME LogInv, TypeOK',
         \/ CommitCheckpoint
         \/ \E n \in Validators : \/ Elect(n) \/ StepDown(n)
                                  \/ StartProposal(n) \/ ApplyCheckpointReturns(n)
                                  \/ \E r \in Reports : ProcessExecutionReport(n, r)
  PROVE  LogInv'
<1>1. /\ UNCHANGED <<status, handled, pendingReports, currentEpoch, currentCheckpoint,
                      signatures, accepted, tasks>>
      /\ log' = log \/ \E e : log' = Append(log, e)
  BY DEF CommitCheckpoint, Elect, StepDown, StartProposal, ApplyCheckpointReturns,
     ProcessExecutionReport, raftVars, reportVars, checkpointVars, processVars, rootVars
<1>2. \A i \in 1..Len(log) : log'[i] = log[i]
  <2>1. log \in Seq(Entry)
    BY DEF LogInv, TypeOK
  <2>2. ASSUME NEW e, log' = Append(log, e) PROVE \A i \in 1..Len(log) : log'[i] = log[i]
    BY <2>1, <2>2
  <2> QED
    BY <1>1, <2>2
<1>3. \A n \in Validators : ~Up(n) => tasks'[n] = {}
  BY <1>1 DEF LogInv, DownIsEmpty
<1> QED
  BY <1>1, <1>2, <1>3, LogFrame

\* A committed report becomes pending on the node that handles it.
LEMMA ReportLog ==
  ASSUME LogInv, TypeOK', NEW n \in Validators, NEW i \in 1..Len(log),
         OnExecutionReportCommitted(n, i)
  PROVE  LogInv'
<1>1. /\ Up(n) /\ log[i].type = "report"
      /\ handled' = [handled EXCEPT ![n] = @ \cup {i}]
      /\ UNCHANGED <<status, log, currentEpoch, currentCheckpoint, signatures, tasks, accepted>>
  BY DEF OnExecutionReportCommitted, raftVars, checkpointVars, processVars, rootVars
<1>2. \A m \in Validators : handled'[m] = IF m = n THEN handled[n] \cup {i} ELSE handled[m]
  BY <1>1 DEF LogInv, TypeOK
<1>3. /\ \A m \in Validators : pendingReports[m] \subseteq pendingReports'[m]
      /\ log[i].report \in pendingReports'[n]
  <2>1. pendingReports \in [Validators -> SUBSET Reports]
    BY DEF LogInv, TypeOK
  <2>2. \/ log[i].report \in pendingReports[n] /\ pendingReports' = pendingReports
        \/ pendingReports' = [pendingReports EXCEPT ![n] = @ \cup {log[i].report}]
    BY DEF OnExecutionReportCommitted, reportVars
  <2> QED
    BY <2>1, <2>2
<1>4. DownIsEmpty' /\ ClearAccepted'
  BY <1>1, <1>2 DEF LogInv, DownIsEmpty, ClearAccepted, Up
<1>5. EpochAheadOfHandled' /\ SignaturesMatchCheckpoint'
  BY <1>1, <1>2 DEF LogInv, EpochAheadOfHandled, SignaturesMatchCheckpoint
<1>6. NoReportLost'
  BY <1>1, <1>2, <1>3 DEF LogInv, NoReportLost
<1> QED
  BY <1>4, <1>5, <1>6 DEF LogInv

\* The header a node builds becomes its checkpoint with its own signature on it.
LEMMA ProposeLog ==
  ASSUME LogInv, TypeOK', NEW n \in Validators, ProposeCheckpointRaft(n)
  PROVE  LogInv'
<1>1. PICK h : /\ currentCheckpoint' = [currentCheckpoint EXCEPT ![n] = h]
               /\ signatures' = [signatures EXCEPT ![n] = {[signer |-> n, hash |-> Hash(h)]}]
  BY DEF ProposeCheckpointRaft
<1>2. UNCHANGED <<status, handled, pendingReports, currentEpoch, log, accepted, tasks>>
  BY DEF ProposeCheckpointRaft, reportVars, processVars, rootVars
<1>3. h # NoHeader
  <2>1. currentCheckpoint'[n] = [id |-> proposals + 1, epoch |-> currentEpoch[n],
                                 parent |-> proposal[n].parent, proposer |-> n]
    BY DEF ProposeCheckpointRaft, LogInv, TypeOK
  <2>2. /\ proposal[n] \in Proposal /\ proposal[n].phase = "building"
        /\ proposals + 1 \in HeaderIds /\ currentEpoch[n] \in Epochs
    BY BoundsAssumption DEF ProposeCheckpointRaft, LogInv, TypeOK, HeaderIds, Epochs
  <2>3. proposal[n].parent \in Hashes
    BY <2>2 DEF Proposal
  <2>4. currentCheckpoint'[n] \in Header
    BY <2>1, <2>2, <2>3 DEF Header
  <2> QED
    BY <1>1, <2>4, NoHeaderAssumption DEF LogInv, TypeOK
<1>4. DownIsEmpty' /\ ClearAccepted' /\ EpochAheadOfHandled' /\ NoReportLost'
  BY <1>2 DEF LogInv, DownIsEmpty, ClearAccepted, Up, EpochAheadOfHandled, NoReportLost
<1>5. SignaturesMatchCheckpoint'
  <2>1. \A m \in Validators :
          /\ currentCheckpoint'[m] = IF m = n THEN h ELSE currentCheckpoint[m]
          /\ signatures'[m] = IF m = n THEN {[signer |-> n, hash |-> Hash(h)]}
                              ELSE signatures[m]
    BY <1>1 DEF LogInv, TypeOK
  <2> QED
    BY <1>2, <1>3, <2>1 DEF LogInv, SignaturesMatchCheckpoint
<1> QED
  BY <1>4, <1>5 DEF LogInv

\* handleCommittedCheckpoint: the epoch moves past the header's and never back, and
\* the signatures are those of the header.
LEMMA CheckpointLog ==
  ASSUME LogInv, TypeOK', NEW n \in Validators, NEW i \in 1..Len(log),
         HandleCommittedCheckpoint(n, i)
  PROVE  LogInv'
<1> DEFINE h == AutoSetParent(chainLatest[n], log[i].header)
<1>1. log[i] \in Entry /\ log[i].type = "checkpoint"
  BY SMTT(30) DEF LogInv, TypeOK, HandleCommittedCheckpoint
<1>2. log[i].header \in Header
  BY <1>1 DEF Entry
<1>3. h \in Header /\ h.epoch = log[i].header.epoch /\ h # NoHeader
  <2>1. chainLatest[n] \in Header \cup {NoHeader}
    BY DEF LogInv, TypeOK
  <2> QED
    BY <1>2, <2>1, AutoSetParentType, NoHeaderAssumption
<1>4. /\ Up(n)
      /\ handled' = [handled EXCEPT ![n] = @ \cup {i}]
      /\ currentCheckpoint' = [currentCheckpoint EXCEPT ![n] = h]
      /\ currentEpoch' = [currentEpoch EXCEPT ![n] = EpochAfter(n, h)]
      /\ signatures' = [signatures EXCEPT ![n] = SignaturesReset(n, h)]
      /\ tasks' = [tasks EXCEPT ![n] = @ \cup FollowUp(n, h)]
      /\ UNCHANGED <<status, log, pendingReports, accepted>>
  BY DEF HandleCommittedCheckpoint, raftVars, reportVars, processVars, rootVars
<1> HIDE DEF h
<1>5. \A m \in Validators :
        /\ handled'[m] = IF m = n THEN handled[n] \cup {i} ELSE handled[m]
        /\ tasks'[m] = IF m = n THEN tasks[n] \cup FollowUp(n, h) ELSE tasks[m]
        /\ currentEpoch'[m] = IF m = n THEN EpochAfter(n, h) ELSE currentEpoch[m]
        /\ currentCheckpoint'[m] = IF m = n THEN h ELSE currentCheckpoint[m]
        /\ signatures'[m] = IF m = n THEN SignaturesReset(n, h) ELSE signatures[m]
  BY <1>4 DEF LogInv, TypeOK
<1>6. \A t \in FollowUp(n, h) : t.kind # "clear"
  BY DEF FollowUp
<1>7. DownIsEmpty' /\ ClearAccepted'
  BY <1>4, <1>5, <1>6 DEF LogInv, DownIsEmpty, ClearAccepted, Up
<1>8. EpochAheadOfHandled'
  <2>1. /\ currentEpoch[n] \in Int /\ h.epoch \in Int
        /\ \A j \in handled[n] : log[j].type = "checkpoint" => log[j].header.epoch \in Int
    <3>1. ASSUME NEW j \in handled[n], log[j].type = "checkpoint"
          PROVE  log[j].header.epoch \in Int
      <4>1. log[j] \in Entry
        <5>1. log \in Seq(Entry) /\ j \in 1..Len(log)
          BY DEF LogInv, TypeOK
        <5> QED
          BY <5>1
      <4>2. log[j].header \in Header
        BY <3>1, <4>1 DEF Entry
      <4> QED
        BY <4>2 DEF Header, Epochs
    <3>2. h.epoch \in Int
      BY <1>3 DEF Header, Epochs
    <3>3. currentEpoch[n] \in Int
      BY DEF LogInv, TypeOK
    <3> QED
      BY <3>1, <3>2, <3>3
  <2>2. currentEpoch[n] <= EpochAfter(n, h) /\ h.epoch < EpochAfter(n, h)
        /\ EpochAfter(n, h) \in Int
    BY <2>1 DEF EpochAfter
  <2>3. ASSUME NEW j \in handled'[n], log'[j].type = "checkpoint"
        PROVE  log'[j].header.epoch < currentEpoch'[n]
    <3>1. CASE j = i
      BY <1>3, <1>4, <1>5, <2>2, <3>1
    <3>2. CASE j # i
      <4>1. j \in handled[n] /\ log[j].type = "checkpoint"
        BY <1>4, <1>5, <2>3, <3>2
      <4>2. log[j].header.epoch < currentEpoch[n]
        BY <4>1 DEF LogInv, EpochAheadOfHandled
      <4> QED
        BY <1>4, <1>5, <2>1, <2>2, <4>1, <4>2
    <3> QED
      BY <3>1, <3>2
  <2> QED
    BY <1>4, <1>5, <2>3 DEF LogInv, EpochAheadOfHandled
<1>9. NoReportLost'
  BY <1>1, <1>4, <1>5 DEF LogInv, NoReportLost
<1>10. SignaturesMatchCheckpoint'
  BY <1>3, <1>4, <1>5 DEF LogInv, SignaturesMatchCheckpoint, SignaturesReset
<1> QED
  BY <1>7, <1>8, <1>9, <1>10 DEF LogInv

\* RootLayer's answer decides what is cleared.
LEMMA SubmitBatchLog ==
  ASSUME LogInv, TypeOK', NEW n \in Validators, NEW t \in tasks[n], SubmitBatch(n, t)
  PROVE  LogInv'
<1>1. PICK ok \in SUBSET t.intents :
        /\ accepted' = accepted \cup ok
        /\ tasks' = [tasks EXCEPT ![n] = (@ \ {t}) \cup ClearedAfter(t, ok)]
  BY DEF SubmitBatch
<1>2. /\ Up(n)
      /\ UNCHANGED <<status, handled, pendingReports, currentEpoch, currentCheckpoint,
                     signatures, log>>
  BY DEF SubmitBatch, raftVars, reportVars, checkpointVars, processVars
<1>3. \A c \in ClearedAfter(t, ok) : c.kind = "clear" => c.intents \subseteq ok
  BY DEF ClearedAfter
<1>4. \A m \in Validators :
        tasks'[m] = IF m = n THEN (tasks[n] \ {t}) \cup ClearedAfter(t, ok) ELSE tasks[m]
  BY <1>1 DEF LogInv, TypeOK
<1>5. \A m \in Validators : ~Up(m) => tasks'[m] = {}
  BY <1>2, <1>4 DEF LogInv, DownIsEmpty
<1>6. \A m \in Validators : \A u \in tasks'[m] :
        u \in tasks[m] \/ (u.kind = "clear" => u.intents \subseteq accepted')
  BY <1>1, <1>3, <1>4
<1> QED
  BY <1>1, <1>2, <1>5, <1>6, LogFrame

\* A report is dropped only when its intent has been accepted.
LEMMA ClearLog ==
  ASSUME LogInv, TypeOK', NEW n \in Validators, NEW t \in tasks[n], NEW i \in Intents,
         ClearReports(n, t, i)
  PROVE  LogInv'
<1> DEFINE rest == [kind |-> "clear", intents |-> t.intents \ {i}]
<1>1. /\ Up(n) /\ t.kind = "clear" /\ i \in t.intents
      /\ pendingReports' = [pendingReports EXCEPT ![n] = {r \in @ : IntentOf[r] # i}]
      /\ tasks' = [tasks EXCEPT ![n] =
                     (@ \ {t}) \cup (IF t.intents = {i} THEN {} ELSE {rest})]
      /\ UNCHANGED <<status, handled, currentEpoch, currentCheckpoint, signatures, log,
                     accepted>>
  BY DEF ClearReports, raftVars, checkpointVars, processVars, rootVars
<1>2. t.intents \subseteq accepted
  BY <1>1 DEF LogInv, ClearAccepted
<1>3. \A m \in Validators :
        /\ tasks'[m] \subseteq tasks[m] \cup {rest}
        /\ m # n => tasks'[m] = tasks[m]
        /\ \A r \in pendingReports[m] : r \in pendingReports'[m] \/ IntentOf[r] = i
  <2>1. tasks \in [Validators -> SUBSET Task]
        /\ pendingReports \in [Validators -> SUBSET Reports]
    BY DEF LogInv, TypeOK
  <2> QED
    BY <1>1, <2>1
<1>4. DownIsEmpty' /\ ClearAccepted'
  BY <1>1, <1>3 DEF LogInv, DownIsEmpty, ClearAccepted, Up
<1>5. EpochAheadOfHandled' /\ SignaturesMatchCheckpoint'
  BY <1>1 DEF LogInv, EpochAheadOfHandled, SignaturesMatchCheckpoint
<1>6. NoReportLost'
  BY <1>1, <1>2, <1>3 DEF LogInv, NoReportLost
<1> QED
  BY <1>4, <1>5, <1>6 DEF LogInv

\* A process that exits forgets what it handled together with everything else.
LEMMA LoseLog ==
  ASSUME LogInv, TypeOK', NEW n \in Validators, LoseVolatileState(n),
         NEW w \in {"down", "panicked"}, status' = [status EXCEPT ![n] = w],
         log' = log, accepted \subseteq accepted'
  PROVE  LogInv'
<1>1. \A m \in Validators :
        /\ m # n => status'[m] = status[m]
        /\ handled'[m] = IF m = n THEN {} ELSE handled[m]
        /\ tasks'[m] = IF m = n THEN {} ELSE tasks[m]
        /\ pendingReports'[m] = IF m = n THEN {} ELSE pendingReports[m]
        /\ currentEpoch'[m] = IF m = n THEN 0 ELSE currentEpoch[m]
        /\ currentCheckpoint'[m] = IF m = n THEN NoHeader ELSE currentCheckpoint[m]
        /\ signatures'[m] = IF m = n THEN {} ELSE signatures[m]
  BY DEF LoseVolatileState, LogInv, TypeOK
<1>2. DownIsEmpty' /\ ClearAccepted'
  BY <1>1 DEF LogInv, DownIsEmpty, ClearAccepted, Up
<1>3. EpochAheadOfHandled' /\ NoReportLost'
  BY <1>1 DEF LogInv, EpochAheadOfHandled, NoReportLost
<1>4. SignaturesMatchCheckpoint'
  BY <1>1 DEF LogInv, SignaturesMatchCheckpoint
<1> QED
  BY <1>2, <1>3, <1>4 DEF LogInv

\* loadCheckpoint restores a process that has handled nothing yet.
LEMMA RestartLog ==
  ASSUME LogInv, TypeOK', NEW n \in Validators, Restart(n)
  PROVE  LogInv'
<1>1. /\ ~Up(n) /\ status' = [status EXCEPT ![n] = "up"]
      /\ UNCHANGED <<handled, pendingReports, tasks, log, accepted>>
  BY DEF Restart, raftVars, reportVars, rootVars
<1>2. handled[n] = {} /\ tasks[n] = {}
  BY <1>1 DEF LogInv, DownIsEmpty
<1>3. \A m \in Validators :
        m # n => /\ currentEpoch'[m] = currentEpoch[m]
                 /\ currentCheckpoint'[m] = currentCheckpoint[m]
                 /\ signatures'[m] = signatures[m]
                 /\ status'[m] = status[m]
  <2>1. CASE store[n].latest = -1
    BY <2>1 DEF Restart, checkpointVars, LogInv, TypeOK
  <2>2. CASE store[n].latest # -1
    BY <2>2 DEF Restart, LogInv, TypeOK
  <2> QED
    BY <2>1, <2>2
<1>4. DownIsEmpty' /\ ClearAccepted'
  BY <1>1, <1>2, <1>3 DEF LogInv, DownIsEmpty, ClearAccepted, Up
<1>5. EpochAheadOfHandled' /\ NoReportLost' /\ SignaturesMatchCheckpoint'
  BY <1>1, <1>2, <1>3 DEF LogInv, EpochAheadOfHandled, NoReportLost,
     SignaturesMatchCheckpoint
<1> QED
  BY <1>4, <1>5 DEF LogInv

\* Goroutines that touch none of this state.
LEMMA TaskLog ==
  ASSUME LogInv, TypeOK', NEW n \in Validators, NEW t \in tasks[n],
         \/ SignValidationBundle(n, t) \/ StoreOwnSignature(n, t)
         \/ BroadcastSignature(n, t) \/ FinalizeCheckpointAfterGossip(n, t)
         \/ SubmitValidationBundlesForEpoch(n, t)
  PROVE  LogInv'
<1>1. /\ Up(n)
      /\ UNCHANGED <<status, handled, pendingReports, currentEpoch, currentCheckpoint,
                     signatures, log, accepted>>
  BY DEF SignValidationBundle, StoreOwnSignature, BroadcastSignature,
     FinalizeCheckpointAfterGossip, SubmitValidationBundlesForEpoch, raftVars, reportVars,
     checkpointVars, processVars, rootVars
<1>2. tasks \in [Validators -> SUBSET Task]
  BY DEF LogInv, TypeOK
<1>3. /\ \A m \in Validators : m # n => tasks'[m] = tasks[m]
      /\ \A u \in tasks'[n] : u \in tasks[n] \/ u.kind # "clear"
  <2>1. CASE SignValidationBundle(n, t)
    BY <1>2, <2>1 DEF SignValidationBundle
  <2>2. CASE StoreOwnSignature(n, t)
    BY <1>2, <2>2 DEF StoreOwnSignature, StoreAndTrigger
  <2>3. CASE BroadcastSignature(n, t)
    BY <1>2, <2>3 DEF BroadcastSignature
  <2>4. CASE FinalizeCheckpointAfterGossip(n, t)
    BY <1>2, <2>4 DEF FinalizeCheckpointAfterGossip
  <2>5. CASE SubmitValidationBundlesForEpoch(n, t)
    BY <1>2, <2>5 DEF SubmitValidationBundlesForEpoch
  <2> QED
    BY <2>1, <2>2, <2>3, <2>4, <2>5
<1> QED
  BY <1>1, <1>3, LogTaskFrame

\* A received bundle signature touches neither reports nor epochs.
LEMMA BundleGossipLog ==
  ASSUME LogInv, TypeOK', NEW n \in Validators, NEW m \in gossip,
         OnValidationBundleSignatureReceived(n, m)
  PROVE  LogInv'
<1>1. /\ Up(n)
      /\ UNCHANGED <<status, handled, pendingReports, currentEpoch, currentCheckpoint,
                     signatures, log, accepted>>
  BY DEF OnValidationBundleSignatureReceived, raftVars, reportVars, checkpointVars,
     processVars, rootVars
<1>2. tasks \in [Validators -> SUBSET Task]
  BY DEF LogInv, TypeOK
<1>3. /\ \A v \in Validators : v # n => tasks'[v] = tasks[v]
      /\ \A u \in tasks'[n] : u \in tasks[n] \/ u.kind # "clear"
  BY <1>2 DEF OnValidationBundleSignatureReceived, StoreAndTrigger
<1> QED
  BY <1>1, <1>3, LogTaskFrame

\* Every step keeps the invariant of the replicated log.
LEMMA NextLog == LogInv /\ [Next]_vars => LogInv'
<1> SUFFICES ASSUME LogInv, [Next]_vars PROVE LogInv'
  OBVIOUS
<1>1. TypeOK'
  BY NextType DEF LogInv
<1>2. CASE UNCHANGED vars
  BY <1>1, <1>2 DEF vars, LogInv, DownIsEmpty, ClearAccepted, Up, EpochAheadOfHandled,
     NoReportLost, SignaturesMatchCheckpoint
<1>3. ASSUME NEW n \in Validators, Crash(n) PROVE LogInv'
  BY <1>1, <1>3, LoseLog DEF Crash
<1>4. ASSUME NEW n \in Validators, NEW t \in tasks[n], SubmitBatchPanics(n, t)
      PROVE  LogInv'
  <2>1. accepted \subseteq accepted'
    BY <1>4 DEF SubmitBatchPanics
  <2> QED
    BY <1>1, <1>4, <2>1, LoseLog DEF SubmitBatchPanics
<1> QED
  BY <1>1, <1>2, <1>3, <1>4, RaftLog, ReportLog, ProposeLog, CheckpointLog,
     SubmitBatchLog, ClearLog, RestartLog, TaskLog, BundleGossipLog DEF Next

\* The invariant of the replicated log holds always.
LEMMA SpecLog == Spec => []LogInv
  BY InitLog, NextLog, PTL DEF Spec

\* Reordered handlers never take a node back to an epoch it has already handled.
THEOREM EpochAheadOfHandledHolds == Spec => []EpochAheadOfHandled
<1>1. LogInv => EpochAheadOfHandled
  BY DEF LogInv
<1> QED
  BY SpecLog, <1>1, PTL

\* clearReportsForIntent drops a report only when RootLayer has accepted its intent.
THEOREM NoReportLostHolds == Spec => []NoReportLost
<1>1. LogInv => NoReportLost
  BY DEF LogInv
<1> QED
  BY SpecLog, <1>1, PTL

\* Once a committed checkpoint is handled, signatures of two headers are never mixed.
THEOREM SignaturesMatchCheckpointHolds == Spec => []SignaturesMatchCheckpoint
<1>1. LogInv => SignaturesMatchCheckpoint
  BY DEF LogInv
<1> QED
  BY SpecLog, <1>1, PTL

-----------------------------------------------------------------------------
(***************************************************************************)
(* submitValidationBundlesForEpoch: what it submits has a quorum and was   *)
(* signed, and it runs once per epoch                                      *)
(***************************************************************************)

\* A goroutine of submitValidationBundlesForEpoch, and the epoch it is for.
IsBundleTask(t) == t.kind = "submit" \/ (t.kind = "sleep" /\ t.path = "bundle")
TaskEpoch(t) == IF t.kind = "submit" THEN t.epoch ELSE t.header.epoch

ItemsOf(fifo) == {fifo[p] : p \in 1..Len(fifo)}

\* n signed a digest for epoch e over a list that holds these intents.
SignedFor(n, e, intents) ==
    \E d \in signed : d.signer = n /\ d.epoch = e /\ intents \subseteq ItemsOf(d.digest.intents)

\* The flag of an epoch is only set with the threshold reached, which then stays so.
TriggeredQuorum ==
    \A n \in Validators : \A e \in triggered[n] :
      CheckThreshold(Cardinality(Signers(epochSigs[n][e])))

\* A goroutine's epoch is flagged, and the goroutine is the only one for it.
OneTask ==
    \A n \in Validators : \A t \in tasks[n] :
      IsBundleTask(t) =>
        /\ TaskEpoch(t) \in triggered[n]
        /\ TaskEpoch(t) \notin sent[n]
        /\ \A u \in tasks[n] : IsBundleTask(u) /\ TaskEpoch(u) = TaskEpoch(t) => u = t

SentTriggered == \A n \in Validators : sent[n] \subseteq triggered[n]

EpochIntentsSigned ==
    \A n \in Validators, e \in Epochs :
      epochIntents[n][e] # <<>> => SignedFor(n, e, ItemsOf(epochIntents[n][e]))

TaskItemsSigned ==
    \A n \in Validators : \A t \in tasks[n] :
      t.kind = "sleep" /\ t.path = "bundle" => SignedFor(n, t.header.epoch, t.intents)

\* The inductive invariant of the bundle submission.
SubmissionInv ==
    /\ TypeOK
    /\ TriggeredQuorum
    /\ OneTask
    /\ SentTriggered
    /\ EpochIntentsSigned
    /\ TaskItemsSigned

-----------------------------------------------------------------------------
\* The invariant says what the three properties say.
LEMMA SubmissionImplies ==
  SubmissionInv => BundleQuorum /\ OneBundleSubmissionPerEpoch /\ BundleItemsSigned
<1> SUFFICES ASSUME SubmissionInv
             PROVE  BundleQuorum /\ OneBundleSubmissionPerEpoch /\ BundleItemsSigned
  OBVIOUS
<1>1. ASSUME NEW n \in Validators, NEW b \in Outgoing(n), b.path = "bundle"
      PROVE  /\ CheckThreshold(Cardinality(Signers(b.sigs)))
             /\ SignedFor(n, b.header.epoch, b.items)
  <2>1. PICK t \in tasks[n] : t.kind = "sleep" /\ b = BatchOf(n, t)
    BY DEF Outgoing
  <2>2. /\ b.path = t.path /\ b.header = t.header /\ b.items = t.intents
        /\ b.sigs = epochSigs[n][t.header.epoch]
    BY <2>1 DEF BatchOf
  <2>3. t.header.epoch \in triggered[n]
    BY <1>1, <2>1, <2>2 DEF SubmissionInv, OneTask, IsBundleTask, TaskEpoch
  <2>4. CheckThreshold(Cardinality(Signers(b.sigs)))
    BY <2>2, <2>3 DEF SubmissionInv, TriggeredQuorum
  <2>5. SignedFor(n, b.header.epoch, b.items)
    BY <1>1, <2>1, <2>2 DEF SubmissionInv, TaskItemsSigned
  <2> QED
    BY <2>4, <2>5
<1>2. ASSUME NEW n \in Validators, NEW e \in Epochs
      PROVE  /\ \A t, u \in BundleTasks(n, e) : t = u
             /\ e \in sent[n] => BundleTasks(n, e) = {}
  <2>1. \A t \in BundleTasks(n, e) : t \in tasks[n] /\ IsBundleTask(t) /\ TaskEpoch(t) = e
    BY DEF BundleTasks, IsBundleTask, TaskEpoch
  <2> QED
    BY <2>1 DEF SubmissionInv, OneTask
<1> QED
  BY <1>1, <1>2 DEF BundleQuorum, OneBundleSubmissionPerEpoch, BundleItemsSigned, SignedFor,
     ItemsOf

\* The submission invariant holds initially.
LEMMA InitSubmission == Init => SubmissionInv
  BY InitType DEF Init, SubmissionInv, TriggeredQuorum, OneTask, SentTriggered,
     EpochIntentsSigned, TaskItemsSigned

\* More signatures never undo a threshold.
LEMMA ThresholdGrows ==
  ASSUME NEW S \in SUBSET BundleSig, NEW T \in SUBSET S,
         CheckThreshold(Cardinality(Signers(T)))
  PROVE  CheckThreshold(Cardinality(Signers(S)))
<1>1. Signers(T) \in SUBSET Signers(S) /\ Signers(S) \in SUBSET Validators
  BY DEF Signers, BundleSig
<1>2. IsFiniteSet(Signers(S)) /\ IsFiniteSet(Signers(T))
  BY <1>1, ValidatorsAssumption, FS_Subset
<1>3. /\ Cardinality(Signers(T)) <= Cardinality(Signers(S))
      /\ Cardinality(Signers(T)) \in Nat /\ Cardinality(Signers(S)) \in Nat
  BY <1>1, <1>2, FS_Subset, FS_CardinalityType
<1>4. RequiredSignatures \in Nat
  BY ThresholdReachable, CardinalityValidators
<1> QED
  BY <1>3, <1>4 DEF CheckThreshold

\* A step that leaves the bundle state alone and starts no submission.
LEMMA SubmissionFrame ==
  ASSUME SubmissionInv, TypeOK',
         UNCHANGED <<epochSigs, triggered, sent, epochIntents, signed>>,
         \A n \in Validators : \A t \in tasks'[n] : t \in tasks[n] \/ ~IsBundleTask(t)
  PROVE  SubmissionInv'
<1>1. TriggeredQuorum' /\ SentTriggered'
  BY DEF SubmissionInv, TriggeredQuorum, SentTriggered
<1>2. OneTask'
  BY DEF SubmissionInv, OneTask
<1>3. EpochIntentsSigned'
  BY DEF SubmissionInv, EpochIntentsSigned, SignedFor
<1>4. TaskItemsSigned'
  BY DEF SubmissionInv, TaskItemsSigned, SignedFor, IsBundleTask
<1> QED
  BY <1>1, <1>2, <1>3, <1>4 DEF SubmissionInv

\* A step that leaves signatures, flags, tasks and histories alone keeps the submission invariant.
LEMMA QuietSubmission ==
  ASSUME SubmissionInv, TypeOK',
         \/ CommitCheckpoint
         \/ \E n \in Validators :
              \/ Elect(n) \/ StepDown(n) \/ Restart(n)
              \/ StartProposal(n) \/ ProposeCheckpointRaft(n) \/ ApplyCheckpointReturns(n)
              \/ \E r \in Reports : ProcessExecutionReport(n, r)
              \/ \E i \in 1..Len(log) : OnExecutionReportCommitted(n, i)
  PROVE  SubmissionInv'
<1>1. UNCHANGED <<epochSigs, triggered, sent, epochIntents, signed, tasks>>
  BY ZenonT(60) DEF CommitCheckpoint, Elect, StepDown, Restart, StartProposal, ProposeCheckpointRaft,
     ApplyCheckpointReturns, ProcessExecutionReport, OnExecutionReportCommitted, bundleVars,
     rootVars
<1> QED
  BY <1>1, SubmissionFrame

\* A step that only adds or removes other goroutines keeps the submission invariant.
LEMMA OtherTaskSubmission ==
  ASSUME SubmissionInv, TypeOK', NEW n \in Validators,
         \/ \E i \in 1..Len(log) : HandleCommittedCheckpoint(n, i)
         \/ \E t \in tasks[n] : \/ BroadcastSignature(n, t)
                                \/ \E i \in Intents : ClearReports(n, t, i)
                                \/ FinalizeCheckpointAfterGossip(n, t)
  PROVE  SubmissionInv'
<1>1. UNCHANGED <<epochSigs, triggered, sent, epochIntents, signed>>
  BY DEF HandleCommittedCheckpoint, BroadcastSignature, ClearReports,
     FinalizeCheckpointAfterGossip, bundleVars, rootVars
<1>2. tasks \in [Validators -> SUBSET Task]
  BY DEF SubmissionInv, TypeOK
<1>3. \A m \in Validators : \A u \in tasks'[m] : u \in tasks[m] \/ ~IsBundleTask(u)
  <2>1. ASSUME NEW i \in 1..Len(log), HandleCommittedCheckpoint(n, i)
        PROVE  \A m \in Validators : \A u \in tasks'[m] : u \in tasks[m] \/ ~IsBundleTask(u)
    <3> DEFINE h == AutoSetParent(chainLatest[n], log[i].header)
    <3>1. tasks' = [tasks EXCEPT ![n] = @ \cup FollowUp(n, h)]
      BY <2>1 DEF HandleCommittedCheckpoint
    <3> HIDE DEF h
    <3>2. \A u \in FollowUp(n, h) : ~IsBundleTask(u)
      BY DEF FollowUp, IsBundleTask
    <3> QED
      BY <1>2, <3>1, <3>2
  <2>3. ASSUME NEW t \in tasks[n], BroadcastSignature(n, t)
        PROVE  \A m \in Validators : \A u \in tasks'[m] : u \in tasks[m] \/ ~IsBundleTask(u)
    BY <1>2, <2>3 DEF BroadcastSignature, IsBundleTask
  <2>4. ASSUME NEW t \in tasks[n], NEW i \in Intents, ClearReports(n, t, i)
        PROVE  \A m \in Validators : \A u \in tasks'[m] : u \in tasks[m] \/ ~IsBundleTask(u)
    BY <1>2, <2>4 DEF ClearReports, IsBundleTask
  <2>5. ASSUME NEW t \in tasks[n], FinalizeCheckpointAfterGossip(n, t)
        PROVE  \A m \in Validators : \A u \in tasks'[m] : u \in tasks[m] \/ ~IsBundleTask(u)
    BY <1>2, <2>5 DEF FinalizeCheckpointAfterGossip, IsBundleTask
  <2> QED
    BY <2>1, <2>3, <2>4, <2>5
<1> QED
  BY <1>1, <1>3, SubmissionFrame

\* signAndGossipValidationBundles records the intents it signs.
LEMMA SignSubmission ==
  ASSUME SubmissionInv, TypeOK', NEW n \in Validators, NEW t \in tasks[n],
         SignValidationBundle(n, t)
  PROVE  SubmissionInv'
<1>1. PICK fifo :
        /\ epochIntents' = [epochIntents EXCEPT ![n][t.header.epoch] = fifo]
        /\ signed' = signed \cup {[signer |-> n, epoch |-> t.header.epoch,
                                   digest |-> [hash |-> Hash(t.header), intents |-> fifo]]}
        /\ tasks' = [tasks EXCEPT ![n] = (@ \ {t}) \cup
                       {[kind |-> "store", header |-> t.header, fifo |-> fifo]}]
  BY DEF SignValidationBundle
<1>2. UNCHANGED <<epochSigs, triggered, sent>>
  BY DEF SignValidationBundle, bundleVars, rootVars
<1>3. /\ tasks \in [Validators -> SUBSET Task]
      /\ epochIntents \in [Validators -> [Epochs -> Seq(Intents)]]
  BY DEF SubmissionInv, TypeOK
<1>4. \A m \in Validators : \A u \in tasks'[m] : u \in tasks[m] \/ ~IsBundleTask(u)
  BY <1>1, <1>3 DEF IsBundleTask
<1>5. TriggeredQuorum' /\ SentTriggered'
  BY <1>2 DEF SubmissionInv, TriggeredQuorum, SentTriggered
<1>6. OneTask'
  BY <1>2, <1>4 DEF SubmissionInv, OneTask
<1>7. \A m, e, S : SignedFor(m, e, S) => SignedFor(m, e, S)'
  BY <1>1 DEF SignedFor
<1>8. EpochIntentsSigned'
  <2> SUFFICES ASSUME NEW m \in Validators, NEW e \in Epochs, epochIntents'[m][e] # <<>>
               PROVE  \E d \in signed' :
                        /\ d.signer = m /\ d.epoch = e
                        /\ ItemsOf(epochIntents'[m][e]) \subseteq ItemsOf(d.digest.intents)
    BY DEF EpochIntentsSigned, SignedFor
  <2>1. CASE m = n /\ e = t.header.epoch
    <3>1. epochIntents'[m][e] = fifo
      BY <1>1, <1>3, <2>1
    <3> DEFINE d == [signer |-> n, epoch |-> t.header.epoch,
                     digest |-> [hash |-> Hash(t.header), intents |-> fifo]]
    <3>2. d \in signed'
      BY <1>1
    <3>3. d.signer = n /\ d.epoch = e /\ d.digest.intents = fifo
      BY <2>1
    <3> QED
      BY <2>1, <3>1, <3>2, <3>3
  <2>2. CASE ~(m = n /\ e = t.header.epoch)
    <3>1. epochIntents'[m][e] = epochIntents[m][e]
      BY <1>1, <1>3, <2>2
    <3>2. SignedFor(m, e, ItemsOf(epochIntents[m][e]))
      BY <3>1 DEF SubmissionInv, EpochIntentsSigned
    <3> QED
      BY <1>1, <3>1, <3>2 DEF SignedFor
  <2> QED
    BY <2>1, <2>2
<1>9. TaskItemsSigned'
  BY <1>4, <1>7 DEF SubmissionInv, TaskItemsSigned, IsBundleTask
<1> QED
  BY <1>5, <1>6, <1>8, <1>9 DEF SubmissionInv

\* storeEpochValidationSignature and the test that follows it: signatures are only
\* added, and a submission is started for an epoch that has none.
LEMMA StoreSubmission ==
  ASSUME SubmissionInv, TypeOK', NEW n \in Validators, NEW e \in Epochs, NEW s,
         NEW done, NEW next, \A u \in next : ~IsBundleTask(u),
         StoreAndTrigger(n, e, s, done, next),
         UNCHANGED <<sent, epochIntents, signed>>
  PROVE  SubmissionInv'
<1> DEFINE sigs == StoreSignature(epochSigs[n][e], s)
           submit == [kind |-> "submit", epoch |-> e]
<1>1. /\ tasks \in [Validators -> SUBSET Task]
      /\ triggered \in [Validators -> SUBSET Epochs]
      /\ epochSigs \in [Validators -> [Epochs -> SUBSET BundleSig]]
      /\ epochSigs' \in [Validators -> [Epochs -> SUBSET BundleSig]]
  BY DEF SubmissionInv, TypeOK
<1>2. epochSigs' = [epochSigs EXCEPT ![n][e] = sigs] /\ epochSigs[n][e] \subseteq sigs
  BY DEF StoreAndTrigger, StoreSignature
<1>3. \/ /\ CheckThreshold(Cardinality(Signers(sigs))) /\ e \notin triggered[n]
         /\ triggered' = [triggered EXCEPT ![n] = @ \cup {e}]
         /\ tasks' = [tasks EXCEPT ![n] = (@ \ done) \cup next \cup {submit}]
      \/ /\ triggered' = triggered
         /\ tasks' = [tasks EXCEPT ![n] = (@ \ done) \cup next]
  BY DEF StoreAndTrigger, ShouldTrigger
<1>4. submit.kind = "submit" /\ TaskEpoch(submit) = e
  BY DEF TaskEpoch
<1> HIDE DEF sigs, submit
<1>5. \A m \in Validators, f \in Epochs :
        /\ epochSigs[m][f] \subseteq epochSigs'[m][f]
        /\ epochSigs'[m][f] \subseteq BundleSig
        /\ (m = n /\ f = e) => epochSigs'[m][f] = sigs
  BY <1>1, <1>2
<1>6. \A m \in Validators : triggered[m] \subseteq triggered'[m]
  BY <1>1, <1>3, SMTT(30)
<1>7. TriggeredQuorum'
  <2> SUFFICES ASSUME NEW m \in Validators, NEW f \in triggered'[m]
               PROVE  CheckThreshold(Cardinality(Signers(epochSigs'[m][f])))
    BY DEF TriggeredQuorum
  <2>1. f \in triggered[m] \/ (m = n /\ f = e /\ CheckThreshold(Cardinality(Signers(sigs))))
    BY <1>1, <1>3
  <2>2. CASE f \in triggered[m]
    <3>1. CheckThreshold(Cardinality(Signers(epochSigs[m][f]))) /\ f \in Epochs
      BY <1>1, <2>2 DEF SubmissionInv, TriggeredQuorum
    <3> QED
      BY <1>5, <3>1, ThresholdGrows
  <2> QED
    BY <1>5, <2>1, <2>2
<1>8. SentTriggered'
  BY <1>6 DEF SubmissionInv, SentTriggered
<1>9. \A m \in Validators : \A u \in tasks'[m] :
        IsBundleTask(u) => u \in tasks[m] \/ (m = n /\ u = submit)
  BY <1>1, <1>3
<1>10. OneTask'
  <2> SUFFICES ASSUME NEW m \in Validators, NEW t \in tasks'[m], IsBundleTask(t)
               PROVE  /\ TaskEpoch(t) \in triggered'[m]
                      /\ TaskEpoch(t) \notin sent[m]
                      /\ \A u \in tasks'[m] :
                           IsBundleTask(u) /\ TaskEpoch(u) = TaskEpoch(t) => u = t
    BY DEF OneTask
  <2>1. CASE m = n /\ submit \in tasks'[m] /\ submit \notin tasks[m]
    <3>1. e \notin triggered[n] /\ e \in triggered'[n]
      BY <1>1, <1>3, <1>4, <2>1 DEF IsBundleTask
    <3>2. e \notin sent[n]
      BY <3>1 DEF SubmissionInv, SentTriggered
    <3>3. \A u \in tasks'[m] : IsBundleTask(u) => u = submit \/ TaskEpoch(u) # e
      BY <1>9, <2>1, <3>1 DEF SubmissionInv, OneTask
    <3> QED
      BY <1>4, <1>6, <1>9, <2>1, <3>1, <3>2, <3>3 DEF SubmissionInv, OneTask
  <2>2. CASE ~(m = n /\ submit \in tasks'[m] /\ submit \notin tasks[m])
    <3>1. \A u \in tasks'[m] : IsBundleTask(u) => u \in tasks[m]
      BY <1>9, <2>2
    <3> QED
      BY <1>6, <3>1 DEF SubmissionInv, OneTask
  <2> QED
    BY <2>1, <2>2
<1>11. EpochIntentsSigned'
  BY DEF SubmissionInv, EpochIntentsSigned, SignedFor
<1>12. TaskItemsSigned'
  BY <1>4, <1>9 DEF SubmissionInv, TaskItemsSigned, SignedFor, IsBundleTask
<1> QED
  BY <1>7, <1>8, <1>10, <1>11, <1>12 DEF SubmissionInv

\* Both callers of storeEpochValidationSignature.
LEMMA SignatureSubmission ==
  ASSUME SubmissionInv, TypeOK', NEW n \in Validators,
         \/ \E t \in tasks[n] : StoreOwnSignature(n, t)
         \/ \E m \in gossip : OnValidationBundleSignatureReceived(n, m)
  PROVE  SubmissionInv'
<1>1. ASSUME NEW t \in tasks[n], StoreOwnSignature(n, t) PROVE SubmissionInv'
  <2>1. t \in Task /\ t.kind = "store"
    BY <1>1 DEF SubmissionInv, TypeOK, StoreOwnSignature
  <2>2. t.header \in Header
    BY <2>1 DEF Task
  <2>3. t.header.epoch \in Epochs
    BY <2>2 DEF Header
  <2> DEFINE next == {[kind |-> "broadcast", header |-> t.header]}
             s == [signer |-> n, digest |-> [hash |-> Hash(t.header), intents |-> t.fifo]]
  <2>4. /\ StoreAndTrigger(n, t.header.epoch, s, {t}, next)
        /\ UNCHANGED <<sent, epochIntents, signed>>
    BY <1>1 DEF StoreOwnSignature, rootVars
  <2>5. \A u \in next : ~IsBundleTask(u)
    BY DEF IsBundleTask
  <2> HIDE DEF next, s
  <2> QED
    BY <2>3, <2>4, <2>5, StoreSubmission
<1>2. ASSUME NEW m \in gossip, OnValidationBundleSignatureReceived(n, m)
      PROVE  SubmissionInv'
  <2>1. m \in Message /\ m.type = "bundle"
    BY <1>2 DEF SubmissionInv, TypeOK, OnValidationBundleSignatureReceived
  <2>2. m.epoch \in Epochs
    BY <2>1 DEF Message
  <2>3. /\ StoreAndTrigger(n, m.epoch, [signer |-> m.signer, digest |-> m.digest], {}, {})
        /\ UNCHANGED <<sent, epochIntents, signed>>
    BY <1>2 DEF OnValidationBundleSignatureReceived, rootVars
  <2>4. \A u \in {} : ~IsBundleTask(u)
    OBVIOUS
  <2> QED
    BY <2>2, <2>3, <2>4, StoreSubmission
<1> QED
  BY <1>1, <1>2

\* submitValidationBundlesForEpoch goes to sleep for the epoch it was started for, with
\* intents that are among the signed ones.
LEMMA SubmitSubmission ==
  ASSUME SubmissionInv, TypeOK', NEW n \in Validators, NEW t \in tasks[n],
         SubmitValidationBundlesForEpoch(n, t)
  PROVE  SubmissionInv'
<1> DEFINE next == [kind |-> "sleep", path |-> "bundle", header |-> currentCheckpoint[n],
                    intents |-> Available(n, t.epoch)]
<1>1. /\ t.kind = "submit"
      /\ UNCHANGED <<epochSigs, triggered, sent, epochIntents, signed>>
  BY DEF SubmitValidationBundlesForEpoch, bundleVars, rootVars
<1>2. tasks \in [Validators -> SUBSET Task] /\ t \in Task
  BY DEF SubmissionInv, TypeOK
<1>3. CASE ~CanSubmit(n, t.epoch)
  <2>1. \A m \in Validators : tasks'[m] \subseteq tasks[m]
    BY <1>2, <1>3 DEF SubmitValidationBundlesForEpoch
  <2> QED
    BY <1>1, <2>1, SubmissionFrame
<1>4. CASE CanSubmit(n, t.epoch)
  <2>1. tasks' = [tasks EXCEPT ![n] = (@ \ {t}) \cup {next}]
    BY <1>4 DEF SubmitValidationBundlesForEpoch
  <2>2. /\ next.kind = "sleep" /\ next.path = "bundle" /\ next.header.epoch = t.epoch
        /\ next.intents = Available(n, t.epoch)
    BY <1>4 DEF CanSubmit
  <2> HIDE DEF next
  <2>3. IsBundleTask(next) /\ TaskEpoch(next) = t.epoch
    BY <2>2 DEF IsBundleTask, TaskEpoch
  <2>4. IsBundleTask(t) /\ TaskEpoch(t) = t.epoch
    BY <1>1 DEF IsBundleTask, TaskEpoch
  <2>5. \A m \in Validators : \A u \in tasks'[m] :
          \/ u \in tasks[m] /\ (m = n => u # t)
          \/ m = n /\ u = next
    <3>1. next # t
      BY <1>1, <2>2
    <3> QED
      BY <1>2, <2>1, <3>1
  <2>6. TriggeredQuorum' /\ SentTriggered'
    BY <1>1 DEF SubmissionInv, TriggeredQuorum, SentTriggered
  <2>7. /\ t.epoch \in triggered[n] /\ t.epoch \notin sent[n]
        /\ \A u \in tasks[n] : IsBundleTask(u) /\ TaskEpoch(u) = t.epoch => u = t
    BY <2>4 DEF SubmissionInv, OneTask
  <2>8. OneTask'
    BY <1>1, <2>3, <2>5, <2>7 DEF SubmissionInv, OneTask
  <2>9. EpochIntentsSigned'
    BY <1>1 DEF SubmissionInv, EpochIntentsSigned, SignedFor
  <2>10. SignedFor(n, t.epoch, Available(n, t.epoch))
    <3>1. t.epoch \in Epochs
      BY <1>1, <1>2 DEF Task
    <3>2. SignedFor(n, t.epoch, ItemsOf(epochIntents[n][t.epoch]))
      BY <1>4, <3>1 DEF SubmissionInv, EpochIntentsSigned, CanSubmit
    <3>3. Available(n, t.epoch) \subseteq ItemsOf(epochIntents[n][t.epoch])
      BY DEF Available, ItemsOf
    <3> QED
      BY <3>2, <3>3 DEF SignedFor
  <2>11. TaskItemsSigned'
    <3>1. ASSUME NEW m \in Validators, NEW u \in tasks'[m], u.kind = "sleep",
                 u.path = "bundle"
          PROVE  SignedFor(m, u.header.epoch, u.intents)
      BY <2>2, <2>5, <2>10, <3>1 DEF SubmissionInv, TaskItemsSigned
    <3> QED
      BY <1>1, <3>1 DEF TaskItemsSigned, SignedFor
  <2> QED
    BY <2>6, <2>8, <2>9, <2>11 DEF SubmissionInv
<1> QED
  BY <1>3, <1>4

\* submitValidationBundleBatch: a bundle batch is sent by the only goroutine of its
\* epoch, which ends.
LEMMA BatchSubmission ==
  ASSUME SubmissionInv, TypeOK', NEW n \in Validators, NEW t \in tasks[n], SubmitBatch(n, t)
  PROVE  SubmissionInv'
<1>1. /\ t.kind = "sleep"
      /\ sent' = [sent EXCEPT ![n] = IF t.path = "bundle" THEN @ \cup {t.header.epoch} ELSE @]
      /\ UNCHANGED <<epochSigs, triggered, epochIntents, signed>>
  BY DEF SubmitBatch, bundleVars
<1>2. PICK ok : tasks' = [tasks EXCEPT ![n] = (@ \ {t}) \cup ClearedAfter(t, ok)]
  BY DEF SubmitBatch
<1>3. /\ tasks \in [Validators -> SUBSET Task] /\ sent \in [Validators -> SUBSET Epochs]
  BY DEF SubmissionInv, TypeOK
<1>4. \A c \in ClearedAfter(t, ok) : ~IsBundleTask(c)
  BY DEF ClearedAfter, IsBundleTask
<1>5. \A m \in Validators : \A u \in tasks'[m] :
        IsBundleTask(u) => u \in tasks[m] /\ (m = n => u # t)
  BY <1>2, <1>3, <1>4
<1>6. /\ t.path = "bundle" => IsBundleTask(t) /\ TaskEpoch(t) = t.header.epoch
  BY <1>1 DEF IsBundleTask, TaskEpoch
<1>7. \A m \in Validators : \A e \in sent'[m] :
        e \in sent[m] \/ (m = n /\ t.path = "bundle" /\ e = t.header.epoch)
  BY <1>1, <1>3
<1>8. TriggeredQuorum'
  BY <1>1 DEF SubmissionInv, TriggeredQuorum
<1>9. SentTriggered'
  BY <1>1, <1>6, <1>7 DEF SubmissionInv, SentTriggered, OneTask
<1>10. OneTask'
  <2> SUFFICES ASSUME NEW m \in Validators, NEW u \in tasks'[m], IsBundleTask(u)
               PROVE  /\ TaskEpoch(u) \in triggered[m]
                      /\ TaskEpoch(u) \notin sent'[m]
                      /\ \A w \in tasks'[m] :
                           IsBundleTask(w) /\ TaskEpoch(w) = TaskEpoch(u) => w = u
    BY <1>1 DEF OneTask
  <2>1. u \in tasks[m] /\ (m = n => u # t)
    BY <1>5
  <2>2. TaskEpoch(u) \in triggered[m] /\ TaskEpoch(u) \notin sent[m]
    BY <2>1 DEF SubmissionInv, OneTask
  <2>3. \A w \in tasks'[m] : IsBundleTask(w) /\ TaskEpoch(w) = TaskEpoch(u) => w = u
    BY <1>5, <2>1 DEF SubmissionInv, OneTask
  <2>4. ASSUME m = n, t.path = "bundle" PROVE TaskEpoch(u) # t.header.epoch
    BY <1>6, <2>1, <2>4 DEF SubmissionInv, OneTask
  <2> QED
    BY <1>7, <2>2, <2>3, <2>4
<1>11. EpochIntentsSigned'
  BY <1>1 DEF SubmissionInv, EpochIntentsSigned, SignedFor
<1>12. TaskItemsSigned'
  BY <1>1, <1>5 DEF SubmissionInv, TaskItemsSigned, SignedFor, IsBundleTask
<1> QED
  BY <1>8, <1>9, <1>10, <1>11, <1>12 DEF SubmissionInv

\* A process that exits forgets its flags, signatures and goroutines together.
LEMMA LoseSubmission ==
  ASSUME SubmissionInv, TypeOK', NEW n \in Validators, LoseVolatileState(n), signed' = signed
  PROVE  SubmissionInv'
<1>1. \A m \in Validators :
        /\ tasks'[m] = IF m = n THEN {} ELSE tasks[m]
        /\ triggered'[m] = IF m = n THEN {} ELSE triggered[m]
        /\ sent'[m] = IF m = n THEN {} ELSE sent[m]
        /\ epochSigs'[m] = IF m = n THEN [e \in Epochs |-> {}] ELSE epochSigs[m]
        /\ epochIntents'[m] = IF m = n THEN [e \in Epochs |-> <<>>] ELSE epochIntents[m]
  BY DEF LoseVolatileState, SubmissionInv, TypeOK
<1>2. TriggeredQuorum' /\ SentTriggered'
  BY <1>1 DEF SubmissionInv, TriggeredQuorum, SentTriggered
<1>3. OneTask'
  BY <1>1 DEF SubmissionInv, OneTask
<1>4. EpochIntentsSigned'
  <2>1. \A e \in Epochs : epochIntents'[n][e] = <<>>
    BY <1>1
  <2>2. ASSUME NEW m \in Validators, NEW e \in Epochs, m # n, epochIntents'[m][e] # <<>>
        PROVE  \E d \in signed :
                 /\ d.signer = m /\ d.epoch = e
                 /\ ItemsOf(epochIntents'[m][e]) \subseteq ItemsOf(d.digest.intents)
    BY <1>1, <2>2, SMTT(30) DEF SubmissionInv, EpochIntentsSigned, SignedFor
  <2> QED
    BY <2>1, <2>2 DEF EpochIntentsSigned, SignedFor
<1>5. TaskItemsSigned'
  BY <1>1 DEF SubmissionInv, TaskItemsSigned, SignedFor
<1> QED
  BY <1>2, <1>3, <1>4, <1>5 DEF SubmissionInv

\* Every step keeps the submission invariant.
LEMMA NextSubmission == SubmissionInv /\ [Next]_vars => SubmissionInv'
<1> SUFFICES ASSUME SubmissionInv, [Next]_vars PROVE SubmissionInv'
  OBVIOUS
<1>1. TypeOK'
  BY NextType DEF SubmissionInv
<1>2. CASE UNCHANGED vars
  BY <1>1, <1>2, SubmissionFrame DEF vars
<1>3. ASSUME NEW n \in Validators,
             Crash(n) \/ \E t \in tasks[n] : SubmitBatchPanics(n, t)
      PROVE  SubmissionInv'
  BY <1>1, <1>3, LoseSubmission DEF Crash, SubmitBatchPanics
<1> QED
  BY <1>1, <1>2, <1>3, QuietSubmission, OtherTaskSubmission, SignSubmission,
     SignatureSubmission, SubmitSubmission, BatchSubmission DEF Next

\* The submission invariant holds always.
LEMMA SpecSubmission == Spec => []SubmissionInv
  BY InitSubmission, NextSubmission, PTL DEF Spec

\* What submitValidationBundlesForEpoch hands to RootLayer carries a quorum.
THEOREM BundleQuorumHolds == Spec => []BundleQuorum
<1>1. SubmissionInv => BundleQuorum
  BY SubmissionImplies
<1> QED
  BY SpecSubmission, <1>1, PTL

\* submitValidationBundlesForEpoch submits intents the submitter signed for the epoch.
THEOREM BundleItemsSignedHolds == Spec => []BundleItemsSigned
<1>1. SubmissionInv => BundleItemsSigned
  BY SubmissionImplies
<1> QED
  BY SpecSubmission, <1>1, PTL

\* The flag epochSubmissionTriggered keeps the submission of an epoch unique in a life
\* of the process.
THEOREM OneBundleSubmissionPerEpochHolds == Spec => []OneBundleSubmissionPerEpoch
<1>1. SubmissionInv => OneBundleSubmissionPerEpoch
  BY SubmissionImplies
<1> QED
  BY SpecSubmission, <1>1, PTL

-----------------------------------------------------------------------------
(***************************************************************************)
(* Gossiped checkpoint signatures                                          *)
(***************************************************************************)

\* Every checkpoint signature in the network was made by signCheckpoint.
GossipInv == /\ TypeOK
             /\ \A m \in gossip : m.type = "signature" => m.form = "rsv"

\* The actions that send nothing.
LEMMA QuietGossip ==
  ASSUME NEW n \in Validators,
         \/ CommitCheckpoint
         \/ Elect(n) \/ StepDown(n) \/ Crash(n) \/ Restart(n)
         \/ \E r \in Reports : ProcessExecutionReport(n, r)
         \/ \E i \in 1..Len(log) :
              OnExecutionReportCommitted(n, i) \/ HandleCommittedCheckpoint(n, i)
         \/ StartProposal(n) \/ ProposeCheckpointRaft(n) \/ ApplyCheckpointReturns(n)
         \/ \E t \in tasks[n] :
              \/ SignValidationBundle(n, t) \/ FinalizeCheckpointAfterGossip(n, t)
              \/ SubmitValidationBundlesForEpoch(n, t) \/ SubmitBatch(n, t)
              \/ SubmitBatchPanics(n, t) \/ \E i \in Intents : ClearReports(n, t, i)
         \/ \E m \in gossip : OnValidationBundleSignatureReceived(n, m)
  PROVE  gossip' = gossip
<1>1. CASE CommitCheckpoint \/ Elect(n) \/ StepDown(n) \/ Crash(n) \/ Restart(n)
  BY <1>1 DEF CommitCheckpoint, Elect, StepDown, Crash, Restart
<1>2. CASE \/ \E r \in Reports : ProcessExecutionReport(n, r)
           \/ StartProposal(n) \/ ProposeCheckpointRaft(n) \/ ApplyCheckpointReturns(n)
  BY <1>2 DEF ProcessExecutionReport, StartProposal, ProposeCheckpointRaft,
     ApplyCheckpointReturns
<1>3. ASSUME NEW i \in 1..Len(log),
             OnExecutionReportCommitted(n, i) \/ HandleCommittedCheckpoint(n, i)
      PROVE  gossip' = gossip
  BY <1>3 DEF OnExecutionReportCommitted, HandleCommittedCheckpoint
<1>4. ASSUME NEW t \in tasks[n],
             \/ SignValidationBundle(n, t) \/ FinalizeCheckpointAfterGossip(n, t)
             \/ SubmitValidationBundlesForEpoch(n, t) \/ SubmitBatch(n, t)
             \/ SubmitBatchPanics(n, t) \/ \E i \in Intents : ClearReports(n, t, i)
      PROVE  gossip' = gossip
  BY <1>4 DEF SignValidationBundle, FinalizeCheckpointAfterGossip,
     SubmitValidationBundlesForEpoch, SubmitBatch, SubmitBatchPanics, ClearReports
<1>5. ASSUME NEW m \in gossip, OnValidationBundleSignatureReceived(n, m)
      PROVE  gossip' = gossip
  BY <1>5 DEF OnValidationBundleSignatureReceived
<1> QED
  BY <1>1, <1>2, <1>3, <1>4, <1>5

\* A sent signature is one that signCheckpoint made.
LEMMA NextGossip == GossipInv /\ [Next]_vars => GossipInv'
<1> SUFFICES ASSUME GossipInv, [Next]_vars PROVE GossipInv'
  OBVIOUS
<1>1. TypeOK'
  BY NextType DEF GossipInv
<1>2. CASE gossip' = gossip
  BY <1>1, <1>2 DEF GossipInv
<1>3. ASSUME NEW n \in Validators, NEW t \in tasks[n],
             StoreOwnSignature(n, t) \/ BroadcastSignature(n, t)
      PROVE  GossipInv'
  BY <1>1, <1>3 DEF StoreOwnSignature, BroadcastSignature, SignCheckpoint, GossipInv
<1>4. CASE UNCHANGED vars
  BY <1>2, <1>4 DEF vars
<1>5. CASE Next
  <2>1. PICK n \in Validators : TRUE
    BY DEF Init, GossipInv, TypeOK
  <2> QED
    BY <1>2, <1>3, <1>5, <2>1, QuietGossip DEF Next
<1> QED
  BY <1>4, <1>5

\* No validator makes a checkpoint signature that another one accepts: with the handler
\* of gossiped checkpoint signatures the system does what it does without it.
THEOREM GossipSpecIsSpec == GossipSpec => Spec
<1>1. Init => GossipInv
  BY InitType DEF Init, GossipInv
<1>2. GossipInv /\ [GossipNext]_vars => [Next]_vars
  <2>1. ASSUME GossipInv, NEW n \in Validators, NEW m \in gossip, m.type = "signature"
        PROVE  ~Verifies(n, m)
    BY <2>1 DEF GossipInv, Verifies
  <2> QED
    BY <2>1 DEF GossipNext, OnGossipSignatureReceived
<1> QED
  BY <1>1, <1>2, NextGossip, PTL DEF GossipSpec, Spec
=============================================================================
