-------------------------- MODULE RaftRecovery_proofs --------------------------
(***************************************************************************)
(* Proofs about RaftRecovery, for any log, any number of epochs, restarts  *)
(* and snapshots: what loadCheckpoint finds, what a replay gives back, and *)
(* that the FSM implements ReplicatedState.                                *)
(***************************************************************************)
EXTENDS RaftRecovery, WellFoundedInduction, TLAPS

-----------------------------------------------------------------------------
(***************************************************************************)
(* Types                                                                   *)
(***************************************************************************)

FSM == [checkpoints : [Epochs -> Header \cup {NoHeader}], current : Epochs,
        reports : SUBSET Reports]
NodeFields == [epoch : 0..MaxEpoch + 1, checkpoint : Header \cup {NoHeader},
               sigs : SUBSET (1..MaxLog), reports : SUBSET Reports]
Disk == [latest : -1..MaxEpoch, headers : [Epochs -> Header \cup {NoHeader}],
         sigs : [Epochs -> SUBSET (1..MaxLog)], reports : SUBSET Reports]

\* Every variable keeps its type; indices stay inside the log.
TypeOK ==
    /\ log \in Seq(Entry) /\ Len(log) <= MaxLog
    /\ phase \in {"down", "replaying", "loading", "up", "stopping"}
    /\ fsm \in FSM /\ applied \in 0..Len(log)
    /\ snapshot \in [fsm : FSM, index : 0..Len(log)]
    /\ handlers \subseteq 1..Len(log)
    /\ save \in [step : 0..4, header : Header \cup {NoHeader}]
    /\ pointer \in -2..MaxEpoch
    /\ node \in NodeFields
    /\ disk \in Disk
    /\ cleared \subseteq Reports
    /\ restarts \in Nat /\ snapshots \in Nat

\* The saveCheckpoint in progress writes a committed header, and has written it
\* before it moves the latest epoch.
SaveInv ==
    /\ save.step # 0 => save.header \in CommittedHeaders
    /\ save.step = 0 => save = NoSave
    /\ save.step \in {2, 3} => disk.headers[save.header.epoch] # NoHeader

\* The epoch loadCheckpoint has read names a stored header.
PointerInv == pointer \notin {-2, -1} => disk.headers[pointer] # NoHeader

\* Without a snapshot every applied report is still with its handler, held, or accepted.
ReportsHeld ==
    snapshot.index = 0 =>
      \A j \in 1..applied :
        log[j].type = "report" =>
          j \in handlers \/ log[j].report \in node.reports \cup cleared

RecoveryInv == TypeOK /\ SaveInv /\ PointerInv /\ LoadFindsHeader /\ ReportsHeld

-----------------------------------------------------------------------------
\* The Puts of saveCheckpoint, spelled out.
LEMMA PutsFacts ==
    /\ DOMAIN Puts = 1..3 /\ Len(Puts) = 3 /\ AfterFailedPut = 4
    /\ Puts[1] = "header" /\ Puts[2] = "signatures" /\ Puts[3] = "latest"
  BY DEF Puts, AfterFailedPut

\* The bounds are natural numbers, so epoch 0 is an epoch.
LEMMA ZeroEpoch == 0 \in Epochs /\ Epochs \subseteq Nat /\ \A e \in Epochs : e <= MaxEpoch
  BY RecoveryAssumption DEF Epochs

\* An entry tells its kind by its type.
LEMMA EntryKinds ==
  ASSUME NEW x \in Entry
  PROVE  /\ x.type = "checkpoint" => x \in Header
         /\ x.type = "report" => x.report \in Reports
         /\ x.type \in {"checkpoint", "report"}
  BY DEF Entry, Header

\* The entry of a handler is an entry of the log.
LEMMA HandlerEntry ==
  ASSUME TypeOK, NEW i \in handlers
  PROVE  i \in 1..Len(log) /\ log[i] \in Entry
  BY DEF TypeOK

\* The FSM keeps its type under Apply and ClearPending.
LEMMA FSMApplyType ==
  ASSUME NEW f \in FSM, NEW x \in Entry
  PROVE  FSMApply(f, x) \in FSM
<1>1. CASE x.type = "checkpoint"
  <2>1. x \in Header /\ x.epoch \in Epochs
    BY <1>1, EntryKinds DEF Header
  <2> QED
    BY <1>1, <2>1 DEF FSMApply, FSM
<1>2. CASE x.type = "report"
  BY <1>2, EntryKinds DEF FSMApply, FSM
<1> QED
  BY <1>1, <1>2, EntryKinds

LEMMA NoFSMType == NoFSM \in FSM
  BY ZeroEpoch DEF NoFSM, FSM

LEMMA NoNodeType == NoNode \in NodeFields
  BY RecoveryAssumption DEF NoNode, NodeFields

\* Everything has its type at the first start.
LEMMA InitType == Init => TypeOK
<1> SUFFICES ASSUME Init PROVE TypeOK
  OBVIOUS
<1> QED
  BY NoFSMType, NoNodeType, RecoveryAssumption DEF Init, TypeOK, NoSave, Disk

\* A committed entry leaves the old ones in place.
LEMMA CommitLog ==
  ASSUME TypeOK, Commit
  PROVE  /\ log' \in Seq(Entry) /\ Len(log') = Len(log) + 1 /\ Len(log') <= MaxLog
         /\ \A i \in 1..Len(log) : log'[i] = log[i]
<1>1. PICK x \in Entry : log' = Append(log, x)
  <2>1. CASE \E r \in Reports \ ReportsIn(log) : log' = Append(log, ReportEntry(r))
    BY <2>1 DEF ReportEntry, Entry
  <2>2. CASE \E e \in Epochs : log' = Append(log, CheckpointEntry(Len(log) + 1, e))
    <3>1. \A e \in Epochs : CheckpointEntry(Len(log) + 1, e) \in Header
      BY RecoveryAssumption DEF CheckpointEntry, Header, Commit, TypeOK
    <3> QED
      BY <2>2, <3>1 DEF Entry
  <2> QED
    BY <2>1, <2>2 DEF Commit
<1> QED
  BY <1>1, RecoveryAssumption DEF TypeOK, Commit

\* A Put of saveCheckpoint keeps the type of the store, touches at most the header it
\* saves, and never takes one away.
LEMMA WrittenFacts ==
  ASSUME TypeOK, NEW h \in Header, NEW k \in 1..3
  PROVE  LET d == Written(Puts[k], h)
         IN  /\ d \in Disk
             /\ d.latest = IF k = 3 THEN h.epoch ELSE disk.latest
             /\ \A e \in Epochs :
                  d.headers[e] = IF k = 1 /\ e = h.epoch THEN h ELSE disk.headers[e]
<1>1. h.epoch \in Epochs /\ h.epoch \in -1..MaxEpoch
  <2>1. h.epoch \in Epochs
    BY DEF Header
  <2> QED
    BY <2>1, RecoveryAssumption DEF Epochs
<1>2. CASE k = 1
  BY <1>1, <1>2, PutsFacts DEF Written, TypeOK, Disk
<1>3. CASE k = 2
  <2>1. Written(Puts[k], h) \in {disk, [disk EXCEPT !.sigs[h.epoch] = node.sigs]}
    BY <1>3, PutsFacts DEF Written
  <2>2. node.sigs \subseteq 1..MaxLog
    BY DEF TypeOK, NodeFields
  <2>3. CASE Written(Puts[k], h) = disk
    BY <1>3, <2>3 DEF TypeOK
  <2>4. CASE Written(Puts[k], h) = [disk EXCEPT !.sigs[h.epoch] = node.sigs]
    <3> DEFINE d == [disk EXCEPT !.sigs[h.epoch] = node.sigs]
    <3>1. disk \in Disk
      BY DEF TypeOK
    <3>2. d \in Disk /\ d.latest = disk.latest /\ d.headers = disk.headers
      BY <1>1, <2>2, <3>1 DEF Disk
    <3> QED
      BY <1>3, <2>4, <3>2
  <2> QED
    BY <2>1, <2>3, <2>4
<1>4. CASE k = 3
  BY <1>1, <1>4, PutsFacts DEF Written, TypeOK, Disk
<1> QED
  BY <1>2, <1>3, <1>4

\* Every step keeps the types.
LEMMA NextType == TypeOK /\ SaveInv /\ [Next]_vars => TypeOK'
<1> SUFFICES ASSUME TypeOK, SaveInv, [Next]_vars PROVE TypeOK'
  OBVIOUS
<1>1. CASE UNCHANGED vars
  BY <1>1 DEF vars, TypeOK
<1>2. CASE Commit
  <2>1. 0..Len(log) \subseteq 0..Len(log') /\ 1..Len(log) \subseteq 1..Len(log')
    BY <1>2, CommitLog DEF TypeOK
  <2>2. snapshot \in [fsm : FSM, index : 0..Len(log')]
    BY <2>1 DEF TypeOK
  <2> QED
    BY <1>2, <2>1, <2>2, CommitLog DEF Commit, TypeOK
<1>3. CASE Apply
  <2>1. applied + 1 \in 1..Len(log) /\ log[applied + 1] \in Entry
    BY <1>3 DEF Apply, TypeOK
  <2>2. fsm' \in FSM
    BY <1>3, <2>1, FSMApplyType DEF Apply, TypeOK
  <2> QED
    BY <1>3, <2>1, <2>2 DEF Apply, Spawns, TypeOK
<1>4. CASE TakeSnapshot
  <2>1. snapshot' \in [fsm : FSM, index : 0..Len(log)]
    BY <1>4 DEF TakeSnapshot, SnapshotOf, TypeOK
  <2> QED
    BY <1>4, <2>1 DEF TakeSnapshot, TypeOK
<1>5. ASSUME NEW i \in handlers, OnExecutionReportCommitted(i) PROVE TypeOK'
  <2>1. log[i].report \in Reports
    BY <1>5, HandlerEntry, EntryKinds DEF OnExecutionReportCommitted
  <2>2. node' \in NodeFields
    BY <1>5, <2>1, SMTT(30) DEF OnExecutionReportCommitted, TypeOK, NodeFields
  <2>3. disk' \in Disk
    BY <1>5, <2>1 DEF OnExecutionReportCommitted, TypeOK, Disk
  <2> QED
    BY <1>5, <2>2, <2>3 DEF OnExecutionReportCommitted, TypeOK
<1>6. ASSUME NEW i \in handlers, DropCheckpoint(i) PROVE TypeOK'
  BY <1>6 DEF DropCheckpoint, TypeOK
<1>7. ASSUME NEW i \in handlers, OnCheckpointCommitted(i) PROVE TypeOK'
  <2>1. log[i] \in Header
    BY <1>7, HandlerEntry, EntryKinds DEF OnCheckpointCommitted
  <2> QED
    BY <1>7, <2>1 DEF OnCheckpointCommitted, TypeOK
<1>8. CASE SaveCheckpoint
  <2>1. save.step \in 1..3 /\ save.header \in Header
    BY <1>8, PutsFacts, EntryKinds DEF SaveCheckpoint, SaveInv, CommittedHeaders, Range, TypeOK
  <2>2. disk' \in Disk
    BY <1>8, <2>1, WrittenFacts DEF SaveCheckpoint, TypeOK
  <2>3. save' \in [step : 0..4, header : Header \cup {NoHeader}]
    BY <1>8, <2>1, PutsFacts DEF SaveCheckpoint, TypeOK
  <2> QED
    BY <1>8, <2>2, <2>3 DEF SaveCheckpoint, TypeOK
<1>9. CASE FinishHandler
  <2>1. save.header \in Header
    BY <1>9, PutsFacts, EntryKinds DEF FinishHandler, SaveInv, CommittedHeaders, Range, TypeOK
  <2>2. save.header.id \in 1..MaxLog /\ save.header.epoch \in Epochs
    BY <2>1 DEF Header
  <2>3. save.header.epoch + 1 \in 0..MaxEpoch + 1
    BY <2>2, RecoveryAssumption DEF Epochs
  <2>4. node' \in NodeFields
    BY <1>9, <2>1, <2>2, <2>3 DEF FinishHandler, TypeOK, NodeFields
  <2> QED
    BY <1>9, <2>4 DEF FinishHandler, NoSave, TypeOK
<1>10. ASSUME NEW r \in Reports, ClearReports(r) PROVE TypeOK'
  BY <1>10 DEF ClearReports, ClearPending, FSM, NodeFields, TypeOK
<1>11. CASE Boot
  BY <1>11 DEF Boot, Restore, TypeOK
<1>12. CASE PublishRaft
  BY <1>12 DEF PublishRaft, TypeOK
<1>13. CASE LoadLatestEpoch
  <2>1. disk.latest \in -2..MaxEpoch
    BY RecoveryAssumption DEF TypeOK, Disk
  <2> QED
    BY <1>13, <2>1 DEF LoadLatestEpoch, TypeOK
<1>14. CASE LoadCheckpoint
  <2>1. CASE pointer = -1
    <3>1. node \in NodeFields /\ node' = [node EXCEPT !.epoch = 0] /\ 0 \in 0..MaxEpoch + 1
      BY <1>14, <2>1, RecoveryAssumption DEF LoadCheckpoint, TypeOK
    <3>2. node' \in NodeFields
      BY <3>1 DEF NodeFields
    <3> QED
      BY <1>14, <3>2, RecoveryAssumption DEF LoadCheckpoint, TypeOK
  <2>2. CASE pointer # -1
    <3>1. pointer \in Epochs /\ pointer + 1 \in 0..MaxEpoch + 1
      BY <1>14, <2>2, RecoveryAssumption, SMTT(30) DEF LoadCheckpoint, TypeOK, Epochs
    <3>2. disk.headers[pointer] \in Header \cup {NoHeader} /\ disk.sigs[pointer] \subseteq 1..MaxLog
      BY <3>1 DEF TypeOK, Disk
    <3>3. node' \in NodeFields
      BY <1>14, <2>2, <3>1, <3>2 DEF LoadCheckpoint, TypeOK, NodeFields
    <3> QED
      BY <1>14, <3>3, RecoveryAssumption DEF LoadCheckpoint, TypeOK
  <2> QED
    BY <2>1, <2>2
<1>15. CASE Stop
  BY <1>15 DEF Stop, TypeOK
<1>16. CASE Exit
  BY <1>16, NoFSMType, NoNodeType, RecoveryAssumption DEF Exit, NoSave, TypeOK
<1> QED
  BY <1>1, <1>2, <1>3, <1>4, <1>5, <1>6, <1>7, <1>8, <1>9, <1>10, <1>11, <1>12, <1>13,
     <1>14, <1>15, <1>16 DEF Next

-----------------------------------------------------------------------------
(***************************************************************************)
(* The stored checkpoint                                                   *)
(***************************************************************************)

HeadersInv == SaveInv /\ PointerInv /\ LoadFindsHeader

\* What is committed stays committed.
LEMMA CommittedGrows ==
  ASSUME TypeOK, Commit
  PROVE  CommittedHeaders \subseteq CommittedHeaders'
<1>1. DOMAIN log = 1..Len(log) /\ Len(log) \in Nat
  BY DEF TypeOK
<1>2. /\ DOMAIN log' = 1..Len(log) + 1
      /\ \A i \in 1..Len(log) : log'[i] = log[i]
  BY CommitLog
<1>3. \A i \in DOMAIN log : i \in DOMAIN log' /\ log'[i] = log[i]
  BY <1>1, <1>2
<1> QED
  BY <1>3 DEF CommittedHeaders, Range

\* A committed header is a header.
LEMMA CommittedAreHeaders == TypeOK => CommittedHeaders \subseteq Header
  BY EntryKinds DEF TypeOK, CommittedHeaders, Range

\* A step that leaves the stored headers alone, and at most ends a save or a load.
LEMMA HeadersFrame ==
  ASSUME RecoveryInv, UNCHANGED log,
         disk'.headers = disk.headers, disk'.latest = disk.latest,
         save' \in {save, NoSave}, pointer' \in {pointer, -2}
  PROVE  HeadersInv'
  BY DEF RecoveryInv, HeadersInv, SaveInv, PointerInv, LoadFindsHeader, CommittedHeaders, NoSave

\* The actions that such steps are.
LEMMA HeadersQuiet ==
  ASSUME RecoveryInv,
         \/ UNCHANGED vars \/ Apply \/ TakeSnapshot \/ FinishHandler
         \/ \E i \in handlers : OnExecutionReportCommitted(i) \/ DropCheckpoint(i)
         \/ \E r \in Reports : ClearReports(r)
         \/ Boot \/ PublishRaft \/ LoadCheckpoint \/ Stop \/ Exit
  PROVE  HeadersInv'
<1>1. disk'.headers = disk.headers /\ disk'.latest = disk.latest
  <2>1. CASE UNCHANGED disk
    BY <2>1
  <2>2. CASE \E i \in handlers : OnExecutionReportCommitted(i)
    BY <2>2 DEF OnExecutionReportCommitted, RecoveryInv, TypeOK, Disk
  <2> QED
    BY <2>1, <2>2 DEF vars, Apply, TakeSnapshot, FinishHandler, DropCheckpoint, ClearReports,
      Boot, PublishRaft, LoadCheckpoint, Stop, Exit
<1>2. UNCHANGED log /\ save' \in {save, NoSave} /\ pointer' \in {pointer, -2}
  BY DEF vars, Apply, TakeSnapshot, FinishHandler, OnExecutionReportCommitted,
    DropCheckpoint, ClearReports, Boot, PublishRaft, LoadCheckpoint, Stop, Exit
<1> QED
  BY <1>1, <1>2, HeadersFrame

\* Put by Put, saveCheckpoint moves the latest epoch only to a header it has written.
LEMMA HeadersSave ==
  ASSUME RecoveryInv, SaveCheckpoint
  PROVE  HeadersInv'
<1> DEFINE h == save.header
<1>1. /\ save.step \in 1..3 /\ h \in CommittedHeaders /\ h \in Header
      /\ h.epoch \in Epochs /\ h # NoHeader
  <2>1. save.step \in 1..3 /\ h \in CommittedHeaders /\ h \in Header
    BY PutsFacts, CommittedAreHeaders DEF SaveCheckpoint, RecoveryInv, SaveInv
  <2> QED
    BY <2>1, NoHeaderAssumption DEF Header
<1>2. /\ UNCHANGED <<log, pointer>> /\ CommittedHeaders' = CommittedHeaders
      /\ save'.header = h /\ save \in [step : 0..4, header : Header \cup {NoHeader}]
  BY DEF SaveCheckpoint, CommittedHeaders, RecoveryInv, TypeOK
<1>3. CASE UNCHANGED disk /\ save' = [save EXCEPT !.step = AfterFailedPut]
  <2>1. save'.step = 4
    BY <1>2, <1>3, PutsFacts
  <2> QED
    BY <1>1, <1>2, <1>3, <2>1
    DEF RecoveryInv, HeadersInv, SaveInv, PointerInv, LoadFindsHeader
<1>4. CASE disk' = Written(Puts[save.step], h) /\ save' = [save EXCEPT !.step = @ + 1]
  <2>1. /\ disk'.latest = IF save.step = 3 THEN h.epoch ELSE disk.latest
        /\ \A e \in Epochs :
             disk'.headers[e] = IF save.step = 1 /\ e = h.epoch THEN h ELSE disk.headers[e]
    BY <1>1, <1>4, WrittenFacts DEF RecoveryInv
  <2>2. save'.step = save.step + 1
    BY <1>2, <1>4
  <2>3. \A e \in Epochs : disk.headers[e] # NoHeader => disk'.headers[e] # NoHeader
    BY <1>1, <2>1
  <2>4. SaveInv'
    <3>1. save.step = 1 => disk'.headers[h.epoch] = h
      BY <1>1, <2>1
    <3>2. save.step # 1 => disk'.headers[h.epoch] = disk.headers[h.epoch]
      BY <1>1, <2>1
    <3> QED
      BY <1>1, <1>2, <2>2, <3>1, <3>2 DEF SaveInv, RecoveryInv
  <2>5. PointerInv'
    BY <1>2, <2>3 DEF PointerInv, RecoveryInv, TypeOK, Epochs
  <2>6. LoadFindsHeader'
    <3>1. ASSUME disk'.latest # -1 PROVE disk'.headers[disk'.latest] # NoHeader
      <4>1. CASE save.step = 3
        BY <1>1, <2>1, <4>1 DEF RecoveryInv, SaveInv
      <4>2. CASE save.step # 3
        <5>1. disk'.latest = disk.latest /\ disk.latest \in Epochs
          BY <2>1, <3>1, <4>2 DEF RecoveryInv, TypeOK, Disk, Epochs
        <5> QED
          BY <2>3, <3>1, <5>1 DEF RecoveryInv, LoadFindsHeader
      <4> QED
        BY <4>1, <4>2
    <3>2. ASSUME NEW e \in Epochs, disk'.headers[e] # NoHeader
          PROVE  disk'.headers[e].epoch = e /\ disk'.headers[e] \in CommittedHeaders'
      BY <1>1, <1>2, <2>1, <3>2 DEF RecoveryInv, LoadFindsHeader
    <3> QED
      BY <3>1, <3>2 DEF LoadFindsHeader
  <2> QED
    BY <2>4, <2>5, <2>6 DEF HeadersInv
<1> QED
  BY <1>3, <1>4 DEF SaveCheckpoint

\* Every step keeps what is known of the stored headers.
LEMMA NextHeaders ==
  ASSUME RecoveryInv, [Next]_vars
  PROVE  HeadersInv'
<1>1. CASE Commit
  <2>1. UNCHANGED <<disk, save, pointer>> /\ CommittedHeaders \subseteq CommittedHeaders'
    BY <1>1, CommittedGrows DEF Commit, RecoveryInv
  <2> QED
    BY <2>1 DEF RecoveryInv, HeadersInv, SaveInv, PointerInv, LoadFindsHeader
<1>2. ASSUME NEW i \in handlers, OnCheckpointCommitted(i) PROVE HeadersInv'
  <2>1. log[i] \in CommittedHeaders
    BY <1>2, HandlerEntry DEF OnCheckpointCommitted, CommittedHeaders, Range, RecoveryInv, TypeOK
  <2>2. UNCHANGED <<log, disk, pointer>> /\ save' = [step |-> 1, header |-> log[i]]
    BY <1>2 DEF OnCheckpointCommitted
  <2> QED
    BY <2>1, <2>2
    DEF RecoveryInv, HeadersInv, SaveInv, PointerInv, LoadFindsHeader, CommittedHeaders
<1>3. CASE LoadLatestEpoch
  BY <1>3 DEF LoadLatestEpoch, RecoveryInv, HeadersInv, SaveInv, PointerInv,
    LoadFindsHeader, CommittedHeaders
<1> QED
  BY <1>1, <1>2, <1>3, HeadersQuiet, HeadersSave DEF Next

-----------------------------------------------------------------------------
(***************************************************************************)
(* The replayed reports                                                    *)
(***************************************************************************)

\* A step that applies nothing and takes no report away.
LEMMA ReportsFrame ==
  ASSUME RecoveryInv, UNCHANGED <<log, snapshot>>,
         applied' \in {applied, 0}, handlers \subseteq handlers',
         node.reports \cup cleared \subseteq node'.reports \cup cleared'
  PROVE  ReportsHeld'
<1>1. 1..applied' \subseteq 1..applied
  BY DEF RecoveryInv, TypeOK
<1> QED
  BY <1>1 DEF RecoveryInv, ReportsHeld

\* Every step keeps what is known of the reports.
LEMMA NextReports ==
  ASSUME RecoveryInv, [Next]_vars
  PROVE  ReportsHeld'
<1>1. CASE \/ UNCHANGED vars \/ SaveCheckpoint \/ PublishRaft \/ LoadLatestEpoch \/ Stop
  BY <1>1, ReportsFrame DEF vars, SaveCheckpoint, PublishRaft, LoadLatestEpoch, Stop
<1>2. CASE Commit
  <2>1. UNCHANGED <<applied, snapshot, handlers, node, cleared>>
    BY <1>2 DEF Commit
  <2>2. \A j \in 1..Len(log) : log'[j] = log[j]
    BY <1>2, CommitLog DEF RecoveryInv
  <2>3. 1..applied \subseteq 1..Len(log)
    BY DEF RecoveryInv, TypeOK
  <2> QED
    BY <2>1, <2>2, <2>3 DEF RecoveryInv, ReportsHeld
<1>3. CASE Apply
  <2>1. /\ UNCHANGED <<log, snapshot, node, cleared>> /\ handlers' = handlers \cup {applied + 1}
        /\ \A j \in 1..applied' : j \in 1..applied \/ j = applied + 1
    BY <1>3 DEF Apply, Spawns, RecoveryInv, TypeOK
  <2> QED
    BY <2>1 DEF RecoveryInv, ReportsHeld
<1>4. CASE TakeSnapshot
  <2>1. snapshot'.index = applied /\ applied > snapshot.index /\ snapshot.index \in Nat
    BY <1>4 DEF TakeSnapshot, RecoveryInv, TypeOK
  <2>2. snapshot'.index # 0
    BY <2>1 DEF RecoveryInv, TypeOK
  <2> QED
    BY <2>2 DEF ReportsHeld
<1>5. ASSUME NEW i \in handlers, OnExecutionReportCommitted(i) PROVE ReportsHeld'
  <2>1. /\ UNCHANGED <<log, snapshot, applied, cleared>> /\ handlers' = handlers \ {i}
        /\ node'.reports = node.reports \cup {log[i].report}
    BY <1>5 DEF OnExecutionReportCommitted, RecoveryInv, TypeOK, NodeFields
  <2> QED
    BY <2>1 DEF RecoveryInv, ReportsHeld
<1>6. ASSUME NEW i \in handlers, DropCheckpoint(i) \/ OnCheckpointCommitted(i)
      PROVE  ReportsHeld'
  <2>1. /\ UNCHANGED <<log, snapshot, applied, node, cleared>> /\ handlers' = handlers \ {i}
        /\ log[i].type # "report"
    BY <1>6 DEF DropCheckpoint, OnCheckpointCommitted
  <2> QED
    BY <2>1 DEF RecoveryInv, ReportsHeld
<1>7. CASE FinishHandler \/ LoadCheckpoint
  <2>1. node'.reports = node.reports
    BY <1>7 DEF FinishHandler, LoadCheckpoint, RecoveryInv, TypeOK, NodeFields
  <2> QED
    BY <1>7, <2>1, ReportsFrame DEF FinishHandler, LoadCheckpoint
<1>8. ASSUME NEW r \in Reports, ClearReports(r) PROVE ReportsHeld'
  <2>1. node'.reports = node.reports \ {r} /\ cleared' = cleared \cup {r}
    BY <1>8 DEF ClearReports, RecoveryInv, TypeOK, NodeFields
  <2> QED
    BY <1>8, <2>1, ReportsFrame DEF ClearReports
<1>9. CASE Boot
  <2>1. UNCHANGED snapshot /\ applied' = snapshot.index
    BY <1>9 DEF Boot
  <2> QED
    BY <2>1 DEF ReportsHeld
<1>10. CASE Exit
  <2>1. applied' = 0
    BY <1>10 DEF Exit
  <2> QED
    BY <2>1 DEF ReportsHeld
<1> QED
  BY <1>1, <1>2, <1>3, <1>4, <1>5, <1>6, <1>7, <1>8, <1>9, <1>10 DEF Next

-----------------------------------------------------------------------------
\* The first start satisfies the invariant.
LEMMA InitRecovery == Init => RecoveryInv
<1> SUFFICES ASSUME Init PROVE RecoveryInv
  OBVIOUS
<1>1. TypeOK
  BY InitType
<1>2. SaveInv /\ PointerInv /\ LoadFindsHeader /\ ReportsHeld
  BY DEF Init, NoSave, SaveInv, PointerInv, LoadFindsHeader, ReportsHeld
<1> QED
  BY <1>1, <1>2 DEF RecoveryInv

\* Every step keeps it.
LEMMA NextRecovery == RecoveryInv /\ [Next]_vars => RecoveryInv'
<1> SUFFICES ASSUME RecoveryInv, [Next]_vars PROVE RecoveryInv'
  OBVIOUS
<1>1. TypeOK'
  BY NextType DEF RecoveryInv
<1> QED
  BY <1>1, NextHeaders, NextReports DEF RecoveryInv, HeadersInv

\* The recovery invariant holds always.
LEMMA SpecRecovery == Spec => []RecoveryInv
  BY InitRecovery, NextRecovery, PTL DEF Spec

\* However saves are cut off and handlers overtake each other, the latest epoch on disk
\* names a stored header, and every stored header is a committed one of its epoch.
THEOREM LoadFindsHeaderHolds == Spec => []LoadFindsHeader
<1>1. RecoveryInv => LoadFindsHeader
  BY DEF RecoveryInv
<1> QED
  BY SpecRecovery, <1>1, PTL

\* The header loadCheckpoint is about to read is there and committed, although handlers
\* write between its two reads.
LoadReadsCommitted ==
    pointer \in Epochs => disk.headers[pointer] \in CommittedHeaders

\* loadCheckpoint, which reads the epoch and the header in two steps without n.mu, reads
\* a committed header.
THEOREM LoadReadsCommittedHolds == Spec => []LoadReadsCommitted
<1>1. RecoveryInv => LoadReadsCommitted
  <2> SUFFICES ASSUME RecoveryInv, pointer \in Epochs
               PROVE  disk.headers[pointer] \in CommittedHeaders
    BY DEF LoadReadsCommitted
  <2>1. pointer \notin {-2, -1}
    BY RecoveryAssumption DEF Epochs
  <2> QED
    BY <2>1 DEF RecoveryInv, PointerInv, LoadFindsHeader
<1> QED
  BY SpecRecovery, <1>1, PTL

\* A node that applied the log from its first entry, however often it was restarted,
\* holds every committed report that RootLayer has not accepted.
THEOREM ReportsReplayedHolds == Spec => []ReportsReplayed
<1>1. RecoveryInv => ReportsReplayed
  <2> SUFFICES ASSUME RecoveryInv, CaughtUp, snapshot.index = 0
               PROVE  ReportsIn(log) \ cleared \subseteq node.reports
    BY DEF ReportsReplayed
  <2>1. ASSUME NEW j \in DOMAIN log, log[j].type = "report"
        PROVE  log[j].report \in node.reports \cup cleared
    <3>1. j \in 1..applied /\ handlers = {}
      BY DEF CaughtUp, RecoveryInv, TypeOK
    <3> QED
      BY <2>1, <3>1 DEF RecoveryInv, ReportsHeld
  <2> QED
    BY <2>1 DEF ReportsIn, Range
<1> QED
  BY SpecRecovery, <1>1, PTL

-----------------------------------------------------------------------------
(***************************************************************************)
(* The FSM implements ReplicatedState.  StateAt is defined by recursion;   *)
(* that it satisfies its equations follows from the least number           *)
(* principle, which WFMin states for sets.                                 *)
(***************************************************************************)

\* A set of natural numbers has a least element.
LEMMA LeastNumber ==
  ASSUME NEW T \in SUBSET Nat, T # {}
  PROVE  \E x \in T : \A y \in T : x <= y
<1>1. PICK x \in T : \A y \in T : ~ (<<y, x>> \in OpToRel(<, Nat))
  BY NatLessThanWellFounded, WFMin
<1>2. ASSUME NEW y \in T PROVE x <= y
  <2>1. <<y, x>> \notin {ss \in Nat \X Nat : ss[1] < ss[2]}
    BY <1>1 DEF OpToRel
  <2> QED
    BY <2>1
<1> QED
  BY <1>2

\* f lists the states that the first entries of l, up to the i-th, produce.
States(f, l, i) ==
    f = [k \in 0..i |-> IF k = 0 THEN NoCheckpoints ELSE CheckpointStep(f[k - 1], l[k])]

\* Two such lists for logs that agree up to i agree.
LEMMA StatesUnique ==
  ASSUME NEW i \in Nat, NEW l, NEW m, \A k \in 1..i : l[k] = m[k],
         NEW f, NEW g, States(f, l, i), States(g, m, i)
  PROVE  f = g
<1> DEFINE T == {k \in 0..i : f[k] # g[k]}
<1>1. CASE T = {}
  <2>1. \A k \in 0..i : f[k] = g[k]
    BY <1>1
  <2>2. /\ f = [k \in 0..i |-> f[k]]
        /\ g = [k \in 0..i |-> g[k]]
    BY DEF States
  <2> QED
    BY <2>1, <2>2
<1>2. CASE T # {}
  <2>1. PICK x \in T : \A y \in T : x <= y
    BY <1>2, LeastNumber, T \in SUBSET Nat
  <2>2. x \in 0..i /\ f[x] # g[x]
    BY <2>1
  <2>3. x # 0
    BY <2>2 DEF States
  <2>4. x - 1 \in 0..i /\ f[x - 1] = g[x - 1]
    BY <2>1, <2>2, <2>3
  <2>5. f[x] = CheckpointStep(f[x - 1], l[x]) /\ g[x] = CheckpointStep(g[x - 1], m[x])
    BY <2>2, <2>3 DEF States
  <2> QED
    BY <2>2, <2>3, <2>4, <2>5
<1> QED
  BY <1>1, <1>2

\* There is such a list for every log and every i.
LEMMA StatesExist ==
  ASSUME NEW l, NEW i \in Nat
  PROVE  \E f : States(f, l, i)
<1> DEFINE T == {n \in Nat : ~ \E f : States(f, l, n)}
<1>1. SUFFICES ASSUME T # {} PROVE FALSE
  OBVIOUS
<1>2. PICK x \in T : \A y \in T : x <= y
  BY <1>1, LeastNumber, T \in SUBSET Nat
<1>3. x # 0
  <2> DEFINE f == [k \in 0..0 |-> NoCheckpoints]
  <2>1. States(f, l, 0)
    BY DEF States
  <2> QED
    BY <1>2, <2>1
<1>4. x - 1 \in Nat /\ x - 1 \notin T
  BY <1>2, <1>3
<1>5. PICK f : States(f, l, x - 1)
  BY <1>4
<1> DEFINE g == [k \in 0..x |-> IF k = x THEN CheckpointStep(f[x - 1], l[x]) ELSE f[k]]
<1>6. \A k \in 0..x :
        g[k] = IF k = 0 THEN NoCheckpoints ELSE CheckpointStep(g[k - 1], l[k])
  <2> SUFFICES ASSUME NEW k \in 0..x
               PROVE  g[k] = IF k = 0 THEN NoCheckpoints ELSE CheckpointStep(g[k - 1], l[k])
    OBVIOUS
  <2>1. CASE k = x
    <3>1. g[k] = CheckpointStep(f[x - 1], l[x]) /\ x - 1 \in 0..x /\ g[x - 1] = f[x - 1]
      BY <1>2, <1>3, <2>1
    <3> QED
      BY <1>3, <2>1, <3>1
  <2>2. CASE k # x
    <3>1. k \in 0..x - 1 /\ g[k] = f[k]
      BY <1>2, <2>2
    <3>2. f[k] = IF k = 0 THEN NoCheckpoints ELSE CheckpointStep(f[k - 1], l[k])
      BY <1>5, <3>1 DEF States
    <3>3. k # 0 => g[k - 1] = f[k - 1]
      BY <1>2, <3>1
    <3> QED
      BY <3>1, <3>2, <3>3
  <2> QED
    BY <2>1, <2>2
<1>7. States(g, l, x)
  BY <1>6 DEF States
<1> QED
  BY <1>2, <1>7

\* StateAt is the last entry of the list.
LEMMA StateAtValue ==
  ASSUME NEW l, NEW i \in Nat, NEW f, States(f, l, i)
  PROVE  Replica!StateAt(l, i) = f[i]
<1>1. \A g : States(g, l, i) => g = f
  BY StatesUnique
<1> QED
  BY <1>1 DEF Replica!StateAt, States

\* The equations of StateAt, and that it looks at the prefix only.
LEMMA StateAtFacts ==
  ASSUME NEW l, NEW i \in Nat
  PROVE  /\ Replica!StateAt(l, 0) = NoCheckpoints
         /\ Replica!StateAt(l, i + 1) = CheckpointStep(Replica!StateAt(l, i), l[i + 1])
         /\ \A m : (\A k \in 1..i : l[k] = m[k]) =>
              Replica!StateAt(m, i) = Replica!StateAt(l, i)
<1>1. PICK f : States(f, l, i + 1)
  BY StatesExist
<1>2. PICK g : States(g, l, i)
  BY StatesExist
<1> DEFINE h == [k \in 0..i |-> f[k]]
<1>3. States(h, l, i)
  <2>1. \A k \in 0..i :
          f[k] = IF k = 0 THEN NoCheckpoints ELSE CheckpointStep(f[k - 1], l[k])
    BY <1>1 DEF States
  <2>2. \A k \in 0..i :
          h[k] = IF k = 0 THEN NoCheckpoints ELSE CheckpointStep(h[k - 1], l[k])
    BY <2>1
  <2> QED
    BY <2>2 DEF States
<1>4. g = h
  BY <1>2, <1>3, StatesUnique
<1>5. f[i + 1] = CheckpointStep(f[i], l[i + 1])
  BY <1>1 DEF States
<1>6. Replica!StateAt(l, i + 1) = f[i + 1] /\ Replica!StateAt(l, i) = f[i]
  BY <1>1, <1>3, StateAtValue
<1>7. Replica!StateAt(l, 0) = NoCheckpoints
  <2> DEFINE z == [k \in 0..0 |-> NoCheckpoints]
  <2>1. States(z, l, 0)
    BY DEF States
  <2> QED
    BY <2>1, StateAtValue
<1>8. ASSUME NEW m, \A k \in 1..i : l[k] = m[k]
      PROVE  Replica!StateAt(m, i) = Replica!StateAt(l, i)
  <2>1. PICK e : States(e, m, i)
    BY StatesExist
  <2>2. e = g
    BY <1>2, <1>8, <2>1, StatesUnique
  <2> QED
    BY <1>2, <2>1, <2>2, StateAtValue
<1> QED
  BY <1>5, <1>6, <1>7, <1>8

\* The part of the FSM that ReplicatedState speaks of.
CheckpointsOf(f) == [checkpoints |-> f.checkpoints, current |-> f.current]

\* The FSM, and the snapshot a boot restores, are the states of prefixes of the log.
ReplicaInv ==
    /\ RecoveryInv
    /\ CheckpointsOf(fsm) = Replica!StateAt(log, applied)
    /\ CheckpointsOf(snapshot.fsm) = Replica!StateAt(log, snapshot.index)

\* applyCheckpoint and applyExecutionReport are the steps of the abstract state.
LEMMA FSMApplyStep ==
  ASSUME NEW f \in FSM, NEW x \in Entry
  PROVE  CheckpointsOf(FSMApply(f, x)) = CheckpointStep(CheckpointsOf(f), x)
<1>1. CASE x.type = "checkpoint"
  <2>1. x.epoch \in Epochs
    BY <1>1, EntryKinds DEF Header
  <2> QED
    BY <1>1, <2>1 DEF FSMApply, CheckpointStep, CheckpointsOf, FSM
<1>2. CASE x.type # "checkpoint"
  BY <1>2 DEF FSMApply, CheckpointStep, CheckpointsOf, FSM
<1> QED
  BY <1>1, <1>2

\* The first start satisfies the invariant, and the abstract specification's Init.
LEMMA InitReplica == Init => ReplicaInv /\ Replica!Init
<1> SUFFICES ASSUME Init PROVE ReplicaInv /\ Replica!Init
  OBVIOUS
<1>1. Replica!StateAt(log, 0) = NoCheckpoints
  BY StateAtFacts
<1>2. CheckpointsOf(NoFSM) = NoCheckpoints
  BY DEF CheckpointsOf, NoFSM, NoCheckpoints
<1> QED
  BY <1>1, <1>2, InitRecovery DEF Init, ReplicaInv, Replica!Init, CheckpointsOf

\* Every step but Commit leaves the log alone.
LEMMA LogKept == [Next]_vars => Commit \/ UNCHANGED log
  BY DEF Next, vars, Apply, TakeSnapshot, OnExecutionReportCommitted, DropCheckpoint,
    OnCheckpointCommitted, SaveCheckpoint, FinishHandler, ClearReports, Boot, PublishRaft,
    LoadLatestEpoch, LoadCheckpoint, Stop, Exit

\* Every step keeps the invariant.
LEMMA NextReplica == ReplicaInv /\ [Next]_vars => ReplicaInv'
<1> SUFFICES ASSUME ReplicaInv, [Next]_vars PROVE ReplicaInv'
  OBVIOUS
<1>1. RecoveryInv /\ RecoveryInv'
  BY NextRecovery DEF ReplicaInv
<1>2. CASE Commit
  <2>1. UNCHANGED <<fsm, applied, snapshot>>
    BY <1>2 DEF Commit
  <2>2. \A i \in 0..Len(log) : Replica!StateAt(log', i) = Replica!StateAt(log, i)
    <3>1. \A i \in 1..Len(log) : log'[i] = log[i]
      BY <1>1, <1>2, CommitLog DEF RecoveryInv
    <3>2. ASSUME NEW i \in 0..Len(log)
          PROVE  Replica!StateAt(log', i) = Replica!StateAt(log, i)
      <4>1. i \in Nat /\ \A k \in 1..i : log[k] = log'[k]
        BY <1>1, <3>1 DEF RecoveryInv, TypeOK
      <4> QED
        BY <4>1, StateAtFacts
    <3> QED
      BY <3>2
  <2>3. applied \in 0..Len(log) /\ snapshot.index \in 0..Len(log)
    BY <1>1 DEF RecoveryInv, TypeOK
  <2> QED
    BY <1>1, <2>1, <2>2, <2>3 DEF ReplicaInv
<1>3. CASE Apply
  <2>1. /\ UNCHANGED <<log, snapshot>> /\ applied' = applied + 1
        /\ fsm' = FSMApply(fsm, log[applied + 1])
    BY <1>3 DEF Apply
  <2>2. applied \in Nat /\ log[applied + 1] \in Entry /\ fsm \in FSM
    BY <1>1, <1>3 DEF Apply, RecoveryInv, TypeOK
  <2>3. CheckpointsOf(fsm') = Replica!StateAt(log, applied + 1)
    BY <2>1, <2>2, FSMApplyStep, StateAtFacts DEF ReplicaInv
  <2> QED
    BY <1>1, <2>1, <2>3 DEF ReplicaInv
<1>4. CASE TakeSnapshot
  BY <1>1, <1>4 DEF TakeSnapshot, SnapshotOf, ReplicaInv
<1>5. ASSUME NEW r \in Reports, ClearReports(r) PROVE ReplicaInv'
  <2>1. CheckpointsOf(fsm') = CheckpointsOf(fsm)
    BY <1>1, <1>5 DEF ClearReports, ClearPending, CheckpointsOf, FSM, RecoveryInv, TypeOK
  <2> QED
    BY <1>1, <1>5, <2>1 DEF ClearReports, ReplicaInv
<1>6. CASE Boot
  BY <1>1, <1>6 DEF Boot, Restore, ReplicaInv
<1>7. CASE Exit
  <2>1. CheckpointsOf(NoFSM) = Replica!StateAt(log, 0)
    BY StateAtFacts DEF CheckpointsOf, NoFSM, NoCheckpoints
  <2> QED
    BY <1>1, <1>7, <2>1 DEF Exit, ReplicaInv
<1>8. CASE UNCHANGED <<log, fsm, applied, snapshot>>
  BY <1>1, <1>8 DEF ReplicaInv
<1> QED
  BY <1>2, <1>3, <1>4, <1>5, <1>6, <1>7, <1>8 DEF Next, vars, OnExecutionReportCommitted,
    DropCheckpoint, OnCheckpointCommitted, SaveCheckpoint, FinishHandler, PublishRaft,
    LoadLatestEpoch, LoadCheckpoint, Stop

\* A step of the node is a step of the replica.
LEMMA StepSimulation ==
  ASSUME ReplicaInv, ReplicaInv', [Next]_vars
  PROVE  Replica!Next
<1>1. CASE Commit
  <2>1. Len(log') = Len(log) + 1 /\ SubSeq(log', 1, Len(log)) = log
    BY <1>1, CommitLog DEF ReplicaInv, RecoveryInv, TypeOK
  <2> QED
    BY <1>1, <2>1 DEF Replica!Next, Replica!Commit, Commit
<1>2. CASE UNCHANGED log
  <2>1. applied' \in 0..Len(log)
    BY <1>2 DEF ReplicaInv, RecoveryInv, TypeOK
  <2>2. CheckpointsOf(fsm') = Replica!StateAt(log, applied')
    BY <1>2 DEF ReplicaInv
  <2> QED
    BY <1>2, <2>1, <2>2 DEF Replica!Next, Replica!Move, CheckpointsOf
<1> QED
  BY <1>1, <1>2, LogKept

\* The checkpoints and the epoch of RaftFSM are those of a prefix of the committed log,
\* through crashes, snapshots and restores: RaftRecovery implements ReplicatedState.
THEOREM ReplicaOfLogHolds == Spec => ReplicaOfLog
<1>1. ReplicaInv /\ ReplicaInv' /\ [Next]_vars =>
        [Replica!Next]_<<log, applied, [checkpoints |-> fsm.checkpoints, current |-> fsm.current]>>
  BY StepSimulation
<1> QED
  BY <1>1, InitReplica, NextReplica, PTL DEF Spec, ReplicaOfLog, Replica!Spec
=============================================================================
