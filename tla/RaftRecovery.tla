------------------------------ MODULE RaftRecovery ------------------------------
(***************************************************************************)
(* How a Raft validator comes back: the FSM with its snapshots             *)
(* (internal/consensus/raft/raft_fsm.go), the order in which NewNode       *)
(* starts Raft, publishes it and loads the stored checkpoint, the three    *)
(* writes of saveCheckpoint, and Stop, which closes the store under        *)
(* handlers that are still running (internal/validator/node.go).           *)
(*                                                                         *)
(* One validator; the committed log and the moment of a snapshot are       *)
(* hashicorp/raft's and external.  The chain manager and what follows a    *)
(* handler are in RaftValidator.                                           *)
(***************************************************************************)
EXTENDS Integers, Sequences, FiniteSets, Functions

CONSTANTS
    Reports,      \* execution reports, each its own report key
    NoHeader,     \* the nil header
    MaxLog,       \* bound: entries committed
    MaxEpoch,     \* bound: highest epoch of a header
    MaxRestarts,  \* bound: times the process starts again
    MaxSnapshots  \* bound: snapshots taken

ASSUME RecoveryAssumption ==
    MaxLog \in Nat /\ MaxEpoch \in Nat /\ MaxRestarts \in Nat /\ MaxSnapshots \in Nat

Epochs == 0..MaxEpoch

\* Log entries.  The id tells apart headers of one epoch.
CheckpointEntry(i, e) == [type |-> "checkpoint", id |-> i, epoch |-> e]
ReportEntry(r) == [type |-> "report", report |-> r]

Header == [type : {"checkpoint"}, id : 1..MaxLog, epoch : Epochs]
Entry == Header \cup [type : {"report"}, report : Reports]

ASSUME NoHeaderAssumption == NoHeader \notin Header

NoFSM == [checkpoints |-> [e \in Epochs |-> NoHeader], current |-> 0, reports |-> {}]
NoNode == [epoch |-> 0, checkpoint |-> NoHeader, sigs |-> {}, reports |-> {}]
NoSave == [step |-> 0, header |-> NoHeader]

VARIABLES
    log,        \* committed entries
    phase,      \* "down", "replaying" (n.raftConsensus still nil), "loading", "up", "stopping"
    fsm,        \* RaftFSM: checkpoints, currentEpoch, pendingReports
    applied,    \* entries the FSM has applied
    snapshot,   \* last snapshot on disk: the FSM and its index
    handlers,   \* entries whose handler goroutine has not run
    save,       \* next Put of the saveCheckpoint in progress: its caller holds n.mu
    pointer,    \* the epoch loadCheckpoint has read, -2 before it has
    node,       \* currentEpoch, currentCheckpoint, signatures, pendingReports
    disk,       \* LevelDB: latest epoch, headers, signatures, execution reports
    cleared,    \* reports RootLayer accepted and the node cleared
    restarts, snapshots

vars == <<log, phase, fsm, applied, snapshot, handlers, save, pointer, node, disk, cleared,
          restarts, snapshots>>

Init ==
    /\ log = <<>> /\ phase = "up" /\ fsm = NoFSM /\ applied = 0
    /\ snapshot = [fsm |-> NoFSM, index |-> 0]
    /\ handlers = {} /\ save = NoSave /\ pointer = -2 /\ node = NoNode
    /\ disk = [latest |-> -1, headers |-> [e \in Epochs |-> NoHeader],
               sigs |-> [e \in Epochs |-> {}], reports |-> {}]
    /\ cleared = {} /\ restarts = 0 /\ snapshots = 0

Running == phase # "down"
Unlocked == save = NoSave

CommittedHeaders == {h \in Range(log) : h.type = "checkpoint"}
ReportsIn(l) == {x.report : x \in {y \in Range(l) : y.type = "report"}}

-----------------------------------------------------------------------------
(***************************************************************************)
(* Raft and the FSM                                                        *)
(***************************************************************************)

\* The cluster commits a report, once, or the header of a leader that may not have
\* handled the headers before it.
Commit ==
    /\ Len(log) < MaxLog
    /\ \/ \E r \in Reports \ ReportsIn(log) : log' = Append(log, ReportEntry(r))
       \/ \E e \in Epochs :
            /\ \A h \in CommittedHeaders : e <= h.epoch + 1
            /\ CommittedHeaders = {} => e = 0
            /\ log' = Append(log, CheckpointEntry(Len(log) + 1, e))
    /\ UNCHANGED <<phase, fsm, applied, snapshot, handlers, save, pointer, node, disk,
                   cleared, restarts, snapshots>>

\* applyCheckpoint and applyExecutionReport.
FSMApply(f, x) ==
    IF x.type = "checkpoint"
    THEN [f EXCEPT !.checkpoints[x.epoch] = x, !.current = x.epoch]
    ELSE [f EXCEPT !.reports = @ \cup {x.report}]

\* Faulty: the handler is registered only once the node is built.
SpawnsOncePublished(i) == IF phase = "replaying" THEN {} ELSE {i}

\* The handler is there from the first entry on.
Spawns(i) == {i}

\* RaftFSM.Apply: the handler runs in a goroutine of its own.
Apply ==
    /\ Running /\ phase # "stopping" /\ applied < Len(log)
    /\ applied' = applied + 1
    /\ fsm' = FSMApply(fsm, log[applied + 1])
    /\ handlers' = handlers \cup Spawns(applied + 1)
    /\ UNCHANGED <<log, phase, snapshot, save, pointer, node, disk, cleared, restarts,
                   snapshots>>

\* Faulty: encodes the checkpoints without the epoch of the latest.
SnapshotOfCheckpoints(f) == [f EXCEPT !.current = 0]

\* RaftFSM.Snapshot, and what Persist writes.
SnapshotOf(f) == f

\* RaftFSM.Restore: no handler is called.
Restore(s) == s.fsm

\* RaftFSM.ClearPending
ClearPending(f, r) == [f EXCEPT !.reports = @ \ {r}]

TakeSnapshot ==
    /\ Running /\ phase # "stopping" /\ applied > snapshot.index
    /\ snapshots < MaxSnapshots /\ snapshots' = snapshots + 1
    /\ snapshot' = [fsm |-> SnapshotOf(fsm), index |-> applied]
    /\ UNCHANGED <<log, phase, fsm, applied, handlers, save, pointer, node, disk, cleared,
                   restarts>>

-----------------------------------------------------------------------------
(***************************************************************************)
(* The handlers                                                            *)
(***************************************************************************)

\* OnExecutionReportCommitted.
OnExecutionReportCommitted(i) ==
    /\ Running /\ Unlocked /\ i \in handlers /\ log[i].type = "report"
    /\ handlers' = handlers \ {i}
    /\ LET r == log[i].report
       IN  IF r \in node.reports
           THEN UNCHANGED <<node, disk>>
           ELSE /\ node' = [node EXCEPT !.reports = @ \cup {r}]
                /\ disk' = IF phase = "stopping" THEN disk
                           ELSE [disk EXCEPT !.reports = @ \cup {r}]
    /\ UNCHANGED <<log, phase, fsm, applied, snapshot, save, pointer, cleared, restarts,
                   snapshots>>

\* OnCheckpointCommitted before NewNode has set n.raftConsensus.
DropCheckpoint(i) ==
    /\ phase = "replaying" /\ i \in handlers /\ log[i].type = "checkpoint"
    /\ handlers' = handlers \ {i}
    /\ UNCHANGED <<log, phase, fsm, applied, snapshot, save, pointer, node, disk, cleared,
                   restarts, snapshots>>

\* handleCommittedCheckpoint takes n.mu.
OnCheckpointCommitted(i) ==
    /\ Running /\ phase # "replaying" /\ Unlocked
    /\ i \in handlers /\ log[i].type = "checkpoint"
    /\ handlers' = handlers \ {i}
    /\ save' = [step |-> 1, header |-> log[i]]
    /\ UNCHANGED <<log, phase, fsm, applied, snapshot, pointer, node, disk, cleared,
                   restarts, snapshots>>

\* Faulty: points at the header before it is written.
PutsPointerFirst == <<"latest", "header", "signatures">>

\* The three Puts of saveCheckpoint.
Puts == <<"header", "signatures", "latest">>

\* What a Put of saveCheckpoint writes; without signatures the second is skipped.
Written(put, h) ==
    CASE put = "header" -> [disk EXCEPT !.headers[h.epoch] = h]
      [] put = "signatures" -> IF node.sigs = {} THEN disk
                               ELSE [disk EXCEPT !.sigs[h.epoch] = node.sigs]
      [] put = "latest" -> [disk EXCEPT !.latest = h.epoch]

\* Faulty: gives up with n.mu held.
AfterFailedPutStuck == Len(Puts) + 2

\* saveCheckpoint returns an error, which its caller only logs.
AfterFailedPut == Len(Puts) + 1

\* A Put succeeds, or fails (always once Stop has closed the store).
SaveCheckpoint ==
    /\ Running /\ save.step \in DOMAIN Puts
    /\ \/ /\ phase # "stopping"
          /\ disk' = Written(Puts[save.step], save.header)
          /\ save' = [save EXCEPT !.step = @ + 1]
       \/ save' = [save EXCEPT !.step = AfterFailedPut] /\ UNCHANGED disk
    /\ UNCHANGED <<log, phase, fsm, applied, snapshot, handlers, pointer, node, cleared,
                   restarts, snapshots>>

\* The rest of handleCommittedCheckpoint under n.mu.  Gossip is on, so the
\* signatures start again with the node's own.
FinishHandler ==
    /\ Running /\ save.step = Len(Puts) + 1
    /\ save' = NoSave
    /\ node' = [node EXCEPT !.checkpoint = save.header, !.sigs = {save.header.id},
                            !.epoch = IF save.header.epoch >= @ THEN save.header.epoch + 1 ELSE @]
    /\ UNCHANGED <<log, phase, fsm, applied, snapshot, handlers, pointer, disk, cleared,
                   restarts, snapshots>>

\* clearReportsForIntent after RootLayer accepted the report.
ClearReports(r) ==
    /\ phase = "up" /\ Unlocked /\ r \in node.reports
    /\ node' = [node EXCEPT !.reports = @ \ {r}]
    /\ fsm' = ClearPending(fsm, r)
    /\ cleared' = cleared \cup {r}
    /\ UNCHANGED <<log, phase, applied, snapshot, handlers, save, pointer, disk, restarts,
                   snapshots>>

-----------------------------------------------------------------------------
(***************************************************************************)
(* The life of the process                                                 *)
(***************************************************************************)

\* NewNode up to NewRaftConsensus: Raft restores the snapshot, without calling a
\* handler, and goes on applying what follows it in the log.
Boot ==
    /\ phase = "down" /\ restarts < MaxRestarts
    /\ restarts' = restarts + 1
    /\ phase' = "replaying"
    /\ fsm' = Restore(snapshot) /\ applied' = snapshot.index
    /\ UNCHANGED <<log, snapshot, handlers, save, pointer, node, disk, cleared, snapshots>>

\* node.raftConsensus = raftConsensus; then NewNode joins the gossip seeds.
PublishRaft ==
    /\ phase = "replaying"
    /\ phase' = "loading"
    /\ UNCHANGED <<log, fsm, applied, snapshot, handlers, save, pointer, node, disk, cleared,
                   restarts, snapshots>>

\* loadCheckpoint does not take n.mu: handlers go on between its reads.
LoadLatestEpoch ==
    /\ phase = "loading" /\ pointer = -2
    /\ pointer' = disk.latest
    /\ UNCHANGED <<log, phase, fsm, applied, snapshot, handlers, save, node, disk, cleared,
                   restarts, snapshots>>

LoadCheckpoint ==
    /\ phase = "loading" /\ pointer # -2
    /\ phase' = "up" /\ pointer' = -2
    /\ node' = IF pointer = -1 THEN [node EXCEPT !.epoch = 0]
               ELSE [node EXCEPT !.epoch = pointer + 1, !.checkpoint = disk.headers[pointer],
                       !.sigs = IF disk.sigs[pointer] = {} THEN @ ELSE disk.sigs[pointer]]
    /\ UNCHANGED <<log, fsm, applied, snapshot, handlers, save, disk, cleared, restarts,
                   snapshots>>

\* Stop shuts Raft down and closes the store; handlers may still run.
Stop ==
    /\ phase = "up"
    /\ phase' = "stopping"
    /\ UNCHANGED <<log, fsm, applied, snapshot, handlers, save, pointer, node, disk, cleared,
                   restarts, snapshots>>

\* The process ends, after Stop or in the middle of anything.
Exit ==
    /\ Running
    /\ phase' = "down" /\ fsm' = NoFSM /\ applied' = 0
    /\ handlers' = {} /\ save' = NoSave /\ pointer' = -2 /\ node' = NoNode
    /\ UNCHANGED <<log, snapshot, disk, cleared, restarts, snapshots>>

Next ==
    \/ Commit \/ Apply \/ TakeSnapshot
    \/ \E i \in handlers :
         OnExecutionReportCommitted(i) \/ DropCheckpoint(i) \/ OnCheckpointCommitted(i)
    \/ SaveCheckpoint \/ FinishHandler
    \/ \E r \in Reports : ClearReports(r)
    \/ Boot \/ PublishRaft \/ LoadLatestEpoch \/ LoadCheckpoint \/ Stop \/ Exit

\* The handlers and the boot sequence run on; crashes, snapshots and RootLayer's
\* answers are not promised.
Fairness ==
    /\ WF_vars(Apply) /\ WF_vars(SaveCheckpoint) /\ WF_vars(FinishHandler)
    /\ WF_vars(PublishRaft) /\ WF_vars(LoadLatestEpoch) /\ WF_vars(LoadCheckpoint)
    /\ \A i \in 1..MaxLog :
         WF_vars(i \in handlers /\ (OnExecutionReportCommitted(i) \/ DropCheckpoint(i)
                                    \/ OnCheckpointCommitted(i)))

Spec == Init /\ [][Next]_vars /\ Fairness

-----------------------------------------------------------------------------
\* The checkpoints and the epoch that LatestCheckpoint serves are those of a prefix
\* of the committed log, also after a snapshot was restored in the place of its
\* entries.
NoCheckpoints == [checkpoints |-> NoFSM.checkpoints, current |-> 0]
CheckpointStep(f, x) ==
    IF x.type = "checkpoint"
    THEN [checkpoints |-> [f.checkpoints EXCEPT ![x.epoch] = x], current |-> x.epoch]
    ELSE f

Replica == INSTANCE ReplicatedState WITH
             Start <- NoCheckpoints, Step <- CheckpointStep,
             state <- [checkpoints |-> fsm.checkpoints, current |-> fsm.current]

ReplicaOfLog == Replica!Spec

\* Whatever Put failed or was cut off by a crash, and however headers of one epoch
\* and handlers out of order overwrite each other, loadCheckpoint finds the header
\* that the latest epoch names, and a committed one.
LoadFindsHeader ==
    /\ disk.latest # -1 => disk.headers[disk.latest] # NoHeader
    /\ \A e \in Epochs : disk.headers[e] # NoHeader =>
         disk.headers[e].epoch = e /\ disk.headers[e] \in CommittedHeaders

CaughtUp ==
    phase \in {"up", "stopping"} /\ applied = Len(log) /\ handlers = {} /\ Unlocked

\* A node that has applied the whole log from its first entry, however often it was
\* restarted, holds every committed report that RootLayer has not accepted.
ReportsReplayed ==
    CaughtUp /\ snapshot.index = 0 => ReportsIn(log) \ cleared \subseteq node.reports

\* A process that stays up gets out of every boot and works off its handlers.
BootCompletes ==
    []<>(phase \in {"down", "stopping"} \/ CaughtUp)
=============================================================================
