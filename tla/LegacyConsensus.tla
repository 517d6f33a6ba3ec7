---------------------------- MODULE LegacyConsensus ----------------------------
(***************************************************************************)
(* The rotating-leader consensus that a validator node without a consensus *)
(* engine runs: internal/consensus/state_machine.go, leader_tracker.go,    *)
(* leader.go and the engine-less branches of internal/validator/node.go    *)
(* and handlers.go.  Node.Start refuses to start such a node today; the    *)
(* handlers are still reached over gRPC (ProposeHeader, SubmitSignature).  *)
(*                                                                         *)
(* The loop goroutine (one tick per second) and the handler goroutines     *)
(* share n.mu; an action is one critical section.  The loop decides in one *)
(* section and acts in the next: loop[n] is what it has decided.  The      *)
(* transport, removed from the code, is external: any proposed header,     *)
(* signature or finalized header may reach any node, late or repeatedly.   *)
(* SubmitSignature's client chooses the encoding of the signature it       *)
(* passes on: as the node made it, or DER.                                 *)
(***************************************************************************)
EXTENDS ValidatorSet

CONSTANTS
    NoHeader,            \* the nil header
    MaxEpoch,            \* bound: highest epoch entered
    MaxProposals         \* bound: headers ever built

\* A validator is its index in the sorted validator set.
ASSUME RotationAssumption == Validators = 0..(Cardinality(Validators) - 1)

ASSUME LegacyAssumption ==
    MaxEpoch \in Nat /\ MaxProposals \in Nat

\* SelectLeader
Leader(e) == e % Cardinality(Validators)

-----------------------------------------------------------------------------
(***************************************************************************)
(* StateMachine                                                            *)
(***************************************************************************)

\* Reset, and NewStateMachine.
Idle == [state |-> "idle", header |-> NoHeader, sigs |-> {}]

\* ProposeHeader, followed at once by the node's own signature.
Proposed(h, own) == [state |-> "collecting", header |-> h, sigs |-> {own}]

\* StateMachine.AddSignature while collecting: one signature per signer.
Collected(m, s) == [m EXCEPT !.sigs = {t \in @ : t.signer # s.signer} \cup {s}]

\* IsTimedOut: only a collection has a deadline, and it may have passed at any time.
MayTimeOut(m) == m.state = "collecting"

\* Finalize is an error, which its caller only logs, unless collecting.
Finalized(m) == IF m.state = "collecting" THEN [m EXCEPT !.state = "finalized"] ELSE m

-----------------------------------------------------------------------------

\* signCheckpoint: ECDSASigner.Sign returns R, S and V in 65 bytes.
Sig(v, h) == [signer |-> v, header |-> h, form |-> "rsv"]
Encodings(s) == {s, [s EXCEPT !.form = "der"]}
SignersOf(sigs) == {s.signer : s \in sigs}

VARIABLES
    status,       \* "up" or "panicked"
    loop,         \* the decision of consensusLoop not yet carried out, "none" if none
    built,        \* header built by proposeCheckpoint before it takes the lock
    epoch,        \* currentEpoch
    fsm,          \* StateMachine: state, current header, signatures
    checkpoint,   \* currentCheckpoint
    sigs,         \* Node.signatures
    pending,      \* whether pendingReports holds a report
    chain,        \* chain.latest with the signers in it
    isLeader,
    beat,         \* LeaderTracker: epoch whose leader has been active, -1 if none
    catching,     \* nodes where HandleFinalized has given up the lock to submit
    proposals,    \* headers built so far
    network,      \* headers proposed, signatures made and headers finalized
    evidence      \* saved double sign evidence: who, in which epoch

vars == <<status, loop, built, epoch, fsm, checkpoint, sigs, pending, chain, isLeader,
          beat, catching, proposals, network, evidence>>

Up(n) == status[n] = "up"

Init ==
    /\ status = [n \in Validators |-> "up"]
    /\ loop = [n \in Validators |-> "none"]
    /\ built = [n \in Validators |-> NoHeader]
    /\ epoch = [n \in Validators |-> 0]
    /\ fsm = [n \in Validators |-> Idle]
    /\ checkpoint = [n \in Validators |-> NoHeader]
    /\ sigs = [n \in Validators |-> {}]
    /\ pending = [n \in Validators |-> FALSE]
    /\ chain = [n \in Validators |-> NoHeader]
    /\ isLeader = [n \in Validators |-> n = Leader(0)]
    /\ beat = [n \in Validators |-> -1]
    /\ catching = {}
    /\ proposals = 0
    /\ network = [headers |-> {}, signatures |-> {}, finalized |-> {}]
    /\ evidence = {}

-----------------------------------------------------------------------------
\* LeaderTracker.Leader: looking at another epoch forgets the last heartbeat.
BeatAfterLookup(b, e) == IF b = e THEN b ELSE -1

\* Faulty: compares parents only.
ChainAcceptsAnyEpoch(latest, h) ==
    latest # NoHeader => h.parent \in {NoHeader, latest}

\* Chain.AddCheckpoint.  The hash of the parent covers its signatures.
ChainAccepts(latest, h) ==
    latest # NoHeader =>
      h.epoch > latest.header.epoch /\ h.parent \in {NoHeader, latest}

Chained(latest, h, S) ==
    [header |-> IF latest = NoHeader \/ h.parent # NoHeader THEN h
                ELSE [h EXCEPT !.parent = latest],
     signers |-> S]

\* processing of a report on a node without an engine.
ProcessExecutionReport(n) ==
    /\ Up(n) /\ ~pending[n]
    /\ pending' = [pending EXCEPT ![n] = TRUE]
    /\ UNCHANGED <<status, loop, built, epoch, fsm, checkpoint, sigs, chain, isLeader,
                   beat, catching, proposals, network, evidence>>

-----------------------------------------------------------------------------
(***************************************************************************)
(* The loop: checkConsensusState and checkCheckpointTrigger                *)
(***************************************************************************)

HasThreshold(n) == CheckThreshold(Cardinality(fsm[n].sigs))

\* The first critical section of checkConsensusState while collecting.  The
\* collection may have timed out at any time; the leader counts as failed only
\* if a heartbeat of this epoch was recorded.
CheckCollecting(n) ==
    /\ Up(n) /\ loop[n] = "none" /\ built[n] = NoHeader /\ fsm[n].state = "collecting"
    /\ LET seen == BeatAfterLookup(beat[n], epoch[n])
       IN  \/ /\ HasThreshold(n)
              /\ loop' = [loop EXCEPT ![n] = "finalize"]
              /\ beat' = [beat EXCEPT ![n] = epoch[n]]
           \/ /\ ~HasThreshold(n) /\ seen = epoch[n]
              /\ loop' = [loop EXCEPT ![n] = "failover"]
              /\ UNCHANGED beat
           \/ /\ ~HasThreshold(n) /\ n = Leader(epoch[n]) /\ MayTimeOut(fsm[n])
              /\ loop' = [loop EXCEPT ![n] = "retry"]
              /\ beat' = [beat EXCEPT ![n] = seen]
    /\ UNCHANGED <<status, built, epoch, fsm, checkpoint, sigs, pending, chain, isLeader,
                   catching, proposals, network, evidence>>

\* Faulty: forgets who leads the epoch it moves to.
EnterEpochStale(n, e) ==
    /\ epoch' = [epoch EXCEPT ![n] = e]
    /\ isLeader' = isLeader

\* Every way into a new epoch recomputes leadership.
EnterEpoch(n, e) ==
    /\ epoch' = [epoch EXCEPT ![n] = e]
    /\ isLeader' = [isLeader EXCEPT ![n] = (n = Leader(e))]

\* "Leader timeout detected, forcing epoch rotation": reports are abandoned.
Failover(n) ==
    /\ Up(n) /\ loop[n] = "failover" /\ epoch[n] < MaxEpoch
    /\ loop' = [loop EXCEPT ![n] = "none"]
    /\ EnterEpoch(n, epoch[n] + 1)
    /\ fsm' = [fsm EXCEPT ![n] = Idle]
    /\ sigs' = [sigs EXCEPT ![n] = {}]
    /\ pending' = [pending EXCEPT ![n] = FALSE]
    /\ beat' = [beat EXCEPT ![n] = -1]
    /\ UNCHANGED <<status, built, checkpoint, chain, catching, proposals, network, evidence>>

\* "Signature collection timeout, leader will retry": the state machine is reset,
\* Node.signatures is not.
Retry(n) ==
    /\ Up(n) /\ loop[n] = "retry"
    /\ loop' = [loop EXCEPT ![n] = "none"]
    /\ fsm' = [fsm EXCEPT ![n] = Idle]
    /\ UNCHANGED <<status, built, epoch, checkpoint, sigs, pending, chain, isLeader, beat,
                   catching, proposals, network, evidence>>

\* finalizeCheckpoint.  The threshold is not tested again.  When the chain refuses
\* the header nothing changes and the next tick tries once more.  The leader
\* submits if the RootLayer client is connected, and panics there: the batch is
\* built from ValidationBundle signatures, which a node without engine has not.
FinalizeCheckpoint(n) ==
    /\ Up(n) /\ loop[n] = "finalize"
    /\ loop' = [loop EXCEPT ![n] = "none"]
    /\ LET h == fsm[n].header
           f == Chained(chain[n], h, SignersOf(sigs[n]))
       IN  \/ /\ h # NoHeader => ~ChainAccepts(chain[n], h)
              /\ UNCHANGED <<status, fsm, checkpoint, chain, beat, network>>
           \/ /\ h # NoHeader /\ ChainAccepts(chain[n], h)
              /\ chain' = [chain EXCEPT ![n] = f]
              /\ checkpoint' = IF fsm[n].state = "collecting"
                               THEN [checkpoint EXCEPT ![n] = f.header] ELSE checkpoint
              /\ fsm' = [fsm EXCEPT ![n] = Finalized(@)]
              /\ network' = [network EXCEPT !.finalized = @ \cup
                               {[header |-> f.header, signers |-> f.signers]}]
              /\ beat' = [beat EXCEPT ![n] = BeatAfterLookup(@, epoch[n])]
              /\ \/ UNCHANGED status
                 \/ /\ n = Leader(epoch[n]) /\ pending[n] /\ fsm[n].state = "collecting"
                    /\ status' = [status EXCEPT ![n] = "panicked"]
    /\ UNCHANGED <<built, epoch, sigs, pending, isLeader, catching, proposals, evidence>>

\* checkConsensusState in state finalized: on to the next epoch.
LeaveFinalized(n) ==
    /\ Up(n) /\ loop[n] = "none" /\ built[n] = NoHeader
    /\ fsm[n].state = "finalized" /\ epoch[n] < MaxEpoch
    /\ EnterEpoch(n, epoch[n] + 1)
    /\ fsm' = [fsm EXCEPT ![n] = Idle]
    /\ sigs' = [sigs EXCEPT ![n] = {}]
    /\ checkpoint' = [checkpoint EXCEPT ![n] = NoHeader]
    /\ beat' = [beat EXCEPT ![n] = -1]
    /\ UNCHANGED <<status, loop, built, pending, chain, catching, proposals, network, evidence>>

\* checkCheckpointTrigger, then buildCheckpointHeader without the lock.
BuildCheckpoint(n) ==
    /\ Up(n) /\ loop[n] = "none" /\ built[n] = NoHeader
    /\ isLeader[n] /\ fsm[n].state = "idle" /\ pending[n]
    /\ proposals < MaxProposals
    /\ built' = [built EXCEPT ![n] =
                   [id |-> proposals + 1, epoch |-> epoch[n], parent |-> chain[n]]]
    /\ proposals' = proposals + 1
    /\ UNCHANGED <<status, loop, epoch, fsm, checkpoint, sigs, pending, chain, isLeader,
                   beat, catching, network, evidence>>

\* The collection a state machine starts for header h with n's own signature.
Collecting(n, h) == Proposed(h, Sig(n, h))

\* n.signatures[n.id] = sig
OwnSignatureLast(n, S, h) == {s \in S : s.signer # n} \cup {Sig(n, h)}

\* The rest of proposeCheckpoint.
ProposeCheckpoint(n) ==
    /\ Up(n) /\ built[n] # NoHeader
    /\ built' = [built EXCEPT ![n] = NoHeader]
    /\ \/ fsm[n].state # "idle" /\ UNCHANGED <<fsm, sigs, checkpoint, beat, network>>
       \/ /\ fsm[n].state = "idle"
          /\ fsm' = [fsm EXCEPT ![n] = Collecting(n, built[n])]
          /\ sigs' = [sigs EXCEPT ![n] = OwnSignatureLast(n, @, built[n])]
          /\ checkpoint' = [checkpoint EXCEPT ![n] = built[n]]
          /\ beat' = [beat EXCEPT ![n] = built[n].epoch]
          /\ network' = [network EXCEPT !.headers = @ \cup {built[n]},
                                        !.signatures = @ \cup {Sig(n, built[n])}]
    /\ UNCHANGED <<status, loop, epoch, pending, chain, isLeader, catching, proposals, evidence>>

-----------------------------------------------------------------------------
(***************************************************************************)
(* The handlers                                                            *)
(***************************************************************************)

\* validateProposal: not below the current checkpoint, at most one epoch ahead.
ValidProposal(n, h) ==
    /\ checkpoint[n] # NoHeader => h.epoch >= checkpoint[n].epoch
    /\ h.epoch <= epoch[n] + 1

\* HandleProposal of a header that is accepted: the leader of its epoch only when
\* idle; a follower drops the round it is in.
HandleProposal(n, h) ==
    /\ Up(n) /\ h \in network.headers
    /\ n = Leader(h.epoch) => fsm[n].state = "idle"
    /\ ValidProposal(n, h)
    /\ fsm' = [fsm EXCEPT ![n] = Collecting(n, h)]
    /\ sigs' = [sigs EXCEPT ![n] =
                  OwnSignatureLast(n, IF fsm[n].state = "idle" THEN @ ELSE {}, h)]
    /\ checkpoint' = [checkpoint EXCEPT ![n] = h]
    /\ beat' = [beat EXCEPT ![n] = BeatAfterLookup(@, h.epoch)]
    /\ network' = [network EXCEPT !.signatures = @ \cup {Sig(n, h)}]
    /\ UNCHANGED <<status, loop, built, epoch, pending, chain, isLeader, catching,
                   proposals, evidence>>

\* Faulty: takes the word of a signer for what it has signed.
VerifiesUnchecked(n, s) == checkpoint[n] # NoHeader /\ s.form = "der"

\* verifySignature: a DER signature (VerifyASN1) of the current checkpoint.
Verifies(n, s) ==
    checkpoint[n] # NoHeader /\ s.header = checkpoint[n] /\ s.form = "der"

\* AddSignature: a second signature of a signer with other bytes is a double sign;
\* the first one counts if the state machine is collecting.
AddSignature(n, s) ==
    /\ Up(n) /\ Verifies(n, s)
    /\ LET held == {t \in sigs[n] : t.signer = s.signer}
       IN  \/ /\ held # {} /\ s \notin held
              /\ evidence' = evidence \cup {[signer |-> s.signer, epoch |-> checkpoint[n].epoch]}
              /\ UNCHANGED <<fsm, sigs>>
           \/ /\ held = {} /\ fsm[n].state = "collecting"
              /\ fsm' = [fsm EXCEPT ![n] = Collected(@, s)]
              /\ sigs' = [sigs EXCEPT ![n] = @ \cup {s}]
              /\ UNCHANGED evidence
    /\ UNCHANGED <<status, loop, built, epoch, checkpoint, pending, chain, isLeader, beat,
                   catching, proposals, network>>

\* What HandleFinalized leaves behind once it has moved to epoch e.
CaughtUp(n, e) ==
    /\ EnterEpoch(n, e)
    /\ fsm' = [fsm EXCEPT ![n] = Idle]
    /\ sigs' = [sigs EXCEPT ![n] = {}]
    /\ pending' = [pending EXCEPT ![n] = FALSE]
    /\ beat' = [beat EXCEPT ![n] = -1]

StoreFinalized(n, f) ==
    /\ checkpoint' = [checkpoint EXCEPT ![n] = f.header]
    /\ chain' = IF ChainAccepts(chain[n], f.header)
                THEN [chain EXCEPT ![n] = Chained(chain[n], f.header, f.signers)]
                ELSE chain

\* HandleFinalized for a header of a later epoch, or of the epoch being collected.
HandleFinalized(n, f) ==
    /\ Up(n) /\ f \in network.finalized
    /\ f.header.epoch < MaxEpoch
    /\ \/ f.header.epoch > epoch[n]
       \/ /\ f.header.epoch = epoch[n] /\ fsm[n].state # "idle"
          /\ ~(n = Leader(epoch[n]) /\ pending[n] /\ fsm[n].state # "finalized")
    /\ StoreFinalized(n, f)
    /\ CaughtUp(n, f.header.epoch + 1)
    /\ UNCHANGED <<status, loop, built, catching, proposals, network, evidence>>

\* A leader that has not finalized the epoch itself gives up the lock to submit.  One
\* such handler at a time is modelled; other handlers and the loop go on.
HandleFinalizedSubmits(n, f) ==
    /\ Up(n) /\ f \in network.finalized /\ n \notin catching
    /\ f.header.epoch = epoch[n] /\ n = Leader(epoch[n]) /\ pending[n]
    /\ fsm[n].state = "collecting"
    /\ StoreFinalized(n, f)
    /\ catching' = catching \cup {n}
    /\ beat' = [beat EXCEPT ![n] = BeatAfterLookup(@, f.header.epoch)]
    /\ UNCHANGED <<status, loop, built, epoch, fsm, sigs, pending, isLeader, proposals,
                   network, evidence>>

\* The submission panics, or is skipped without a connection; then the rest of
\* HandleFinalized, whatever the loop has done meanwhile.
HandleFinalizedResumes(n) ==
    /\ Up(n) /\ n \in catching
    /\ catching' = catching \ {n}
    /\ \/ /\ status' = [status EXCEPT ![n] = "panicked"]
          /\ UNCHANGED <<epoch, isLeader, fsm, sigs, pending, beat>>
       \/ /\ epoch[n] < MaxEpoch
          /\ CaughtUp(n, epoch[n] + 1)
          /\ UNCHANGED status
    /\ UNCHANGED <<loop, built, checkpoint, chain, proposals, network, evidence>>

-----------------------------------------------------------------------------
Next ==
    \E n \in Validators :
      \/ ProcessExecutionReport(n)
      \/ CheckCollecting(n) \/ Failover(n) \/ Retry(n) \/ FinalizeCheckpoint(n)
      \/ LeaveFinalized(n) \/ BuildCheckpoint(n) \/ ProposeCheckpoint(n)
      \/ \E h \in network.headers : HandleProposal(n, h)
      \/ \E made \in network.signatures : \E s \in Encodings(made) : AddSignature(n, s)
      \/ \E f \in network.finalized : HandleFinalized(n, f) \/ HandleFinalizedSubmits(n, f)
      \/ HandleFinalizedResumes(n)

Spec == Init /\ [][Next]_vars

-----------------------------------------------------------------------------
\* The cached isLeader flag, which alone lets a node propose, is right for the
\* epoch the node is in, on every way into it: finalization, failover, catching
\* up, and catching up while the loop moves on.
LeadershipIsCurrent == \A n \in Validators : isLeader[n] = (n = Leader(epoch[n]))

\* The signatures the threshold counts are of one header, one for each signer:
\* the header being collected, whichever rounds were retried, dropped for another
\* proposal or overtaken by a finalized header meanwhile.  (While HandleFinalized
\* has given up the lock, signatures are verified against the finalized header.)
CollectedForOneHeader ==
    \A n \in Validators :
      Up(n) /\ fsm[n].state = "collecting" =>
        /\ Sig(n, fsm[n].header) \in fsm[n].sigs
        /\ n \notin catching => \A s \in fsm[n].sigs : s.header = fsm[n].header

\* Who proposes and what is counted belong together, on every way into an epoch: the node
\* that takes itself for the leader is the epoch's (LeadershipIsCurrent), and the
\* signatures it counts are of the one header it collects for (CollectedForOneHeader).
RotationInv == LeadershipIsCurrent /\ CollectedForOneHeader

\* A node never re-enters an epoch, and its chain never goes back.
NeverGoesBack ==
    [][\A n \in Validators :
         /\ epoch'[n] >= epoch[n]
         /\ chain'[n] # chain[n] /\ chain[n] # NoHeader =>
              chain'[n].header.epoch > chain[n].header.epoch]_vars
=============================================================================
