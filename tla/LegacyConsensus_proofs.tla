------------------------- MODULE LegacyConsensus_proofs -------------------------
(***************************************************************************)
(* Proofs about LegacyConsensus, for any number of validators, epochs and  *)
(* headers: who leads, what a collection counts, and that neither a node's *)
(* epoch nor its chain goes back.                                          *)
(***************************************************************************)
EXTENDS LegacyConsensus, FiniteSetTheorems, TLAPS

-----------------------------------------------------------------------------
\* A header; the parent, which holds headers in turn, stays untyped.
IsHeader(h) ==
    /\ h = [id |-> h.id, epoch |-> h.epoch, parent |-> h.parent]
    /\ h.epoch \in 0..MaxEpoch

\* A function on the validators.
OnValidators(f) == f = [n \in Validators |-> f[n]]

\* The types the steps rely on.
Shape ==
    /\ epoch \in [Validators -> 0..MaxEpoch]
    /\ isLeader \in [Validators -> BOOLEAN]
    /\ status \in [Validators -> {"up", "panicked"}]
    /\ OnValidators(fsm) /\ OnValidators(checkpoint) /\ OnValidators(sigs)
    /\ OnValidators(chain) /\ OnValidators(built)
    /\ \A n \in Validators :
         /\ fsm[n] = [state |-> fsm[n].state, header |-> fsm[n].header, sigs |-> fsm[n].sigs]
         /\ fsm[n].header # NoHeader => IsHeader(fsm[n].header)
         /\ built[n] # NoHeader => IsHeader(built[n])
    /\ network = [headers |-> network.headers, signatures |-> network.signatures,
                  finalized |-> network.finalized]
    /\ \A h \in network.headers : IsHeader(h)
    /\ \A f \in network.finalized : IsHeader(f.header)

\* A node that collects has signed the header itself, in both of its collections, and
\* verifies signatures against that header unless HandleFinalized has replaced it.
Collects(n) ==
    Up(n) /\ fsm[n].state = "collecting" =>
      /\ Sig(n, fsm[n].header) \in fsm[n].sigs
      /\ \E s \in sigs[n] : s.signer = n
      /\ n \notin catching =>
           /\ checkpoint[n] = fsm[n].header
           /\ \A s \in fsm[n].sigs : s.header = fsm[n].header

LegacyInv == Shape /\ LeadershipIsCurrent /\ \A n \in Validators : Collects(n)

-----------------------------------------------------------------------------
\* The leader of an epoch is a validator.
LEMMA LeaderIsValidator == \A e \in Nat : Leader(e) \in Validators
<1>1. Cardinality(Validators) \in Nat /\ Cardinality(Validators) # 0
  BY ValidatorsAssumption, FS_CardinalityType, FS_EmptySet
<1>2. \A e \in Nat : e % Cardinality(Validators) \in 0..(Cardinality(Validators) - 1)
  BY <1>1
<1> QED
  BY <1>2, RotationAssumption DEF Leader

\* Chain.AddCheckpoint changes the parent of a header at most, and only appends a
\* header of a later epoch.
LEMMA ChainedFacts ==
  ASSUME NEW latest, NEW h, NEW S, IsHeader(h)
  PROVE  /\ IsHeader(Chained(latest, h, S).header)
         /\ Chained(latest, h, S).header.epoch = h.epoch
         /\ latest # NoHeader /\ ChainAccepts(latest, h) =>
              Chained(latest, h, S).header.epoch > latest.header.epoch
  BY DEF IsHeader, Chained, ChainAccepts

\* A node entering an epoch knows who leads it.
LEMMA EnterEpochLeader ==
  ASSUME Shape, LeadershipIsCurrent, NEW n \in Validators, NEW e \in 0..MaxEpoch,
         EnterEpoch(n, e)
  PROVE  /\ epoch' \in [Validators -> 0..MaxEpoch]
         /\ isLeader' \in [Validators -> BOOLEAN]
         /\ LeadershipIsCurrent'
         /\ \A m \in Validators : epoch'[m] = IF m = n THEN e ELSE epoch[m]
<1>1. /\ epoch \in [Validators -> 0..MaxEpoch] /\ epoch' = [epoch EXCEPT ![n] = e]
      /\ isLeader \in [Validators -> BOOLEAN]
      /\ isLeader' = [isLeader EXCEPT ![n] = (n = Leader(e))]
  BY DEF Shape, EnterEpoch
<1>2. epoch' \in [Validators -> 0..MaxEpoch] /\ isLeader' \in [Validators -> BOOLEAN]
  BY <1>1
<1>3. \A m \in Validators : epoch'[m] = IF m = n THEN e ELSE epoch[m]
  BY <1>1
<1>4. ASSUME NEW m \in Validators PROVE isLeader'[m] = (m = Leader(epoch'[m]))
  <2>1. CASE m = n
    BY <1>1, <1>3, <2>1
  <2>2. CASE m # n
    BY <1>1, <1>3, <2>2 DEF LeadershipIsCurrent
  <2> QED
    BY <2>1, <2>2
<1>5. LeadershipIsCurrent'
  BY <1>4 DEF LeadershipIsCurrent
<1> QED
  BY <1>2, <1>3, <1>5

-----------------------------------------------------------------------------
(***************************************************************************)
(* Steps                                                                   *)
(***************************************************************************)

\* What a step does: it keeps the invariant, and neither an epoch nor a chain goes back.
Advances ==
    \A n \in Validators :
      /\ epoch'[n] >= epoch[n]
      /\ chain'[n] # chain[n] /\ chain[n] # NoHeader =>
           chain'[n].header.epoch > chain[n].header.epoch

Good == LegacyInv' /\ Advances

\* A node none of whose variables change goes on as before.
LEMMA OthersCollect ==
  ASSUME LegacyInv, NEW n \in Validators, Collects(n)',
         \A m \in Validators \ {n} :
           /\ fsm'[m] = fsm[m] /\ sigs'[m] = sigs[m] /\ checkpoint'[m] = checkpoint[m]
           /\ status'[m] = status[m] /\ (m \in catching' <=> m \in catching)
  PROVE  \A m \in Validators : Collects(m)'
<1> SUFFICES ASSUME NEW m \in Validators, m # n PROVE Collects(m)'
  OBVIOUS
<1>1. Collects(m)
  BY DEF LegacyInv
<1> QED
  BY <1>1 DEF Collects, Up

\* A step that stays in its epoch leaves leadership and epochs alone.
LEMMA SameEpoch ==
  ASSUME LegacyInv, UNCHANGED <<epoch, isLeader>>
  PROVE  /\ epoch' \in [Validators -> 0..MaxEpoch] /\ isLeader' \in [Validators -> BOOLEAN]
         /\ LeadershipIsCurrent'
         /\ \A n \in Validators : epoch'[n] >= epoch[n]
  BY LegacyAssumption DEF LegacyInv, Shape, LeadershipIsCurrent

\* Steps of the loop that decide, and reports: nothing the invariant speaks of changes
\* but the header being built.
LEMMA QuietSteps ==
  ASSUME LegacyInv,
         \/ UNCHANGED vars
         \/ \E n \in Validators :
              ProcessExecutionReport(n) \/ CheckCollecting(n) \/ BuildCheckpoint(n)
  PROVE  Good
<1>1. UNCHANGED <<status, epoch, fsm, checkpoint, sigs, chain, isLeader, catching, network>>
  BY DEF vars, ProcessExecutionReport, CheckCollecting, BuildCheckpoint
<1>2. /\ OnValidators(built)'
      /\ \A m \in Validators : built'[m] # NoHeader => IsHeader(built'[m])
  <2>1. CASE UNCHANGED built
    BY <2>1 DEF LegacyInv, Shape, OnValidators
  <2>2. ASSUME NEW n \in Validators, BuildCheckpoint(n)
        PROVE  /\ OnValidators(built)'
               /\ \A m \in Validators : built'[m] # NoHeader => IsHeader(built'[m])
    <3> DEFINE h == [id |-> proposals + 1, epoch |-> epoch[n], parent |-> chain[n]]
    <3>1. IsHeader(h)
      BY DEF IsHeader, LegacyInv, Shape
    <3>2. built' = [built EXCEPT ![n] = h]
      BY <2>2 DEF BuildCheckpoint
    <3> QED
      BY <3>1, <3>2 DEF LegacyInv, Shape, OnValidators
  <2> QED
    BY <2>1, <2>2 DEF vars, ProcessExecutionReport, CheckCollecting
<1>3. Shape'
  BY <1>1, <1>2 DEF LegacyInv, Shape, OnValidators
<1>4. \A m \in Validators : Collects(m)'
  BY <1>1 DEF LegacyInv, Collects, Up
<1> QED
  BY <1>1, <1>3, <1>4, SameEpoch DEF Good, LegacyInv, Advances

\* A node whose state machine becomes idle, as it does on every way into an epoch.
LEMMA BecomesIdle ==
  ASSUME LegacyInv, NEW n \in Validators,
         fsm' = [fsm EXCEPT ![n] = Idle]
  PROVE  /\ OnValidators(fsm)' /\ Collects(n)'
         /\ \A m \in Validators :
              /\ fsm'[m] = [state |-> fsm'[m].state, header |-> fsm'[m].header,
                            sigs |-> fsm'[m].sigs]
              /\ fsm'[m].header # NoHeader => IsHeader(fsm'[m].header)
              /\ m # n => fsm'[m] = fsm[m]
<1>1. fsm'[n] = Idle /\ Idle = [state |-> "idle", header |-> NoHeader, sigs |-> {}]
  BY DEF LegacyInv, Shape, OnValidators, Idle
<1> QED
  BY <1>1 DEF LegacyInv, Shape, OnValidators, Collects

\* The ways into the next epoch: failover, a finalized round, catching up.
LEMMA EpochSteps ==
  ASSUME LegacyInv, NEW n \in Validators, NEW e \in 0..MaxEpoch, e >= epoch[n],
         EnterEpoch(n, e), fsm' = [fsm EXCEPT ![n] = Idle],
         sigs' = [sigs EXCEPT ![n] = {}],
         UNCHANGED <<status, built, network>>, catching' \in {catching, catching \ {n}},
         OnValidators(checkpoint)', OnValidators(chain)',
         \A m \in Validators \ {n} : checkpoint'[m] = checkpoint[m] /\ chain'[m] = chain[m],
         chain'[n] # chain[n] /\ chain[n] # NoHeader =>
           chain'[n].header.epoch > chain[n].header.epoch
  PROVE  Good
<1>1. /\ epoch' \in [Validators -> 0..MaxEpoch] /\ isLeader' \in [Validators -> BOOLEAN]
      /\ LeadershipIsCurrent'
      /\ \A m \in Validators : epoch'[m] = IF m = n THEN e ELSE epoch[m]
  BY EnterEpochLeader DEF LegacyInv
<1>2. OnValidators(sigs)' /\ \A m \in Validators \ {n} : sigs'[m] = sigs[m]
  BY DEF LegacyInv, Shape, OnValidators
<1>3. Shape'
  BY <1>1, <1>2, BecomesIdle DEF LegacyInv, Shape, OnValidators
<1>4. \A m \in Validators : Collects(m)'
  BY <1>2, BecomesIdle, OthersCollect
<1>5. Advances
  BY <1>1, LegacyAssumption DEF Advances, LegacyInv, Shape
<1> QED
  BY <1>1, <1>3, <1>4, <1>5 DEF Good, LegacyInv

\* "Leader timeout detected", and the tick after a finalization.
LEMMA LoopEntersEpoch ==
  ASSUME LegacyInv, NEW n \in Validators, Failover(n) \/ LeaveFinalized(n)
  PROVE  Good
<1>1. /\ epoch[n] + 1 \in 0..MaxEpoch /\ epoch[n] + 1 >= epoch[n]
      /\ EnterEpoch(n, epoch[n] + 1) /\ fsm' = [fsm EXCEPT ![n] = Idle]
      /\ sigs' = [sigs EXCEPT ![n] = {}]
      /\ UNCHANGED <<status, built, network, catching, chain>>
  BY LegacyAssumption DEF LegacyInv, Shape, Failover, LeaveFinalized
<1>2. OnValidators(checkpoint)' /\ \A m \in Validators \ {n} : checkpoint'[m] = checkpoint[m]
  BY DEF LegacyInv, Shape, OnValidators, Failover, LeaveFinalized
<1>3. OnValidators(chain)'
  BY <1>1 DEF LegacyInv, Shape, OnValidators
<1> QED
  BY <1>1, <1>2, <1>3, EpochSteps

\* "Signature collection timeout, leader will retry."
LEMMA RetryGood ==
  ASSUME LegacyInv, NEW n \in Validators, Retry(n)
  PROVE  Good
<1>1. /\ fsm' = [fsm EXCEPT ![n] = Idle]
      /\ UNCHANGED <<status, built, epoch, checkpoint, sigs, chain, isLeader, catching, network>>
  BY DEF Retry
<1>2. Shape'
  BY <1>1, SameEpoch, BecomesIdle DEF LegacyInv, Shape, OnValidators
<1>3. \A m \in Validators : Collects(m)'
  BY <1>1, BecomesIdle, OthersCollect
<1> QED
  BY <1>1, <1>2, <1>3, SameEpoch DEF Good, LegacyInv, Advances

\* What a node does with a header that AddCheckpoint takes, and with one it does not.
LEMMA ChainStep ==
  ASSUME LegacyInv, NEW n \in Validators, NEW h, IsHeader(h), NEW S,
         chain' = IF ChainAccepts(chain[n], h)
                  THEN [chain EXCEPT ![n] = Chained(chain[n], h, S)] ELSE chain
  PROVE  /\ OnValidators(chain)'
         /\ \A m \in Validators \ {n} : chain'[m] = chain[m]
         /\ chain'[n] # chain[n] /\ chain[n] # NoHeader =>
              chain'[n].header.epoch > chain[n].header.epoch
<1>1. CASE ChainAccepts(chain[n], h)
  <2>1. chain' = [chain EXCEPT ![n] = Chained(chain[n], h, S)]
    BY <1>1
  <2>2. chain'[n] = Chained(chain[n], h, S)
    BY <2>1 DEF LegacyInv, Shape, OnValidators
  <2>3. chain[n] # NoHeader => chain'[n].header.epoch > chain[n].header.epoch
    BY <1>1, <2>2, ChainedFacts
  <2> QED
    BY <2>1, <2>3 DEF LegacyInv, Shape, OnValidators
<1>2. CASE ~ChainAccepts(chain[n], h)
  BY <1>2 DEF LegacyInv, Shape, OnValidators
<1> QED
  BY <1>1, <1>2

\* finalizeCheckpoint: the collection ends, whatever the threshold says by then.
LEMMA FinalizeGood ==
  ASSUME LegacyInv, NEW n \in Validators, FinalizeCheckpoint(n)
  PROVE  Good
<1> DEFINE h == fsm[n].header
           f == Chained(chain[n], h, SignersOf(sigs[n]))
<1>1. UNCHANGED <<built, epoch, sigs, isLeader, catching>>
  BY DEF FinalizeCheckpoint
<1>2. CASE UNCHANGED <<status, fsm, checkpoint, chain, network>>
  <2>1. Shape'
    BY <1>1, <1>2 DEF LegacyInv, Shape, OnValidators
  <2>2. \A m \in Validators : Collects(m)'
    BY <1>1, <1>2 DEF LegacyInv, Collects, Up
  <2> QED
    BY <1>1, <1>2, <2>1, <2>2, SameEpoch DEF Good, LegacyInv, Advances
<1>3. CASE ~UNCHANGED <<status, fsm, checkpoint, chain, network>>
  <2>1. /\ h # NoHeader /\ ChainAccepts(chain[n], h) /\ chain' = [chain EXCEPT ![n] = f]
        /\ checkpoint' \in {checkpoint, [checkpoint EXCEPT ![n] = f.header]}
        /\ fsm' = [fsm EXCEPT ![n] = Finalized(@)]
        /\ network' = [network EXCEPT !.finalized = @ \cup
                         {[header |-> f.header, signers |-> f.signers]}]
        /\ status' \in {status, [status EXCEPT ![n] = "panicked"]}
    BY <1>3 DEF FinalizeCheckpoint
  <2>2. IsHeader(h) /\ IsHeader(f.header)
    BY <2>1, ChainedFacts DEF LegacyInv, Shape
  <2>3. /\ OnValidators(chain)' /\ \A m \in Validators \ {n} : chain'[m] = chain[m]
        /\ chain'[n] # chain[n] /\ chain[n] # NoHeader =>
             chain'[n].header.epoch > chain[n].header.epoch
    BY <2>1, <2>2, ChainStep
  <2>4. /\ OnValidators(fsm)' /\ fsm'[n].state # "collecting"
        /\ fsm'[n] = [state |-> fsm'[n].state, header |-> h, sigs |-> fsm'[n].sigs]
        /\ fsm'[n].header = h
        /\ \A m \in Validators \ {n} : fsm'[m] = fsm[m]
    <3>1. /\ OnValidators(fsm)' /\ fsm'[n] = Finalized(fsm[n])
          /\ \A m \in Validators \ {n} : fsm'[m] = fsm[m]
      BY <2>1 DEF LegacyInv, Shape, OnValidators
    <3>2. fsm[n] = [state |-> fsm[n].state, header |-> h, sigs |-> fsm[n].sigs]
      BY DEF LegacyInv, Shape
    <3>3. /\ Finalized(fsm[n]).state # "collecting"
          /\ Finalized(fsm[n]) = [state |-> Finalized(fsm[n]).state, header |-> h,
                                  sigs |-> Finalized(fsm[n]).sigs]
      BY <3>2 DEF Finalized
    <3> QED
      BY <3>1, <3>3
  <2>5. /\ OnValidators(checkpoint)' /\ status' \in [Validators -> {"up", "panicked"}]
        /\ \A m \in Validators \ {n} : checkpoint'[m] = checkpoint[m] /\ status'[m] = status[m]
    BY <2>1 DEF LegacyInv, Shape, OnValidators
  <2>6. /\ network' = [headers |-> network'.headers, signatures |-> network'.signatures,
                       finalized |-> network'.finalized]
        /\ network'.headers = network.headers
        /\ \A g \in network'.finalized : IsHeader(g.header)
    <3> DEFINE new == {[header |-> f.header, signers |-> f.signers]}
    <3>1. network = [headers |-> network.headers, signatures |-> network.signatures,
                     finalized |-> network.finalized]
      BY DEF LegacyInv, Shape
    <3>2. network' = [headers |-> network.headers, signatures |-> network.signatures,
                      finalized |-> network.finalized \cup new]
      BY <2>1, <3>1
    <3>3. network'.finalized = network.finalized \cup new /\ network'.headers = network.headers
      BY <3>2
    <3>4. \A g \in new : IsHeader(g.header)
      BY <2>2
    <3>5. \A g \in network.finalized : IsHeader(g.header)
      BY DEF LegacyInv, Shape
    <3> HIDE DEF new
    <3> QED
      BY <3>2, <3>3, <3>4, <3>5
  <2>7. Shape'
    <3>1. \A m \in Validators :
            /\ fsm'[m] = [state |-> fsm'[m].state, header |-> fsm'[m].header,
                          sigs |-> fsm'[m].sigs]
            /\ fsm'[m].header # NoHeader => IsHeader(fsm'[m].header)
      BY <2>2, <2>4 DEF LegacyInv, Shape
    <3> QED
      BY <1>1, <2>3, <2>4, <2>5, <2>6, <3>1, SameEpoch DEF LegacyInv, Shape, OnValidators
  <2>8. \A m \in Validators : Collects(m)'
    <3>1. Collects(n)'
      BY <2>4 DEF Collects
    <3> QED
      BY <1>1, <2>4, <2>5, <3>1, OthersCollect
  <2>9. Advances
    BY <1>1, <2>3, SameEpoch DEF Advances
  <2> QED
    BY <1>1, <2>7, <2>8, <2>9, SameEpoch DEF Good, LegacyInv
<1> QED
  BY <1>2, <1>3

\* Starting a collection, on the leader or on a follower: the node signs what it
\* collects for, and takes it for the checkpoint.
LEMMA CollectionStarts ==
  ASSUME LegacyInv, NEW n \in Validators, NEW h, IsHeader(h), NEW S,
         fsm' = [fsm EXCEPT ![n] = Collecting(n, h)],
         sigs' = [sigs EXCEPT ![n] = OwnSignatureLast(n, S, h)],
         checkpoint' = [checkpoint EXCEPT ![n] = h],
         built' \in {built, [built EXCEPT ![n] = NoHeader]},
         network'.headers \subseteq network.headers \cup {h},
         network'.finalized = network.finalized,
         network' = [headers |-> network'.headers, signatures |-> network'.signatures,
                     finalized |-> network'.finalized],
         UNCHANGED <<status, epoch, chain, isLeader, catching>>
  PROVE  Good
<1>1. /\ fsm'[n] = [state |-> "collecting", header |-> h, sigs |-> {Sig(n, h)}]
      /\ OnValidators(fsm)' /\ \A m \in Validators \ {n} : fsm'[m] = fsm[m]
  BY DEF LegacyInv, Shape, OnValidators, Collecting, Proposed
<1>2. /\ sigs'[n] = OwnSignatureLast(n, S, h) /\ OnValidators(sigs)'
      /\ \A m \in Validators \ {n} : sigs'[m] = sigs[m]
  BY DEF LegacyInv, Shape, OnValidators
<1>3. /\ checkpoint'[n] = h /\ OnValidators(checkpoint)'
      /\ \A m \in Validators \ {n} : checkpoint'[m] = checkpoint[m]
  BY DEF LegacyInv, Shape, OnValidators
<1>4. /\ OnValidators(built)'
      /\ \A m \in Validators : built'[m] # NoHeader => IsHeader(built'[m])
  BY DEF LegacyInv, Shape, OnValidators
<1>5. Collects(n)'
  <2>1. Sig(n, h).signer = n /\ Sig(n, h).header = h /\ Sig(n, h) \in sigs'[n]
    BY <1>2 DEF Sig, OwnSignatureLast
  <2> QED
    BY <1>1, <1>3, <2>1 DEF Collects
<1>6. Shape'
  <2>1. \A m \in Validators :
          /\ fsm'[m] = [state |-> fsm'[m].state, header |-> fsm'[m].header,
                        sigs |-> fsm'[m].sigs]
          /\ fsm'[m].header # NoHeader => IsHeader(fsm'[m].header)
    BY <1>1 DEF LegacyInv, Shape
  <2>2. \A g \in network'.headers : IsHeader(g)
    BY DEF LegacyInv, Shape
  <2> QED
    BY <1>1, <1>2, <1>3, <1>4, <2>1, <2>2, SameEpoch DEF LegacyInv, Shape, OnValidators
<1>7. \A m \in Validators : Collects(m)'
  BY <1>1, <1>2, <1>3, <1>5, OthersCollect
<1> QED
  BY <1>6, <1>7, SameEpoch DEF Good, LegacyInv, Advances

\* proposeCheckpoint takes the lock again: the round may have moved on meanwhile.
LEMMA ProposeGood ==
  ASSUME LegacyInv, NEW n \in Validators, ProposeCheckpoint(n)
  PROVE  Good
<1>1. CASE UNCHANGED <<fsm, sigs, checkpoint, network>>
  <2>1. /\ built' = [built EXCEPT ![n] = NoHeader]
        /\ UNCHANGED <<status, epoch, chain, isLeader, catching>>
    BY DEF ProposeCheckpoint
  <2>2. Shape'
    BY <1>1, <2>1, SameEpoch DEF LegacyInv, Shape, OnValidators
  <2>3. \A m \in Validators : Collects(m)'
    BY <1>1, <2>1 DEF LegacyInv, Collects, Up
  <2> QED
    BY <1>1, <2>1, <2>2, <2>3, SameEpoch DEF Good, LegacyInv, Advances
<1>2. CASE ~UNCHANGED <<fsm, sigs, checkpoint, network>>
  <2>1. /\ fsm' = [fsm EXCEPT ![n] = Collecting(n, built[n])]
        /\ sigs' = [sigs EXCEPT ![n] = OwnSignatureLast(n, @, built[n])]
        /\ checkpoint' = [checkpoint EXCEPT ![n] = built[n]]
        /\ network' = [network EXCEPT !.headers = @ \cup {built[n]},
                                      !.signatures = @ \cup {Sig(n, built[n])}]
    BY <1>2 DEF ProposeCheckpoint
  <2>2. /\ built[n] # NoHeader /\ built' = [built EXCEPT ![n] = NoHeader]
        /\ UNCHANGED <<status, epoch, chain, isLeader, catching>>
    BY DEF ProposeCheckpoint
  <2>3. IsHeader(built[n])
    BY <2>2 DEF LegacyInv, Shape
  <2>4. network = [headers |-> network.headers, signatures |-> network.signatures,
                   finalized |-> network.finalized]
    BY DEF LegacyInv, Shape
  <2>5. network' = [headers |-> network.headers \cup {built[n]},
                    signatures |-> network.signatures \cup {Sig(n, built[n])},
                    finalized |-> network.finalized]
    BY <2>1, <2>4
  <2>6. /\ network'.headers \subseteq network.headers \cup {built[n]}
        /\ network'.finalized = network.finalized
        /\ network' = [headers |-> network'.headers, signatures |-> network'.signatures,
                       finalized |-> network'.finalized]
    BY <2>5
  <2> QED
    BY <2>1, <2>2, <2>3, <2>6, CollectionStarts
<1> QED
  BY <1>1, <1>2

\* HandleProposal: a follower drops the round it is in.
LEMMA HandleProposalGood ==
  ASSUME LegacyInv, NEW n \in Validators, NEW h \in network.headers, HandleProposal(n, h)
  PROVE  Good
<1> DEFINE S == IF fsm[n].state = "idle" THEN sigs[n] ELSE {}
<1>1. /\ fsm' = [fsm EXCEPT ![n] = Collecting(n, h)]
      /\ sigs' = [sigs EXCEPT ![n] = OwnSignatureLast(n, S, h)]
      /\ checkpoint' = [checkpoint EXCEPT ![n] = h]
      /\ network' = [network EXCEPT !.signatures = @ \cup {Sig(n, h)}]
      /\ UNCHANGED <<status, built, epoch, chain, isLeader, catching>>
  BY DEF HandleProposal
<1>2. IsHeader(h)
  BY DEF LegacyInv, Shape
<1>3. network = [headers |-> network.headers, signatures |-> network.signatures,
                 finalized |-> network.finalized]
  BY DEF LegacyInv, Shape
<1>4. network' = [headers |-> network.headers,
                  signatures |-> network.signatures \cup {Sig(n, h)},
                  finalized |-> network.finalized]
  BY <1>1, <1>3
<1>5. /\ network'.headers \subseteq network.headers \cup {h}
      /\ network'.finalized = network.finalized
      /\ network' = [headers |-> network'.headers, signatures |-> network'.signatures,
                     finalized |-> network'.finalized]
  BY <1>4
<1> HIDE DEF S
<1> QED
  BY <1>1, <1>2, <1>5, CollectionStarts

\* What StateMachine.AddSignature leaves.
LEMMA CollectedValue ==
  ASSUME NEW m, NEW s, m = [state |-> m.state, header |-> m.header, sigs |-> m.sigs]
  PROVE  Collected(m, s) = [state |-> m.state, header |-> m.header,
                            sigs |-> {t \in m.sigs : t.signer # s.signer} \cup {s}]
<1> DEFINE S == {t \in m.sigs : t.signer # s.signer} \cup {s}
<1>1. Collected(m, s) = [m EXCEPT !.sigs = S]
  BY DEF Collected
<1> HIDE DEF S
<1>2. [m EXCEPT !.sigs = S] = [state |-> m.state, header |-> m.header, sigs |-> S]
  OBVIOUS
<1> QED
  BY <1>1, <1>2 DEF S

\* AddSignature: a counted signature is of the checkpoint held, and of another signer.
LEMMA AddSignatureGood ==
  ASSUME LegacyInv, NEW n \in Validators, NEW s, AddSignature(n, s)
  PROVE  Good
<1>1. UNCHANGED <<status, built, epoch, checkpoint, chain, isLeader, catching, network>>
  BY DEF AddSignature
<1>2. CASE UNCHANGED <<fsm, sigs>>
  <2>1. Shape'
    BY <1>1, <1>2, SameEpoch DEF LegacyInv, Shape, OnValidators
  <2>2. \A m \in Validators : Collects(m)'
    BY <1>1, <1>2 DEF LegacyInv, Collects, Up
  <2> QED
    BY <1>1, <2>1, <2>2, SameEpoch DEF Good, LegacyInv, Advances
<1>3. CASE ~UNCHANGED <<fsm, sigs>>
  <2>1. /\ Up(n) /\ Verifies(n, s) /\ {t \in sigs[n] : t.signer = s.signer} = {}
        /\ fsm[n].state = "collecting"
        /\ fsm' = [fsm EXCEPT ![n] = Collected(@, s)]
        /\ sigs' = [sigs EXCEPT ![n] = @ \cup {s}]
    BY <1>3 DEF AddSignature
  <2>2. /\ fsm[n] = [state |-> fsm[n].state, header |-> fsm[n].header, sigs |-> fsm[n].sigs]
        /\ fsm'[n] = Collected(fsm[n], s)
        /\ OnValidators(fsm)' /\ \A m \in Validators \ {n} : fsm'[m] = fsm[m]
    BY <2>1 DEF LegacyInv, Shape, OnValidators
  <2>3. fsm'[n] = [state |-> "collecting", header |-> fsm[n].header,
                   sigs |-> {t \in fsm[n].sigs : t.signer # s.signer} \cup {s}]
    <3>1. Collected(fsm[n], s) = [state |-> fsm[n].state, header |-> fsm[n].header,
                                  sigs |-> {t \in fsm[n].sigs : t.signer # s.signer} \cup {s}]
      BY <2>2, CollectedValue
    <3> QED
      BY <2>1, <2>2, <3>1
  <2>4. /\ sigs'[n] = sigs[n] \cup {s} /\ OnValidators(sigs)'
        /\ \A m \in Validators \ {n} : sigs'[m] = sigs[m]
    BY <2>1 DEF LegacyInv, Shape, OnValidators
  <2>5. Collects(n)'
    <3>1. Collects(n) /\ Up(n)'
      BY <1>1, <2>1 DEF LegacyInv, Up
    <3>2. s.signer # n
      BY <2>1, <3>1 DEF Collects
    <3>3. Sig(n, fsm[n].header).signer = n
      BY DEF Sig
    <3>4. Sig(n, fsm[n].header) \in fsm'[n].sigs
      BY <2>1, <2>3, <3>1, <3>2, <3>3 DEF Collects
    <3>5. \E t \in sigs'[n] : t.signer = n
      BY <2>1, <2>4, <3>1 DEF Collects
    <3>6. ASSUME n \notin catching
          PROVE  /\ checkpoint'[n] = fsm'[n].header
                 /\ \A t \in fsm'[n].sigs : t.header = fsm'[n].header
      <4>1. s.header = checkpoint[n]
        BY <2>1 DEF Verifies
      <4> QED
        BY <1>1, <2>1, <2>3, <3>1, <3>6, <4>1 DEF Collects
    <3> QED
      BY <1>1, <2>3, <3>4, <3>5, <3>6 DEF Collects
  <2>6. Shape'
    <3>1. \A m \in Validators :
            /\ fsm'[m] = [state |-> fsm'[m].state, header |-> fsm'[m].header,
                          sigs |-> fsm'[m].sigs]
            /\ fsm'[m].header # NoHeader => IsHeader(fsm'[m].header)
      BY <2>2, <2>3 DEF LegacyInv, Shape
    <3> QED
      BY <1>1, <2>2, <2>4, <3>1, SameEpoch DEF LegacyInv, Shape, OnValidators
  <2>7. \A m \in Validators : Collects(m)'
    BY <1>1, <2>2, <2>4, <2>5, OthersCollect
  <2> QED
    BY <1>1, <2>6, <2>7, SameEpoch DEF Good, LegacyInv, Advances
<1> QED
  BY <1>2, <1>3

\* HandleFinalized catches up with a header of this epoch or a later one.
LEMMA HandleFinalizedGood ==
  ASSUME LegacyInv, NEW n \in Validators, NEW f \in network.finalized, HandleFinalized(n, f)
  PROVE  Good
<1>1. IsHeader(f.header) /\ f.header.epoch \in 0..MaxEpoch /\ epoch[n] \in 0..MaxEpoch
  BY DEF LegacyInv, Shape, IsHeader
<1>2. /\ f.header.epoch + 1 \in 0..MaxEpoch /\ f.header.epoch + 1 >= epoch[n]
      /\ EnterEpoch(n, f.header.epoch + 1) /\ fsm' = [fsm EXCEPT ![n] = Idle]
      /\ sigs' = [sigs EXCEPT ![n] = {}]
      /\ UNCHANGED <<status, built, network, catching>>
  BY <1>1, LegacyAssumption DEF HandleFinalized, CaughtUp
<1>3. OnValidators(checkpoint)' /\ \A m \in Validators \ {n} : checkpoint'[m] = checkpoint[m]
  BY DEF LegacyInv, Shape, OnValidators, HandleFinalized, StoreFinalized
<1>4. /\ OnValidators(chain)' /\ \A m \in Validators \ {n} : chain'[m] = chain[m]
      /\ chain'[n] # chain[n] /\ chain[n] # NoHeader =>
           chain'[n].header.epoch > chain[n].header.epoch
  BY <1>1, ChainStep DEF HandleFinalized, StoreFinalized
<1> QED
  BY <1>2, <1>3, <1>4, EpochSteps

\* The leader gives up the lock: what it collects is no longer its checkpoint.
LEMMA HandleFinalizedSubmitsGood ==
  ASSUME LegacyInv, NEW n \in Validators, NEW f \in network.finalized,
         HandleFinalizedSubmits(n, f)
  PROVE  Good
<1>1. IsHeader(f.header)
  BY DEF LegacyInv, Shape
<1>2. /\ UNCHANGED <<status, built, epoch, fsm, sigs, isLeader, network>>
      /\ catching' = catching \cup {n}
  BY DEF HandleFinalizedSubmits
<1>3. OnValidators(checkpoint)' /\ \A m \in Validators \ {n} : checkpoint'[m] = checkpoint[m]
  BY DEF LegacyInv, Shape, OnValidators, HandleFinalizedSubmits, StoreFinalized
<1>4. /\ OnValidators(chain)' /\ \A m \in Validators \ {n} : chain'[m] = chain[m]
      /\ chain'[n] # chain[n] /\ chain[n] # NoHeader =>
           chain'[n].header.epoch > chain[n].header.epoch
  BY <1>1, ChainStep DEF HandleFinalizedSubmits, StoreFinalized
<1>5. Shape'
  BY <1>2, <1>3, <1>4, SameEpoch DEF LegacyInv, Shape, OnValidators
<1>6. Collects(n)'
  BY <1>2 DEF LegacyInv, Collects, Up
<1>7. \A m \in Validators : Collects(m)'
  BY <1>2, <1>3, <1>6, OthersCollect
<1>8. Advances
  BY <1>2, <1>4, SameEpoch DEF Advances
<1> QED
  BY <1>2, <1>5, <1>7, <1>8, SameEpoch DEF Good, LegacyInv

\* The submission panics, or the node goes on into the next epoch.
LEMMA HandleFinalizedResumesGood ==
  ASSUME LegacyInv, NEW n \in Validators, HandleFinalizedResumes(n)
  PROVE  Good
<1>1. /\ UNCHANGED <<built, checkpoint, chain, network>> /\ catching' = catching \ {n}
      /\ OnValidators(checkpoint)' /\ OnValidators(chain)'
  BY DEF HandleFinalizedResumes, LegacyInv, Shape, OnValidators
<1>2. CASE /\ status' = [status EXCEPT ![n] = "panicked"]
           /\ UNCHANGED <<epoch, isLeader, fsm, sigs>>
  <2>1. Shape'
    BY <1>1, <1>2, SameEpoch DEF LegacyInv, Shape, OnValidators
  <2>2. Collects(n)' /\ \A m \in Validators \ {n} : status'[m] = status[m]
    BY <1>2 DEF LegacyInv, Shape, Collects, Up
  <2>3. \A m \in Validators : Collects(m)'
    BY <1>1, <1>2, <2>2, OthersCollect
  <2> QED
    BY <1>1, <1>2, <2>1, <2>3, SameEpoch DEF Good, LegacyInv, Advances
<1>3. CASE epoch[n] < MaxEpoch /\ CaughtUp(n, epoch[n] + 1) /\ UNCHANGED status
  <2>1. epoch[n] + 1 \in 0..MaxEpoch /\ epoch[n] + 1 >= epoch[n]
    BY <1>3, LegacyAssumption DEF LegacyInv, Shape
  <2> QED
    BY <1>1, <1>3, <2>1, EpochSteps DEF CaughtUp
<1> QED
  BY <1>2, <1>3 DEF HandleFinalizedResumes

-----------------------------------------------------------------------------
\* The first state satisfies the invariant.
LEMMA InitLegacy == Init => LegacyInv
<1> SUFFICES ASSUME Init PROVE LegacyInv
  OBVIOUS
<1>1. Shape
  <2>1. \A n \in Validators : fsm[n] = Idle /\ built[n] = NoHeader
    BY DEF Init
  <2>2. \A n \in Validators :
          /\ fsm[n] = [state |-> fsm[n].state, header |-> fsm[n].header, sigs |-> fsm[n].sigs]
          /\ fsm[n].header = NoHeader
    BY <2>1 DEF Idle
  <2>3. epoch \in [Validators -> 0..MaxEpoch]
    BY LegacyAssumption DEF Init
  <2>4. isLeader \in [Validators -> BOOLEAN] /\ status \in [Validators -> {"up", "panicked"}]
    BY DEF Init
  <2>5. /\ OnValidators(fsm) /\ OnValidators(checkpoint) /\ OnValidators(sigs)
        /\ OnValidators(chain) /\ OnValidators(built)
    BY DEF Init, OnValidators
  <2>6. /\ network = [headers |-> network.headers, signatures |-> network.signatures,
                      finalized |-> network.finalized]
        /\ network.headers = {} /\ network.finalized = {}
    BY DEF Init
  <2> QED
    BY <2>1, <2>2, <2>3, <2>4, <2>5, <2>6 DEF Shape
<1>2. LeadershipIsCurrent
  BY DEF Init, LeadershipIsCurrent
<1>3. \A n \in Validators : Collects(n)
  BY DEF Init, Idle, Collects
<1> QED
  BY <1>1, <1>2, <1>3 DEF LegacyInv

\* Every step keeps it, and moves forward.
LEMMA NextLegacy == LegacyInv /\ [Next]_vars => LegacyInv' /\ Advances
<1> SUFFICES ASSUME LegacyInv, [Next]_vars PROVE Good
  BY DEF Good
<1> QED
  BY QuietSteps, LoopEntersEpoch, RetryGood, FinalizeGood, ProposeGood, HandleProposalGood,
     AddSignatureGood, HandleFinalizedGood, HandleFinalizedSubmitsGood,
     HandleFinalizedResumesGood DEF Next

\* The invariant holds always.
LEMMA SpecLegacy == Spec => []LegacyInv
  BY InitLegacy, NextLegacy, PTL DEF Spec

\* On every way into an epoch, also while HandleFinalized has given up the lock, the node
\* that proposes is the epoch's leader and the signatures it counts are of one header.
THEOREM RotationInvHolds == Spec => []RotationInv
<1>1. LegacyInv => RotationInv
  BY DEF LegacyInv, RotationInv, Collects, CollectedForOneHeader
<1> QED
  BY SpecLegacy, <1>1, PTL

\* No step takes a node back to an earlier epoch or shortens its chain.
THEOREM NeverGoesBackHolds == Spec => NeverGoesBack
<1>1. LegacyInv /\ [Next]_vars => Advances
  BY NextLegacy
<1> QED
  BY SpecLegacy, <1>1, PTL DEF Spec, NeverGoesBack, Advances
=============================================================================
