------------------------------ MODULE NodeConfig ------------------------------
(***************************************************************************)
(* How cmd/validator turns configuration files and command-line flags into *)
(* the configuration of a validator node: internal/config (loader.go,      *)
(* validator.go, blockchain.go), cmd/validator/main.go and the Config      *)
(* methods of internal/validator/node.go.                                  *)
(*                                                                         *)
(* A file or flag that sets nothing holds "", 0, FALSE or <<>>, and the    *)
(* code cannot tell a flag that was given its default from one that was    *)
(* not given.  Lists pass from file to node as strings: an address is the  *)
(* sequence of its colon-separated parts.  Settings that are only handed   *)
(* on (ports of CometBFT, intervals, URLs) are left out.                   *)
(***************************************************************************)
EXTENDS Naturals, Sequences, SequencesExt

CONSTANTS
    Nodes,          \* the processes, by the validator id in their file
    SubnetFiles,    \* contents of subnet.yaml that occur
    ValidatorFiles, \* contents of a validator's own file that occur
    FlagSets,       \* command lines that occur
    Plain           \* a node that names no Raft peers of its own

VARIABLES
    inputs,         \* [mode, subnet, own, flags]: environment, files and command lines
    stage,          \* how far main has come, "fatal" after log.Fatal
    file,           \* AppConfig
    flags,          \* flag variables
    config          \* validator.Config

vars == <<inputs, stage, file, flags, config>>

\* A string, a number or a list, unless it is not set.
Or(value, fallback) == IF value = "" THEN fallback ELSE value
OrNumber(value, fallback) == IF value = 0 THEN fallback ELSE value
OrList(value, fallback) == IF value = <<>> THEN fallback ELSE value

-----------------------------------------------------------------------------
(* ConfigValidator.  Errors are only reported in production mode.          *)

validateIdentity(c) == c.subnetID = "" \/ "not an id" \in {c.subnetID, c.id}
validateNetwork(c) == c.port > 65535
validateTimeouts(c) == c.shortTimeouts
validateExecutor(c) == c.executor = "dummy"
validateSigner(c) == c.signer \in {"", "noop"} \/ (c.signer = "ecdsa" /\ c.key \in {"", "example"})
validateValidatorPolicy(c) == c.policy \in {"default", "dummy"}
validateSecurity(c) == ~c.tls
validateBlockchain(c) == c.chain.enabled /\ (c.chain.rpc = "" \/ c.chain.contract # "0xsubnet")
validateDemoSigners(c) == c.demoSigners

HasErrors(c) ==
    \/ validateIdentity(c) \/ validateNetwork(c) \/ validateTimeouts(c)
    \/ validateExecutor(c) \/ validateSigner(c) \/ validateValidatorPolicy(c)
    \/ validateSecurity(c) \/ validateBlockchain(c) \/ validateDemoSigners(c)

\* RootLayerConfig.normalize and BlockchainConfig.Normalize fail on durations that do not
\* parse, whatever the mode.
Normalizes(c) == c.durations /\ c.chain.ttl # "not positive"

Loads(c, mode) == Normalizes(c) /\ (mode = "production" => ~HasErrors(c))

-----------------------------------------------------------------------------
(* LoadSplit                                                               *)

\* mergeConfigs.  Everything the validator's file does not list here is the subnet's, and
\* nothing can be switched off.
MergeConfigs(s, v) ==
    [s EXCEPT !.id = Or(v.id, @),
              !.port = OrNumber(v.port, @),
              !.storage = Or(v.storage, @),
              !.raft = [enable |-> @.enable \/ v.raft.enable,
                        bootstrap |-> @.bootstrap \/ v.raft.bootstrap,
                        bind |-> Or(v.raft.bind, @.bind),
                        peers |-> OrList(v.raft.peers, @.peers)],
              !.gossip = [enable |-> @.enable \/ v.gossip.enable,
                          seeds |-> OrList(v.gossip.seeds, @.seeds)]]

\* Raft peers from the validator set: the validators with a raft_address.
PeersOfSet(validators) ==
    LET known == SelectSeq(validators, LAMBDA v : v.raft # <<>>)
    IN  [k \in DOMAIN known |-> [id |-> known[k].id, address |-> known[k].raft]]

SeedsOfSet(validators) ==
    LET known == SelectSeq(validators, LAMBDA v : v.gossip # <<>>)
    IN  [k \in DOMAIN known |-> known[k].gossip]

Populated(c) ==
    [c EXCEPT !.raft.peers = IF c.raft.enable THEN OrList(@, PeersOfSet(c.set.validators)) ELSE @,
              !.gossip.seeds = IF c.gossip.enable THEN OrList(@, SeedsOfSet(c.set.validators)) ELSE @]

LoadSplit(s, v) == Populated(MergeConfigs(s, v))

-----------------------------------------------------------------------------
(* Lists as strings: joined by main, split again by the parse functions.   *)

SplitAndTrim(parts) == SelectSeq(parts, LAMBDA p : p # "")

\* peer.ID + ":" + peer.Address
JoinPeers(peers) == [k \in DOMAIN peers |-> <<peers[k].id>> \o peers[k].address]

JoinEndpoints(validators) == [k \in DOMAIN validators |-> <<validators[k].id>> \o validators[k].endpoint]

\* Faulty: takes the part after the first colon for the address.
ParseFirstPart(list) ==
    LET entries == SelectSeq([k \in DOMAIN list |-> SplitAndTrim(list[k])], LAMBDA e : Len(e) >= 2)
    IN  [k \in DOMAIN entries |-> [id |-> entries[k][1], address |-> <<entries[k][2]>>]]

\* parseRaftPeers and parseValidatorEndpoints: empty parts vanish, short entries are dropped.
ParsePeers(list) ==
    LET entries == SelectSeq([k \in DOMAIN list |-> SplitAndTrim(list[k])], LAMBDA e : Len(e) >= 2)
    IN  [k \in DOMAIN entries |-> [id |-> entries[k][1], address |-> Tail(entries[k])]]

-----------------------------------------------------------------------------
(* main                                                                    *)

DefaultFlags ==
    [files |-> "split", id |-> "", storage |-> "./data", port |-> 9090,
     raftEnable |-> FALSE, raftBootstrap |-> FALSE, raftBind |-> "127.0.0.1:7000", raftPeers |-> <<>>,
     gossipEnable |-> FALSE, gossipSeeds |-> <<>>, endpoints |-> <<>>,
     type |-> "raft", count |-> 4, num |-> 3, denom |-> 4, pubkeys |-> <<>>, key |-> "",
     root |-> "", enableRoot |-> FALSE,
     home |-> "./cometbft-data", chainEnabled |-> FALSE, chainRPC |-> "", contract |-> "", cacheSize |-> 1024]

Init ==
    /\ inputs \in [mode : {"production", "development"}, subnet : SubnetFiles,
                   own : [Nodes -> ValidatorFiles], flags : [Nodes -> FlagSets]]
    /\ inputs.flags[Plain].raftPeers = <<>> /\ inputs.own[Plain].raft.peers = <<>>
    /\ stage = [n \in Nodes |-> "start"]
    /\ file = [n \in Nodes |-> inputs.subnet]
    /\ flags = inputs.flags
    /\ config = [n \in Nodes |-> DefaultFlags]

Reach(n, s) == stage' = [stage EXCEPT ![n] = s]
Own(n) == [inputs.own[n] EXCEPT !.id = n]

\* Both files, one file, or none; one of the two split files alone is refused.
LoadConfig(n) ==
    LET c == IF flags[n].files = "split" THEN LoadSplit(inputs.subnet, Own(n))
             ELSE [inputs.subnet EXCEPT !.id = n]
    IN  /\ stage[n] = "start"
        /\ \/ flags[n].files = "none" /\ Reach(n, "flags") /\ UNCHANGED file
           \/ /\ flags[n].files \in {"split", "single"} /\ Loads(c, inputs.mode)
              /\ Reach(n, "loaded") /\ file' = [file EXCEPT ![n] = c]
           \/ /\ flags[n].files \in {"split", "single"} => ~Loads(c, inputs.mode)
              /\ flags[n].files # "none"
              /\ Reach(n, "fatal") /\ UNCHANGED file
        /\ UNCHANGED <<inputs, flags, config>>

\* A flag at its default takes the value of the file, if it has one.
FromFile(value, default, c) == IF value = default THEN Or(c, value) ELSE value
NumberFromFile(value, default, c) == IF value = default THEN OrNumber(c, value) ELSE value

ApplyFile(n) ==
    LET c == file[n]
        f == flags[n]
    IN  /\ stage[n] = "loaded" /\ Reach(n, "flags")
        /\ flags' = [flags EXCEPT ![n] = [f EXCEPT
             !.id = Or(@, c.id),
             !.storage = FromFile(@, "./data", c.storage),
             !.port = NumberFromFile(@, 9090, c.port),
             !.count = NumberFromFile(@, 4, c.set.min),
             !.num = NumberFromFile(@, 3, c.set.num),
             !.denom = NumberFromFile(@, 4, c.set.denom),
             !.endpoints = OrList(@, JoinEndpoints(c.set.validators)),
             !.root = Or(@, c.root),
             !.enableRoot = @ \/ c.root # "",
             !.chainEnabled = @ \/ c.chain.enabled,
             !.chainRPC = IF c.chain.enabled THEN Or(@, c.chain.rpc) ELSE @,
             !.contract = IF c.chain.enabled THEN Or(@, c.chain.contract) ELSE @,
             !.raftEnable = @ \/ c.raft.enable,
             !.raftBootstrap = @ \/ (c.raft.enable /\ c.raft.bootstrap),
             !.raftBind = IF c.raft.enable THEN FromFile(@, "127.0.0.1:7000", c.raft.bind) ELSE @,
             !.raftPeers = IF c.raft.enable THEN OrList(@, JoinPeers(c.raft.peers)) ELSE @,
             !.gossipEnable = @ \/ c.gossip.enable,
             !.gossipSeeds = IF c.gossip.enable THEN OrList(@, c.gossip.seeds) ELSE @]]
        /\ UNCHANGED <<inputs, file, config>>

\* The consensus type is known, there is an id, and a missing key is generated.
CheckFlags(n) ==
    /\ stage[n] = "flags"
    /\ IF flags[n].type \in {"raft", "raft-gossip", "cometbft"} /\ flags[n].id # ""
       THEN /\ Reach(n, "checked")
            /\ flags' = [flags EXCEPT ![n].key = Or(@, "generated")]
       ELSE Reach(n, "fatal") /\ UNCHANGED flags
    /\ UNCHANGED <<inputs, file, config>>

\* The key of a validator: derived from its private key, or what --validator-pubkeys says.
PublicKey(id, privateKey) == <<id, privateKey>>

Entry(n, id, pubkeys) ==
    [id |-> id,
     key |-> IF id = flags[n].id THEN PublicKey(id, flags[n].key)
             ELSE IF \E k \in DOMAIN pubkeys : pubkeys[k].id = id
             THEN pubkeys[CHOOSE k \in DOMAIN pubkeys : pubkeys[k].id = id].key
             ELSE <<id, "dummy of", n>>]

E2EIds == <<"validator-e2e-1", "validator-e2e-2", "validator-e2e-3", "validator-e2e-4">>

\* Faulty: the node puts itself first.
CreateValidatorSetSelfFirst(n) ==
    LET f == flags[n]
        ids == IF f.pubkeys = <<>> THEN SubSeq(E2EIds, 1, f.count)
               ELSE <<f.id>> \o SelectSeq([k \in DOMAIN f.pubkeys |-> f.pubkeys[k].id], LAMBDA i : i # f.id)
    IN  [validators |-> [k \in DOMAIN ids |-> Entry(n, ids[k], f.pubkeys)],
         min |-> f.count, num |-> f.num, denom |-> f.denom]

\* createValidatorSet: in the order of --validator-pubkeys, which the file has no say in.
CreateValidatorSet(n) ==
    LET f == flags[n]
        ids == IF f.pubkeys = <<>> THEN SubSeq(E2EIds, 1, f.count)
               ELSE [k \in DOMAIN f.pubkeys |-> f.pubkeys[k].id]
    IN  [validators |-> [k \in DOMAIN ids |-> Entry(n, ids[k], f.pubkeys)],
         min |-> f.count, num |-> f.num, denom |-> f.denom]

\* validator.Config as main fills it in.  A private key that does not parse panics when the
\* node's own entry of the set is made.
BuildConfig(n) ==
    LET f == flags[n]
        panics == /\ f.key = "not a key"
                  /\ \E k \in DOMAIN f.pubkeys : f.pubkeys[k].id = f.id
    IN  /\ stage[n] = "checked" /\ Reach(n, IF panics THEN "fatal" ELSE "built")
        /\ config' = [config EXCEPT ![n] =
             [id |-> f.id, key |-> f.key, set |-> CreateValidatorSet(n), storage |-> f.storage,
              raft |-> [enable |-> f.raftEnable, bootstrap |-> f.raftBootstrap, bind |-> f.raftBind,
                        peers |-> ParsePeers(f.raftPeers)],
              gossip |-> [enable |-> f.gossipEnable, seeds |-> f.gossipSeeds],
              comet |-> [enable |-> f.type = "cometbft", home |-> f.home],
              root |-> IF f.enableRoot THEN f.root ELSE "",
              endpoints |-> ParsePeers(f.endpoints)]]
        /\ UNCHANGED <<inputs, file, flags>>

VerifierReady(f) == f.chainRPC # "" /\ f.contract = "0xsubnet" /\ f.cacheSize > 0

\* The on-chain verifier, checked by main once more after file and flags are mixed.
InitVerifier(n) ==
    /\ stage[n] = "built"
    /\ Reach(n, IF flags[n].chainEnabled => VerifierReady(flags[n]) THEN "verified" ELSE "fatal")
    /\ UNCHANGED <<inputs, file, flags, config>>

\* ValidatorSet.Validate
ValidSet(set) ==
    /\ Len(set.validators) >= set.min
    /\ set.num > 0 /\ set.denom > 0 /\ set.num <= set.denom
    /\ IsInjective([k \in DOMAIN set.validators |-> set.validators[k].id])

\* Config.applyDefaults, of the fields kept here.
ApplyDefaults(c) == [c EXCEPT !.raft.bind = Or(@, "127.0.0.1:7000")]

\* buildRaftConsensusConfig accepts the peers.
RaftConfigBuilds(c) == \A k \in DOMAIN c.raft.peers : c.raft.peers[k].id # "" /\ c.raft.peers[k].address # <<>>

\* buildCometBFTConfig, and Config.Validate of cometbft, accept what they are given.
CometConfigBuilds(c) == c.comet.home # ""

\* Config.Validate in NewNode.
ValidConfig(c) ==
    /\ c.id # "" /\ c.key \notin {"", "not a key"} /\ ValidSet(c.set)
    /\ c.raft.enable => RaftConfigBuilds(ApplyDefaults(c))

\* NewNode, and the engine Node.Start asks for.
NewNode(n) ==
    /\ stage[n] = "verified"
    /\ Reach(n, IF /\ ValidConfig(config[n])
                   /\ config[n].comet.enable => CometConfigBuilds(config[n])
                   /\ config[n].raft.enable \/ config[n].comet.enable
                THEN "running" ELSE "fatal")
    /\ config' = [config EXCEPT ![n] = ApplyDefaults(@)]
    /\ UNCHANGED <<inputs, file, flags>>

Next ==
    \E n \in Nodes :
        LoadConfig(n) \/ ApplyFile(n) \/ CheckFlags(n) \/ BuildConfig(n) \/ InitVerifier(n) \/ NewNode(n)

-----------------------------------------------------------------------------
SetPeers == PeersOfSet(inputs.subnet.set.validators)

RaftInFiles(n) == inputs.subnet.raft.enable \/ Own(n).raft.enable

\* The peers of node n by what was written: those of the command line, else, if one of the
\* files enables Raft, the list in the validator's own file, else the subnet's list, else the
\* validators with an address.  Files that leave Raft off say nothing about peers, also when
\* the command line enables it.
MeantPeers(n) ==
    IF inputs.flags[n].raftPeers # <<>>
    THEN [k \in DOMAIN inputs.flags[n].raftPeers |->
            [id |-> Head(inputs.flags[n].raftPeers[k]), address |-> Tail(inputs.flags[n].raftPeers[k])]]
    ELSE IF ~RaftInFiles(n) THEN <<>>
    ELSE OrList(Own(n).raft.peers, OrList(inputs.subnet.raft.peers, SetPeers))

Whole(peers) == \A k \in DOMAIN peers : "" \notin Range(peers[k].address)

RunsRaft(n) == stage[n] = "running" /\ config[n].raft.enable /\ flags[n].files = "split"

\* The Raft peers of a running node are the ones meant, in the order meant, though they go
\* through two files, a merge, a string and its parser.  (An address with an empty part,
\* as IPv6 addresses have, loses it.)
PeersSurvive ==
    \A n \in Nodes :
      RunsRaft(n) /\ Whole(MeantPeers(n)) => config[n].raft.peers = MeantPeers(n)

\* "When using hierarchical configuration, the following are automatically extracted from
\* `subnet.yaml`: Raft Peers ... You never need to manually configure these in validator-N.yaml"
\* (docs/subnet_deployment_guide.md): a node that runs Raft, and for which nobody lists peers,
\* has the validators of the set with a raft_address.  The files the guide shows do not enable
\* Raft; with --raft-enable the node has no peers.
PeersExtracted ==
    \A n \in Nodes :
      /\ RunsRaft(n) /\ Whole(SetPeers)
      /\ inputs.flags[n].raftPeers = <<>> /\ Own(n).raft.peers = <<>> /\ inputs.subnet.raft.peers = <<>>
      => config[n].raft.peers = SetPeers

\* The private key n runs with is the one --validator-pubkeys announces for it.
HoldsAnnouncedKey(n) ==
    \E k \in DOMAIN flags[n].pubkeys : flags[n].pubkeys[k] = [id |-> n, key |-> PublicKey(n, flags[n].key)]

\* "All validators must use the SAME order": nodes started with the same subnet file, the
\* same keys and the same thresholds on the command line agree on members, order, keys and
\* thresholds, though each knows itself by its private key and has a file of its own.
ValidatorSetsAgree ==
    \A n, m \in Nodes :
      /\ stage[n] = "running" /\ stage[m] = "running"
      /\ \A f \in {"files", "pubkeys", "count", "num", "denom"} : inputs.flags[n][f] = inputs.flags[m][f]
      /\ HoldsAnnouncedKey(n) /\ HoldsAnnouncedKey(m)
      => config[n].set = config[m].set
=============================================================================
