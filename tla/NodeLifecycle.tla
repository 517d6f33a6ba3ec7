---------------------------- MODULE NodeLifecycle ----------------------------
(***************************************************************************)
(* Start and stop of a validator process: main (cmd/validator/main.go),    *)
(* Node.Start, Node.Stop and consensusLoop (internal/validator/node.go),   *)
(* the gRPC server (internal/validator/server.go), and the start of the    *)
(* Raft engine (raft_consensus.go) and of CometBFT (cometbft/consensus.go).*)
(*                                                                         *)
(* Goroutines: main, the gRPC handlers, the consensus loop, and those that *)
(* the engine starts for what it commits.  A Raft Apply ends by a commit   *)
(* or by the shutdown of Raft; nothing else is sure to end it.  CometBFT's *)
(* Start holds the engine's mutex while blocks are replayed.               *)
(***************************************************************************)
EXTENDS Naturals, Sequences

CONSTANTS
    Handlers,       \* gRPC calls
    MaxReplay,      \* bound: blocks CometBFT replays at start
    MaxEngineTasks  \* bound: goroutines of the engine at one time

VARIABLES
    mode,           \* "raft" or "cometbft"
    main,           \* where main is
    step,           \* next step of Node.Stop
    server,         \* gRPC server: "none", "serving", "stopped"
    handlers,       \* every gRPC call
    loop,           \* consensusLoop
    ctxDone,        \* n.ctx is cancelled
    engine,         \* "down", "starting", "up"
    storeOpen,      \* LevelDB
    replays,        \* blocks still to be replayed
    engineTasks     \* goroutines the engine has started

lifeVars == <<mode, main, step, server, handlers, loop, ctxDone, engine, storeOpen, replays, engineTasks>>

\* NewNode opens the store and builds the engine; Raft runs from then on, CometBFT does not.
LifeInit ==
    /\ mode \in {"raft", "cometbft"}
    /\ main = "created" /\ step = 1 /\ server = "none"
    /\ handlers = [h \in Handlers |-> "none"]
    /\ loop = "none" /\ ctxDone = FALSE /\ storeOpen = TRUE
    /\ engine = IF mode = "raft" THEN "up" ELSE "down"
    /\ replays \in (IF mode = "raft" THEN {0} ELSE 0 .. MaxReplay)
    /\ engineTasks = 0

-----------------------------------------------------------------------------
(* Start                                                                   *)

\* Calls are served before the node is started.
StartServer ==
    /\ main = "created" /\ main' = "served" /\ server' = "serving"
    /\ UNCHANGED <<mode, step, handlers, loop, ctxDone, engine, storeOpen, replays, engineTasks>>

\* Node.Start: with Raft only the loop is left to start.
StartNode ==
    /\ main = "served"
    /\ IF mode = "raft"
       THEN main' = "running" /\ loop' = "waiting" /\ UNCHANGED engine
       ELSE main' = "starting" /\ engine' = "starting" /\ UNCHANGED loop
    /\ UNCHANGED <<mode, step, server, handlers, ctxDone, storeOpen, replays, engineTasks>>

\* c.mu, which IsReady and every proposal need.
LockHeld == engine = "starting"

\* Faulty: a block waits for the handler it called.
ReplayGoesOnInline == engineTasks = 0

\* Handlers run in goroutines of their own.
ReplayGoesOn == TRUE

ReplayBlock ==
    /\ main = "starting" /\ replays > 0 /\ engineTasks < MaxEngineTasks /\ ReplayGoesOn
    /\ replays' = replays - 1 /\ engineTasks' = engineTasks + 1
    /\ UNCHANGED <<mode, main, step, server, handlers, loop, ctxDone, engine, storeOpen>>

\* Consensus.Start returns, gives up the mutex, and Node.Start starts the loop.
EngineStarted ==
    /\ main = "starting" /\ replays = 0 /\ ReplayGoesOn
    /\ engine' = "up" /\ main' = "running" /\ loop' = "waiting"
    /\ UNCHANGED <<mode, step, server, handlers, ctxDone, storeOpen, replays, engineTasks>>

\* log.Fatal on a port in use, a file that cannot be written, a node that does not start.
StartFails ==
    /\ main \in {"created", "served", "starting"} /\ main' = "exited"
    /\ UNCHANGED <<mode, step, server, handlers, loop, ctxDone, engine, storeOpen, replays, engineTasks>>

-----------------------------------------------------------------------------
(* gRPC handlers and the consensus loop                                    *)

Alive == main # "exited"

Arrive(h) ==
    /\ Alive /\ server = "serving" /\ handlers[h] = "none"
    /\ handlers' = [handlers EXCEPT ![h] = "checking"]
    /\ UNCHANGED <<mode, main, step, server, loop, ctxDone, engine, storeOpen, replays, engineTasks>>

\* ProcessExecutionReport: Apply on the leader, forwarding on a follower; with CometBFT, a
\* transaction for the mempool or an error while the engine is not ready.
Check(h) ==
    /\ Alive /\ handlers[h] = "checking" /\ ~LockHeld
    /\ \E next \in (IF mode = "raft" THEN {"applying", "forwarding"} ELSE {"done"}) :
         handlers' = [handlers EXCEPT ![h] = next]
    /\ UNCHANGED <<mode, main, step, server, loop, ctxDone, engine, storeOpen, replays, engineTasks>>

\* A forwarded report has its own timeout.
Forwarded(h) ==
    /\ Alive /\ handlers[h] = "forwarding"
    /\ handlers' = [handlers EXCEPT ![h] = "done"]
    /\ UNCHANGED <<mode, main, step, server, loop, ctxDone, engine, storeOpen, replays, engineTasks>>

\* checkRaftCheckpointTrigger applies a checkpoint on the leader; CometBFT's needs the mutex.
Tick ==
    /\ Alive /\ loop = "waiting" /\ ~ctxDone /\ mode = "raft"
    /\ loop' = "applying"
    /\ UNCHANGED <<mode, main, step, server, handlers, ctxDone, engine, storeOpen, replays, engineTasks>>

LoopEnds ==
    /\ Alive /\ loop = "waiting" /\ ctxDone /\ loop' = "ended"
    /\ UNCHANGED <<mode, main, step, server, handlers, ctxDone, engine, storeOpen, replays, engineTasks>>

\* Raft commits an entry: the FSM starts a goroutine, whoever waits for the entry goes on.
Commit ==
    /\ Alive /\ mode = "raft" /\ engine = "up" /\ engineTasks < MaxEngineTasks
    /\ engineTasks' = engineTasks + 1
    /\ \/ loop = "applying" /\ loop' = "waiting" /\ UNCHANGED handlers
       \/ /\ \E h \in Handlers : handlers[h] = "applying" /\ handlers' = [handlers EXCEPT ![h] = "done"]
          /\ UNCHANGED loop
    /\ UNCHANGED <<mode, main, step, server, ctxDone, engine, storeOpen, replays>>

\* Apply returns ErrRaftShutdown.
Released ==
    /\ Alive /\ mode = "raft" /\ engine = "down"
    /\ loop = "applying" \/ \E h \in Handlers : handlers[h] = "applying"
    /\ loop' = IF loop = "applying" THEN "waiting" ELSE loop
    /\ handlers' = [h \in Handlers |-> IF handlers[h] = "applying" THEN "done" ELSE handlers[h]]
    /\ UNCHANGED <<mode, main, step, server, ctxDone, engine, storeOpen, replays, engineTasks>>

\* A goroutine of the engine: saves what was committed (a closed store only logs an error) and,
\* with CometBFT, broadcasts a signature, for which it needs the mutex.
RunTask ==
    /\ Alive /\ engineTasks > 0 /\ ~LockHeld
    /\ engineTasks' = engineTasks - 1
    /\ UNCHANGED <<mode, main, step, server, handlers, loop, ctxDone, engine, storeOpen, replays>>

-----------------------------------------------------------------------------
(* Stop                                                                    *)

Signal ==
    /\ main = "running" /\ main' = "stopping"
    /\ UNCHANGED <<mode, step, server, handlers, loop, ctxDone, engine, storeOpen, replays, engineTasks>>

\* Faulty: Raft and the store are left to the exit of the process.
StopStepsWithoutRaft == <<"cancel", "clients">>

\* Faulty: the store is closed first.
StopStepsStoreFirst == <<"cancel", "store", "raft", "clients">>

\* Node.Stop; gossip, RootLayer, SDK and metrics server are the clients.  CometBFT is not there.
StopSteps == <<"cancel", "raft", "clients", "store">>

StopStep ==
    /\ main \in {"stopping", "stopping again"} /\ step <= Len(StopSteps)
    /\ step' = step + 1
    /\ ctxDone' = (ctxDone \/ StopSteps[step] = "cancel")
    /\ engine' = IF StopSteps[step] = "raft" /\ mode = "raft" THEN "down" ELSE engine
    /\ storeOpen' = (storeOpen /\ StopSteps[step] # "store")
    /\ UNCHANGED <<mode, main, server, handlers, loop, replays, engineTasks>>

\* GracefulStop: no new calls, and it returns when the last handler has.
StopServer ==
    /\ main \in {"stopping", "stopping again"} /\ step > Len(StopSteps)
    /\ IF \A h \in Handlers : handlers[h] \in {"none", "done"}
       THEN /\ main' = (IF main = "stopping" THEN "stopping again" ELSE "exited")
            /\ step' = 1
       ELSE server # "stopped" /\ UNCHANGED <<main, step>>
    /\ server' = "stopped"
    /\ UNCHANGED <<mode, handlers, loop, ctxDone, engine, storeOpen, replays, engineTasks>>

\* The goroutine of main; the deferred calls stop node and server once more.
Main ==
    \/ StartServer \/ StartNode \/ ReplayBlock \/ EngineStarted
    \/ StopStep \/ StopServer

Handle(h) == Check(h) \/ Forwarded(h)

LifeNext ==
    \/ Main \/ StartFails \/ Signal
    \/ \E h \in Handlers : Arrive(h) \/ Handle(h)
    \/ Tick \/ LoopEnds \/ Commit \/ Released \/ RunTask

\* main, handlers and the engine's goroutines go on when they can; no commit is promised.
LifeFairness ==
    /\ WF_lifeVars(Main) /\ WF_lifeVars(Released) /\ WF_lifeVars(RunTask)
    /\ \A h \in Handlers : WF_lifeVars(Handle(h))

LifeSpec == LifeInit /\ [][LifeNext]_lifeVars /\ LifeFairness

-----------------------------------------------------------------------------
\* A node that is told to stop exits, although Stop waits for handlers that wait for a Raft
\* quorum which may never come: Raft is shut down first and lets them go.
StopsOnSignal == (main = "stopping") ~> (main = "exited")

\* CometBFT's start comes to an end, although the handlers of the blocks it replays need the
\* mutex that it holds.
StartEnds == (main = "starting") ~> (main \in {"running", "exited"})

\* Neither the start nor the stop of a node hangs.
StartAndStopEnd == StartEnds /\ StopsOnSignal

\* Raft applies entries, whose goroutines write to LevelDB, only while the store is open.  (A
\* goroutine started before the shutdown may still find it closed, and CometBFT goes on.)
StoreOutlivesRaft == mode = "raft" /\ engine = "up" => storeOpen
=============================================================================
