----------------------------- MODULE MCPipelines -----------------------------
(***************************************************************************)
(* Model checking the parts in which something must eventually happen:     *)
(* execution reports and their forwarding to the leader (ReportService),   *)
(* intents on their way from the RootLayer to an agent (IntentStream), and *)
(* the start and the stop of a validator (NodeLifecycle).                  *)
(*                                                                         *)
(* These parts share no state: `part' names the one that a behaviour runs, *)
(* whose fairness is assumed; the others stay as they are at the start.    *)
(* The bounds of a part are in the configuration.                          *)
(***************************************************************************)
EXTENDS ReportService, IntentStream, NodeLifecycle

VARIABLE part

\* The reports of one agent meet its rate limit.
MCAgentOf(r) == "a1"

-----------------------------------------------------------------------------
vars == <<part, serviceVars, streamVars, lifeVars>>

\* Nodes are alike, so it does not matter which one leads at first.
Init ==
    /\ part \in {"reports", "stream", "life"}
    /\ ServiceInit /\ StreamInit /\ LifeInit
    /\ leader = CHOOSE n \in Nodes : TRUE
    /\ part # "life" => mode = "raft"

Next ==
    \/ part = "reports" /\ ServiceNext /\ UNCHANGED <<part, streamVars, lifeVars>>
    \/ part = "stream" /\ StreamNext /\ UNCHANGED <<part, serviceVars, lifeVars>>
    \/ part = "life" /\ LifeNext /\ UNCHANGED <<part, serviceVars, streamVars>>

\* The fairness of the part that runs; in the others no call is there to be served.
Fairness ==
    /\ ServiceFairness
    /\ WF_streamVars(part = "stream" /\ Repair)
    /\ WF_streamVars(part = "stream" /\ Forwarding)
    /\ WF_streamVars(part = "stream" /\ Pulling)
    /\ SF_streamVars(part = "stream" /\ RestoreStreaming)
    /\ WF_streamVars(part = "stream" /\ Exit)
    /\ WF_lifeVars(part = "life" /\ Main)
    /\ WF_lifeVars(part = "life" /\ Released)
    /\ WF_lifeVars(part = "life" /\ RunTask)
    /\ \A h \in Handlers : WF_lifeVars(part = "life" /\ Handle(h))

Spec == Init /\ [][Next]_vars /\ Fairness
=============================================================================
