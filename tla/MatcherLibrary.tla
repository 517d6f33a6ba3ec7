----------------------------- MODULE MatcherLibrary -----------------------------
(***************************************************************************)
(* The parts of the matcher that work on bids, tasks and intents under     *)
(* locks of their own, side by side: Auction, TaskManager, TaskDistributor *)
(* and IntentFeed from its library, BidBatches from its server.  What      *)
(* several of them promise together is stated here.                        *)
(***************************************************************************)
EXTENDS Auction, TaskManager, TaskDistributor, IntentFeed, BidBatches

\* Tasks in the manager and in the distributor: none is left without a goroutine that will
\* hand it on, and the agents' index agrees with the map; timeouts and retries stay within
\* their limits, and a retry leaves the agent that failed, though answers, timers and the
\* unlocked write of the limit interleave.
TasksInv ==
    /\ NoTaskForgotten /\ AgentIndexAgrees
    /\ TimeoutWithinLimits /\ RetriesBounded /\ RetryAvoidsFailed

\* What comes in takes part: a subscriber that was caught up misses no intent and gets none
\* twice, however pulls, broadcast and subscription interleave; an acknowledged bid is
\* matched, also when the window closes within its batch, and acknowledgements line up with bids.
IntakeInv ==
    /\ NoIntentMissed /\ BroadcastOnce
    /\ AcceptedIsMatched /\ AcksFollowBids
=============================================================================
