------------------------------- MODULE BidChoice -------------------------------
(***************************************************************************)
(* The bids on an intent, and the choice of the agent that gets the task   *)
(* next: findRunnerUp in simple_task_manager.go and in                     *)
(* task_distributor.go (internal/matcher), which choose alike.             *)
(***************************************************************************)
EXTENDS Naturals

CONSTANTS
    Bidders,        \* agents with a submitted bid on the intent
    Price           \* agent -> price of its bid

\* A task is only created for the winner of a matching, so there is a bid.
ASSUME PricesAssumption == Bidders # {} /\ Price \in [Bidders -> Nat]

\* findRunnerUp keeps the lowest price; bids of one price come in any order.
Cheapest(S) == CHOOSE a \in S : \A b \in S : Price[a] <= Price[b]
=============================================================================
