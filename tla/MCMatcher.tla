------------------------------- MODULE MCMatcher -------------------------------
(***************************************************************************)
(* Instances of Matcher for TLC.                                           *)
(***************************************************************************)
EXTENDS Matcher

CONSTANTS i1, a1, a2

\* Two usable bids of different prices.
MCTwoBids ==
    {[agent |-> a1, price |-> 1, address |-> TRUE, status |-> "submitted"],
     [agent |-> a2, price |-> 2, address |-> TRUE, status |-> "submitted"]}

\* With a bid of the lowest price that lacks the status and one without a usable
\* chain address.
MCMixedBids ==
    MCTwoBids \cup
    {[agent |-> a2, price |-> 1, address |-> TRUE, status |-> "other"],
     [agent |-> a2, price |-> 1, address |-> FALSE, status |-> "submitted"]}
=============================================================================
