------------------------------ MODULE BidBatches ------------------------------
(***************************************************************************)
(* Bids that arrive in batches at the matcher's gRPC service               *)
(* (internal/matcher/server.go: SubmitBid, SubmitBidBatch,                 *)
(* processSingleBid, GetIntentSnapshot), while the window loop closes      *)
(* bidding windows.  A bid is verified on-chain without the lock and added *)
(* under it; a batch gives up the lock between two bids.  A single bid is  *)
(* a batch of one.                                                         *)
(***************************************************************************)
EXTENDS Naturals, Sequences, FiniteSets

CONSTANTS
    Callers,        \* concurrent gRPC calls
    Batches,        \* what a call may send: sequences of bids [id, intent]
    Windows         \* intents the matcher knows at first

ASSUME BatchesAssumption == \A bids \in Batches : bids \in Seq([id : STRING, intent : STRING]) /\ bids # <<>>

VARIABLES
    window,         \* intent -> "open" or "closed"; an intent not in it is unknown
    book,           \* bidsByIntent: intent -> sequence of bid ids
    matched,        \* the bids performMatching was given, for every closed window
    submissions     \* the calls: [bids, partialOk, at, acks]; "at" is "verify", "add" or "done"

bidVars == <<window, book, matched, submissions>>

NoCall == [at |-> "idle"]

BidInit ==
    /\ window = [i \in Windows |-> "open"]
    /\ book = [i \in Windows |-> <<>>]
    /\ matched = [i \in {} |-> <<>>]
    /\ submissions = [c \in Callers |-> NoCall]

\* SubmitBidBatch; SubmitBid sends one bid.
SubmitBidBatch(c, bids, partialOk) ==
    /\ submissions[c] = NoCall
    /\ submissions' = [submissions EXCEPT
                         ![c] = [bids |-> bids, partialOk |-> partialOk, at |-> "verify", acks |-> <<>>]]
    /\ UNCHANGED <<window, book, matched>>

NextBid(call) == call.bids[Len(call.acks) + 1]
Ack(bid, accepted) == [id |-> bid.id, accepted |-> accepted]

\* Faulty: the remaining bids are counted from the failed one.
FilledAgain(call, acks) ==
    [k \in 1..Len(call.bids) + 1 |->
        IF k <= Len(acks) THEN acks[k] ELSE Ack(call.bids[k - 1], FALSE)]

\* Every bid after the failed one is refused unseen.
Filled(call, acks) ==
    [k \in DOMAIN call.bids |-> IF k <= Len(acks) THEN acks[k] ELSE Ack(call.bids[k], FALSE)]

\* What the answer to one bid makes of the call.
Answered(call, accepted) ==
    LET acks == Append(call.acks, Ack(NextBid(call), accepted))
    IN  IF ~accepted /\ ~call.partialOk
        THEN [call EXCEPT !.acks = Filled(call, acks), !.at = "done"]
        ELSE [call EXCEPT !.acks = acks, !.at = IF Len(acks) = Len(call.bids) THEN "done" ELSE "verify"]

\* processSingleBid before the lock: no verifier, an active agent, or allowUnverified let the
\* bid pass.
Verified(c) ==
    /\ submissions[c].at = "verify"
    /\ submissions' = [submissions EXCEPT ![c].at = "add"]
    /\ UNCHANGED <<window, book, matched>>

Refused(c) ==
    /\ submissions[c].at = "verify"
    /\ submissions' = [submissions EXCEPT ![c] = Answered(@, FALSE)]
    /\ UNCHANGED <<window, book, matched>>

\* Faulty: the window is not looked at.
TakesUnseen(i) == i \in DOMAIN window

Takes(i) == i \in DOMAIN window /\ window[i] = "open"

\* processSingleBid under the lock.
ProcessSingleBid(c) ==
    /\ submissions[c].at = "add"
    /\ LET bid == NextBid(submissions[c])
       IN  /\ book' = IF Takes(bid.intent) THEN [book EXCEPT ![bid.intent] = Append(@, bid.id)] ELSE book
           /\ submissions' = [submissions EXCEPT ![c] = Answered(@, Takes(bid.intent))]
    /\ UNCHANGED <<window, matched>>

\* checkAndCloseWindows on an intent whose time is up: closed, then matched with what is there.
CheckAndCloseWindows(i) ==
    /\ window[i] = "open"
    /\ window' = [window EXCEPT ![i] = "closed"]
    /\ matched' = [j \in DOMAIN matched \cup {i} |-> IF j = i THEN book[i] ELSE matched[j]]
    /\ UNCHANGED <<book, submissions>>

\* GetIntentSnapshot: the bids of a window, of a closed one only when asked for.
GetIntentSnapshot(i, includeClosed) ==
    IF i \notin DOMAIN window \/ (window[i] = "closed" /\ ~includeClosed) THEN <<>> ELSE book[i]

BidNext ==
    \/ \E c \in Callers :
         \/ \E bids \in Batches, p \in BOOLEAN : SubmitBidBatch(c, bids, p)
         \/ Verified(c) \/ Refused(c) \/ ProcessSingleBid(c)
    \/ \E i \in DOMAIN window : CheckAndCloseWindows(i)

BidSpec == BidInit /\ [][BidNext]_bidVars

-----------------------------------------------------------------------------
AcksOf(c) ==
    {[bid |-> submissions[c].bids[k], ack |-> submissions[c].acks[k]] : k \in DOMAIN submissions[c].acks}
Accepted(i) ==
    {a.bid.id : a \in {x \in UNION {AcksOf(c) : c \in {d \in Callers : submissions[d] # NoCall}} :
                        x.bid.intent = i /\ x.ack.accepted}}

\* A bid that was acknowledged takes part in the matching of its intent, also when the window
\* closes between two bids of a batch, and no other bid does.
AcceptedIsMatched ==
    \A i \in DOMAIN matched :
        /\ Accepted(i) = {matched[i][k] : k \in DOMAIN matched[i]}
        /\ GetIntentSnapshot(i, TRUE) = matched[i]

\* The answer has one acknowledgement for every bid, at the bid's place, and a batch that does
\* not allow partial success is accepted up to its first failure and no further.
AcksFollowBids ==
    \A c \in Callers : submissions[c].at = "done" =>
        /\ Len(submissions[c].acks) = Len(submissions[c].bids)
        /\ \A k \in DOMAIN submissions[c].bids : submissions[c].acks[k].id = submissions[c].bids[k].id
        /\ ~submissions[c].partialOk =>
             \A k, m \in DOMAIN submissions[c].bids :
                 k < m /\ submissions[c].acks[m].accepted => submissions[c].acks[k].accepted
=============================================================================
