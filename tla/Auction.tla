-------------------------------- MODULE Auction --------------------------------
(***************************************************************************)
(* The auction library of the matcher: BidBook (bidbook.go), the matching  *)
(* engine (matching_engine.go) and AssignmentManager                       *)
(* (assignment_manager.go), for one intent.  The server does not use them  *)
(* yet; their caller here does what their interfaces are made for: match   *)
(* the windows GetClosedWindows reports and assign the result.             *)
(*                                                                         *)
(* Each of the two objects has a lock of its own.  GetSnapshot gives its   *)
(* read lock up before it takes the write lock, SendToAgent sends between  *)
(* two critical sections.                                                  *)
(***************************************************************************)
EXTENDS Naturals, Sequences, FiniteSets, Functions, SequencesExt

CONSTANTS
    AuctionAgents,  \* agents
    Prices,         \* prices a bid may ask (naturals)
    MaxRounds,      \* bound: times bidding starts for the intent
    MaxReads,       \* bound: GetSnapshot calls that find the window expired
    MaxAssignments  \* bound: assignments made

ASSUME AuctionAssumption == IsFiniteSet(AuctionAgents)

VARIABLES
    round,          \* times bidding was started
    snapshot,       \* bidsByIntent[intent]: [bids, closed], or <<>> when absent
    past,           \* BiddingEndTime of the current round has passed
    upgrading,      \* rounds of the GetSnapshot calls between read and write lock
    reads,          \* count of those calls
    closedWindows,  \* times the intent is listed
    reported,       \* history: GetClosedWindows has returned the closed round
    toMatch,        \* reports the caller has not matched yet
    allBids,        \* bid ids: <<agent, round>>
    bidsByAgent,    \* agent -> bid ids
    assignments,    \* every assignment made: [agent, status]; "deleted" when dropped
    byIntent,       \* assignmentsByIntent: index, or 0 when absent
    runnerUps,      \* agents of the runner-up bids
    pendingQueue,   \* indices in the queue
    inFlight,       \* assignments sent, status not yet updated
    causes          \* history: matches, rejections and cleanups that entitle to an assignment

bookVars == <<round, snapshot, past, upgrading, reads, closedWindows, reported, toMatch,
              allBids, bidsByAgent>>
assignVars == <<assignments, byIntent, runnerUps, pendingQueue, inFlight, causes>>
auctionVars == <<bookVars, assignVars>>

Exists == snapshot # <<>>

AuctionInit ==
    /\ round = 0 /\ snapshot = <<>> /\ past = FALSE
    /\ upgrading = {} /\ reads = 0 /\ closedWindows = 0 /\ reported = FALSE /\ toMatch = 0
    /\ allBids = {} /\ bidsByAgent = [a \in AuctionAgents |-> {}]
    /\ assignments = <<>> /\ byIntent = 0 /\ runnerUps = <<>>
    /\ pendingQueue = {} /\ inFlight = {} /\ causes = 1

-----------------------------------------------------------------------------
(* BidBook                                                                 *)

StartBidding ==
    /\ ~Exists /\ round < MaxRounds
    /\ round' = round + 1
    /\ snapshot' = [bids |-> <<>>, closed |-> FALSE]
    /\ past' = FALSE /\ reported' = FALSE
    /\ UNCHANGED <<upgrading, reads, closedWindows, toMatch, allBids, bidsByAgent, assignVars>>

EndTimePasses ==
    /\ Exists /\ ~past /\ past' = TRUE
    /\ UNCHANGED <<round, snapshot, upgrading, reads, closedWindows, reported, toMatch,
                   allBids, bidsByAgent, assignVars>>

\* Faulty: closes without listing the intent.
CloseSilently == snapshot' = [snapshot EXCEPT !.closed = TRUE] /\ closedWindows' = closedWindows

\* snapshot.BiddingClosed = true, with the intent listed once more.
CloseWindow == snapshot' = [snapshot EXCEPT !.closed = TRUE] /\ closedWindows' = closedWindows + 1

WithBid(bids, a, p) == [b \in DOMAIN bids \cup {a} |-> IF b = a THEN p ELSE bids[b]]

\* AddBid on an open window: a first bid is entered, a lower one replaces the agent's
\* bid in place.
AddBid(a, p) ==
    /\ Exists /\ ~snapshot.closed /\ ~past
    /\ \/ /\ a \notin DOMAIN snapshot.bids
          /\ snapshot' = [snapshot EXCEPT !.bids = WithBid(@, a, p)]
          /\ allBids' = allBids \cup {<<a, round>>}
          /\ bidsByAgent' = [bidsByAgent EXCEPT ![a] = @ \cup {<<a, round>>}]
       \/ /\ a \in DOMAIN snapshot.bids /\ p < snapshot.bids[a]
          /\ snapshot' = [snapshot EXCEPT !.bids = WithBid(@, a, p)]
          /\ UNCHANGED <<allBids, bidsByAgent>>
    /\ UNCHANGED <<round, past, upgrading, reads, closedWindows, reported, toMatch, assignVars>>

\* AddBid past the end: refused, and the window is closed.
AddBidLate ==
    /\ Exists /\ ~snapshot.closed /\ past
    /\ CloseWindow
    /\ UNCHANGED <<round, past, upgrading, reads, reported, toMatch, allBids, bidsByAgent, assignVars>>

\* GetSnapshot sees an expired open window under the read lock ...
GetSnapshot ==
    /\ Exists /\ ~snapshot.closed /\ past /\ reads < MaxReads
    /\ reads' = reads + 1 /\ upgrading' = upgrading \cup {<<reads, round>>}
    /\ UNCHANGED <<round, snapshot, past, closedWindows, reported, toMatch, allBids,
                   bidsByAgent, assignVars>>

\* ... and closes it under the write lock, whatever happened in between; a snapshot
\* removed meanwhile is closed in vain and the intent listed all the same.
GetSnapshotUpgraded(u) ==
    /\ u \in upgrading
    /\ upgrading' = upgrading \ {u}
    /\ IF Exists /\ u[2] = round
       THEN CloseWindow
       ELSE closedWindows' = closedWindows + 1 /\ UNCHANGED snapshot
    /\ UNCHANGED <<round, past, reads, reported, toMatch, allBids, bidsByAgent, assignVars>>

\* GetClosedWindows closes what has expired, hands the list over and clears it.
GetClosedWindows ==
    LET expires == Exists /\ ~snapshot.closed /\ past
        listed == closedWindows + (IF expires THEN 1 ELSE 0)
    IN  /\ listed > 0
        /\ toMatch' = toMatch + listed /\ closedWindows' = 0
        /\ snapshot' = IF expires THEN [snapshot EXCEPT !.closed = TRUE] ELSE snapshot
        /\ reported' = (reported \/ (Exists /\ snapshot'.closed))
        /\ UNCHANGED <<round, past, upgrading, reads, allBids, bidsByAgent, assignVars>>

BidIds == {<<a, round>> : a \in DOMAIN snapshot.bids}

\* Faulty: leaves the bids in allBids.
DropBidsLeaky == allBids' = allBids

\* The bids of a removed intent leave allBids.
DropBids == allBids' = allBids \ BidIds

RemoveIntent ==
    /\ Exists
    /\ DropBids /\ bidsByAgent' = [a \in AuctionAgents |-> bidsByAgent[a] \ BidIds]
    /\ snapshot' = <<>>
    /\ UNCHANGED <<round, past, upgrading, reads, closedWindows, reported, toMatch, assignVars>>

\* BidBook.CleanupExpired leaves bidsByAgent alone.
CleanupExpiredBids ==
    /\ Exists /\ snapshot.closed
    /\ DropBids /\ snapshot' = <<>>
    /\ UNCHANGED <<round, past, upgrading, reads, closedWindows, reported, toMatch,
                   bidsByAgent, assignVars>>

-----------------------------------------------------------------------------
(* MatchingEngine and AssignmentManager                                    *)

\* scoreBids and sort.Slice: only the price differs between scores, the lower the
\* better; bids of one price come in any order.
Scored(bids) ==
    {s \in SetToSeqs(DOMAIN bids) : \A i, j \in DOMAIN s : i < j => bids[s[i]] <= bids[s[j]]}

NewAssignment(a) == [agent |-> a, status |-> "PENDING"]

Stored(a) ==
    /\ assignments' = Append(assignments, NewAssignment(a))
    /\ byIntent' = Len(assignments) + 1
    /\ pendingQueue' = pendingQueue \cup {Len(assignments) + 1}

\* Faulty: does not look for an assignment of the intent.
MayCreateAlways == TRUE

\* CreateAssignment returns the assignment an intent already has.
MayCreate == byIntent = 0

\* The caller matches a reported window (none when the book is gone or has no bid) and
\* assigns it to the winner, keeping two runner-ups.
MatchAndCreateAssignment ==
    /\ toMatch > 0 /\ Len(assignments) < MaxAssignments
    /\ toMatch' = toMatch - 1
    /\ \/ /\ Exists /\ snapshot.closed /\ snapshot.bids # <<>> /\ MayCreate
          /\ \E s \in Scored(snapshot.bids) :
               /\ Stored(s[1])
               /\ runnerUps' = IF Len(s) > 1 THEN SubSeq(s, 2, IF Len(s) < 3 THEN Len(s) ELSE 3)
                               ELSE runnerUps
       \/ /\ ~(Exists /\ snapshot.closed /\ snapshot.bids # <<>> /\ MayCreate)
          /\ UNCHANGED <<assignments, byIntent, pendingQueue, runnerUps>>
    /\ UNCHANGED <<round, snapshot, past, upgrading, reads, closedWindows, reported, allBids,
                   bidsByAgent, inFlight, causes>>

\* GetPendingAssignments and SendToAgent up to the send: the agent may answer from now on.
SendToAgent(i) ==
    /\ i \in pendingQueue /\ assignments[i].status = "PENDING"
    /\ inFlight' = inFlight \cup {i}
    /\ UNCHANGED <<bookVars, assignments, byIntent, runnerUps, pendingQueue, causes>>

\* SendToAgent marks the assignment SENT, over whatever became of it.
SendToAgentReturns(i) ==
    /\ i \in inFlight /\ inFlight' = inFlight \ {i}
    /\ assignments' = IF assignments[i].status = "deleted" THEN assignments
                      ELSE [assignments EXCEPT ![i].status = "SENT"]
    /\ UNCHANGED <<bookVars, byIntent, runnerUps, pendingQueue, causes>>

ConfirmAssignment(i) ==
    /\ assignments[i].status # "deleted"
    /\ assignments' = [assignments EXCEPT ![i].status = "ACTIVE"]
    /\ pendingQueue' = pendingQueue \ {i}
    /\ UNCHANGED <<bookVars, byIntent, runnerUps, inFlight, causes>>

\* HandleRejection and activateRunnerUpInternal, for a first or a repeated rejection.
HandleRejection(i) ==
    /\ assignments[i].status # "deleted" /\ Len(assignments) < MaxAssignments
    /\ LET rejected == [assignments EXCEPT ![i].status = "REJECTED"]
       IN  IF runnerUps = <<>>
           THEN /\ assignments' = rejected
                /\ UNCHANGED <<byIntent, pendingQueue, runnerUps, causes>>
           ELSE /\ assignments' = Append(rejected, NewAssignment(Head(runnerUps)))
                /\ byIntent' = Len(assignments) + 1
                /\ pendingQueue' = pendingQueue \cup {Len(assignments) + 1}
                /\ runnerUps' = Tail(runnerUps)
                /\ causes' = causes + 1
    /\ UNCHANGED <<bookVars, inFlight>>

\* Faulty: leaves the index pointing at the assignment it deletes.
IndexAfterCleanupKept == byIntent

\* The index goes with any assignment of the intent, the current one or not.
IndexAfterCleanup == 0

CleanupExpiredAssignment(i) ==
    /\ assignments[i].status = "REJECTED"
    /\ assignments' = [assignments EXCEPT ![i].status = "deleted"]
    /\ byIntent' = IndexAfterCleanup
    /\ causes' = causes + 1
    /\ UNCHANGED <<bookVars, runnerUps, pendingQueue, inFlight>>

AuctionNext ==
    \/ StartBidding \/ EndTimePasses \/ AddBidLate \/ GetSnapshot \/ GetClosedWindows
    \/ RemoveIntent \/ CleanupExpiredBids \/ MatchAndCreateAssignment
    \/ \E a \in AuctionAgents, p \in Prices : AddBid(a, p)
    \/ \E u \in upgrading : GetSnapshotUpgraded(u)
    \/ \E i \in DOMAIN assignments :
         \/ SendToAgent(i) \/ SendToAgentReturns(i) \/ ConfirmAssignment(i)
         \/ HandleRejection(i) \/ CleanupExpiredAssignment(i)

AuctionSpec == AuctionInit /\ [][AuctionNext]_auctionVars

-----------------------------------------------------------------------------
\* A closed window has been reported by GetClosedWindows or will be by its next call,
\* whichever of AddBid, GetSnapshot and GetClosedWindows closed it.
ClosedIsAnnounced == Exists /\ snapshot.closed => reported \/ closedWindows > 0

\* A window reported twice, which the lock upgrade of GetSnapshot makes possible, is
\* assigned once: every further assignment has a rejection or a cleanup behind it.
AssignedOncePerCause == Len(assignments) <= causes

\* The intent's index entry names an assignment that is still there.
IntentIndexResolves == byIntent # 0 => assignments[byIntent].status # "deleted"

\* TotalBidCount counts the bids of the books that exist.
AllBidsAreOfTheBook == allBids = IF Exists THEN BidIds ELSE {}

\* Whichever of AddBid, GetSnapshot and GetClosedWindows closed a window, it is reported; a
\* window reported twice, which the lock upgrade of GetSnapshot makes possible, is assigned
\* once; the index names an assignment that is there, and the bid count that of the books.
AuctionInv == ClosedIsAnnounced /\ AssignedOncePerCause /\ IntentIndexResolves /\ AllBidsAreOfTheBook
=============================================================================
