-------------------------------- MODULE Matcher --------------------------------
(***************************************************************************)
(* The matcher server, internal/matcher/server.go: intents are opened for  *)
(* bidding, a closed window is matched to the lowest bid, the assignment   *)
(* is written to the chain and to RootLayer and sent to the agent, and an  *)
(* agent that rejects its task makes a goroutine look for a runner-up.     *)
(*                                                                         *)
(* s.mu is held by every handler from its first to its last access, the    *)
(* RPCs of checkAndCloseWindows included, so those are single actions.     *)
(* tryAssignToRunnerUp runs createAssignment without the lock: it is one   *)
(* action per shared access or RPC, the writes of                          *)
(* handleAssignmentFailureLocked included.  A concurrent map access that   *)
(* the Go runtime detects, or a send on a channel that CloseStream closes, *)
(* ends the process, which keeps nothing on disk: a behaviour that stops   *)
(* there.                                                                  *)
(*                                                                         *)
(* A window is its two flags: "open" when WindowClosed and Matched are     *)
(* false, "matched" when both are true, "reopening" when only Matched is,  *)
(* "closed" when only WindowClosed is, and "none" when the intent is not   *)
(* in the map.  An open window may close at any time: BiddingEndTime is    *)
(* left out, with the moment at which it is set anew.                      *)
(***************************************************************************)
EXTENDS Integers, Sequences, FiniteSets

CONSTANTS
    Intents,
    Agents,
    Bids,               \* [agent, price, address, status] records agents may send
    NoAgent,
    EnableChainSubmit,  \* cfg.EnableChainSubmit with an SDK client
    MaxBids,            \* bound: bids per intent
    MaxAssignments,     \* bound: assignments ever created
    MaxStreams          \* bound: task streams ever opened

\* address: a usable chain_address in the metadata; status: the Status the agent
\* put in the bid, "submitted" or anything else.
Bid == [agent : Agents, price : Nat, address : BOOLEAN,
        status : {"submitted", "other", "winner"}]

ASSUME BidsAssumption == Bids \subseteq Bid

ASSUME MatcherAssumption ==
    /\ NoAgent \notin Agents
    /\ EnableChainSubmit \in BOOLEAN
    /\ MaxBids \in Nat /\ MaxAssignments \in Nat /\ MaxStreams \in Nat

Assignment == [id : Nat, intent : Intents, agent : Agents]

WindowState == {"none", "open", "reopening", "closed", "matched"}

\* Steps of handleAssignmentFailureLocked, from the decision to the deletion of the
\* pending entry.
FailurePhases == {"reopen", "rematch", "drop", "drop bids", "forget", "cleanup"}

\* A tryAssignToRunnerUp goroutine: about to look for a bid, about to create the
\* assignment, about to write it to the chain or to RootLayer, or within the handling
\* of a failed submission.
RunnerUp == [phase : {"select"}, intent : Intents, exclude : Agents]
              \cup [phase : {"create"}, intent : Intents, bid : Bid]
              \cup [phase : {"chain", "root"} \cup FailurePhases, intent : Intents,
                    assignment : Assignment]

VARIABLES
    expired,          \* intents past IntentExpiration or Deadline
    window,           \* intents
    bids,             \* bidsByIntent
    matchingResult,   \* matchingResults: the winning agent
    pending,          \* pendingAssignments
    confirmed,        \* assignments
    created,          \* assignments created so far, the source of ids
    runnerUps,        \* tryAssignToRunnerUp goroutines
    streams,          \* task streams open, per agent
    agentTasks,       \* the stream whose channel gets the agent's tasks, or 0
    opened,           \* task streams opened so far
    onChain,          \* assignments sent to the chain (external)
    onRoot,           \* assignments RootLayer holds (external)
    delivered         \* assignments whose task the agent has received

intentVars == <<expired, window, bids, matchingResult>>
streamVars == <<streams, agentTasks, opened>>

vars == <<expired, window, bids, matchingResult, pending, confirmed, created, runnerUps,
          streams, agentTasks, opened, onChain, onRoot, delivered>>

Init ==
    /\ expired = {}
    /\ window = [i \in Intents |-> "none"]
    /\ bids = [i \in Intents |-> <<>>]
    /\ matchingResult = [i \in Intents |-> NoAgent]
    /\ pending = {}
    /\ confirmed = {}
    /\ created = 0
    /\ runnerUps = {}
    /\ streams = [a \in Agents |-> {}]
    /\ agentTasks = [a \in Agents |-> 0]
    /\ opened = 0
    /\ onChain = {}
    /\ onRoot = {}
    /\ delivered = {}

-----------------------------------------------------------------------------
(***************************************************************************)
(* Intents and bids                                                        *)
(***************************************************************************)

\* The clock passes the intent's expiration or deadline.
Expire(i) ==
    /\ i \notin expired
    /\ expired' = expired \cup {i}
    /\ UNCHANGED <<window, bids, matchingResult, pending, confirmed, created, runnerUps,
                   streamVars, onChain, onRoot, delivered>>

\* AddIntent, from the intent stream or from polling: duplicates and expired
\* intents are ignored.
AddIntent(i) ==
    /\ window[i] = "none" /\ i \notin expired
    /\ window' = [window EXCEPT ![i] = "open"]
    /\ bids' = [bids EXCEPT ![i] = <<>>]
    /\ UNCHANGED <<expired, matchingResult, pending, confirmed, created, runnerUps,
                   streamVars, onChain, onRoot, delivered>>

\* processSingleBid: known intent, window not closed.
SubmitBid(i, b) ==
    /\ window[i] \in {"open", "reopening"} /\ Len(bids[i]) < MaxBids
    /\ bids' = [bids EXCEPT ![i] = Append(@, b)]
    /\ UNCHANGED <<expired, window, matchingResult, pending, confirmed, created, runnerUps,
                   streamVars, onChain, onRoot, delivered>>

-----------------------------------------------------------------------------
(***************************************************************************)
(* Matching                                                                *)
(***************************************************************************)

\* LowestPriceBidStrategy.SelectWinner; sort.Slice is not stable, so any bid of
\* the lowest price may come first.
Winners(i) ==
    {k \in 1..Len(bids[i]) :
       \A j \in 1..Len(bids[i]) : bids[i][k].price <= bids[i][j].price}

NewAssignment(i, b) == [id |-> created + 1, intent |-> i, agent |-> b.agent]

\* handleAssignmentFailureLocked under the lock of checkAndCloseWindows:
\* dropIntentLocked for an expired intent and resetIntentWindowLocked, which keeps
\* the bids, for another; nothing for an intent that is gone.
HandleAssignmentFailure(i) ==
    /\ window' = [window EXCEPT ![i] =
                     IF i \in expired \/ @ = "none" THEN "none" ELSE "open"]
    /\ bids' = [bids EXCEPT ![i] = IF i \in expired THEN <<>> ELSE @]
    /\ matchingResult' = [matchingResult EXCEPT ![i] = NoAgent]

\* sendTaskToAgent: no registered stream, a full channel or a stream that breaks
\* loses the task.
SendTask(a) ==
    \/ delivered' = delivered
    \/ agentTasks[a.agent] # 0 /\ delivered' = delivered \cup {a}

\* checkAndCloseWindows on a window that nobody bid in: matched to nobody.
CloseWithoutBids(i) ==
    /\ window[i] = "open" /\ bids[i] = <<>>
    /\ window' = [window EXCEPT ![i] = "matched"]
    /\ UNCHANGED <<expired, bids, matchingResult, pending, confirmed, created, runnerUps,
                   streamVars, onChain, onRoot, delivered>>

\* performMatching and createAssignment return early when the winner's bid holds
\* no chain address: the intent stays matched and has no assignment.
CloseInvalidAddress(i, k) ==
    /\ window[i] = "open" /\ k \in Winners(i) /\ ~bids[i][k].address
    /\ window' = [window EXCEPT ![i] = "matched"]
    /\ matchingResult' = [matchingResult EXCEPT ![i] = bids[i][k].agent]
    /\ UNCHANGED <<expired, bids, pending, confirmed, created, runnerUps, streamVars,
                   onChain, onRoot, delivered>>

\* Where an assignment may end up on the chain: nowhere when submission is off.
ChainWith(a) == IF EnableChainSubmit THEN onChain \cup {a} ELSE onChain

\* The window closes and both submissions succeed.
CloseAndAssign(i, k) ==
    /\ window[i] = "open" /\ k \in Winners(i) /\ bids[i][k].address
    /\ created < MaxAssignments
    /\ window' = [window EXCEPT ![i] = "matched"]
    /\ matchingResult' = [matchingResult EXCEPT ![i] = bids[i][k].agent]
    /\ created' = created + 1
    /\ pending' = pending \cup {NewAssignment(i, bids[i][k])}
    /\ onChain' = ChainWith(NewAssignment(i, bids[i][k]))
    /\ onRoot' = onRoot \cup {NewAssignment(i, bids[i][k])}
    /\ SendTask(NewAssignment(i, bids[i][k]))
    /\ UNCHANGED <<expired, bids, confirmed, runnerUps, streamVars>>

\* The window closes and the chain or RootLayer submission returns an error; a
\* call that timed out may still have taken effect.  The assignment is dropped and
\* the intent re-opened, or forgotten when it has expired.
CloseAndFail(i, k) ==
    /\ window[i] = "open" /\ k \in Winners(i) /\ bids[i][k].address
    /\ created < MaxAssignments
    /\ HandleAssignmentFailure(i)
    /\ created' = created + 1
    /\ \/ /\ onChain' \in {onChain, ChainWith(NewAssignment(i, bids[i][k]))}
          /\ onRoot' = onRoot
       \/ /\ onChain' = ChainWith(NewAssignment(i, bids[i][k]))
          /\ onRoot' = onRoot \cup {NewAssignment(i, bids[i][k])}
    /\ UNCHANGED <<expired, pending, confirmed, runnerUps, streamVars, delivered>>

-----------------------------------------------------------------------------
(***************************************************************************)
(* RespondToTask and the runner-up                                         *)
(***************************************************************************)

\* Faulty: also finds a task that is already confirmed.
FindTaskAnywhere(a) == a \in pending \cup confirmed

\* The lookup in pendingAssignments: a repeated response finds nothing.
FindTask(a) == a \in pending

AcceptTask(a) ==
    /\ a \in delivered /\ FindTask(a)
    /\ pending' = pending \ {a}
    /\ confirmed' = confirmed \cup {a}
    /\ UNCHANGED <<intentVars, created, runnerUps, streamVars, onChain, onRoot, delivered>>

RejectTask(a) ==
    /\ a \in delivered /\ FindTask(a)
    /\ pending' = pending \ {a}
    /\ runnerUps' = runnerUps \cup
         {[phase |-> "select", intent |-> a.intent, exclude |-> a.agent]}
    /\ UNCHANGED <<intentVars, confirmed, created, streamVars, onChain, onRoot, delivered>>

\* Bids the loop of tryAssignToRunnerUp considers.
Eligible(i, exclude) ==
    {k \in 1..Len(bids[i]) : bids[i][k].agent # exclude /\ bids[i][k].status = "submitted"}

\* nextBest.Status = BID_STATUS_WINNER
MarkWinner(b) ==
    [agent |-> b.agent, price |-> b.price, address |-> b.address, status |-> "winner"]

\* The first eligible bid of the lowest price; none ends the goroutine.
SelectRunnerUp(g) ==
    /\ g \in runnerUps /\ g.phase = "select"
    /\ \/ /\ Eligible(g.intent, g.exclude) = {}
          /\ runnerUps' = runnerUps \ {g}
          /\ UNCHANGED bids
       \/ \E k \in Eligible(g.intent, g.exclude) :
            /\ \A j \in Eligible(g.intent, g.exclude) :
                 \/ bids[g.intent][k].price < bids[g.intent][j].price
                 \/ bids[g.intent][k].price = bids[g.intent][j].price /\ k <= j
            /\ bids' = [bids EXCEPT ![g.intent][k] = MarkWinner(@)]
            /\ runnerUps' = (runnerUps \ {g}) \cup
                 {[phase |-> "create", intent |-> g.intent, bid |-> bids[g.intent][k]]}
    /\ UNCHANGED <<expired, window, matchingResult, pending, confirmed, created, streamVars,
                   onChain, onRoot, delivered>>

\* Faulty: RootLayer first, whatever the configuration.
FirstPhaseRoot == "root"

\* createAssignment submits to the chain first, when that is enabled.
FirstPhase == IF EnableChainSubmit THEN "chain" ELSE "root"

\* createAssignment without the lock: the early returns, or the pending entry.
CreateForRunnerUp(g) ==
    /\ g \in runnerUps /\ g.phase = "create"
    /\ \/ /\ window[g.intent] = "none" \/ ~g.bid.address
          /\ runnerUps' = runnerUps \ {g}
          /\ UNCHANGED <<pending, created>>
       \/ /\ window[g.intent] # "none" /\ g.bid.address /\ created < MaxAssignments
          /\ created' = created + 1
          /\ pending' = pending \cup {NewAssignment(g.intent, g.bid)}
          /\ runnerUps' = (runnerUps \ {g}) \cup
               {[phase |-> FirstPhase, intent |-> g.intent,
                 assignment |-> NewAssignment(g.intent, g.bid)]}
    /\ UNCHANGED <<intentVars, confirmed, streamVars, onChain, onRoot, delivered>>

\* submitAssignmentToChainSync for the runner-up.
SubmitRunnerUpToChain(g) ==
    /\ g \in runnerUps /\ g.phase = "chain"
    /\ onChain' = ChainWith(g.assignment)
    /\ runnerUps' = (runnerUps \ {g}) \cup
         {[phase |-> "root", intent |-> g.intent, assignment |-> g.assignment]}
    /\ UNCHANGED <<intentVars, pending, confirmed, created, streamVars, onRoot, delivered>>

\* SubmitAssignment for the runner-up, then the task.
SubmitRunnerUpToRoot(g) ==
    /\ g \in runnerUps /\ g.phase = "root"
    /\ onRoot' = onRoot \cup {g.assignment}
    /\ SendTask(g.assignment)
    /\ runnerUps' = runnerUps \ {g}
    /\ UNCHANGED <<intentVars, pending, confirmed, created, streamVars, onChain>>

GoOn(g, phase) ==
    runnerUps' = (runnerUps \ {g}) \cup
      {[phase |-> phase, intent |-> g.intent, assignment |-> g.assignment]}

\* Either submission fails, or takes effect and times out.
\* handleAssignmentFailureLocked looks at the window and the clock, without the lock.
RunnerUpFails(g) ==
    /\ g \in runnerUps /\ g.phase \in {"chain", "root"}
    /\ GoOn(g, IF window[g.intent] = "none" THEN "cleanup"
               ELSE IF g.intent \in expired THEN "drop" ELSE "reopen")
    /\ onChain' \in {onChain, IF g.phase = "chain" THEN ChainWith(g.assignment) ELSE onChain}
    /\ onRoot' \in {onRoot, IF g.phase = "root" THEN onRoot \cup {g.assignment} ELSE onRoot}
    /\ UNCHANGED <<intentVars, pending, confirmed, created, streamVars, delivered>>

\* resetIntentWindowLocked: WindowClosed = false, and bids are taken again.
Unclosed(w) == IF w = "matched" THEN "reopening" ELSE IF w = "closed" THEN "open" ELSE w

ReopenWindow(g) ==
    /\ g \in runnerUps /\ g.phase = "reopen"
    /\ window' = [window EXCEPT ![g.intent] = Unclosed(@)]
    /\ GoOn(g, "rematch")
    /\ UNCHANGED <<expired, bids, matchingResult, pending, confirmed, created, streamVars,
                   onChain, onRoot, delivered>>

\* Matched = false: from here on windowCheckLoop may match the intent again.
Unmatched(w) == IF w = "matched" THEN "closed" ELSE IF w = "reopening" THEN "open" ELSE w

AllowMatching(g) ==
    /\ g \in runnerUps /\ g.phase = "rematch"
    /\ window' = [window EXCEPT ![g.intent] = Unmatched(@)]
    /\ GoOn(g, "forget")
    /\ UNCHANGED <<expired, bids, matchingResult, pending, confirmed, created, streamVars,
                   onChain, onRoot, delivered>>

\* dropIntentLocked, one map after the other.
DropWindow(g) ==
    /\ g \in runnerUps /\ g.phase = "drop"
    /\ window' = [window EXCEPT ![g.intent] = "none"]
    /\ GoOn(g, "drop bids")
    /\ UNCHANGED <<expired, bids, matchingResult, pending, confirmed, created, streamVars,
                   onChain, onRoot, delivered>>

DropBids(g) ==
    /\ g \in runnerUps /\ g.phase = "drop bids"
    /\ bids' = [bids EXCEPT ![g.intent] = <<>>]
    /\ GoOn(g, "forget")
    /\ UNCHANGED <<expired, window, matchingResult, pending, confirmed, created, streamVars,
                   onChain, onRoot, delivered>>

\* delete(s.matchingResults, intentID), the last line of both; it may be the result of
\* the next match.
ForgetResult(g) ==
    /\ g \in runnerUps /\ g.phase = "forget"
    /\ matchingResult' = [matchingResult EXCEPT ![g.intent] = NoAgent]
    /\ GoOn(g, "cleanup")
    /\ UNCHANGED <<expired, window, bids, pending, confirmed, created, streamVars,
                   onChain, onRoot, delivered>>

\* Faulty: the failed assignment stays pending.
CleanedNever(a) == {}

\* cleanupPendingAssignmentLocked
Cleaned(a) == {a}

CleanupPending(g) ==
    /\ g \in runnerUps /\ g.phase = "cleanup"
    /\ pending' = pending \ Cleaned(g.assignment)
    /\ runnerUps' = runnerUps \ {g}
    /\ UNCHANGED <<intentVars, confirmed, created, streamVars, onChain, onRoot, delivered>>

-----------------------------------------------------------------------------
(***************************************************************************)
(* Task streams                                                            *)
(***************************************************************************)

\* StreamTasks: a stream gets the agent's tasks only if no other one does.
StreamTasks(a) ==
    /\ opened < MaxStreams
    /\ opened' = opened + 1
    /\ streams' = [streams EXCEPT ![a] = @ \cup {opened + 1}]
    /\ agentTasks' = [agentTasks EXCEPT ![a] = IF @ = 0 THEN opened + 1 ELSE @]
    /\ UNCHANGED <<intentVars, pending, confirmed, created, runnerUps, onChain, onRoot,
                   delivered>>

\* The deferred cleanup of StreamTasks.
CloseStream(a, s) ==
    /\ s \in streams[a]
    /\ streams' = [streams EXCEPT ![a] = @ \ {s}]
    /\ agentTasks' = [agentTasks EXCEPT ![a] = IF @ = s THEN 0 ELSE @]
    /\ UNCHANGED <<intentVars, pending, confirmed, created, runnerUps, opened, onChain,
                   onRoot, delivered>>

-----------------------------------------------------------------------------
Next ==
    \/ \E i \in Intents :
         \/ Expire(i) \/ AddIntent(i) \/ CloseWithoutBids(i)
         \/ \E b \in Bids : SubmitBid(i, b)
         \/ \E k \in 1..Len(bids[i]) :
              CloseInvalidAddress(i, k) \/ CloseAndAssign(i, k) \/ CloseAndFail(i, k)
    \/ \E a \in delivered : AcceptTask(a) \/ RejectTask(a)
    \/ \E g \in runnerUps :
         \/ SelectRunnerUp(g) \/ CreateForRunnerUp(g) \/ SubmitRunnerUpToChain(g)
         \/ SubmitRunnerUpToRoot(g) \/ RunnerUpFails(g)
         \/ ReopenWindow(g) \/ AllowMatching(g) \/ DropWindow(g) \/ DropBids(g)
         \/ ForgetResult(g) \/ CleanupPending(g)
    \/ \E a \in Agents : StreamTasks(a) \/ \E s \in streams[a] : CloseStream(a, s)

Spec == Init /\ [][Next]_vars

-----------------------------------------------------------------------------
\* Every variable keeps its type; an assignment always names an agent that bid.
TypeOK ==
    /\ expired \subseteq Intents
    /\ window \in [Intents -> WindowState]
    /\ bids \in [Intents -> Seq(Bid)]
    /\ matchingResult \in [Intents -> Agents \cup {NoAgent}]
    /\ pending \subseteq Assignment
    /\ confirmed \subseteq Assignment
    /\ created \in Nat
    /\ runnerUps \subseteq RunnerUp
    /\ streams \in [Agents -> SUBSET Nat]
    /\ agentTasks \in [Agents -> Nat]
    /\ opened \in Nat
    /\ onChain \subseteq Assignment
    /\ onRoot \subseteq Assignment
    /\ delivered \subseteq Assignment

\* Assignments the matcher works with: waiting for the agent, or accepted by it.
Live(i) == {a \in pending \cup confirmed : a.intent = i}

\* Assignments of goroutines that are cleaning up after a failed submission.
Failed == {g.assignment : g \in {h \in runnerUps : h.phase \in FailurePhases}}

\* However rejections, failed submissions, re-opened windows and the unlocked
\* runner-up goroutine interleave, one assignment of an intent at most is pending or
\* confirmed, next to some whose submission failed, that no agent was told of and
\* that their goroutines are about to delete.  So two agents never hold an intent.
OneLiveAssignment ==
    /\ \A i \in Intents : \A a, b \in Live(i) \ Failed : a = b
    /\ Failed \cap (confirmed \cup delivered) = {}

\* "MUST be called while holding s.mu (createAssignment already does this)", says the
\* comment of handleAssignmentFailureLocked: what the lock is for is that nobody finds
\* a failure half handled, the intent matched anew with the old assignment pending.
\* createAssignment does not hold it when tryAssignToRunnerUp calls it.
FailureUnderLock ==
    \A g \in runnerUps : g.phase \in FailurePhases => Live(g.intent) = {g.assignment}

\* An agent is asked to execute an intent only when RootLayer and, with chain
\* submission on, the chain have been given the assignment ("validators need to
\* query assignment from RootLayer when submitting validation results").
ConfirmedIsRecorded ==
    \A a \in delivered \cup confirmed :
      a \in onRoot /\ (EnableChainSubmit => a \in onChain)

FinalStep ==
    \A a \in confirmed :
      /\ a \in confirmed'
      /\ window'[a.intent] = "matched"
      /\ \A b \in (onChain' \ onChain) \cup (pending' \ pending) : b.intent # a.intent

\* Once an agent has accepted an intent, nothing re-opens it and no assignment of
\* it is created or submitted any more.
ConfirmedIsFinal == [][FinalStep]_vars
=============================================================================
