---------------------------- MODULE Matcher_proofs ----------------------------
(***************************************************************************)
(* Proofs about Matcher: at most one live assignment per intent, and no    *)
(* confirmed or delivered assignment that is not recorded, for any number  *)
(* of intents, agents, bids, assignments and streams.                      *)
(***************************************************************************)
EXTENDS Matcher, TLAPS

\* What is live and not about to be deleted.
Current(i) == Live(i) \ Failed

\* A goroutine is in charge of its intent until it lets windowCheckLoop match it again.
InCharge == {"select", "create", "chain", "root", "reopen", "rematch", "drop"}

Owning == {"chain", "root"} \cup FailurePhases

\* A current assignment or a goroutine in charge keeps the loop away from the intent.
BusyIsMatched ==
    /\ \A i \in Intents : window[i] # "matched" => Current(i) = {}
    /\ \A g \in runnerUps : g.phase \in InCharge =>
         \/ g.phase # "rematch" /\ window[g.intent] = "matched"
         \/ g.phase = "rematch" /\ window[g.intent] = "reopening"

OneRunnerUp ==
    \A g, h \in runnerUps :
      g.phase \in InCharge /\ h.phase \in InCharge /\ g.intent = h.intent => g = h

\* Unless it is submitting one, nothing is current for the intent of a goroutine in charge.
RunnerUpAlone ==
    \A g \in runnerUps :
      g.phase \in InCharge \ {"chain", "root"} => Current(g.intent) = {}

\* A goroutine that has created its assignment finds it pending and undelivered.
RunnerUpPending ==
    \A g \in runnerUps :
      g.phase \in Owning =>
        /\ g.assignment \in pending
        /\ g.assignment \notin delivered
        /\ g.assignment.intent = g.intent
        /\ g.phase = "root" /\ EnableChainSubmit => g.assignment \in onChain

\* An assignment is that of one goroutine.
OneOwner ==
    \A g, h \in runnerUps :
      g.phase \in Owning /\ h.phase \in Owning /\ g.assignment = h.assignment => g = h

IdsUsed == \A a \in pending \cup confirmed \cup delivered : a.id <= created

Exclusive == pending \cap confirmed = {}

\* The inductive invariant.
MatcherInv ==
    /\ TypeOK
    /\ OneLiveAssignment
    /\ ConfirmedIsRecorded
    /\ BusyIsMatched
    /\ OneRunnerUp
    /\ RunnerUpAlone
    /\ RunnerUpPending
    /\ OneOwner
    /\ IdsUsed
    /\ Exclusive

-----------------------------------------------------------------------------
\* The type invariant holds of a server that has just started.
LEMMA InitType == Init => TypeOK
  BY MatcherAssumption DEF Init, TypeOK, Assignment, RunnerUp, WindowState

\* What one step leaves of the types: each action assigns values of the right sets.
LEMMA NextType == TypeOK /\ [Next]_vars => TypeOK'
<1> SUFFICES ASSUME TypeOK, [Next]_vars PROVE TypeOK'
  OBVIOUS
<1> USE BidsAssumption, MatcherAssumption DEF WindowState
<1>1. ASSUME NEW i \in Intents, Expire(i) PROVE TypeOK'
  BY <1>1 DEF TypeOK, Expire, streamVars
<1>2. ASSUME NEW i \in Intents, AddIntent(i) PROVE TypeOK'
  BY <1>2 DEF TypeOK, AddIntent, streamVars
<1>3. ASSUME NEW i \in Intents, CloseWithoutBids(i) PROVE TypeOK'
  BY <1>3 DEF TypeOK, CloseWithoutBids, streamVars
<1>4. ASSUME NEW i \in Intents, NEW b \in Bids, SubmitBid(i, b) PROVE TypeOK'
  BY <1>4 DEF TypeOK, SubmitBid, streamVars
<1>5. ASSUME NEW i \in Intents, NEW k \in 1..Len(bids[i])
      PROVE  /\ bids[i][k] \in Bid
             /\ NewAssignment(i, bids[i][k]) \in Assignment
  <2>1. bids[i][k] \in Bid
    BY DEF TypeOK
  <2> QED
    BY <2>1 DEF NewAssignment, Assignment, Bid, TypeOK
<1>6. ASSUME NEW i \in Intents, NEW k \in 1..Len(bids[i]), CloseInvalidAddress(i, k)
      PROVE  TypeOK'
  BY <1>5, <1>6 DEF TypeOK, CloseInvalidAddress, Bid, streamVars
<1>7. ASSUME NEW i \in Intents, NEW k \in 1..Len(bids[i]), CloseAndAssign(i, k)
      PROVE  TypeOK'
  <2>1. bids[i][k].agent \in Agents /\ NewAssignment(i, bids[i][k]) \in Assignment
    BY <1>5 DEF Bid
  <2>2. onChain' \subseteq Assignment /\ delivered' \subseteq Assignment
    BY <1>7, <2>1 DEF TypeOK, CloseAndAssign, ChainWith, SendTask
  <2> QED
    BY <1>7, <2>1, <2>2 DEF TypeOK, CloseAndAssign, streamVars
<1>8. ASSUME NEW i \in Intents, NEW k \in 1..Len(bids[i]), CloseAndFail(i, k)
      PROVE  TypeOK'
  BY <1>5, <1>8 DEF TypeOK, CloseAndFail, HandleAssignmentFailure, ChainWith, streamVars
<1>9. ASSUME NEW a \in delivered, AcceptTask(a) PROVE TypeOK'
  BY <1>9 DEF TypeOK, AcceptTask, intentVars, streamVars
<1>10. ASSUME NEW a \in delivered, RejectTask(a) PROVE TypeOK'
  <2>1. a.intent \in Intents /\ a.agent \in Agents
    BY DEF TypeOK, Assignment
  <2>2. runnerUps' \subseteq RunnerUp
    BY <1>10, <2>1 DEF TypeOK, RejectTask, RunnerUp
  <2> QED
    BY <1>10, <2>1, <2>2 DEF TypeOK, RejectTask, intentVars, streamVars
<1>11. ASSUME NEW g \in runnerUps, SelectRunnerUp(g) PROVE TypeOK'
  <2>1. g.intent \in Intents
    BY DEF TypeOK, RunnerUp
  <2>2. CASE runnerUps' = runnerUps \ {g} /\ UNCHANGED bids
    BY <1>11, <2>2 DEF TypeOK, SelectRunnerUp, streamVars
  <2>3. ASSUME NEW k \in Eligible(g.intent, g.exclude),
               bids' = [bids EXCEPT ![g.intent][k] = MarkWinner(@)],
               runnerUps' = (runnerUps \ {g}) \cup
                 {[phase |-> "create", intent |-> g.intent, bid |-> bids[g.intent][k]]}
        PROVE  TypeOK'
    <3>1. k \in 1..Len(bids[g.intent])
      BY DEF Eligible
    <3>2. bids[g.intent][k] \in Bid
      BY <2>1, <3>1, <1>5
    <3>3. MarkWinner(bids[g.intent][k]) \in Bid
      BY <3>2 DEF Bid, MarkWinner
    <3>4. bids[g.intent] \in Seq(Bid)
      BY <2>1 DEF TypeOK
    <3>5. [bids[g.intent] EXCEPT ![k] = MarkWinner(bids[g.intent][k])] \in Seq(Bid)
      BY <3>1, <3>3, <3>4
    <3>6. bids' \in [Intents -> Seq(Bid)]
      BY <2>1, <2>3, <3>5 DEF TypeOK
    <3>7. runnerUps' \subseteq RunnerUp
      BY <2>1, <2>3, <3>2 DEF TypeOK, RunnerUp
    <3> QED
      BY <1>11, <3>6, <3>7 DEF TypeOK, SelectRunnerUp, streamVars
  <2> QED
    BY <1>11, <2>2, <2>3 DEF SelectRunnerUp
<1>12. ASSUME NEW g \in runnerUps, CreateForRunnerUp(g) PROVE TypeOK'
  <2>1. g.intent \in Intents /\ g.bid \in Bid
    BY <1>12 DEF TypeOK, RunnerUp, FailurePhases, CreateForRunnerUp
  <2>2. NewAssignment(g.intent, g.bid) \in Assignment
    BY <2>1 DEF NewAssignment, Assignment, Bid, TypeOK
  <2>3. runnerUps' \subseteq RunnerUp
    BY <1>12, <2>1, <2>2 DEF TypeOK, CreateForRunnerUp, FirstPhase, RunnerUp
  <2> QED
    BY <1>12, <2>2, <2>3 DEF TypeOK, CreateForRunnerUp, intentVars, streamVars
<1>13. ASSUME NEW g \in runnerUps, g.phase \in Owning
       PROVE  g.intent \in Intents /\ g.assignment \in Assignment
  BY <1>13 DEF TypeOK, RunnerUp, Owning, FailurePhases
<1>14. ASSUME NEW g \in runnerUps, SubmitRunnerUpToChain(g) PROVE TypeOK'
  <2>1. g.intent \in Intents /\ g.assignment \in Assignment
    BY <1>13, <1>14 DEF SubmitRunnerUpToChain, Owning
  <2>2. runnerUps' \subseteq RunnerUp
    BY <1>14, <2>1 DEF TypeOK, SubmitRunnerUpToChain, RunnerUp
  <2> QED
    BY <1>14, <2>1, <2>2 DEF TypeOK, SubmitRunnerUpToChain, ChainWith, intentVars, streamVars
<1>15. ASSUME NEW g \in runnerUps, SubmitRunnerUpToRoot(g) PROVE TypeOK'
  <2>1. g.assignment \in Assignment
    BY <1>13, <1>15 DEF SubmitRunnerUpToRoot, Owning
  <2> QED
    BY <1>15, <2>1 DEF TypeOK, SubmitRunnerUpToRoot, SendTask, intentVars, streamVars
<1>16. ASSUME NEW g \in runnerUps, NEW p \in FailurePhases, g.phase \in Owning, GoOn(g, p)
       PROVE  runnerUps' \subseteq RunnerUp
  <2>1. g.intent \in Intents /\ g.assignment \in Assignment
    BY <1>13, <1>16
  <2>2. [phase |-> p, intent |-> g.intent, assignment |-> g.assignment] \in RunnerUp
    BY <2>1 DEF RunnerUp
  <2> QED
    BY <1>16, <2>2 DEF TypeOK, GoOn
<1>20. ASSUME NEW g \in runnerUps, RunnerUpFails(g) PROVE TypeOK'
  <2>1. g.intent \in Intents /\ g.assignment \in Assignment /\ g.phase \in Owning
    BY <1>13, <1>20 DEF RunnerUpFails, Owning
  <2>2. runnerUps' \subseteq RunnerUp
    BY <1>16, <1>20, <2>1 DEF RunnerUpFails, FailurePhases
  <2> QED
    BY <1>20, <2>1, <2>2 DEF TypeOK, RunnerUpFails, ChainWith, intentVars, streamVars
<1>21. ASSUME NEW g \in runnerUps, ReopenWindow(g) \/ AllowMatching(g) \/ DropWindow(g)
       PROVE  TypeOK'
  <2>1. runnerUps' \subseteq RunnerUp
    BY <1>16, <1>21 DEF ReopenWindow, AllowMatching, DropWindow, FailurePhases, Owning
  <2>2. window' \in [Intents -> WindowState]
    BY <1>21 DEF TypeOK, ReopenWindow, AllowMatching, DropWindow, Unclosed, Unmatched
  <2> QED
    BY <1>21, <2>1, <2>2 DEF TypeOK, ReopenWindow, AllowMatching, DropWindow, streamVars
<1>22. ASSUME NEW g \in runnerUps, DropBids(g) \/ ForgetResult(g) PROVE TypeOK'
  <2>1. runnerUps' \subseteq RunnerUp
    BY <1>16, <1>22 DEF DropBids, ForgetResult, FailurePhases, Owning
  <2>2. bids' \in [Intents -> Seq(Bid)]
    <3>1. CASE bids' = bids
      BY <3>1 DEF TypeOK
    <3>2. CASE bids' = [bids EXCEPT ![g.intent] = <<>>]
      <4>1. <<>> \in Seq(Bid)
        OBVIOUS
      <4> QED
        BY <3>2, <4>1 DEF TypeOK
    <3> QED
      BY <1>22, <3>1, <3>2 DEF DropBids, ForgetResult
  <2>3. matchingResult' \in [Intents -> Agents \cup {NoAgent}]
    BY <1>22 DEF TypeOK, DropBids, ForgetResult
  <2>4. UNCHANGED <<expired, window, pending, confirmed, created, streamVars, onChain,
                    onRoot, delivered>>
    BY <1>22 DEF DropBids, ForgetResult
  <2> QED
    BY <2>1, <2>2, <2>3, <2>4 DEF TypeOK, streamVars
<1>23. ASSUME NEW g \in runnerUps, CleanupPending(g) PROVE TypeOK'
  BY <1>23 DEF TypeOK, CleanupPending, intentVars, streamVars
<1>17. ASSUME NEW a \in Agents, StreamTasks(a) PROVE TypeOK'
  BY <1>17 DEF TypeOK, StreamTasks, intentVars
<1>18. ASSUME NEW a \in Agents, NEW s \in streams[a], CloseStream(a, s) PROVE TypeOK'
  BY <1>18 DEF TypeOK, CloseStream, intentVars
<1>19. CASE UNCHANGED vars
  BY <1>19 DEF TypeOK, vars
<1> QED
  BY <1>1, <1>2, <1>3, <1>4, <1>6, <1>7, <1>8, <1>9, <1>10, <1>11, <1>12, <1>14, <1>15,
     <1>17, <1>18, <1>19, <1>20, <1>21, <1>22, <1>23 DEF Next

-----------------------------------------------------------------------------
\* The inductive invariant holds of a server that has just started.
LEMMA InitInv == Init => MatcherInv
  BY InitType DEF Init, MatcherInv, OneLiveAssignment, Live, Failed, Current,
     ConfirmedIsRecorded, BusyIsMatched, OneRunnerUp, RunnerUpAlone, RunnerUpPending,
     OneOwner, IdsUsed, Exclusive

\* The conjuncts other than the type invariant speak of these variables only.
LEMMA InvUnchanged ==
  ASSUME MatcherInv, TypeOK',
         UNCHANGED <<window, pending, confirmed, created, runnerUps, onChain, onRoot,
                     delivered>>
  PROVE  MatcherInv'
  BY DEF MatcherInv, OneLiveAssignment, Live, Failed, Current, ConfirmedIsRecorded,
     BusyIsMatched, OneRunnerUp, RunnerUpAlone, RunnerUpPending, OneOwner, IdsUsed, Exclusive

\* A window that changes on its own: nobody is in charge of an intent that is not in the
\* map or open, which becomes open or matched.
LEMMA WindowStep ==
  ASSUME MatcherInv, TypeOK', NEW i \in Intents, NEW w \in {"open", "matched"},
         window[i] \in {"none", "open"}, window' = [window EXCEPT ![i] = w],
         UNCHANGED <<pending, confirmed, created, runnerUps, onChain, onRoot, delivered>>
  PROVE  MatcherInv'
<1>1. \A j \in Intents : j # i => window'[j] = window[j]
  BY DEF MatcherInv, TypeOK
<1>2. \A j \in Intents : Current(j)' = Current(j)
  BY DEF Current, Live, Failed
<1>3. Current(i) = {} /\ \A g \in runnerUps : g.phase \in InCharge => g.intent # i
  BY DEF MatcherInv, BusyIsMatched
<1>4. \A g \in runnerUps : g.intent \in Intents
  BY DEF MatcherInv, TypeOK, RunnerUp
<1>5. BusyIsMatched'
  BY <1>1, <1>2, <1>3, <1>4 DEF MatcherInv, BusyIsMatched
<1> QED
  BY <1>5 DEF MatcherInv, OneLiveAssignment, Live, Failed, Current, ConfirmedIsRecorded,
     OneRunnerUp, RunnerUpAlone, RunnerUpPending, OneOwner, IdsUsed, Exclusive

\* An assignment made for an intent that nothing is live for.
LEMMA NewIsFresh ==
  ASSUME MatcherInv, NEW i \in Intents, NEW b \in Bid
  PROVE  /\ NewAssignment(i, b) \in Assignment
         /\ NewAssignment(i, b).intent = i
         /\ NewAssignment(i, b).id = created + 1
         /\ NewAssignment(i, b) \notin pending \cup confirmed \cup delivered
<1>1. created \in Nat
  BY DEF MatcherInv, TypeOK
<1>2. /\ NewAssignment(i, b) \in Assignment
      /\ NewAssignment(i, b).intent = i
      /\ NewAssignment(i, b).id = created + 1
  BY <1>1 DEF NewAssignment, Assignment, Bid
<1>3. ~(created + 1 <= created)
  BY <1>1
<1> QED
  BY <1>2, <1>3 DEF MatcherInv, IdsUsed

\* The conjuncts that a step keeps when goroutines and assignments stay as they are.
LEMMA GoroutinesUnchanged ==
  ASSUME MatcherInv, UNCHANGED <<runnerUps, delivered>>, pending \subseteq pending',
         onChain \subseteq onChain'
  PROVE  Failed' = Failed /\ OneRunnerUp' /\ OneOwner' /\ RunnerUpPending'
  BY DEF MatcherInv, Failed, OneRunnerUp, OneOwner, RunnerUpPending

\* CloseAndAssign preserves the invariant: the window was open, so nothing was current.
LEMMA CloseAndAssignInv ==
  ASSUME MatcherInv, TypeOK', NEW i \in Intents, NEW k \in 1..Len(bids[i]),
         CloseAndAssign(i, k)
  PROVE  MatcherInv'
<1> DEFINE new == NewAssignment(i, bids[i][k])
<1>1. bids[i][k] \in Bid
  BY DEF MatcherInv, TypeOK
<1>2. /\ new \in Assignment /\ new.intent = i /\ new.id = created + 1
      /\ new \notin pending \cup confirmed \cup delivered
  BY <1>1, NewIsFresh
<1>3. Current(i) = {} /\ \A g \in runnerUps : g.phase \in InCharge => g.intent # i
  BY DEF MatcherInv, CloseAndAssign, BusyIsMatched
<1>4. /\ pending' = pending \cup {new} /\ confirmed' = confirmed
      /\ runnerUps' = runnerUps /\ created' = created + 1
      /\ window' = [window EXCEPT ![i] = "matched"]
      /\ onRoot' = onRoot \cup {new} /\ onChain \subseteq onChain'
      /\ EnableChainSubmit => new \in onChain'
      /\ delivered \subseteq delivered' /\ delivered' \subseteq delivered \cup {new}
  BY DEF CloseAndAssign, ChainWith, SendTask
<1> HIDE DEF new
<1>5. Failed' = Failed /\ new \notin Failed
  BY <1>2, <1>4 DEF MatcherInv, Failed, RunnerUpPending, Owning
<1>6. /\ \A j \in Intents : j # i => Current(j)' = Current(j) /\ window'[j] = window[j]
      /\ Current(i)' = {new} /\ window'[i] = "matched"
  <2>1. \A j \in Intents : Live(j)' = IF j = i THEN Live(j) \cup {new} ELSE Live(j)
    BY <1>2, <1>4 DEF Live
  <2> QED
    BY <1>3, <1>4, <1>5, <2>1 DEF Current, MatcherInv, TypeOK
<1>7. OneLiveAssignment'
  <2>1. \A j \in Intents : \A a, b \in Current(j)' : a = b
    BY <1>6 DEF MatcherInv, OneLiveAssignment, Current
  <2>2. Failed' \cap (confirmed' \cup delivered') = {}
    BY <1>4, <1>5 DEF MatcherInv, OneLiveAssignment
  <2> QED
    BY <2>1, <2>2 DEF OneLiveAssignment, Current
<1>8. ConfirmedIsRecorded'
  BY <1>4 DEF MatcherInv, ConfirmedIsRecorded
<1>9. BusyIsMatched'
  <2>1. \A g \in runnerUps : g.intent \in Intents
    BY DEF MatcherInv, TypeOK, RunnerUp
  <2> QED
    BY <1>3, <1>4, <1>6, <2>1 DEF MatcherInv, BusyIsMatched
<1>10. OneRunnerUp' /\ OneOwner' /\ Exclusive'
  BY <1>2, <1>4 DEF MatcherInv, OneRunnerUp, OneOwner, Exclusive
<1>11. RunnerUpAlone'
  <2>1. \A g \in runnerUps : g.intent \in Intents
    BY DEF MatcherInv, TypeOK, RunnerUp
  <2> QED
    BY <1>3, <1>4, <1>6, <2>1 DEF MatcherInv, RunnerUpAlone
<1>12. RunnerUpPending'
  BY <1>2, <1>4 DEF MatcherInv, RunnerUpPending
<1>13. IdsUsed'
  <2>1. created \in Nat /\ \A a \in pending \cup confirmed \cup delivered : a.id \in Nat
    BY DEF MatcherInv, TypeOK, Assignment
  <2> QED
    BY <2>1, <1>2, <1>4 DEF MatcherInv, IdsUsed
<1> QED
  BY <1>7, <1>8, <1>9, <1>10, <1>11, <1>12, <1>13 DEF MatcherInv

\* CloseAndFail preserves the invariant: the assignment it made is gone again.
LEMMA CloseAndFailInv ==
  ASSUME MatcherInv, TypeOK', NEW i \in Intents, NEW k \in 1..Len(bids[i]),
         CloseAndFail(i, k)
  PROVE  MatcherInv'
<1>1. /\ window[i] = "open"
      /\ pending' = pending /\ confirmed' = confirmed /\ delivered' = delivered
      /\ runnerUps' = runnerUps /\ created' = created + 1
      /\ onRoot \subseteq onRoot' /\ onChain \subseteq onChain'
  BY DEF CloseAndFail, ChainWith
<1>2. \A j \in Intents : j # i => window'[j] = window[j]
  BY DEF MatcherInv, TypeOK, CloseAndFail, HandleAssignmentFailure
<1>3. /\ Failed' = Failed /\ OneRunnerUp' /\ OneOwner' /\ RunnerUpPending'
      /\ \A j \in Intents : Live(j)' = Live(j) /\ Current(j)' = Current(j)
  BY <1>1, GoroutinesUnchanged DEF Current, Live
<1>4. BusyIsMatched'
  <2>1. Current(i) = {} /\ \A g \in runnerUps : g.phase \in InCharge => g.intent # i
    BY <1>1 DEF MatcherInv, BusyIsMatched
  <2>2. \A g \in runnerUps : g.intent \in Intents
    BY DEF MatcherInv, TypeOK, RunnerUp
  <2> QED
    BY <1>1, <1>2, <1>3, <2>1, <2>2 DEF MatcherInv, BusyIsMatched
<1>5. IdsUsed'
  <2>1. created \in Nat /\ \A a \in pending \cup confirmed \cup delivered : a.id \in Nat
    BY DEF MatcherInv, TypeOK, Assignment
  <2> QED
    BY <2>1, <1>1 DEF MatcherInv, IdsUsed
<1>6. OneLiveAssignment' /\ Exclusive' /\ ConfirmedIsRecorded'
  BY <1>1, <1>3 DEF MatcherInv, OneLiveAssignment, Exclusive, ConfirmedIsRecorded
<1>7. RunnerUpAlone'
  <2>1. \A g \in runnerUps : g.intent \in Intents
    BY DEF MatcherInv, TypeOK, RunnerUp
  <2> QED
    BY <1>1, <1>3, <2>1 DEF MatcherInv, RunnerUpAlone
<1> QED
  BY <1>3, <1>4, <1>5, <1>6, <1>7 DEF MatcherInv

\* AcceptTask preserves the invariant: a delivered assignment has no goroutine left.
LEMMA AcceptTaskInv ==
  ASSUME MatcherInv, TypeOK', NEW a \in delivered, AcceptTask(a)
  PROVE  MatcherInv'
<1>1. /\ a \in pending /\ pending' = pending \ {a} /\ confirmed' = confirmed \cup {a}
      /\ UNCHANGED <<window, created, runnerUps, onChain, onRoot, delivered>>
  BY DEF AcceptTask, FindTask, intentVars
<1>2. pending' \cup confirmed' = pending \cup confirmed
  BY <1>1
<1>3. Failed' = Failed /\ a \notin Failed
  BY <1>1 DEF MatcherInv, OneLiveAssignment, Failed
<1>4. \A j : Live(j)' = Live(j) /\ Current(j)' = Current(j)
  BY <1>2, <1>3 DEF Live, Current
<1>5. OneLiveAssignment'
  BY <1>1, <1>3, <1>4 DEF MatcherInv, OneLiveAssignment
<1>6. BusyIsMatched' /\ OneRunnerUp' /\ RunnerUpAlone' /\ OneOwner' /\ IdsUsed'
  BY <1>1, <1>2, <1>4 DEF MatcherInv, BusyIsMatched, OneRunnerUp, RunnerUpAlone, OneOwner,
     IdsUsed
<1>7. ConfirmedIsRecorded' /\ RunnerUpPending' /\ Exclusive'
  BY <1>1 DEF MatcherInv, ConfirmedIsRecorded, RunnerUpPending, Exclusive
<1> QED
  BY <1>5, <1>6, <1>7 DEF MatcherInv

\* What the goroutine finds when it submits: its assignment, pending, undelivered,
\* not confirmed and the only current one of its intent.
LEMMA SubmitterFacts ==
  ASSUME MatcherInv, NEW g \in runnerUps, g.phase \in {"chain", "root"}
  PROVE  /\ g.intent \in Intents
         /\ g.assignment \in Assignment
         /\ g.assignment.intent = g.intent
         /\ g.assignment \notin Failed
         /\ Current(g.intent) = {g.assignment}
         /\ g.assignment \in pending
         /\ g.assignment \notin confirmed \cup delivered
         /\ window[g.intent] = "matched"
<1>1. g.intent \in Intents /\ g.assignment \in Assignment
  BY DEF MatcherInv, TypeOK, RunnerUp
<1>2. /\ g.assignment \in pending /\ g.assignment \notin delivered
      /\ g.assignment.intent = g.intent
  BY DEF MatcherInv, RunnerUpPending, Owning
<1>3. g.assignment \notin Failed
  <2>1. \A h \in runnerUps : h.phase \in FailurePhases => h # g
    BY DEF FailurePhases
  <2>2. \A h \in runnerUps : h.phase \in FailurePhases => h.assignment # g.assignment
    BY <2>1 DEF MatcherInv, OneOwner, Owning
  <2> QED
    BY <2>2 DEF Failed
<1>4. g.assignment \in Current(g.intent)
  BY <1>2, <1>3 DEF Live, Current
<1>5. Current(g.intent) = {g.assignment}
  BY <1>1, <1>4 DEF MatcherInv, OneLiveAssignment, Current
<1> QED
  BY <1>1, <1>2, <1>3, <1>5 DEF MatcherInv, Exclusive, BusyIsMatched

\* RejectTask preserves the invariant: the rejected assignment was the current one of
\* its intent, so the goroutine it starts is the only one in charge.
LEMMA RejectTaskInv ==
  ASSUME MatcherInv, TypeOK', NEW a \in delivered, RejectTask(a)
  PROVE  MatcherInv'
<1> DEFINE new == [phase |-> "select", intent |-> a.intent, exclude |-> a.agent]
<1>1. /\ a \in pending /\ pending' = pending \ {a} /\ runnerUps' = runnerUps \cup {new}
      /\ UNCHANGED <<window, confirmed, created, onChain, onRoot, delivered>>
  BY DEF RejectTask, FindTask, intentVars
<1>2. new.phase = "select" /\ new.intent = a.intent
  OBVIOUS
<1> HIDE DEF new
<1>3. /\ a.intent \in Intents /\ a \notin Failed /\ a \in Current(a.intent)
      /\ window[a.intent] = "matched"
  <2>1. a.intent \in Intents
    BY DEF MatcherInv, TypeOK, Assignment
  <2>2. a \notin Failed
    BY DEF MatcherInv, OneLiveAssignment
  <2>3. a \in Current(a.intent)
    BY <1>1, <2>2 DEF Live, Current
  <2> QED
    BY <2>1, <2>2, <2>3 DEF MatcherInv, BusyIsMatched
<1>4. \A g \in runnerUps : g.phase \in InCharge => g.intent # a.intent
  <2> SUFFICES ASSUME NEW g \in runnerUps, g.phase \in InCharge, g.intent = a.intent PROVE FALSE
    OBVIOUS
  <2>1. CASE g.phase \in InCharge \ {"chain", "root"}
    BY <1>3, <2>1 DEF MatcherInv, RunnerUpAlone
  <2>2. CASE g.phase \in {"chain", "root"}
    BY <1>3, <2>2, SubmitterFacts
  <2> QED
    BY <2>1, <2>2
<1>5. Failed' = Failed
  BY <1>1, <1>2 DEF Failed, FailurePhases
<1>6. \A j \in Intents : Live(j)' = Live(j) \ {a} /\ Current(j)' = Current(j) \ {a}
  <2>1. a \notin confirmed
    BY <1>1 DEF MatcherInv, Exclusive
  <2> QED
    BY <1>1, <1>5, <2>1 DEF Live, Current
<1>7. OneLiveAssignment'
  <2>1. \A j \in Intents : \A b, c \in Current(j)' : b = c
    BY <1>6 DEF MatcherInv, OneLiveAssignment, Current
  <2> QED
    BY <1>1, <1>5, <2>1 DEF MatcherInv, OneLiveAssignment, Current
<1>8. Current(a.intent)' = {}
  BY <1>3, <1>6 DEF MatcherInv, OneLiveAssignment, Current
<1>9. IdsUsed' /\ Exclusive' /\ ConfirmedIsRecorded'
  BY <1>1 DEF MatcherInv, IdsUsed, Exclusive, ConfirmedIsRecorded
<1>10. BusyIsMatched'
  BY <1>1, <1>2, <1>3, <1>6 DEF MatcherInv, BusyIsMatched
<1>11. OneRunnerUp'
  BY <1>1, <1>2, <1>4 DEF MatcherInv, OneRunnerUp
<1>12. OneOwner'
  BY <1>1, <1>2 DEF MatcherInv, OneOwner, Owning, FailurePhases
<1>13. RunnerUpAlone'
  <2>1. \A g \in runnerUps : g.intent \in Intents
    BY DEF MatcherInv, TypeOK, RunnerUp
  <2> QED
    BY <1>1, <1>2, <1>6, <1>8, <2>1 DEF MatcherInv, RunnerUpAlone
<1>14. RunnerUpPending'
  BY <1>1, <1>2 DEF MatcherInv, RunnerUpPending, Owning, FailurePhases
<1> QED
  BY <1>7, <1>9, <1>10, <1>11, <1>12, <1>13, <1>14 DEF MatcherInv

\* A goroutine that has no assignment is replaced by another of the same intent, or ends.
LEMMA SelectRunnerUpInv ==
  ASSUME MatcherInv, TypeOK', NEW g \in runnerUps, SelectRunnerUp(g)
  PROVE  MatcherInv'
<1>1. g.phase = "select"
      /\ UNCHANGED <<window, pending, confirmed, created, onChain, onRoot, delivered>>
  BY DEF SelectRunnerUp
<1>2. \/ runnerUps' = runnerUps \ {g}
      \/ \E h : /\ h.phase = "create" /\ h.intent = g.intent
               /\ runnerUps' = (runnerUps \ {g}) \cup {h}
  <2>1. ASSUME NEW k \in Eligible(g.intent, g.exclude),
               runnerUps' = (runnerUps \ {g}) \cup
                 {[phase |-> "create", intent |-> g.intent, bid |-> bids[g.intent][k]]}
        PROVE  \E h : /\ h.phase = "create" /\ h.intent = g.intent
                      /\ runnerUps' = (runnerUps \ {g}) \cup {h}
    <3> WITNESS [phase |-> "create", intent |-> g.intent, bid |-> bids[g.intent][k]]
    <3> QED
      BY <2>1
  <2> QED
    BY <2>1 DEF SelectRunnerUp
<1>3. Failed' = Failed
  BY <1>1, <1>2 DEF Failed, FailurePhases
<1>4. \A j : Live(j)' = Live(j) /\ Current(j)' = Current(j)
  BY <1>1, <1>3 DEF Live, Current
<1>5. OneLiveAssignment' /\ IdsUsed' /\ Exclusive' /\ ConfirmedIsRecorded'
  BY <1>1, <1>3, <1>4 DEF MatcherInv, OneLiveAssignment, IdsUsed, Exclusive,
     ConfirmedIsRecorded
<1>6. BusyIsMatched'
  BY <1>1, <1>2, <1>4 DEF MatcherInv, BusyIsMatched, InCharge
<1>7. OneRunnerUp'
  BY <1>1, <1>2 DEF MatcherInv, OneRunnerUp, InCharge
<1>8. RunnerUpAlone'
  BY <1>1, <1>2, <1>4 DEF MatcherInv, RunnerUpAlone, InCharge
<1>9. RunnerUpPending' /\ OneOwner'
  BY <1>1, <1>2 DEF MatcherInv, RunnerUpPending, OneOwner, Owning, FailurePhases
<1> QED
  BY <1>5, <1>6, <1>7, <1>8, <1>9 DEF MatcherInv

\* CreateForRunnerUp preserves the invariant: the goroutine was alone, so its
\* assignment is the only current one.
LEMMA CreateForRunnerUpInv ==
  ASSUME MatcherInv, TypeOK', NEW g \in runnerUps, CreateForRunnerUp(g)
  PROVE  MatcherInv'
<1>1. g.phase = "create" /\ g.intent \in Intents /\ g.bid \in Bid
      /\ UNCHANGED <<window, confirmed, onChain, onRoot, delivered>>
  BY DEF CreateForRunnerUp, MatcherInv, TypeOK, RunnerUp, FailurePhases, intentVars
<1>2. Current(g.intent) = {} /\ window[g.intent] = "matched"
  BY <1>1 DEF MatcherInv, RunnerUpAlone, BusyIsMatched, InCharge
<1>3. CASE runnerUps' = runnerUps \ {g} /\ UNCHANGED <<pending, created>>
  <2>1. Failed' = Failed
    BY <1>1, <1>3 DEF Failed, FailurePhases
  <2>2. \A j : Live(j)' = Live(j) /\ Current(j)' = Current(j)
    BY <1>1, <1>3, <2>1 DEF Live, Current
  <2>3. OneLiveAssignment'
    BY <1>1, <2>1, <2>2 DEF MatcherInv, OneLiveAssignment
  <2> QED
    BY <1>1, <1>3, <2>2, <2>3 DEF MatcherInv, ConfirmedIsRecorded, BusyIsMatched,
       OneRunnerUp, RunnerUpAlone, RunnerUpPending, OneOwner, IdsUsed, Exclusive
<1>4. CASE /\ created' = created + 1
           /\ pending' = pending \cup {NewAssignment(g.intent, g.bid)}
           /\ runnerUps' = (runnerUps \ {g}) \cup
                {[phase |-> FirstPhase, intent |-> g.intent,
                  assignment |-> NewAssignment(g.intent, g.bid)]}
  <2> DEFINE new == NewAssignment(g.intent, g.bid)
             h == [phase |-> FirstPhase, intent |-> g.intent, assignment |-> new]
  <2>1. /\ new \in Assignment /\ new.intent = g.intent /\ new.id = created + 1
        /\ new \notin pending \cup confirmed \cup delivered
    BY <1>1, NewIsFresh
  <2>2. /\ h.phase \in {"chain", "root"} /\ h.intent = g.intent /\ h.assignment = new
        /\ ~(h.phase = "root" /\ EnableChainSubmit)
    BY MatcherAssumption DEF FirstPhase
  <2>3. pending' = pending \cup {new} /\ runnerUps' = (runnerUps \ {g}) \cup {h}
    BY <1>4
  <2> HIDE DEF new, h
  <2>4. Failed' = Failed /\ new \notin Failed
    <3>1. Failed' = Failed
      BY <1>1, <2>2, <2>3 DEF Failed, FailurePhases
    <3>2. \A k \in runnerUps : k.phase \in FailurePhases => k.assignment # new
      BY <2>1 DEF MatcherInv, RunnerUpPending, Owning
    <3> QED
      BY <3>1, <3>2 DEF Failed
  <2>5. /\ \A j \in Intents : j # g.intent => Current(j)' = Current(j)
        /\ Current(g.intent)' = {new}
    <3>1. \A j \in Intents : Live(j)' = IF j = g.intent THEN Live(j) \cup {new} ELSE Live(j)
      BY <1>1, <2>1, <2>3 DEF Live
    <3> QED
      BY <1>1, <1>2, <2>4, <3>1 DEF Current
  <2>6. OneLiveAssignment'
    <3>1. \A j \in Intents : \A a, b \in Current(j)' : a = b
      BY <1>1, <2>5 DEF MatcherInv, OneLiveAssignment, Current
    <3> QED
      BY <1>1, <2>4, <3>1 DEF MatcherInv, OneLiveAssignment, Current
  <2>7. ConfirmedIsRecorded' /\ Exclusive'
    BY <1>1, <2>1, <2>3 DEF MatcherInv, ConfirmedIsRecorded, Exclusive
  <2>8. \A k \in runnerUps : k # g /\ k.phase \in InCharge => k.intent # g.intent
    BY <1>1 DEF MatcherInv, OneRunnerUp, InCharge
  <2>9. \A k \in runnerUps : k.intent \in Intents
    BY DEF MatcherInv, TypeOK, RunnerUp
  <2>10. BusyIsMatched'
    BY <1>1, <1>2, <2>2, <2>3, <2>5 DEF MatcherInv, BusyIsMatched
  <2>11. OneRunnerUp'
    BY <2>2, <2>3, <2>8 DEF MatcherInv, OneRunnerUp
  <2>12. RunnerUpAlone'
    BY <2>2, <2>3, <2>5, <2>8, <2>9 DEF MatcherInv, RunnerUpAlone
  <2>13. RunnerUpPending'
    BY <1>1, <2>1, <2>2, <2>3 DEF MatcherInv, RunnerUpPending
  <2>14. OneOwner'
    <3>1. \A k \in runnerUps : k.phase \in Owning => k.assignment # new
      BY <2>1 DEF MatcherInv, RunnerUpPending
    <3> QED
      BY <2>2, <2>3, <3>1 DEF MatcherInv, OneOwner
  <2>15. IdsUsed'
    <3>1. created \in Nat /\ \A a \in pending \cup confirmed \cup delivered : a.id \in Nat
      BY DEF MatcherInv, TypeOK, Assignment
    <3> QED
      BY <3>1, <1>1, <1>4, <2>1, <2>3 DEF MatcherInv, IdsUsed
  <2> QED
    BY <2>6, <2>7, <2>10, <2>11, <2>12, <2>13, <2>14, <2>15 DEF MatcherInv
<1> QED
  BY <1>3, <1>4 DEF CreateForRunnerUp

\* SubmitRunnerUpToChain preserves the invariant: the assignment is on the chain when
\* the goroutine goes on to RootLayer.
LEMMA SubmitRunnerUpToChainInv ==
  ASSUME MatcherInv, TypeOK', NEW g \in runnerUps, SubmitRunnerUpToChain(g)
  PROVE  MatcherInv'
<1> DEFINE h == [phase |-> "root", intent |-> g.intent, assignment |-> g.assignment]
<1>1. /\ g.phase = "chain" /\ runnerUps' = (runnerUps \ {g}) \cup {h}
      /\ onChain \subseteq onChain' /\ (EnableChainSubmit => g.assignment \in onChain')
      /\ UNCHANGED <<window, pending, confirmed, created, onRoot, delivered>>
  BY DEF SubmitRunnerUpToChain, ChainWith, intentVars
<1>2. h.phase = "root" /\ h.intent = g.intent /\ h.assignment = g.assignment
  OBVIOUS
<1> HIDE DEF h
<1>3. Failed' = Failed
  BY <1>1, <1>2 DEF Failed, FailurePhases
<1>4. \A j : Live(j)' = Live(j) /\ Current(j)' = Current(j)
  BY <1>1, <1>3 DEF Live, Current
<1>5. OneLiveAssignment' /\ IdsUsed' /\ Exclusive' /\ ConfirmedIsRecorded'
  BY <1>1, <1>3, <1>4 DEF MatcherInv, OneLiveAssignment, IdsUsed, Exclusive,
     ConfirmedIsRecorded
<1>6. BusyIsMatched'
  BY <1>1, <1>2, <1>4 DEF MatcherInv, BusyIsMatched, InCharge
<1>7. OneRunnerUp'
  BY <1>1, <1>2 DEF MatcherInv, OneRunnerUp, InCharge
<1>8. RunnerUpAlone'
  BY <1>1, <1>2, <1>4 DEF MatcherInv, RunnerUpAlone
<1>9. RunnerUpPending'
  BY <1>1, <1>2, SubmitterFacts DEF MatcherInv, RunnerUpPending
<1>10. OneOwner'
  BY <1>1, <1>2 DEF MatcherInv, OneOwner, Owning
<1> QED
  BY <1>5, <1>6, <1>7, <1>8, <1>9, <1>10 DEF MatcherInv

\* SubmitRunnerUpToRoot preserves the invariant: what it delivers is recorded.
LEMMA SubmitRunnerUpToRootInv ==
  ASSUME MatcherInv, TypeOK', NEW g \in runnerUps, SubmitRunnerUpToRoot(g)
  PROVE  MatcherInv'
<1>1. /\ g.phase = "root" /\ runnerUps' = runnerUps \ {g}
      /\ onRoot' = onRoot \cup {g.assignment}
      /\ delivered' \subseteq delivered \cup {g.assignment}
      /\ UNCHANGED <<window, pending, confirmed, created, onChain>>
  BY DEF SubmitRunnerUpToRoot, SendTask, intentVars
<1>2. /\ g.assignment \in pending /\ g.assignment.intent = g.intent
      /\ EnableChainSubmit => g.assignment \in onChain
  BY <1>1 DEF MatcherInv, RunnerUpPending, Owning
<1>3. Failed' = Failed /\ g.assignment \notin Failed
  BY <1>1, SubmitterFacts DEF Failed, FailurePhases
<1>4. \A j : Live(j)' = Live(j) /\ Current(j)' = Current(j)
  BY <1>1, <1>3 DEF Live, Current
<1>5. OneLiveAssignment' /\ Exclusive'
  BY <1>1, <1>3, <1>4 DEF MatcherInv, OneLiveAssignment, Exclusive
<1>6. BusyIsMatched' /\ OneRunnerUp' /\ RunnerUpAlone' /\ OneOwner'
  BY <1>1, <1>4 DEF MatcherInv, BusyIsMatched, OneRunnerUp, RunnerUpAlone, OneOwner
<1>7. ConfirmedIsRecorded' /\ IdsUsed'
  BY <1>1, <1>2 DEF MatcherInv, ConfirmedIsRecorded, IdsUsed
<1>8. RunnerUpPending'
  BY <1>1, <1>2 DEF MatcherInv, RunnerUpPending, OneOwner, Owning
<1> QED
  BY <1>5, <1>6, <1>7, <1>8 DEF MatcherInv

\* A goroutine goes on with the handling of its failure: either it is in charge, and the
\* window is as its next step needs it, or it is not, and leaves the window alone.
LEMMA FailureStep ==
  ASSUME MatcherInv, TypeOK', NEW g \in runnerUps, NEW p \in FailurePhases,
         g.phase \in Owning, GoOn(g, p),
         \A j \in Intents : j # g.intent => window'[j] = window[j],
         \/ g.phase \in InCharge
         \/ p \notin InCharge /\ window' = window,
         p \in InCharge => \/ p # "rematch" /\ window'[g.intent] = "matched"
                           \/ p = "rematch" /\ window'[g.intent] = "reopening",
         onRoot \subseteq onRoot', onChain \subseteq onChain',
         UNCHANGED <<pending, confirmed, created, delivered>>
  PROVE  MatcherInv'
<1> DEFINE h == [phase |-> p, intent |-> g.intent, assignment |-> g.assignment]
<1>1. runnerUps' = (runnerUps \ {g}) \cup {h}
  BY DEF GoOn
<1>2. h.phase = p /\ h.intent = g.intent /\ h.assignment = g.assignment
  OBVIOUS
<1> HIDE DEF h
<1>3. /\ g.intent \in Intents /\ g.assignment \in pending /\ g.assignment \notin delivered
      /\ g.assignment.intent = g.intent
  BY DEF MatcherInv, TypeOK, RunnerUp, RunnerUpPending
<1>4. p \notin {"chain", "root", "select", "create"}
  BY DEF FailurePhases
<1>5. Failed' = Failed \cup {g.assignment}
  BY <1>1, <1>2 DEF Failed
<1>6. \A j \in Intents : Live(j)' = Live(j) /\ Current(j)' = Current(j) \ {g.assignment}
  BY <1>5 DEF Live, Current
<1>7. OneLiveAssignment'
  <2>1. \A j \in Intents : \A b, c \in Current(j)' : b = c
    BY <1>6 DEF MatcherInv, OneLiveAssignment, Current
  <2>2. g.assignment \notin confirmed
    BY <1>3 DEF MatcherInv, Exclusive
  <2> QED
    BY <1>3, <1>5, <2>1, <2>2 DEF MatcherInv, OneLiveAssignment, Current
<1>8. g.phase \in InCharge => Current(g.intent)' = {}
  <2>1. CASE g.phase \in InCharge \ {"chain", "root"}
    BY <1>3, <1>6, <2>1 DEF MatcherInv, RunnerUpAlone
  <2>2. CASE g.phase \in {"chain", "root"}
    BY <1>3, <1>6, <2>2, SubmitterFacts
  <2> QED
    BY <2>1, <2>2
<1>9. \A k \in runnerUps :
        k.intent \in Intents /\ (k # g /\ k.phase \in InCharge /\ g.phase \in InCharge
                                   => k.intent # g.intent)
  BY DEF MatcherInv, TypeOK, RunnerUp, OneRunnerUp
<1>10. BusyIsMatched'
  <2>1. ASSUME NEW j \in Intents, window'[j] # "matched" PROVE Current(j)' = {}
    BY <1>3, <1>6, <1>8, <2>1 DEF MatcherInv, BusyIsMatched
  <2>2. ASSUME NEW k \in runnerUps', k.phase \in InCharge
        PROVE  \/ k.phase # "rematch" /\ window'[k.intent] = "matched"
               \/ k.phase = "rematch" /\ window'[k.intent] = "reopening"
    <3>1. CASE k = h
      BY <1>2, <2>2, <3>1
    <3>2. CASE k \in runnerUps /\ k # g
      BY <1>9, <2>2, <3>2 DEF MatcherInv, BusyIsMatched
    <3> QED
      BY <1>1, <3>1, <3>2
  <2> QED
    BY <2>1, <2>2 DEF BusyIsMatched
<1>11. OneRunnerUp'
  BY <1>1, <1>2, <1>9 DEF MatcherInv, OneRunnerUp
<1>12. RunnerUpAlone'
  <2>1. ASSUME NEW k \in runnerUps', k.phase \in InCharge \ {"chain", "root"}
        PROVE  Current(k.intent)' = {}
    <3>1. CASE k = h
      BY <1>2, <1>8, <2>1, <3>1
    <3>2. CASE k \in runnerUps
      BY <1>6, <1>9, <2>1, <3>2 DEF MatcherInv, RunnerUpAlone
    <3> QED
      BY <1>1, <3>1, <3>2
  <2> QED
    BY <2>1 DEF RunnerUpAlone
<1>13. RunnerUpPending'
  BY <1>1, <1>2, <1>3, <1>4 DEF MatcherInv, RunnerUpPending
<1>14. OneOwner'
  BY <1>1, <1>2 DEF MatcherInv, OneOwner
<1>15. ConfirmedIsRecorded' /\ IdsUsed' /\ Exclusive'
  BY DEF MatcherInv, ConfirmedIsRecorded, IdsUsed, Exclusive
<1> QED
  BY <1>7, <1>10, <1>11, <1>12, <1>13, <1>14, <1>15 DEF MatcherInv

\* The steps of a failure, from the look at the window to the deletion of the result.
LEMMA FailureInv ==
  ASSUME MatcherInv, TypeOK', NEW g \in runnerUps,
         \/ RunnerUpFails(g) \/ ReopenWindow(g) \/ AllowMatching(g)
         \/ DropWindow(g) \/ DropBids(g) \/ ForgetResult(g)
  PROVE  MatcherInv'
<1>1. g.intent \in Intents
  BY DEF MatcherInv, TypeOK, RunnerUp
<1>2. CASE RunnerUpFails(g)
  <2>1. PICK p \in {"reopen", "drop", "cleanup"} : GoOn(g, p)
    BY <1>2 DEF RunnerUpFails
  <2>2. /\ g.phase \in {"chain", "root"} /\ window[g.intent] = "matched"
        /\ onRoot \subseteq onRoot' /\ onChain \subseteq onChain'
        /\ UNCHANGED <<window, pending, confirmed, created, delivered>>
    BY <1>2, SubmitterFacts DEF RunnerUpFails, ChainWith, intentVars
  <2> QED
    BY <2>1, <2>2, FailureStep DEF FailurePhases, InCharge, Owning
<1>3. CASE ReopenWindow(g)
  <2>1. /\ g.phase = "reopen" /\ GoOn(g, "rematch")
        /\ window' = [window EXCEPT ![g.intent] = Unclosed(@)]
        /\ UNCHANGED <<onRoot, onChain, pending, confirmed, created, delivered>>
    BY <1>3 DEF ReopenWindow
  <2>2. window[g.intent] = "matched"
    BY <2>1 DEF MatcherInv, BusyIsMatched, InCharge
  <2>3. /\ window'[g.intent] = "reopening"
        /\ \A j \in Intents : j # g.intent => window'[j] = window[j]
    BY <1>1, <2>1, <2>2 DEF MatcherInv, TypeOK, Unclosed
  <2> QED
    BY <2>1, <2>3, FailureStep DEF FailurePhases, InCharge, Owning
<1>4. CASE AllowMatching(g) \/ DropWindow(g)
  <2>1. PICK p \in {"forget", "drop bids"} : GoOn(g, p)
    BY <1>4 DEF AllowMatching, DropWindow
  <2>2. /\ g.phase \in {"rematch", "drop"}
        /\ UNCHANGED <<onRoot, onChain, pending, confirmed, created, delivered>>
        /\ \A j \in Intents : j # g.intent => window'[j] = window[j]
    BY <1>1, <1>4 DEF MatcherInv, TypeOK, AllowMatching, DropWindow
  <2> QED
    BY <2>1, <2>2, FailureStep DEF FailurePhases, InCharge, Owning
<1>5. CASE DropBids(g) \/ ForgetResult(g)
  <2>1. PICK p \in {"forget", "cleanup"} : GoOn(g, p)
    BY <1>5 DEF DropBids, ForgetResult
  <2>2. /\ g.phase \in {"drop bids", "forget"}
        /\ UNCHANGED <<window, onRoot, onChain, pending, confirmed, created, delivered>>
    BY <1>5 DEF DropBids, ForgetResult
  <2> QED
    BY <2>1, <2>2, FailureStep DEF FailurePhases, InCharge, Owning
<1> QED
  BY <1>2, <1>3, <1>4, <1>5

\* CleanupPending preserves the invariant: the failed assignment goes with its goroutine.
LEMMA CleanupPendingInv ==
  ASSUME MatcherInv, TypeOK', NEW g \in runnerUps, CleanupPending(g)
  PROVE  MatcherInv'
<1>1. /\ g.phase = "cleanup" /\ runnerUps' = runnerUps \ {g}
      /\ pending' = pending \ {g.assignment}
      /\ UNCHANGED <<window, confirmed, created, onChain, onRoot, delivered>>
  BY DEF CleanupPending, Cleaned, intentVars
<1>2. g.assignment \in Failed /\ g.phase \in Owning /\ g.assignment \notin confirmed
  BY <1>1 DEF MatcherInv, OneLiveAssignment, Failed, FailurePhases, Owning
<1>3. \A k \in runnerUps : k # g /\ k.phase \in Owning => k.assignment # g.assignment
  BY <1>2 DEF MatcherInv, OneOwner
<1>4. Failed' = Failed \ {g.assignment}
  BY <1>1, <1>3 DEF Failed, Owning
<1>5. \A j : Current(j)' = Current(j)
  BY <1>1, <1>2, <1>4 DEF Live, Current
<1>6. OneLiveAssignment'
  <2>1. \A j \in Intents : \A b, c \in Current(j)' : b = c
    BY <1>5 DEF MatcherInv, OneLiveAssignment, Current
  <2> QED
    BY <1>1, <1>4, <2>1 DEF MatcherInv, OneLiveAssignment, Current
<1>7. BusyIsMatched' /\ OneRunnerUp' /\ RunnerUpAlone' /\ OneOwner'
  BY <1>1, <1>5 DEF MatcherInv, BusyIsMatched, OneRunnerUp, RunnerUpAlone, OneOwner
<1>8. RunnerUpPending'
  BY <1>1, <1>3 DEF MatcherInv, RunnerUpPending
<1>9. ConfirmedIsRecorded' /\ IdsUsed' /\ Exclusive'
  BY <1>1 DEF MatcherInv, ConfirmedIsRecorded, IdsUsed, Exclusive
<1> QED
  BY <1>6, <1>7, <1>8, <1>9 DEF MatcherInv

-----------------------------------------------------------------------------
\* Every step of the matcher keeps the inductive invariant.
LEMMA NextInv == MatcherInv /\ [Next]_vars => MatcherInv'
<1> SUFFICES ASSUME MatcherInv, [Next]_vars PROVE MatcherInv'
  OBVIOUS
<1> TypeOK'
  BY NextType DEF MatcherInv
<1>1. ASSUME NEW i \in Intents, Expire(i) PROVE MatcherInv'
  BY <1>1, InvUnchanged DEF Expire
<1>2. ASSUME NEW i \in Intents, AddIntent(i) PROVE MatcherInv'
  <2>1. /\ window[i] \in {"none", "open"} /\ window' = [window EXCEPT ![i] = "open"]
        /\ UNCHANGED <<pending, confirmed, created, runnerUps, onChain, onRoot, delivered>>
    BY <1>2 DEF AddIntent
  <2> QED
    BY <2>1, WindowStep
<1>3. ASSUME NEW i \in Intents, CloseWithoutBids(i) PROVE MatcherInv'
  <2>1. /\ window[i] \in {"none", "open"} /\ window' = [window EXCEPT ![i] = "matched"]
        /\ UNCHANGED <<pending, confirmed, created, runnerUps, onChain, onRoot, delivered>>
    BY <1>3 DEF CloseWithoutBids
  <2> QED
    BY <2>1, WindowStep
<1>4. ASSUME NEW i \in Intents, NEW b \in Bids, SubmitBid(i, b) PROVE MatcherInv'
  BY <1>4, InvUnchanged DEF SubmitBid
<1>5. ASSUME NEW i \in Intents, NEW k \in 1..Len(bids[i]), CloseInvalidAddress(i, k)
      PROVE  MatcherInv'
  <2>1. /\ window[i] \in {"none", "open"} /\ window' = [window EXCEPT ![i] = "matched"]
        /\ UNCHANGED <<pending, confirmed, created, runnerUps, onChain, onRoot, delivered>>
    BY <1>5 DEF CloseInvalidAddress
  <2> QED
    BY <2>1, WindowStep
<1>6. ASSUME NEW a \in Agents, StreamTasks(a) PROVE MatcherInv'
  BY <1>6, InvUnchanged DEF StreamTasks, intentVars
<1>7. ASSUME NEW a \in Agents, NEW s \in streams[a], CloseStream(a, s) PROVE MatcherInv'
  BY <1>7, InvUnchanged DEF CloseStream, intentVars
<1>8. CASE UNCHANGED vars
  BY <1>8, InvUnchanged DEF vars
<1>9. ASSUME NEW i \in Intents, NEW k \in 1..Len(bids[i]),
             CloseAndAssign(i, k) \/ CloseAndFail(i, k)
      PROVE  MatcherInv'
  BY <1>9, CloseAndAssignInv, CloseAndFailInv
<1>10. ASSUME NEW a \in delivered, AcceptTask(a) \/ RejectTask(a) PROVE MatcherInv'
  BY <1>10, AcceptTaskInv, RejectTaskInv
<1>11. ASSUME NEW g \in runnerUps,
              \/ SelectRunnerUp(g) \/ CreateForRunnerUp(g) \/ SubmitRunnerUpToChain(g)
              \/ SubmitRunnerUpToRoot(g)
       PROVE  MatcherInv'
  BY <1>11, SelectRunnerUpInv, CreateForRunnerUpInv, SubmitRunnerUpToChainInv,
     SubmitRunnerUpToRootInv
<1>12. ASSUME NEW g \in runnerUps,
              \/ RunnerUpFails(g) \/ ReopenWindow(g) \/ AllowMatching(g)
              \/ DropWindow(g) \/ DropBids(g) \/ ForgetResult(g) \/ CleanupPending(g)
       PROVE  MatcherInv'
  BY <1>12, FailureInv, CleanupPendingInv
<1> QED
  BY <1>1, <1>2, <1>3, <1>4, <1>5, <1>6, <1>7, <1>8, <1>9, <1>10, <1>11, <1>12 DEF Next

\* MatcherInv holds in every reachable state of the matcher.
LEMMA SpecInv == Spec => []MatcherInv
  BY InitInv, NextInv, PTL DEF Spec

\* Every variable of the matcher keeps its type.
THEOREM TypeCorrect == Spec => []TypeOK
<1>1. MatcherInv => TypeOK
  BY DEF MatcherInv
<1> QED
  BY SpecInv, <1>1, PTL

\* Two agents never hold the same intent, pending or accepted, although the runner-up
\* goroutine of tryAssignToRunnerUp runs createAssignment, and the handling of its
\* failure, without the lock: what it leaves pending next to a new assignment failed and
\* was told to nobody.
THEOREM OneLiveAssignmentHolds == Spec => []OneLiveAssignment
<1>1. MatcherInv => OneLiveAssignment
  BY DEF MatcherInv
<1> QED
  BY SpecInv, <1>1, PTL

\* createAssignment tells an agent of a task only after RootLayer and the chain.
THEOREM ConfirmedIsRecordedHolds == Spec => []ConfirmedIsRecorded
<1>1. MatcherInv => ConfirmedIsRecorded
  BY DEF MatcherInv
<1> QED
  BY SpecInv, <1>1, PTL

-----------------------------------------------------------------------------
\* A step keeps confirmed assignments and adds nothing for their intents.
LEMMA NextFinal == MatcherInv /\ MatcherInv' /\ [Next]_vars => [FinalStep]_vars
<1> SUFFICES ASSUME MatcherInv, MatcherInv', Next PROVE FinalStep
  OBVIOUS
<1> SUFFICES ASSUME NEW c \in confirmed
             PROVE  /\ c \in confirmed'
                    /\ window'[c.intent] = "matched"
                    /\ \A b \in (onChain' \ onChain) \cup (pending' \ pending) :
                         b.intent # c.intent
  BY DEF FinalStep
<1>1. c.intent \in Intents /\ c \in Current(c.intent) /\ window[c.intent] = "matched"
  <2>1. c.intent \in Intents
    BY DEF MatcherInv, TypeOK, Assignment
  <2>2. c \in Current(c.intent)
    BY DEF Live, Current, MatcherInv, OneLiveAssignment
  <2> QED
    BY <2>1, <2>2 DEF MatcherInv, BusyIsMatched
<1>2. c \in confirmed'
  BY ZenonT(60) DEF Next, Expire, AddIntent, CloseWithoutBids, SubmitBid, CloseInvalidAddress,
     CloseAndAssign, CloseAndFail, AcceptTask, RejectTask, SelectRunnerUp,
     CreateForRunnerUp, SubmitRunnerUpToChain, SubmitRunnerUpToRoot, RunnerUpFails,
     ReopenWindow, AllowMatching, DropWindow, DropBids, ForgetResult, CleanupPending,
     StreamTasks, CloseStream
<1>3. window'[c.intent] = "matched"
  <2>1. c \in Current(c.intent)'
    BY <1>2 DEF Live, Current, MatcherInv, OneLiveAssignment
  <2> QED
    BY <1>1, <2>1 DEF MatcherInv, BusyIsMatched
<1>4. ASSUME NEW i \in Intents, NEW k \in 1..Len(bids[i]),
             CloseAndAssign(i, k) \/ CloseAndFail(i, k),
             NEW b \in (onChain' \ onChain) \cup (pending' \ pending)
      PROVE  b.intent # c.intent
  <2>1. window[i] = "open" /\ b = NewAssignment(i, bids[i][k])
    BY <1>4 DEF CloseAndAssign, CloseAndFail, ChainWith
  <2>2. b.intent = i
    BY <2>1 DEF NewAssignment
  <2> QED
    BY <1>1, <2>1, <2>2
<1>5. ASSUME NEW g \in runnerUps, CreateForRunnerUp(g),
             NEW b \in (onChain' \ onChain) \cup (pending' \ pending)
      PROVE  b.intent # c.intent
  <2>1. g.phase = "create" /\ b = NewAssignment(g.intent, g.bid)
    BY <1>5 DEF CreateForRunnerUp
  <2>2. b.intent = g.intent /\ Current(g.intent) = {}
    BY <2>1 DEF NewAssignment, MatcherInv, RunnerUpAlone, InCharge
  <2> QED
    BY <1>1, <2>2
<1>6. ASSUME NEW g \in runnerUps, SubmitRunnerUpToChain(g) \/ RunnerUpFails(g),
             NEW b \in (onChain' \ onChain) \cup (pending' \ pending)
      PROVE  b.intent # c.intent
  <2>1. g.phase \in {"chain", "root"} /\ b = g.assignment
    BY <1>6 DEF SubmitRunnerUpToChain, RunnerUpFails, ChainWith
  <2>2. b.intent = g.intent /\ Current(g.intent) = {b} /\ b \notin confirmed
    BY <2>1, SubmitterFacts
  <2> QED
    BY <1>1, <2>2
<1>7. CASE UNCHANGED <<onChain>> /\ pending' \subseteq pending
  BY <1>2, <1>3, <1>7
<1>8. ASSUME NEW g \in runnerUps,
             \/ ReopenWindow(g) \/ AllowMatching(g) \/ DropWindow(g)
             \/ DropBids(g) \/ ForgetResult(g) \/ CleanupPending(g)
      PROVE  UNCHANGED <<onChain>> /\ pending' \subseteq pending
  BY <1>8 DEF ReopenWindow, AllowMatching, DropWindow, DropBids, ForgetResult, CleanupPending
<1> QED
  BY <1>2, <1>3, <1>4, <1>5, <1>6, <1>7, <1>8
  DEF Next, Expire, AddIntent, CloseWithoutBids, SubmitBid, CloseInvalidAddress,
     AcceptTask, RejectTask, SelectRunnerUp, SubmitRunnerUpToRoot, StreamTasks, CloseStream

\* An accepted intent is never re-opened, re-assigned or submitted again.
THEOREM ConfirmedIsFinalHolds == Spec => ConfirmedIsFinal
  BY SpecInv, NextFinal, PTL DEF Spec, ConfirmedIsFinal
=============================================================================
