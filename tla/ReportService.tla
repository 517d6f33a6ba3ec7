----------------------------- MODULE ReportService -----------------------------
(***************************************************************************)
(* Execution reports on their way into the Raft log: the validator's gRPC  *)
(* service (internal/validator/server.go), the HTTP handler of node.go and *)
(* ProcessExecutionReport with the forwarding to the leader of handlers.go.*)
(*                                                                         *)
(* A call is one goroutine serving one request; a follower that forwards a *)
(* report opens a call on the node it takes for the leader and waits.      *)
(* The Raft library is external: leadership moves, nodes learn of it late, *)
(* an entry whose Apply failed may be committed all the same.  A node may  *)
(* hang: it keeps its connections and answers nothing.                     *)
(***************************************************************************)
EXTENDS Naturals, Sequences, FiniteSets, SequencesExt

CONSTANTS
    Nodes, NoNode,
    Reports,        \* report IDs: intent, assignment, agent and timestamp
    AgentOf(_),     \* the agent of a report
    MaxRequests,    \* bound: calls of clients
    MaxCalls,       \* bound: calls, forwarded ones included
    MaxElections    \* bound: changes of leadership

VARIABLES
    leader,         \* the Raft leader
    view,           \* LeaderAddress at each node (the node itself if it leads)
    elections,      \* changes of leadership so far
    committed,      \* reports in the Raft log
    pending,        \* pendingReports
    recent,         \* agents whose last report a node let pass less than a second ago
    calls,          \* the calls, in the order they arrived
    hung            \* nodes that answer nothing any more

serviceVars == <<leader, view, elections, committed, pending, recent, calls, hung>>

Calls == 1..Len(calls)
Runs(c) == calls[c].node \notin hung
At(c, step) == c \in Calls /\ Runs(c) /\ calls[c].pc = step
Report(c) == calls[c].reports[Len(calls[c].receipts) + 1]

Call(n, kind, reports, partial, pc) ==
    [node |-> n, kind |-> kind, reports |-> reports, partial |-> partial, pc |-> pc,
     receipts |-> <<>>, child |-> 0]

ServiceInit ==
    /\ leader \in Nodes
    /\ view = [n \in Nodes |-> leader]
    /\ elections = 0
    /\ committed = {}
    /\ pending = [n \in Nodes |-> {}]
    /\ recent = [n \in Nodes |-> {}]
    /\ calls = <<>>
    /\ hung = {}

-----------------------------------------------------------------------------
\* SubmitExecutionReport, SubmitExecutionReportBatch, handleHTTPExecutionReport.
Receive(n, kind, reports, partial) ==
    /\ n \notin hung /\ Len(calls) < MaxCalls
    /\ Cardinality({c \in Calls : calls[c].kind # "forward"}) < MaxRequests
    /\ calls' = Append(calls, Call(n, kind, reports, partial,
                                   IF kind = "http" THEN "process" ELSE "verify"))
    /\ UNCHANGED <<leader, view, elections, committed, pending, recent, hung>>

\* The receipts of the reports a batch gives up on.
RestRejected(k) == [i \in 1..(Len(k.reports) - Len(k.receipts) - 1) |-> "rejected"]

\* Faulty: goes on with the rest of the batch.
AfterFailureGoesOn(k) ==
    LET receipts == Append(k.receipts, "rejected")
    IN  [k EXCEPT !.receipts = receipts, !.child = 0,
                  !.pc = IF Len(receipts) = Len(k.reports) THEN "done" ELSE "verify"]

\* A report failed: the error ends a call, unless it is a batch that accepts partial
\* success; a batch that does not rejects the rest unseen.
AfterFailure(k) ==
    LET receipts == Append(k.receipts, "rejected") \o
                      (IF k.partial THEN <<>> ELSE RestRejected(k))
    IN  [k EXCEPT !.receipts = receipts, !.child = 0,
                  !.pc = IF Len(receipts) = Len(k.reports) THEN "done" ELSE "verify"]

AfterReceipt(k, receipt) ==
    [k EXCEPT !.receipts = Append(@, receipt), !.child = 0,
              !.pc = IF Len(k.receipts) + 1 = Len(k.reports) THEN "done" ELSE "verify"]

\* validateExecutionReport and VerifyAgent: a report may be refused.
Verify(c) ==
    /\ At(c, "verify")
    /\ \/ calls' = [calls EXCEPT ![c].pc = "limit"]
       \/ calls' = [calls EXCEPT ![c] = AfterFailure(@)]
    /\ UNCHANGED <<leader, view, elections, committed, pending, recent, hung>>

\* checkRateLimit: one report a second for each agent, batches included.
CheckRateLimit(c) ==
    /\ At(c, "limit")
    /\ LET n == calls[c].node
           a == AgentOf(Report(c))
       IN  \/ /\ a \in recent[n]
              /\ calls' = [calls EXCEPT ![c] = AfterFailure(@)]
              /\ UNCHANGED recent
           \/ /\ a \notin recent[n]
              /\ recent' = [recent EXCEPT ![n] = @ \cup {a}]
              /\ calls' = [calls EXCEPT ![c].pc = "process"]
    /\ UNCHANGED <<leader, view, elections, committed, pending, hung>>

\* processExecutionReportRaft: a report this node already has.
ProcessDuplicate(c) ==
    /\ At(c, "process") /\ Report(c) \in pending[calls[c].node]
    /\ calls' = [calls EXCEPT ![c] = AfterReceipt(@, "duplicate")]
    /\ UNCHANGED <<leader, view, elections, committed, pending, recent, hung>>

\* Faulty: answers once the entry is handed to Raft.
ApplySucceedsEarly(n, r) == committed' = committed

\* ApplyExecutionReport waits for the entry to be committed and applied here.
ApplySucceeds(n, r) == n = leader /\ committed' = committed \cup {r}

\* A node that takes itself for the leader.
ProcessAsLeader(c) ==
    /\ At(c, "process") /\ Report(c) \notin pending[calls[c].node]
    /\ view[calls[c].node] = calls[c].node
    /\ LET n == calls[c].node
           r == Report(c)
       IN  \/ /\ ApplySucceeds(n, r)
              /\ pending' = [pending EXCEPT ![n] = @ \cup {r}]
              /\ calls' = [calls EXCEPT ![c] = AfterReceipt(@, "accepted")]
           \/ /\ committed' \in {committed, committed \cup {r}}
              /\ calls' = [calls EXCEPT ![c] = AfterFailure(@)]
              /\ UNCHANGED pending
    /\ UNCHANGED <<leader, view, elections, recent, hung>>

\* A follower: no leader known or its connection refused is an error; else the report
\* is forwarded to the leader's service as a call of its own, and the goroutine waits.
ForwardReportToLeader(c) ==
    /\ At(c, "process") /\ Report(c) \notin pending[calls[c].node]
    /\ view[calls[c].node] # calls[c].node
    /\ \/ /\ calls' = [calls EXCEPT ![c] = AfterFailure(@)]
       \/ /\ view[calls[c].node] # NoNode /\ Len(calls) < MaxCalls
          /\ calls' = Append([calls EXCEPT ![c].pc = "wait", ![c].child = Len(calls) + 1],
                             Call(view[calls[c].node], "forward", <<Report(c)>>, FALSE, "verify"))
    /\ UNCHANGED <<leader, view, elections, committed, pending, recent, hung>>

\* The leader's answer, passed on as it is; an error fails the report.
LeaderAnswers(c) ==
    /\ At(c, "wait")
    /\ LET child == calls[calls[c].child]
       IN  /\ child.pc = "done" /\ child.node \notin hung
           /\ calls' = [calls EXCEPT ![c] =
                IF child.receipts[1] = "rejected" THEN AfterFailure(@)
                ELSE AfterReceipt(@, child.receipts[1])]
    /\ UNCHANGED <<leader, view, elections, committed, pending, recent, hung>>

\* Faulty: waits as long as the leader's connection lives.
DeadlineNever(c) == At(c, "wait") /\ FALSE

\* context.WithTimeout: five seconds, whatever has become of the forwarded call.
Deadline(c) == At(c, "wait")

ForwardTimesOut(c) ==
    /\ Deadline(c)
    /\ calls' = [calls EXCEPT ![c] = AfterFailure(@)]
    /\ UNCHANGED <<leader, view, elections, committed, pending, recent, hung>>

-----------------------------------------------------------------------------
\* A committed report reaches another node's pendingReports.
OnExecutionReportCommitted(n, r) ==
    /\ n \notin hung /\ r \in committed \ pending[n]
    /\ pending' = [pending EXCEPT ![n] = @ \cup {r}]
    /\ UNCHANGED <<leader, view, elections, committed, recent, calls, hung>>

SecondPasses(n) ==
    /\ recent[n] # {}
    /\ recent' = [recent EXCEPT ![n] = {}]
    /\ UNCHANGED <<leader, view, elections, committed, pending, calls, hung>>

Elect(n) ==
    /\ n # leader /\ n \notin hung /\ elections < MaxElections
    /\ leader' = n /\ view' = [view EXCEPT ![n] = n] /\ elections' = elections + 1
    /\ UNCHANGED <<committed, pending, recent, calls, hung>>

\* A node hears of the leader, or loses touch with it.
LearnLeader(n) ==
    /\ n \notin hung
    /\ \E m \in {leader, NoNode} \ {view[n]} :
         /\ m = NoNode => n # leader
         /\ view' = [view EXCEPT ![n] = m]
    /\ UNCHANGED <<leader, elections, committed, pending, recent, calls, hung>>

Hang(n) ==
    /\ hung = {} /\ hung' = {n}
    /\ UNCHANGED <<leader, view, elections, committed, pending, recent, calls>>

Serve(c) ==
    \/ Verify(c) \/ CheckRateLimit(c) \/ ProcessDuplicate(c) \/ ProcessAsLeader(c)
    \/ ForwardReportToLeader(c) \/ LeaderAnswers(c) \/ ForwardTimesOut(c)

ServiceNext ==
    \/ \E n \in Nodes :
         \/ \E r \in Reports : Receive(n, "single", <<r>>, FALSE) \/ Receive(n, "http", <<r>>, FALSE)
         \/ \E r, q \in Reports, partial \in BOOLEAN : r # q /\ Receive(n, "batch", <<r, q>>, partial)
         \/ \E r \in Reports : OnExecutionReportCommitted(n, r)
         \/ SecondPasses(n) \/ Elect(n) \/ LearnLeader(n) \/ Hang(n)
    \/ \E c \in 1..MaxCalls : Serve(c)

\* A goroutine that can go on does; the deadline of a forwarded call comes.
ServiceFairness == \A c \in 1..MaxCalls : WF_serviceVars(Serve(c))

ServiceSpec == ServiceInit /\ [][ServiceNext]_serviceVars /\ ServiceFairness

-----------------------------------------------------------------------------
\* A receipt that says accepted or duplicate is of a report in the Raft log, whoever
\* led when it was forwarded, applied or answered.
ReceiptMeansCommitted ==
    \A c \in Calls : \A i \in 1..Len(calls[c].receipts) :
      calls[c].receipts[i] # "rejected" => calls[c].reports[i] \in committed

\* Every answered call has one receipt for each report, and a batch that does not
\* allow partial success none but rejections after the first one.
ReceiptsCoverBatch ==
    \A c \in Calls :
      LET k == calls[c]
      IN  /\ k.pc = "done" => Len(k.receipts) = Len(k.reports)
          /\ ~k.partial => \A i, j \in 1..Len(k.receipts) :
               i < j /\ k.receipts[i] = "rejected" => k.receipts[j] = "rejected"

\* What the receipts of a call tell its caller, whole and in part.
ReceiptsInv == ReceiptMeansCommitted /\ ReceiptsCoverBatch

\* A node that keeps running answers every call, also when the node it forwarded a
\* report to hangs, loses leadership or forwards the report again.
CallsAnswered ==
    \A c \in 1..MaxCalls :
      c \in Calls ~> (c \in Calls /\ (calls[c].pc = "done" \/ calls[c].node \in hung))
=============================================================================
