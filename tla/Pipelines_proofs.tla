--------------------------- MODULE Pipelines_proofs ---------------------------
(***************************************************************************)
(* Proofs about the paths along which things move: what the receipts of a  *)
(* call say of the Raft log (ReportService), what the streams of the       *)
(* agents may rely on (IntentStream), the order in which a node is stopped *)
(* (NodeLifecycle), and the bids, tasks and intents of the matcher's       *)
(* library (MatcherLibrary).  They share no state and each is proved on    *)
(* its own, for any nodes, reports, intents, agents, calls and bounds;     *)
(* what is needed of the constants is named in the components' modules or  *)
(* stands before the theorem.                                              *)
(***************************************************************************)
EXTENDS ReportService, IntentStream, NodeLifecycle, MatcherLibrary, FiniteSetTheorems,
        SequenceTheorems, WellFoundedInduction, TLAPS

-----------------------------------------------------------------------------
(***************************************************************************)
(* Reports: the inductive invariant                                        *)
(***************************************************************************)

Receipt == {"accepted", "duplicate", "rejected"}

CallRecord ==
    [node : Nodes, kind : {"single", "http", "batch", "forward"}, reports : Seq(Reports),
     partial : BOOLEAN, pc : {"verify", "limit", "process", "wait", "done"},
     receipts : Seq(Receipt), child : Nat]

\* Nodes have reports of the log only.
ServiceType ==
    /\ leader \in Nodes /\ view \in [Nodes -> Nodes \cup {NoNode}]
    /\ pending \in [Nodes -> SUBSET committed]
    /\ calls \in Seq(CallRecord)

\* A call is done when it has a receipt for each report.
HasReceipts(k) ==
    /\ Len(k.receipts) <= Len(k.reports)
    /\ k.pc = "done" <=> Len(k.receipts) = Len(k.reports)

\* The receipts of a call tell the truth about the log.
IsTrue(k, log) ==
    \A i \in 1..Len(k.receipts) : k.receipts[i] # "rejected" => k.reports[i] \in log

\* The first rejection ends a call that allows no partial success.
EndsAtRejection(k) ==
    ~k.partial =>
      /\ k.pc # "done" => \A i \in 1..Len(k.receipts) : k.receipts[i] # "rejected"
      /\ \A i, j \in 1..Len(k.receipts) :
           i < j /\ k.receipts[i] = "rejected" => k.receipts[j] = "rejected"

CallIsSound(k, log) == HasReceipts(k) /\ IsTrue(k, log) /\ EndsAtRejection(k)

\* A call that waits has forwarded the report it is at.
WaitsForReport(c) ==
    calls[c].pc = "wait" =>
      calls[c].child \in Calls /\ calls[calls[c].child].reports = <<Report(c)>>

ServiceInv ==
    /\ ServiceType
    /\ \A c \in Calls : CallIsSound(calls[c], committed) /\ WaitsForReport(c)

-----------------------------------------------------------------------------
(***************************************************************************)
(* What one receipt more makes of a call                                   *)
(***************************************************************************)

\* The rest of a batch that is given up has one rejection for each report.
LEMMA RestRejectedSeq ==
  ASSUME NEW k \in CallRecord, Len(k.receipts) < Len(k.reports)
  PROVE  /\ RestRejected(k) \in Seq(Receipt)
         /\ Len(RestRejected(k)) = Len(k.reports) - Len(k.receipts) - 1
         /\ \A i \in 1..Len(RestRejected(k)) : RestRejected(k)[i] = "rejected"
<1> DEFINE m == Len(k.reports) - Len(k.receipts) - 1
<1>1. k.reports \in Seq(Reports) /\ k.receipts \in Seq(Receipt)
  BY DEF CallRecord
<1>2. m \in Nat
  BY <1>1
<1>3. RestRejected(k) = [i \in 1..m |-> "rejected"]
  BY DEF RestRejected
<1> HIDE DEF m
<1>4. [i \in 1..m |-> "rejected"] \in Seq(Receipt)
  BY <1>2 DEF Receipt
<1>5. Len([i \in 1..m |-> "rejected"]) = m
  BY <1>2
<1>6. \A i \in 1..m : [j \in 1..m |-> "rejected"][i] = "rejected"
  OBVIOUS
<1>7. Len(RestRejected(k)) = m /\ RestRejected(k) \in Seq(Receipt)
  BY <1>3, <1>4, <1>5
<1>8. \A i \in 1..Len(RestRejected(k)) : RestRejected(k)[i] = "rejected"
  BY <1>3, <1>6, <1>7
<1> QED
  BY <1>7, <1>8 DEF m

\* A report failed.
LEMMA AfterFailureSound ==
  ASSUME NEW k \in CallRecord, NEW log, CallIsSound(k, log), k.pc # "done"
  PROVE  /\ AfterFailure(k) \in CallRecord /\ CallIsSound(AfterFailure(k), log)
         /\ AfterFailure(k).reports = k.reports /\ AfterFailure(k).pc # "wait"
<1> DEFINE rest == IF k.partial THEN <<>> ELSE RestRejected(k)
           first == Append(k.receipts, "rejected")
           all == first \o rest
           pc == IF Len(all) = Len(k.reports) THEN "done" ELSE "verify"
           new == AfterFailure(k)
<1>1. k.reports \in Seq(Reports) /\ k.receipts \in Seq(Receipt) /\ k.partial \in BOOLEAN
  BY DEF CallRecord
<1>2. Len(k.receipts) < Len(k.reports) /\ Len(k.receipts) \in Nat /\ Len(k.reports) \in Nat
  BY <1>1 DEF CallIsSound, HasReceipts
<1>3. /\ first \in Seq(Receipt) /\ Len(first) = Len(k.receipts) + 1
      /\ \A i \in 1..Len(k.receipts) : first[i] = k.receipts[i]
      /\ first[Len(k.receipts) + 1] = "rejected"
  BY <1>1, AppendProperties DEF Receipt
<1>4. /\ rest \in Seq(Receipt) /\ \A i \in 1..Len(rest) : rest[i] = "rejected"
      /\ Len(rest) = IF k.partial THEN 0 ELSE Len(k.reports) - Len(k.receipts) - 1
  <2>1. CASE k.partial
    BY <2>1
  <2>2. CASE ~k.partial
    BY <1>2, <2>2, RestRejectedSeq
  <2> QED
    BY <2>1, <2>2
<1>5. new = [k EXCEPT !.receipts = all, !.child = 0, !.pc = pc]
  BY DEF AfterFailure
<1> HIDE DEF first, rest, new
<1>41. Len(rest) \in Nat /\ Len(rest) <= Len(k.reports) - Len(k.receipts) - 1
      /\ (~k.partial => Len(rest) = Len(k.reports) - Len(k.receipts) - 1)
  <2>1. CASE k.partial
    BY <1>2, <1>4, <2>1
  <2>2. CASE ~k.partial
    BY <1>2, <1>4, <2>2
  <2> QED
    BY <2>1, <2>2
<1>6. /\ all \in Seq(Receipt) /\ Len(all) = Len(first) + Len(rest)
      /\ \A i \in 1..Len(first) + Len(rest) :
           all[i] = IF i <= Len(first) THEN first[i] ELSE rest[i - Len(first)]
  BY <1>3, <1>4, ConcatProperties
<1> HIDE DEF all
<1>7. /\ \A i \in 1..Len(k.receipts) : all[i] = k.receipts[i]
      /\ \A i \in 1..Len(all) : i > Len(k.receipts) => all[i] = "rejected"
  <2>1. Len(rest) \in Nat
    BY <1>41
  <2>2. ASSUME NEW i \in 1..Len(k.receipts) PROVE all[i] = k.receipts[i]
    BY <1>2, <1>3, <1>6, <2>1
  <2>3. ASSUME NEW i \in 1..Len(all), i > Len(k.receipts) PROVE all[i] = "rejected"
    <3>1. CASE i = Len(k.receipts) + 1
      BY <1>2, <1>3, <1>6, <2>1, <3>1
    <3>2. CASE i > Len(k.receipts) + 1
      <4>1. i - Len(first) \in 1..Len(rest) /\ all[i] = rest[i - Len(first)]
        BY <1>2, <1>3, <1>6, <2>1, <3>2
      <4> QED
        BY <1>4, <4>1
    <3> QED
      BY <1>2, <2>3, <3>1, <3>2
  <2> QED
    BY <2>2, <2>3
<1>8. /\ new.reports = k.reports /\ new.receipts = all /\ new.partial = k.partial
      /\ new.pc = pc /\ new \in CallRecord
  BY <1>5, <1>6 DEF CallRecord
<1> HIDE DEF pc
<1>9. pc # "wait" /\ (pc = "done" <=> Len(all) = Len(k.reports))
  BY DEF pc
<1>10. /\ Len(all) \in Nat /\ Len(k.receipts) < Len(all) /\ Len(all) <= Len(k.reports)
       /\ ~k.partial => Len(all) = Len(k.reports)
  <2> DEFINE a == Len(k.receipts)
             b == Len(k.reports)
             x == Len(rest)
             y == Len(all)
  <2>1. y = a + 1 + x
    BY <1>3, <1>6
  <2>2. a \in Nat /\ b \in Nat /\ x \in Nat /\ a < b /\ x <= b - a - 1
    BY <1>2, <1>41
  <2>3. ~k.partial => x = b - a - 1
    BY <1>41
  <2> HIDE DEF a, b, x, y
  <2>4. y \in Nat /\ a < y /\ y <= b /\ (x = b - a - 1 => y = b)
    BY <2>1, <2>2
  <2> QED
    BY <2>3, <2>4 DEF a, b, x, y
<1>11. HasReceipts(new)
  BY <1>8, <1>9, <1>10 DEF HasReceipts
<1>12. IsTrue(new, log)
  BY <1>2, <1>7, <1>8, <1>10 DEF IsTrue, CallIsSound
<1>13. EndsAtRejection(new)
  <2> SUFFICES ASSUME ~k.partial
               PROVE  /\ new.pc = "done"
                      /\ \A i, j \in 1..Len(all) : i < j /\ all[i] = "rejected" => all[j] = "rejected"
    BY <1>8 DEF EndsAtRejection
  <2>1. new.pc = "done"
    BY <1>8, <1>9, <1>10
  <2>2. \A i \in 1..Len(k.receipts) : k.receipts[i] # "rejected"
    BY DEF CallIsSound, EndsAtRejection
  <2> QED
    BY <1>2, <1>7, <1>10, <2>1, <2>2
<1> QED
  BY <1>8, <1>9, <1>11, <1>12, <1>13 DEF CallIsSound, new

\* A report got a receipt that is true.
LEMMA AfterReceiptSound ==
  ASSUME NEW k \in CallRecord, NEW log, CallIsSound(k, log), k.pc # "done",
         NEW receipt \in Receipt, receipt # "rejected",
         k.reports[Len(k.receipts) + 1] \in log
  PROVE  /\ AfterReceipt(k, receipt) \in CallRecord /\ CallIsSound(AfterReceipt(k, receipt), log)
         /\ AfterReceipt(k, receipt).reports = k.reports /\ AfterReceipt(k, receipt).pc # "wait"
<1> DEFINE all == Append(k.receipts, receipt)
           pc == IF Len(k.receipts) + 1 = Len(k.reports) THEN "done" ELSE "verify"
           new == AfterReceipt(k, receipt)
<1>1. k.reports \in Seq(Reports) /\ k.receipts \in Seq(Receipt) /\ k.partial \in BOOLEAN
  BY DEF CallRecord
<1>2. Len(k.receipts) < Len(k.reports) /\ Len(k.receipts) \in Nat /\ Len(k.reports) \in Nat
  BY <1>1 DEF CallIsSound, HasReceipts
<1>3. /\ all \in Seq(Receipt) /\ Len(all) = Len(k.receipts) + 1
      /\ \A i \in 1..Len(k.receipts) : all[i] = k.receipts[i]
      /\ all[Len(k.receipts) + 1] = receipt
  BY <1>1, AppendProperties
<1>4. new = [k EXCEPT !.receipts = all, !.child = 0, !.pc = pc]
  BY DEF AfterReceipt
<1> HIDE DEF all, new
<1>5. /\ new.reports = k.reports /\ new.receipts = all /\ new.partial = k.partial
      /\ new.pc = pc /\ new \in CallRecord
  BY <1>3, <1>4 DEF CallRecord
<1> HIDE DEF pc
<1>6. pc # "wait" /\ (pc = "done" <=> Len(all) = Len(k.reports))
  BY <1>3 DEF pc
<1>7. HasReceipts(new)
  BY <1>2, <1>3, <1>5, <1>6 DEF HasReceipts
<1>8. IsTrue(new, log)
  <2> SUFFICES ASSUME NEW i \in 1..Len(all), all[i] # "rejected" PROVE k.reports[i] \in log
    BY <1>5 DEF IsTrue
  <2>1. CASE i = Len(k.receipts) + 1
    BY <2>1
  <2>2. CASE i \in 1..Len(k.receipts)
    BY <1>3, <2>2 DEF CallIsSound, IsTrue
  <2> QED
    BY <1>2, <1>3, <2>1, <2>2
<1>9. EndsAtRejection(new)
  <2> SUFFICES ASSUME ~k.partial PROVE \A i \in 1..Len(all) : all[i] # "rejected"
    BY <1>5 DEF EndsAtRejection
  <2>1. \A i \in 1..Len(k.receipts) : k.receipts[i] # "rejected"
    BY DEF CallIsSound, EndsAtRejection
  <2> QED
    BY <1>2, <1>3, <2>1
<1> QED
  BY <1>5, <1>6, <1>7, <1>8, <1>9 DEF CallIsSound, new

-----------------------------------------------------------------------------
(***************************************************************************)
(* The steps                                                               *)
(***************************************************************************)

\* One goroutine goes on, and the log may grow.
LEMMA CallStep ==
  ASSUME ServiceInv, NEW c \in Calls, NEW new \in CallRecord,
         calls' = [calls EXCEPT ![c] = new], new.reports = calls[c].reports, new.pc # "wait",
         CallIsSound(new, committed'), committed \subseteq committed',
         pending' \in [Nodes -> SUBSET committed'], UNCHANGED <<leader, view>>
  PROVE  ServiceInv'
<1>1. calls \in Seq(CallRecord) /\ c \in 1..Len(calls)
  BY DEF ServiceInv, ServiceType, Calls
<1>2. /\ calls' \in Seq(CallRecord) /\ Len(calls') = Len(calls)
      /\ \A d \in 1..Len(calls) : calls'[d] = IF d = c THEN new ELSE calls[d]
  BY <1>1, ExceptSeq
<1>3. ServiceType'
  BY <1>2 DEF ServiceInv, ServiceType
<1>4. \A d \in 1..Len(calls) : calls'[d].reports = calls[d].reports
  BY <1>2
<1>5. ASSUME NEW d \in 1..Len(calls)
      PROVE  CallIsSound(calls'[d], committed')
  <2>1. CASE d = c
    BY <1>2, <2>1
  <2>2. CASE d # c
    <3>1. calls'[d] = calls[d] /\ CallIsSound(calls[d], committed)
      BY <1>2, <2>2 DEF ServiceInv, Calls
    <3> QED
      BY <3>1 DEF CallIsSound, IsTrue
  <2> QED
    BY <2>1, <2>2
<1>6. ASSUME NEW d \in 1..Len(calls), calls'[d].pc = "wait"
      PROVE  /\ calls'[d].child \in 1..Len(calls')
             /\ calls'[calls'[d].child].reports = <<calls'[d].reports[Len(calls'[d].receipts) + 1]>>
  <2>1. d # c /\ calls'[d] = calls[d]
    BY <1>2, <1>6
  <2>2. /\ calls[d].child \in 1..Len(calls)
        /\ calls[calls[d].child].reports = <<calls[d].reports[Len(calls[d].receipts) + 1]>>
    BY <1>6, <2>1 DEF ServiceInv, WaitsForReport, Calls, Report
  <2> QED
    BY <1>2, <1>4, <2>1, <2>2
<1> QED
  BY <1>2, <1>3, <1>5, <1>6 DEF ServiceInv, WaitsForReport, Calls, Report

\* A call as it arrives; <<x>> of a report is its only one.
LEMMA NewCall ==
  ASSUME NEW n \in Nodes, NEW kind \in {"single", "http", "batch", "forward"},
         NEW reports \in Seq(Reports), Len(reports) # 0, NEW partial \in BOOLEAN,
         NEW pc \in {"verify", "process"}, NEW log
  PROVE  /\ Call(n, kind, reports, partial, pc) \in CallRecord
         /\ CallIsSound(Call(n, kind, reports, partial, pc), log)
         /\ Call(n, kind, reports, partial, pc).reports = reports
         /\ Call(n, kind, reports, partial, pc).pc # "wait"
<1> DEFINE k == Call(n, kind, reports, partial, pc)
<1>1. <<>> \in Seq(Receipt) /\ Len(<<>>) = 0 /\ Len(reports) \in Nat
  OBVIOUS
<1>2. k.receipts = <<>> /\ k.reports = reports /\ k.pc = pc /\ k \in CallRecord
  BY <1>1 DEF Call, CallRecord
<1> HIDE DEF k
<1>3. HasReceipts(k) /\ IsTrue(k, log) /\ EndsAtRejection(k)
  BY <1>1, <1>2 DEF HasReceipts, IsTrue, EndsAtRejection
<1> QED
  BY <1>2, <1>3 DEF CallIsSound, k

\* A call of a client arrives.
LEMMA ReceiveService ==
  ASSUME ServiceInv, NEW n \in Nodes, NEW kind \in {"single", "http", "batch"},
         NEW reports \in Seq(Reports), Len(reports) # 0, NEW partial \in BOOLEAN,
         Receive(n, kind, reports, partial)
  PROVE  ServiceInv'
<1> DEFINE new == Call(n, kind, reports, partial, IF kind = "http" THEN "process" ELSE "verify")
<1>1. calls' = Append(calls, new) /\ UNCHANGED <<leader, view, committed, pending>>
  BY DEF Receive
<1>2. new \in CallRecord /\ CallIsSound(new, committed) /\ new.pc # "wait"
  BY NewCall
<1> HIDE DEF new
<1>3. calls \in Seq(CallRecord)
  BY DEF ServiceInv, ServiceType
<1>4. /\ calls' \in Seq(CallRecord) /\ Len(calls') = Len(calls) + 1 /\ Len(calls) \in Nat
      /\ \A d \in 1..Len(calls) : calls'[d] = calls[d]
      /\ calls'[Len(calls) + 1] = new
  BY <1>1, <1>2, <1>3, AppendProperties
<1>5. ServiceType'
  BY <1>1, <1>4 DEF ServiceInv, ServiceType
<1>6. ASSUME NEW d \in 1..Len(calls')
      PROVE  CallIsSound(calls'[d], committed') /\ WaitsForReport(d)'
  <2>1. CASE d \in 1..Len(calls)
    <3>1. CallIsSound(calls[d], committed) /\ WaitsForReport(d)
      BY <2>1 DEF ServiceInv, Calls
    <3> QED
      BY <1>1, <1>4, <2>1, <3>1 DEF WaitsForReport, Calls, Report
  <2>2. CASE d = Len(calls) + 1
    BY <1>1, <1>2, <1>4, <2>2 DEF WaitsForReport
  <2> QED
    BY <1>4, <2>1, <2>2
<1> QED
  BY <1>5, <1>6 DEF ServiceInv, Calls

\* What a goroutine that is at a step knows of its call.
LEMMA AtStep ==
  ASSUME ServiceInv, NEW c, NEW pc, At(c, pc)
  PROVE  /\ c \in Calls /\ calls[c] \in CallRecord /\ CallIsSound(calls[c], committed)
         /\ calls[c].pc = pc /\ calls[c].node \in Nodes
<1>1. c \in Calls /\ calls[c].pc = pc /\ calls \in Seq(CallRecord)
  BY DEF At, ServiceInv, ServiceType
<1>2. calls[c] \in CallRecord
  BY <1>1, ElementOfSeq DEF Calls
<1>3. calls[c].node \in Nodes
  BY <1>2 DEF CallRecord
<1> QED
  BY <1>1, <1>2, <1>3 DEF ServiceInv

\* An error in any step.
LEMMA FailureService ==
  ASSUME ServiceInv, NEW c \in Calls, calls[c] \in CallRecord, calls[c].pc # "done",
         calls' = [calls EXCEPT ![c] = AfterFailure(@)], committed \subseteq committed',
         pending' \in [Nodes -> SUBSET committed'], UNCHANGED <<leader, view>>
  PROVE  ServiceInv'
<1> DEFINE new == AfterFailure(calls[c])
           log == committed'
<1>1. CallIsSound(calls[c], log)
  BY DEF ServiceInv, CallIsSound, IsTrue
<1> HIDE DEF log
<1>2. new \in CallRecord /\ CallIsSound(new, log) /\ new.reports = calls[c].reports /\ new.pc # "wait"
  BY <1>1, AfterFailureSound
<1>3. calls' = [calls EXCEPT ![c] = new]
  OBVIOUS
<1> HIDE DEF new
<1> QED
  BY <1>2, <1>3, CallStep DEF log

\* A receipt of a report that is in the log by now.
LEMMA ReceiptService ==
  ASSUME ServiceInv, NEW c \in Calls, calls[c] \in CallRecord, calls[c].pc # "done",
         NEW receipt \in Receipt, receipt # "rejected", Report(c) \in committed',
         calls' = [calls EXCEPT ![c] = AfterReceipt(@, receipt)], committed \subseteq committed',
         pending' \in [Nodes -> SUBSET committed'], UNCHANGED <<leader, view>>
  PROVE  ServiceInv'
<1> DEFINE new == AfterReceipt(calls[c], receipt)
           log == committed'
<1>1. CallIsSound(calls[c], log) /\ calls[c].reports[Len(calls[c].receipts) + 1] \in log
  BY DEF ServiceInv, CallIsSound, IsTrue, Report
<1> HIDE DEF log
<1>2. new \in CallRecord /\ CallIsSound(new, log) /\ new.reports = calls[c].reports /\ new.pc # "wait"
  BY <1>1, AfterReceiptSound
<1>3. calls' = [calls EXCEPT ![c] = new]
  OBVIOUS
<1> HIDE DEF new
<1> QED
  BY <1>2, <1>3, CallStep DEF log

\* A goroutine that passed a check.
LEMMA PassService ==
  ASSUME ServiceInv, NEW c \in Calls, calls[c] \in CallRecord, calls[c].pc # "done",
         NEW pc \in {"limit", "process"}, calls' = [calls EXCEPT ![c].pc = pc],
         UNCHANGED <<leader, view, committed, pending>>
  PROVE  ServiceInv'
<1> DEFINE new == [calls[c] EXCEPT !.pc = pc]
<1>1. /\ new \in CallRecord /\ new.reports = calls[c].reports /\ new.pc = pc
      /\ new.receipts = calls[c].receipts /\ new.partial = calls[c].partial
  BY DEF CallRecord
<1>2. calls' = [calls EXCEPT ![c] = new]
  OBVIOUS
<1> HIDE DEF new
<1>3. CallIsSound(calls[c], committed) /\ pending \in [Nodes -> SUBSET committed]
  BY DEF ServiceInv, ServiceType
<1>4. CallIsSound(new, committed)
  BY <1>1, <1>3 DEF CallIsSound, HasReceipts, IsTrue, EndsAtRejection
<1> QED
  BY <1>1, <1>2, <1>3, <1>4, CallStep

\* validateExecutionReport, VerifyAgent and the rate limit.
LEMMA CheckService ==
  ASSUME ServiceInv, NEW c, Verify(c) \/ CheckRateLimit(c)
  PROVE  ServiceInv'
<1>1. UNCHANGED <<leader, view, committed, pending>>
  BY DEF Verify, CheckRateLimit
<1>2. c \in Calls /\ calls[c] \in CallRecord /\ calls[c].pc # "done"
  BY AtStep DEF Verify, CheckRateLimit
<1>3. pending' \in [Nodes -> SUBSET committed']
  BY <1>1 DEF ServiceInv, ServiceType
<1>4. \/ calls' = [calls EXCEPT ![c] = AfterFailure(@)]
      \/ \E pc \in {"limit", "process"} : calls' = [calls EXCEPT ![c].pc = pc]
  BY DEF Verify, CheckRateLimit
<1> QED
  BY <1>1, <1>2, <1>3, <1>4, FailureService, PassService

\* A report that the node has, and so the log.
LEMMA DuplicateService ==
  ASSUME ServiceInv, NEW c, ProcessDuplicate(c)
  PROVE  ServiceInv'
<1>1. UNCHANGED <<leader, view, committed, pending>>
  BY DEF ProcessDuplicate
<1>2. c \in Calls /\ calls[c] \in CallRecord /\ calls[c].pc # "done" /\ calls[c].node \in Nodes
  BY AtStep DEF ProcessDuplicate
<1>3. pending \in [Nodes -> SUBSET committed]
  BY DEF ServiceInv, ServiceType
<1>4. Report(c) \in committed /\ calls' = [calls EXCEPT ![c] = AfterReceipt(@, "duplicate")]
  BY <1>2, <1>3 DEF ProcessDuplicate
<1>5. "duplicate" \in Receipt /\ "duplicate" # "rejected"
  BY DEF Receipt
<1> QED
  BY <1>1, <1>2, <1>3, <1>4, <1>5, ReceiptService

\* Apply waits for the entry; one that failed may be in the log.
LEMMA LeaderService ==
  ASSUME ServiceInv, NEW c, ProcessAsLeader(c)
  PROVE  ServiceInv'
<1> DEFINE n == calls[c].node
           r == Report(c)
<1>1. UNCHANGED <<leader, view>>
  BY DEF ProcessAsLeader
<1>2. c \in Calls /\ calls[c] \in CallRecord /\ calls[c].pc # "done" /\ n \in Nodes
  BY AtStep DEF ProcessAsLeader
<1>3. pending \in [Nodes -> SUBSET committed]
  BY DEF ServiceInv, ServiceType
<1>4. CASE /\ committed' = committed \cup {r} /\ pending' = [pending EXCEPT ![n] = @ \cup {r}]
           /\ calls' = [calls EXCEPT ![c] = AfterReceipt(@, "accepted")]
  <2>1. pending' \in [Nodes -> SUBSET committed'] /\ r \in committed' /\ committed \subseteq committed'
    BY <1>2, <1>3, <1>4
  <2>2. "accepted" \in Receipt /\ "accepted" # "rejected"
    BY DEF Receipt
  <2> QED
    BY <1>1, <1>2, <1>4, <2>1, <2>2, ReceiptService
<1>5. CASE /\ committed' \in {committed, committed \cup {r}} /\ pending' = pending
           /\ calls' = [calls EXCEPT ![c] = AfterFailure(@)]
  <2>1. pending' \in [Nodes -> SUBSET committed'] /\ committed \subseteq committed'
    BY <1>3, <1>5
  <2> QED
    BY <1>1, <1>2, <1>5, <2>1, FailureService
<1> QED
  BY <1>4, <1>5 DEF ProcessAsLeader, ApplySucceeds

\* A report is forwarded to the node taken for the leader, or fails.
LEMMA ForwardService ==
  ASSUME ServiceInv, NEW c, ForwardReportToLeader(c)
  PROVE  ServiceInv'
<1> DEFINE n == calls[c].node
           k == calls[c]
           m == Len(calls) + 1
           waits == [k EXCEPT !.pc = "wait", !.child = m]
           child == Call(view[n], "forward", <<Report(c)>>, FALSE, "verify")
<1>1. UNCHANGED <<leader, view, committed, pending>>
  BY DEF ForwardReportToLeader
<1>2. /\ c \in Calls /\ k \in CallRecord /\ k.pc = "process" /\ n \in Nodes
      /\ CallIsSound(k, committed)
  BY AtStep DEF ForwardReportToLeader
<1>3. pending' \in [Nodes -> SUBSET committed']
  BY <1>1 DEF ServiceInv, ServiceType
<1>4. calls \in Seq(CallRecord) /\ Len(calls) \in Nat /\ c \in 1..Len(calls)
  BY <1>2 DEF ServiceInv, ServiceType, Calls
<1>5. CASE calls' = [calls EXCEPT ![c] = AfterFailure(@)]
  BY <1>1, <1>2, <1>3, <1>5, FailureService
<1>6. CASE /\ view[n] # NoNode
           /\ calls' = Append([calls EXCEPT ![c].pc = "wait", ![c].child = m], child)
  <2>1. Report(c) \in Reports
    <3>1. k.reports \in Seq(Reports) /\ k.receipts \in Seq(Receipt)
      BY <1>2 DEF CallRecord
    <3>2. Len(k.receipts) < Len(k.reports)
      BY <1>2, <3>1 DEF CallIsSound, HasReceipts
    <3>3. Len(k.receipts) + 1 \in 1..Len(k.reports)
      BY <3>1, <3>2
    <3> QED
      BY <3>1, <3>3, ElementOfSeq DEF Report
  <2>2. view[n] \in Nodes
    BY <1>2, <1>6 DEF ServiceInv, ServiceType
  <2>3. <<Report(c)>> \in Seq(Reports) /\ Len(<<Report(c)>>) # 0
    BY <2>1
  <2>4. /\ child \in CallRecord /\ CallIsSound(child, committed) /\ child.pc # "wait"
        /\ child.reports = <<Report(c)>>
    BY <2>2, <2>3, NewCall
  <2>5. /\ waits \in CallRecord /\ waits.pc = "wait" /\ waits.child = m
        /\ waits.reports = k.reports /\ waits.receipts = k.receipts /\ waits.partial = k.partial
    <3>1. m \in Nat
      BY <1>4
    <3> HIDE DEF m, k
    <3> QED
      BY <1>2, <3>1 DEF CallRecord
  <2>6. CallIsSound(waits, committed)
    BY <1>2, <2>5 DEF CallIsSound, HasReceipts, IsTrue, EndsAtRejection
  <2>7. [calls EXCEPT ![c].pc = "wait", ![c].child = m] = [calls EXCEPT ![c] = waits]
    BY <1>2, <1>4
  <2> HIDE DEF child, waits
  <2> DEFINE mid == [calls EXCEPT ![c] = waits]
  <2>8. /\ mid \in Seq(CallRecord) /\ Len(mid) = Len(calls)
        /\ \A d \in 1..Len(calls) : mid[d] = IF d = c THEN waits ELSE calls[d]
    BY <1>4, <2>5, ExceptSeq
  <2>9. calls' = Append(mid, child)
    BY <1>6, <2>7
  <2> HIDE DEF mid
  <2>10. /\ calls' \in Seq(CallRecord) /\ Len(calls') = m
         /\ \A d \in 1..Len(calls) : calls'[d] = IF d = c THEN waits ELSE calls[d]
         /\ calls'[m] = child
    BY <2>4, <2>8, <2>9, AppendProperties
  <2>11. ServiceType'
    BY <1>1, <2>10 DEF ServiceInv, ServiceType
  <2>12. \A d \in 1..Len(calls) : calls'[d].reports = calls[d].reports
    BY <2>5, <2>10
  <2>13. ASSUME NEW d \in 1..m PROVE CallIsSound(calls'[d], committed')
    <3>1. CASE d = m
      BY <1>1, <2>4, <2>10, <3>1
    <3>2. CASE d = c
      BY <1>1, <1>4, <2>6, <2>10, <3>2
    <3>3. CASE d \in 1..Len(calls) /\ d # c
      BY <1>1, <2>10, <3>3 DEF ServiceInv, Calls
    <3> QED
      BY <1>4, <3>1, <3>2, <3>3
  <2>14. ASSUME NEW d \in 1..m, calls'[d].pc = "wait"
         PROVE  /\ calls'[d].child \in 1..m
                /\ calls'[calls'[d].child].reports = <<calls'[d].reports[Len(calls'[d].receipts) + 1]>>
    <3>1. CASE d = m
      BY <2>4, <2>10, <2>14, <3>1
    <3>2. CASE d = c
      <4>1. calls'[d] = waits /\ m \in 1..m
        BY <1>4, <2>10, <3>2
      <4> QED
        BY <2>4, <2>5, <2>10, <4>1 DEF Report
    <3>3. CASE d \in 1..Len(calls) /\ d # c
      <4>1. calls'[d] = calls[d]
        BY <2>10, <3>3
      <4>2. /\ calls[d].child \in 1..Len(calls)
            /\ calls[calls[d].child].reports = <<calls[d].reports[Len(calls[d].receipts) + 1]>>
        BY <2>14, <3>3, <4>1 DEF ServiceInv, WaitsForReport, Calls, Report
      <4>3. calls[d].child \in 1..m
        BY <1>4, <4>2
      <4> QED
        BY <2>12, <4>1, <4>2, <4>3
    <3> QED
      BY <1>4, <3>1, <3>2, <3>3
  <2> QED
    BY <2>10, <2>11, <2>13, <2>14 DEF ServiceInv, WaitsForReport, Calls, Report
<1> QED
  BY <1>5, <1>6 DEF ForwardReportToLeader

\* The leader's receipt is true of the report it was forwarded.
LEMMA AnswerService ==
  ASSUME ServiceInv, NEW c, LeaderAnswers(c) \/ ForwardTimesOut(c)
  PROVE  ServiceInv'
<1>1. UNCHANGED <<leader, view, committed, pending>>
  BY DEF LeaderAnswers, ForwardTimesOut
<1>2. c \in Calls /\ calls[c] \in CallRecord /\ calls[c].pc = "wait"
  BY AtStep DEF LeaderAnswers, ForwardTimesOut, Deadline
<1>3. pending' \in [Nodes -> SUBSET committed']
  BY <1>1 DEF ServiceInv, ServiceType
<1>4. CASE calls' = [calls EXCEPT ![c] = AfterFailure(@)]
  BY <1>1, <1>2, <1>3, <1>4, FailureService
<1>5. CASE LeaderAnswers(c) /\ calls[calls[c].child].receipts[1] # "rejected"
  <2> DEFINE child == calls[calls[c].child]
             receipt == child.receipts[1]
  <2>1. calls[c].child \in Calls /\ child.reports = <<Report(c)>>
    BY <1>2 DEF ServiceInv, WaitsForReport
  <2>2. child \in CallRecord /\ CallIsSound(child, committed)
    <3>1. calls \in Seq(CallRecord)
      BY DEF ServiceInv, ServiceType
    <3> QED
      BY <2>1, <3>1, ElementOfSeq DEF ServiceInv, Calls
  <2>3. child.pc = "done" /\ calls' = [calls EXCEPT ![c] = AfterReceipt(@, receipt)]
    BY <1>5 DEF LeaderAnswers
  <2> HIDE DEF child
  <2>4. Len(child.receipts) = 1
    BY <2>1, <2>2, <2>3 DEF CallIsSound, HasReceipts
  <2>5. receipt \in Receipt
    <3>1. child.receipts \in Seq(Receipt)
      BY <2>2 DEF CallRecord
    <3> QED
      BY <2>4, <3>1, ElementOfSeq
  <2>6. child.reports[1] = Report(c)
    BY <2>1
  <2>7. receipt # "rejected"
    BY <1>5 DEF child
  <2>8. Report(c) \in committed
    BY <2>2, <2>4, <2>6, <2>7 DEF CallIsSound, IsTrue
  <2> HIDE DEF receipt
  <2> QED
    BY <1>1, <1>2, <1>3, <2>3, <2>5, <2>7, <2>8, ReceiptService
<1> QED
  BY <1>4, <1>5 DEF LeaderAnswers, ForwardTimesOut

\* Leadership, hanging nodes and committed reports touch no call.
LEMMA ClusterService ==
  ASSUME ServiceInv, NEW n \in Nodes,
         \/ \E r \in Reports : OnExecutionReportCommitted(n, r)
         \/ SecondPasses(n) \/ Elect(n) \/ LearnLeader(n) \/ Hang(n)
  PROVE  ServiceInv'
<1>1. UNCHANGED <<calls, committed>>
  BY DEF OnExecutionReportCommitted, SecondPasses, Elect, LearnLeader, Hang
<1>2. /\ leader \in Nodes /\ view \in [Nodes -> Nodes \cup {NoNode}]
      /\ pending \in [Nodes -> SUBSET committed]
  BY DEF ServiceInv, ServiceType
<1>3. /\ leader' \in Nodes /\ view' \in [Nodes -> Nodes \cup {NoNode}]
      /\ pending' \in [Nodes -> SUBSET committed]
  <2>1. CASE \E r \in Reports : OnExecutionReportCommitted(n, r)
    BY <1>2, <2>1 DEF OnExecutionReportCommitted
  <2>2. CASE SecondPasses(n) \/ Hang(n)
    BY <1>2, <2>2 DEF SecondPasses, Hang
  <2>3. CASE Elect(n)
    BY <1>2, <2>3 DEF Elect
  <2>4. CASE LearnLeader(n)
    BY <1>2, <2>4 DEF LearnLeader
  <2> QED
    BY <2>1, <2>2, <2>3, <2>4
<1>4. ServiceType'
  BY <1>1, <1>3 DEF ServiceInv, ServiceType
<1> QED
  BY <1>1, <1>4 DEF ServiceInv, WaitsForReport, Calls, Report

\* Every step keeps the invariant.
LEMMA NextService == ServiceInv /\ [ServiceNext]_serviceVars => ServiceInv'
<1> SUFFICES ASSUME ServiceInv, [ServiceNext]_serviceVars PROVE ServiceInv'
  OBVIOUS
<1>1. CASE UNCHANGED serviceVars
  BY <1>1 DEF serviceVars, ServiceInv, ServiceType, WaitsForReport, Calls, Report
<1>2. ASSUME NEW n \in Nodes, NEW r \in Reports,
             Receive(n, "single", <<r>>, FALSE) \/ Receive(n, "http", <<r>>, FALSE)
      PROVE  ServiceInv'
  <2>1. <<r>> \in Seq(Reports) /\ Len(<<r>>) # 0
    OBVIOUS
  <2> QED
    BY <1>2, <2>1, ReceiveService
<1>3. ASSUME NEW n \in Nodes, NEW r \in Reports, NEW q \in Reports, NEW partial \in BOOLEAN,
             Receive(n, "batch", <<r, q>>, partial)
      PROVE  ServiceInv'
  <2>1. <<r, q>> \in Seq(Reports) /\ Len(<<r, q>>) # 0
    OBVIOUS
  <2> QED
    BY <1>3, <2>1, ReceiveService
<1>4. ASSUME NEW c \in 1..MaxCalls, Serve(c) PROVE ServiceInv'
  BY <1>4, CheckService, DuplicateService, LeaderService, ForwardService, AnswerService DEF Serve
<1>5. CASE ServiceNext
  BY <1>2, <1>3, <1>4, <1>5, ClusterService DEF ServiceNext
<1> QED
  BY <1>1, <1>5

\* A receipt that says accepted or duplicate is of a report in the Raft log, whoever led when
\* the report was forwarded, applied or answered; an answered call has a receipt for each
\* report, and one that allows no partial success ends at its first rejection.
THEOREM ReceiptsInvHolds == ServiceSpec => []ReceiptsInv
<1>1. ServiceInit => ServiceInv
  <2> SUFFICES ASSUME ServiceInit PROVE ServiceInv
    OBVIOUS
  <2>1. calls = <<>> /\ Calls = {}
    BY DEF ServiceInit, Calls
  <2>2. ServiceType
    BY <2>1 DEF ServiceInit, ServiceType
  <2> QED
    BY <2>1, <2>2 DEF ServiceInv
<1>2. ServiceInv => ReceiptsInv
  BY DEF ServiceInv, CallIsSound, HasReceipts, IsTrue, EndsAtRejection, ReceiptsInv,
     ReceiptMeansCommitted, ReceiptsCoverBatch
<1> QED
  BY <1>1, <1>2, NextService, PTL DEF ServiceSpec

-----------------------------------------------------------------------------
(***************************************************************************)
(* The stop of a node                                                      *)
(***************************************************************************)

\* Raft is up from the start, goes down as the second step of Node.Stop and stays down; the
\* store is closed later.  Only CometBFT is ever "starting".
RaftStopsFirst ==
    /\ step \in Nat \ {0} /\ storeOpen \in BOOLEAN
    /\ mode = "raft" => /\ main # "starting"
                        /\ step > 2 => engine = "down"
                        /\ engine = "up" => storeOpen = TRUE

\* One step of Node.Stop: cancel, then Raft, and the store after that.
LEMMA StopStepRaftFirst == RaftStopsFirst /\ StopStep => RaftStopsFirst'
<1> SUFFICES ASSUME RaftStopsFirst, StopStep PROVE RaftStopsFirst'
  OBVIOUS
<1>1. StopSteps[1] = "cancel" /\ StopSteps[2] = "raft"
  BY DEF StopSteps
<1>2. /\ step' = step + 1 /\ UNCHANGED <<mode, main>>
      /\ engine' = IF StopSteps[step] = "raft" /\ mode = "raft" THEN "down" ELSE engine
  BY DEF StopStep
<1>3. storeOpen' \in BOOLEAN
  BY DEF StopStep
<1>4. mode = "raft" /\ engine' = "up" => step = 1
  BY <1>1, <1>2 DEF RaftStopsFirst
<1>5. StopSteps[step] # "store" => storeOpen' = storeOpen
  BY Zenon DEF StopStep, RaftStopsFirst
<1>6. mode = "raft" /\ engine' = "up" => engine = "up" /\ storeOpen' = storeOpen
  BY <1>1, <1>2, <1>4, <1>5
<1>7. mode = "raft" /\ step' > 2 => engine' = "down"
  BY <1>1, <1>2 DEF RaftStopsFirst
<1> QED
  BY <1>2, <1>3, <1>6, <1>7 DEF RaftStopsFirst

LEMMA NextRaftStopsFirst == RaftStopsFirst /\ [LifeNext]_lifeVars => RaftStopsFirst'
<1> SUFFICES ASSUME RaftStopsFirst, [LifeNext]_lifeVars PROVE RaftStopsFirst'
  OBVIOUS
<1>1. CASE UNCHANGED lifeVars
  BY <1>1 DEF lifeVars, RaftStopsFirst
<1>2. CASE StartServer \/ StartNode \/ ReplayBlock \/ EngineStarted
  BY <1>2 DEF StartServer, StartNode, ReplayBlock, EngineStarted, RaftStopsFirst
<1>3. CASE StartFails \/ Signal
  BY <1>3 DEF StartFails, Signal, RaftStopsFirst
<1>6. CASE StopServer
  <2>1. step' = step \/ step' = 1
    BY <1>6 DEF StopServer
  <2>2. UNCHANGED <<mode, engine, storeOpen>> /\ main' \in {main, "stopping again", "exited"}
    BY <1>6 DEF StopServer
  <2>3. step' \in Nat \ {0} /\ (step' > 2 => step > 2)
    BY <2>1 DEF RaftStopsFirst
  <2>4. main # "starting" => main' # "starting"
    BY <2>2
  <2> QED
    BY <2>2, <2>3, <2>4, Zenon DEF RaftStopsFirst
<1>4. ASSUME NEW h \in Handlers, Arrive(h) \/ Handle(h) PROVE RaftStopsFirst'
  BY <1>4 DEF Arrive, Handle, Check, Forwarded, RaftStopsFirst
<1>5. CASE Tick \/ LoopEnds \/ Commit \/ Released \/ RunTask
  BY <1>5 DEF Tick, LoopEnds, Commit, Released, RunTask, RaftStopsFirst
<1> QED
  BY <1>1, <1>2, <1>3, <1>4, <1>5, <1>6, StopStepRaftFirst DEF LifeNext, Main

\* Raft applies entries, whose goroutines write to LevelDB, only while the store is open,
\* though main stops the node a second time when it returns.
THEOREM StoreOutlivesRaftHolds == LifeSpec => []StoreOutlivesRaft
<1>1. LifeInit => RaftStopsFirst
  BY DEF LifeInit, RaftStopsFirst
<1>2. RaftStopsFirst => StoreOutlivesRaft
  BY DEF RaftStopsFirst, StoreOutlivesRaft
<1> QED
  BY <1>1, <1>2, NextRaftStopsFirst, PTL DEF LifeSpec

-----------------------------------------------------------------------------
(***************************************************************************)
(* The streams of the agents                                               *)
(***************************************************************************)

FeedRecord ==
    [pc : {"none", "recv", "forward", "end"}, queue : Seq(Intents), held : Seq(Intents), broken : BOOLEAN]

PullingRecord ==
    [pc : {"connect", "stream", "poll", "stream cast", "poll cast", "end"}, batch : Seq(Intents)]

Updates == [intent : Intents, open : BOOLEAN]

StreamRecord ==
    [pc : {"none", "registered", "streaming", "left"}, queue : Seq(Updates), seen : SUBSET Intents,
     missed : SUBSET Intents, skipped : SUBSET Intents, closes : Nat]

WindowType == windows \in [Intents -> {"open", "closed", "reopened"}]

\* What is on its way to the matcher.
PathType ==
    /\ rootPending \in Seq(Intents)
    /\ feed \in FeedRecord
    /\ channel \in [items : Seq(Intents), closed : BOOLEAN]
    /\ pulling \in PullingRecord

\* AddIntent has inserted the intent and not yet broadcast it.
Casting == pulling.pc \in {"stream cast", "poll cast"}
Due(i) == Casting /\ i = Head(pulling.batch)

\* The channel of a stream holds what it has room for and is closed by its handler only.
StreamIsSound(s) ==
    /\ s \in StreamRecord /\ Len(s.queue) <= StreamSize
    /\ s.closes = IF s.pc = "left" THEN 1 ELSE 0

StreamsSound ==
    /\ streams \in [Agents -> StreamRecord]
    /\ \A a \in Agents : StreamIsSound(streams[a])

\* A streaming agent is told of every intent it did not skip whose broadcast is done.
HasAllBut(s) ==
    s.pc = "streaming" => \A i \in intents : i \in s.skipped \/ Due(i) \/ Told(s, i)

\* What it skipped has been closed.
SkippedClosed(s) == \A i \in s.skipped : windows[i] # "open"

StreamIInv ==
    /\ PathType
    /\ intents \in SUBSET Intents /\ IsFiniteSet(intents)
    /\ Casting => pulling.batch # <<>>
    /\ WindowType
    /\ StreamsSound
    /\ \A a \in Agents : HasAllBut(streams[a]) /\ SkippedClosed(streams[a])

-----------------------------------------------------------------------------
\* An order of a finite set is a sequence that names every element.
LEMMA OrderNamesAll ==
  ASSUME NEW S, IsFiniteSet(S), NEW order \in SetToSeqs(S)
  PROVE  order \in Seq(S) /\ \A x \in S : Contains(order, x)
<1> DEFINE n == Cardinality(S)
<1>1. n \in Nat
  BY FS_CardinalityType
<1>2. order \in [1..n -> S] /\ \A i, j \in 1..n : i # j => order[i] # order[j]
  BY DEF SetToSeqs
<1>3. order \in Seq(S) /\ Len(order) = n
  BY <1>1, <1>2
<1>4. order \in Injection(1..n, S)
  BY <1>2 DEF Injection, IsInjective
<1>5. Cardinality(1..n) = n
  BY <1>1, FS_Interval
<1>6. order \in Surjection(1..n, S)
  BY <1>4, <1>5, FS_Injection
<1>7. \A x \in S : \E i \in 1..n : order[i] = x
  BY <1>6 DEF Surjection
<1> QED
  BY <1>3, <1>7 DEF Contains

\* An opening of an intent opens it.
LEMMA OpeningOpens ==
  ASSUME NEW S, NEW i, Opening(i) \in S
  PROVE  i \in Openings(S)
<1>1. Opening(i).open /\ Opening(i).intent = i
  BY DEF Opening
<1> QED
  BY <1>1 DEF Openings

LEMMA OpeningsTyped ==
  ASSUME NEW S \in SUBSET Updates
  PROVE  Openings(S) \subseteq Intents
BY DEF Openings, Updates

\* What is offered is in the channel or counted as missed, and nothing is taken out.
LEMMA OfferKeeps ==
  ASSUME StreamSize \in Nat, NEW s \in StreamRecord, Len(s.queue) <= StreamSize,
         NEW items \in Seq(Updates)
  PROVE  LET t == Offer(s, items)
         IN  /\ t \in StreamRecord /\ Len(t.queue) <= StreamSize
             /\ t.pc = s.pc /\ t.closes = s.closes /\ t.skipped = s.skipped
             /\ \A i : Told(s, i) => Told(t, i)
             /\ \A i : Contains(items, Opening(i)) => Told(t, i)
<1> DEFINE room == StreamSize - Len(s.queue)
           fit == IF Len(items) < room THEN Len(items) ELSE room
           sent == SubSeq(items, 1, fit)
           over == {items[k] : k \in (fit + 1)..Len(items)}
           rest == Openings(over)
           t == Offer(s, items)
<1>1. /\ s.queue \in Seq(Updates) /\ s.missed \subseteq Intents
      /\ Len(s.queue) \in Nat /\ Len(items) \in Nat
  BY DEF StreamRecord
<1>2. room \in Nat
  BY <1>1
<1>3. fit \in Nat /\ fit <= Len(items) /\ fit <= room
  <2> HIDE DEF room
  <2> QED
    BY <1>1, <1>2
<1>4. t = [s EXCEPT !.queue = s.queue \o sent, !.missed = s.missed \cup rest]
  BY DEF Offer
<1>5. rest \subseteq Intents
  <2>1. ASSUME NEW k \in (fit + 1)..Len(items) PROVE items[k] \in Updates
    <3>1. k \in 1..Len(items)
      BY <1>3
    <3> QED
      BY <3>1, ElementOfSeq
  <2>2. over \in SUBSET Updates
    BY <2>1
  <2> HIDE DEF over
  <2> QED
    BY <2>2, OpeningsTyped
<1> HIDE DEF room, fit
<1>6. /\ sent \in Seq(Updates) /\ Len(sent) = fit
      /\ \A k \in 1..fit : sent[k] = items[k]
  <2>1. \A k \in 1..fit : items[k] \in Updates
    BY <1>3, ElementOfSeq, <1>1
  <2> QED
    BY <1>3, <2>1, SubSeqProperties
<1> HIDE DEF sent, over, rest, t
<1>7. /\ s.queue \o sent \in Seq(Updates) /\ Len(s.queue \o sent) = Len(s.queue) + fit
      /\ \A k \in 1..(Len(s.queue) + fit) : (s.queue \o sent)[k] =
            IF k <= Len(s.queue) THEN s.queue[k] ELSE sent[k - Len(s.queue)]
  <2> DEFINE q == s.queue
  <2>1. q \in Seq(Updates) /\ sent \in Seq(Updates) /\ Len(sent) = fit
    BY <1>1, <1>6
  <2> HIDE DEF q
  <2>2. /\ q \o sent \in Seq(Updates) /\ Len(q \o sent) = Len(q) + Len(sent)
        /\ \A k \in 1..(Len(q) + Len(sent)) :
             (q \o sent)[k] = IF k <= Len(q) THEN q[k] ELSE sent[k - Len(q)]
    BY <2>1, ConcatProperties
  <2> QED
    BY <2>1, <2>2 DEF q
<1>8. /\ t \in StreamRecord /\ t.pc = s.pc /\ t.closes = s.closes /\ t.skipped = s.skipped /\ t.seen = s.seen
      /\ t.queue = s.queue \o sent /\ t.missed = s.missed \cup rest
  <2> DEFINE q == s.queue \o sent
             m == s.missed \cup rest
  <2>1. q \in Seq(Updates) /\ m \in SUBSET Intents /\ t = [s EXCEPT !.queue = q, !.missed = m]
    BY <1>1, <1>4, <1>5, <1>7
  <2> HIDE DEF q, m
  <2>2. /\ t \in StreamRecord /\ t.pc = s.pc /\ t.closes = s.closes /\ t.skipped = s.skipped /\ t.seen = s.seen
        /\ t.queue = q /\ t.missed = m
    BY <2>1 DEF StreamRecord
  <2> QED
    BY <2>2 DEF q, m
<1>9. Len(t.queue) <= StreamSize
  BY <1>1, <1>3, <1>7, <1>8 DEF room
<1>10. ASSUME NEW i, Told(s, i) PROVE Told(t, i)
  <2>1. CASE i \in s.seen \cup s.missed
    BY <2>1, <1>8 DEF Told
  <2>2. ASSUME NEW k \in 1..Len(s.queue), s.queue[k] = Opening(i) PROVE Told(t, i)
    <3>1. k \in 1..Len(t.queue) /\ t.queue[k] = Opening(i)
      BY <1>1, <1>3, <1>7, <1>8, <2>2
    <3> QED
      BY <3>1 DEF Told, Contains
  <2> QED
    BY <1>10, <2>1, <2>2 DEF Told, Contains
<1>11. ASSUME NEW i, NEW k \in 1..Len(items), items[k] = Opening(i) PROVE Told(t, i)
  <2>1. CASE k <= fit
    <3>1. /\ Len(s.queue) + k \in 1..(Len(s.queue) + fit)
          /\ ~(Len(s.queue) + k <= Len(s.queue)) /\ (Len(s.queue) + k) - Len(s.queue) = k
      BY <1>1, <1>3, <2>1
    <3>2. t.queue[Len(s.queue) + k] = Opening(i) /\ Len(s.queue) + k \in 1..Len(t.queue)
      BY <1>6, <1>7, <1>8, <1>11, <2>1, <3>1
    <3> QED
      BY <3>2 DEF Told, Contains
  <2>2. CASE ~(k <= fit)
    <3>1. k \in (fit + 1)..Len(items)
      BY <1>1, <1>3, <2>2
    <3>2. Opening(i) \in over
      BY <1>11, <3>1 DEF over
    <3>3. i \in rest
      BY <3>2, OpeningOpens DEF rest
    <3> QED
      BY <1>8, <3>3 DEF Told
  <2> QED
    BY <2>1, <2>2
<1>12. \A i : Contains(items, Opening(i)) => Told(t, i)
  BY <1>11 DEF Contains
<1> QED
  BY <1>8, <1>9, <1>10, <1>12 DEF t

\* Updates cast to the registered streams leave nobody with less than before.
LEMMA CastKeeps ==
  ASSUME StreamSize \in Nat, StreamsSound, NEW updates \in Seq(Updates), NEW a \in Agents
  PROVE  LET t == Cast(updates)[a]
         IN  /\ StreamIsSound(t)
             /\ t.pc = streams[a].pc /\ t.skipped = streams[a].skipped
             /\ \A i : Told(streams[a], i) => Told(t, i)
             /\ t.pc = "streaming" => \A i : Contains(updates, Opening(i)) => Told(t, i)
<1> DEFINE s == streams[a]
           u == Offer(s, updates)
           t == Cast(updates)[a]
<1>1. s \in StreamRecord /\ StreamIsSound(s)
  BY DEF StreamsSound
<1>2. t = IF Registered(s) THEN u ELSE s
  BY DEF Cast
<1>3. CASE ~Registered(s)
  BY <1>1, <1>2, <1>3 DEF Registered
<1>4. CASE Registered(s)
  <2>1. /\ u \in StreamRecord /\ Len(u.queue) <= StreamSize
        /\ u.pc = s.pc /\ u.closes = s.closes /\ u.skipped = s.skipped
        /\ \A i : Told(s, i) => Told(u, i)
        /\ \A i : Contains(updates, Opening(i)) => Told(u, i)
    BY <1>1, OfferKeeps DEF StreamIsSound
  <2>2. t = u
    BY <1>2, <1>4
  <2> HIDE DEF s, u, t
  <2>3. StreamIsSound(u)
    BY <1>1, <2>1 DEF StreamIsSound
  <2>4. /\ StreamIsSound(t)
        /\ t.pc = s.pc /\ t.skipped = s.skipped
        /\ \A i : Told(s, i) => Told(t, i)
        /\ t.pc = "streaming" => \A i : Contains(updates, Opening(i)) => Told(t, i)
    BY <2>1, <2>2, <2>3
  <2> QED
    BY <2>4 DEF s, t
<1> QED
  BY <1>3, <1>4

\* So the streams stay sound, and what was skipped stays closed unless its window is reset.
LEMMA CastSound ==
  ASSUME StreamSize \in Nat, StreamIInv, NEW updates \in Seq(Updates), streams' = Cast(updates)
  PROVE  /\ StreamsSound'
         /\ \A a \in Agents : streams'[a].skipped = streams[a].skipped
<1>1. StreamsSound
  BY DEF StreamIInv
<1>2. \A a \in Agents : StreamIsSound(streams'[a]) /\ streams'[a].skipped = streams[a].skipped
  BY <1>1, CastKeeps
<1>3. streams' \in [Agents -> StreamRecord]
  BY <1>2 DEF Cast, StreamIsSound
<1> QED
  BY <1>2, <1>3 DEF StreamsSound, StreamIsSound

-----------------------------------------------------------------------------
(* Steps outside the streams                                               *)

\* Intents move towards the matcher; nobody has begun or ended a broadcast.
PathStep ==
    /\ UNCHANGED <<intents, windows, streams>>
    /\ pulling' = pulling \/ (~Casting /\ ~Casting')
    /\ PathType'

LEMMA FeedSteps ==
  ASSUME StreamIInv,
         \/ \E i \in Intents : NewIntent(i)
         \/ Break \/ Repair \/ Forwarding
         \/ ShutdownSignal \/ Exit
  PROVE  PathStep
<1>1. PathType
  BY DEF StreamIInv
<1>2. ASSUME NEW i \in Intents, NewIntent(i) PROVE PathStep
  <2>1. rootPending' \in Seq(Intents) /\ UNCHANGED <<channel, pulling, intents, windows, streams>>
    BY <1>1, <1>2 DEF NewIntent, PathType
  <2>2. Append(feed.queue, i) \in Seq(Intents)
    BY <1>1 DEF PathType, FeedRecord
  <2>3. feed' \in FeedRecord
    BY <1>1, <1>2, <2>2 DEF NewIntent, PathType, FeedRecord
  <2> QED
    BY <1>1, <2>1, <2>3 DEF PathType, PathStep
<1>3. CASE Break
  <2>1. UNCHANGED <<rootPending, channel, pulling, intents, windows, streams>> /\ <<>> \in Seq(Intents)
    BY <1>3 DEF Break
  <2>2. feed \in FeedRecord /\ feed' = [feed EXCEPT !.queue = <<>>, !.broken = TRUE]
    BY <1>1, <1>3 DEF Break, PathType
  <2>3. feed' \in FeedRecord
    BY <2>1, <2>2, Zenon DEF FeedRecord
  <2> QED
    BY <1>1, <2>1, <2>3 DEF PathType, PathStep
<1>4. CASE Repair \/ ShutdownSignal \/ Exit
  BY <1>1, <1>4 DEF Repair, ShutdownSignal, Exit, PathType, PathStep
<1>5. ASSUME EndFeed PROVE feed' \in FeedRecord /\ channel' \in [items : Seq(Intents), closed : BOOLEAN]
  <2>1. NoFeed \in FeedRecord
    BY DEF NoFeed, FeedRecord
  <2>2. feed' \in FeedRecord
    BY <1>5, <2>1 DEF EndFeed, FeedRecord
  <2>3. channel' \in [items : Seq(Intents), closed : BOOLEAN]
    BY <1>1, <1>5, Zenon DEF EndFeed, PathType
  <2> QED
    BY <2>2, <2>3
<1>6. CASE Recv
  <2>1. UNCHANGED <<rootPending, pulling, intents, windows, streams>>
    BY <1>6 DEF Recv
  <2>2. feed' \in FeedRecord /\ channel' \in [items : Seq(Intents), closed : BOOLEAN]
    <3>1. CASE EndFeed
      BY <1>5, <3>1
    <3>2. CASE /\ feed.queue # <<>> /\ UNCHANGED channel
               /\ feed' = [feed EXCEPT !.pc = "forward", !.queue = Tail(@),
                                       !.held = <<Head(feed.queue)>>]
      <4>1. Tail(feed.queue) \in Seq(Intents) /\ <<Head(feed.queue)>> \in Seq(Intents)
        BY <1>1, <3>2 DEF PathType, FeedRecord
      <4> QED
        BY <1>1, <3>2, <4>1 DEF PathType, FeedRecord
    <3> QED
      BY <1>6, <3>1, <3>2 DEF Recv
  <2> QED
    BY <1>1, <2>1, <2>2 DEF PathType, PathStep
<1>7. CASE Forward
  <2>1. UNCHANGED <<rootPending, pulling, intents, windows, streams>>
    BY <1>7 DEF Forward
  <2>2. feed' \in FeedRecord /\ channel' \in [items : Seq(Intents), closed : BOOLEAN]
    <3>1. CASE EndFeed
      BY <1>5, <3>1
    <3>2. CASE /\ channel' = [channel EXCEPT !.items = @ \o feed.held]
               /\ feed' = [feed EXCEPT !.pc = "recv", !.held = <<>>]
      <4>1. channel.items \o feed.held \in Seq(Intents)
        BY <1>1 DEF PathType, FeedRecord
      <4>2. feed' \in FeedRecord
        <5>1. feed \in FeedRecord /\ feed' = [feed EXCEPT !.pc = "recv", !.held = <<>>]
          BY <1>1, <3>2 DEF PathType
        <5>2. <<>> \in Seq(Intents)
          OBVIOUS
        <5> QED
          BY <5>1, <5>2, Zenon DEF FeedRecord
      <4>3. channel' \in [items : Seq(Intents), closed : BOOLEAN]
        BY <1>1, <3>2, <4>1 DEF PathType
      <4> QED
        BY <4>2, <4>3
    <3> QED
      BY <1>7, <3>1, <3>2 DEF Forward
  <2> QED
    BY <1>1, <2>1, <2>2 DEF PathType, PathStep
<1> QED
  BY <1>2, <1>3, <1>4, <1>6, <1>7 DEF Forwarding

LEMMA PullingSteps ==
  ASSUME StreamIInv, PageSize \in Nat,
         \/ OpenFeed \/ TakeFromStream \/ GetPendingIntents \/ PullingEnds \/ RestoreStreaming
  PROVE  PathStep
<1>1. PathType /\ pulling \in PullingRecord
  BY DEF StreamIInv, PathType
<1>2. CASE OpenFeed
  <2>1. /\ UNCHANGED <<rootPending, intents, windows, streams>> /\ pulling.pc = "connect"
        /\ pulling' = [pulling EXCEPT !.pc = "stream"]
    BY <1>2 DEF OpenFeed
  <2>2. pulling' \in PullingRecord /\ pulling'.pc = "stream"
    BY <1>1, <2>1 DEF PullingRecord
  <2>3. NoFeed \in FeedRecord
    BY DEF NoFeed, FeedRecord
  <2>4. feed' \in FeedRecord
    BY <1>1, <1>2, <2>3 DEF OpenFeed, PathType, FeedRecord
  <2>5. channel' \in [items : Seq(Intents), closed : BOOLEAN]
    BY <1>2 DEF OpenFeed
  <2> QED
    BY <1>1, <2>1, <2>2, <2>4, <2>5 DEF PathType, PathStep, Casting
<1>3. CASE TakeFromStream
  <2>1. UNCHANGED <<rootPending, feed, intents, windows, streams>> /\ pulling.pc = "stream"
    BY <1>3 DEF TakeFromStream
  <2>2. CASE /\ channel.items # <<>>
             /\ pulling' = [pulling EXCEPT !.batch = <<Head(channel.items)>>]
             /\ channel' = [channel EXCEPT !.items = Tail(@)]
    <3>1. Tail(channel.items) \in Seq(Intents) /\ <<Head(channel.items)>> \in Seq(Intents)
      BY <1>1, <2>2 DEF PathType
    <3>2. pulling' \in PullingRecord /\ pulling'.pc = "stream"
      BY <1>1, <2>1, <2>2, <3>1 DEF PullingRecord
    <3>3. channel' \in [items : Seq(Intents), closed : BOOLEAN]
      BY <1>1, <2>2, <3>1 DEF PathType
    <3> QED
      BY <1>1, <2>1, <3>2, <3>3 DEF PathType, PathStep, Casting
  <2>3. CASE pulling' = [pulling EXCEPT !.pc = AfterClosed] /\ UNCHANGED channel
    <3>1. pulling' \in PullingRecord /\ pulling'.pc = "poll"
      BY <1>1, <2>3 DEF PullingRecord, AfterClosed
    <3> QED
      BY <1>1, <2>1, <2>3, <3>1 DEF PathType, PathStep, Casting
  <2> QED
    BY <1>3, <2>2, <2>3 DEF TakeFromStream
<1>4. CASE GetPendingIntents
  <2>1. FirstPage(rootPending) \in Seq(Intents)
    <3> DEFINE n == IF Len(rootPending) < PageSize THEN Len(rootPending) ELSE PageSize
    <3>1. rootPending \in Seq(Intents) /\ Len(rootPending) \in Nat
      BY <1>1 DEF PathType
    <3>2. n \in Nat /\ n <= Len(rootPending)
      BY <3>1
    <3> HIDE DEF n
    <3>3. \A i \in 1..n : rootPending[i] \in Intents
      BY <3>1, <3>2, ElementOfSeq
    <3>4. SubSeq(rootPending, 1, n) \in Seq(Intents)
      BY <3>2, <3>3, SubSeqProperties
    <3> QED
      BY <3>4 DEF FirstPage, n
  <2>2. pulling' \in PullingRecord /\ pulling'.pc = "poll" /\ pulling.pc = "poll"
    BY <1>1, <1>4, <2>1 DEF GetPendingIntents, PullingRecord
  <2> QED
    BY <1>1, <1>4, <2>2 DEF GetPendingIntents, PathType, PathStep, Casting
<1>5. CASE PullingEnds \/ RestoreStreaming
  <2>1. pulling' \in PullingRecord /\ pulling'.pc \in {"connect", "end"} /\ ~Casting
    BY <1>1, <1>5 DEF PullingEnds, RestoreStreaming, PullingRecord, Casting
  <2> QED
    BY <1>1, <1>5, <2>1 DEF PullingEnds, RestoreStreaming, PathType, PathStep, Casting
<1> QED
  BY <1>2, <1>3, <1>4, <1>5

LEMMA PathStepKeeps == StreamIInv /\ PathStep => StreamIInv'
<1> SUFFICES ASSUME StreamIInv, PathStep PROVE StreamIInv'
  OBVIOUS
<1>1. UNCHANGED <<intents, windows, streams>> /\ PathType'
  BY DEF PathStep
<1>2. \A i : Due(i)' <=> Due(i)
  BY DEF PathStep, Due, Casting
<1>3. Casting' => pulling'.batch # <<>>
  BY DEF PathStep, Casting, StreamIInv
<1>4. \A a \in Agents : HasAllBut(streams[a])' /\ SkippedClosed(streams[a])'
  BY <1>1, <1>2 DEF StreamIInv, HasAllBut, SkippedClosed, Told
<1>5. StreamsSound' /\ WindowType'
  BY <1>1 DEF StreamIInv, StreamsSound, StreamIsSound, WindowType
<1> QED
  BY <1>1, <1>3, <1>4, <1>5 DEF StreamIInv

-----------------------------------------------------------------------------
(* Adding and broadcasting                                                 *)

\* AddIntent inserts an intent that is then due to be broadcast.
LEMMA AddIntentKeeps == StreamIInv /\ AddIntent => StreamIInv'
<1> SUFFICES ASSUME StreamIInv, AddIntent PROVE StreamIInv'
  OBVIOUS
<1> DEFINE i == Head(pulling.batch)
<1>1. /\ PathType /\ pulling \in PullingRecord /\ pulling.batch # <<>>
      /\ pulling.pc \in {"stream", "poll"} /\ ~Casting
      /\ UNCHANGED <<rootPending, feed, channel, windows, streams>>
  BY DEF StreamIInv, PathType, AddIntent, Casting
<1>2. i \in Intents /\ Tail(pulling.batch) \in Seq(Intents)
  <2>1. pulling.batch \in Seq(Intents)
    BY <1>1 DEF PullingRecord
  <2> QED
    BY <1>1, <2>1, HeadTailProperties
<1>3. StreamsSound' /\ WindowType' /\ \A a \in Agents : SkippedClosed(streams[a])'
  BY <1>1 DEF StreamIInv, StreamsSound, StreamIsSound, WindowType, SkippedClosed
<1>4. CASE /\ i \in intents /\ UNCHANGED intents
           /\ pulling' = [pulling EXCEPT !.batch = Tail(@)]
  <2>1. pulling' \in PullingRecord /\ ~Casting'
    BY <1>1, <1>2, <1>4 DEF PullingRecord, Casting
  <2>2. PathType'
    BY <1>1, <2>1 DEF PathType
  <2>3. \A a \in Agents : HasAllBut(streams[a])'
    BY <1>1, <1>4, <2>1 DEF StreamIInv, HasAllBut, Told, Due
  <2> QED
    BY <1>3, <1>4, <2>1, <2>2, <2>3 DEF StreamIInv
<1>5. CASE /\ intents' = intents \cup {i}
           /\ pulling' = [pulling EXCEPT !.pc = IF @ = "poll" THEN "poll cast" ELSE "stream cast"]
  <2>1. pulling' \in PullingRecord /\ Casting' /\ pulling'.batch = pulling.batch
    BY <1>1, <1>5 DEF PullingRecord, Casting
  <2>2. PathType'
    BY <1>1, <2>1 DEF PathType
  <2>3. i = Head(pulling'.batch)
    BY <2>1
  <2>4. ASSUME NEW a \in Agents PROVE HasAllBut(streams[a])'
    <3>1. HasAllBut(streams[a])
      BY DEF StreamIInv
    <3>2. \A j \in intents :
             streams[a].pc = "streaming" => j \in streams[a].skipped \/ Told(streams[a], j)
      BY <1>1, <3>1 DEF HasAllBut, Due
    <3>3. \A j : Told(streams[a], j)' <=> Told(streams[a], j)
      BY <1>1 DEF Told
    <3>4. ASSUME streams[a].pc = "streaming", NEW j \in intents'
          PROVE  j \in streams[a].skipped \/ Due(j)' \/ Told(streams[a], j)'
      <4>1. CASE j = i
        BY <2>1, <2>3, <4>1 DEF Due
      <4>2. CASE j \in intents
        BY <3>2, <3>3, <3>4, <4>2
      <4> QED
        BY <1>5, <3>4, <4>1, <4>2
    <3> QED
      BY <1>1, <3>4 DEF HasAllBut
  <2>5. intents' \in SUBSET Intents /\ IsFiniteSet(intents')
    BY <1>2, <1>5, FS_AddElement DEF StreamIInv
  <2> QED
    BY <1>1, <1>3, <2>1, <2>2, <2>4, <2>5 DEF StreamIInv
<1> QED
  BY <1>4, <1>5 DEF AddIntent

\* The broadcast offers the intent to every registered stream.
LEMMA BroadcastKeeps == StreamSize \in Nat /\ StreamIInv /\ Broadcast => StreamIInv'
<1> SUFFICES ASSUME StreamSize \in Nat, StreamIInv, Broadcast PROVE StreamIInv'
  OBVIOUS
<1> DEFINE i == Head(pulling.batch)
           updates == <<Opening(i)>>
<1>1. /\ PathType /\ pulling \in PullingRecord /\ pulling.batch # <<>> /\ Casting
      /\ UNCHANGED <<rootPending, feed, channel, intents, windows>>
  BY DEF StreamIInv, PathType, Broadcast, Casting
<1>2. i \in Intents /\ Tail(pulling.batch) \in Seq(Intents)
  <2>1. pulling.batch \in Seq(Intents)
    BY <1>1 DEF PullingRecord
  <2> QED
    BY <1>1, <2>1, HeadTailProperties
<1>3. pulling' \in PullingRecord /\ ~Casting'
  BY <1>2 DEF Broadcast, PullingRecord, Casting
<1>4. PathType'
  BY <1>1, <1>3 DEF PathType
<1>5. streams' = Cast(updates)
  BY DEF Broadcast
<1>6. updates \in Seq(Updates) /\ Contains(updates, Opening(i))
  <2>1. Opening(i) \in Updates
    BY <1>2 DEF Opening, Updates
  <2> QED
    BY <2>1 DEF Contains
<1> HIDE DEF i, updates
<1>7. StreamsSound' /\ \A a \in Agents : streams'[a].skipped = streams[a].skipped
  BY <1>5, <1>6, CastSound
<1>8. ASSUME NEW a \in Agents PROVE HasAllBut(streams[a])'
  <2>1. HasAllBut(streams[a]) /\ StreamsSound
    BY DEF StreamIInv
  <2>2. /\ streams'[a].pc = streams[a].pc
        /\ \A j : Told(streams[a], j) => Told(streams'[a], j)
        /\ streams'[a].pc = "streaming" => Told(streams'[a], i)
    BY <1>5, <1>6, <2>1, CastKeeps
  <2>3. \A j : Due(j) => j = i
    BY DEF Due, i
  <2>4. streams'[a].pc = "streaming" =>
          \A j \in intents : j \in streams[a].skipped \/ Told(streams'[a], j)
    BY <2>1, <2>2, <2>3 DEF HasAllBut
  <2> QED
    BY <1>1, <1>7, <2>4 DEF HasAllBut, Told
<1>9. WindowType' /\ \A a \in Agents : SkippedClosed(streams[a])'
  BY <1>1, <1>7 DEF StreamIInv, WindowType, SkippedClosed
<1> QED
  BY <1>1, <1>3, <1>4, <1>7, <1>8, <1>9 DEF StreamIInv

-----------------------------------------------------------------------------
(* Windows                                                                 *)

\* A window's step leaves what is on its way, and opens no window for the first time.
LEMMA WindowStep ==
  ASSUME StreamIInv, UNCHANGED <<rootPending, feed, channel, pulling, intents>>,
         NEW i \in Intents, NEW now \in {"closed", "reopened"},
         windows' = [windows EXCEPT ![i] = now],
         StreamsSound',
         \A a \in Agents : /\ streams'[a].skipped = streams[a].skipped
                           /\ streams'[a].pc = streams[a].pc
                           /\ \A j : Told(streams[a], j) => Told(streams'[a], j)
  PROVE  StreamIInv'
<1>1. PathType' /\ (Casting' => pulling'.batch # <<>>) /\ \A j : Due(j)' <=> Due(j)
  BY DEF StreamIInv, PathType, Casting, Due
<1>2. WindowType' /\ \A j \in Intents : windows[j] # "open" => windows'[j] # "open"
  BY DEF StreamIInv, WindowType
<1>3. ASSUME NEW a \in Agents PROVE HasAllBut(streams[a])' /\ SkippedClosed(streams[a])'
  <2>1. /\ HasAllBut(streams[a]) /\ SkippedClosed(streams[a])
        /\ streams[a].skipped \subseteq Intents
    BY DEF StreamIInv, StreamsSound, StreamRecord
  <2>2. streams'[a].pc = "streaming" =>
          \A j \in intents : j \in streams'[a].skipped \/ Due(j) \/ Told(streams'[a], j)
    BY <2>1 DEF HasAllBut
  <2>3. HasAllBut(streams[a])'
    BY <1>1, <2>2 DEF HasAllBut, Told
  <2>4. SkippedClosed(streams[a])'
    BY <1>2, <2>1 DEF SkippedClosed
  <2> QED
    BY <2>3, <2>4
<1> QED
  BY <1>1, <1>2, <1>3 DEF StreamIInv

LEMMA WindowKeeps ==
  ASSUME StreamSize \in Nat, StreamIInv, NEW i \in Intents, WindowCloses(i) \/ WindowReopens(i)
  PROVE  StreamIInv'
<1>1. UNCHANGED <<rootPending, feed, channel, pulling, intents>> /\ StreamsSound
  BY DEF WindowCloses, WindowReopens, StreamIInv
<1>2. CASE WindowReopens(i)
  <2>1. UNCHANGED streams /\ windows' = [windows EXCEPT ![i] = "reopened"]
    BY <1>2 DEF WindowReopens
  <2>2. StreamsSound'
    BY <1>1, <2>1 DEF StreamsSound, StreamIsSound
  <2> QED
    BY <1>1, <2>1, <2>2, WindowStep
<1>3. CASE WindowCloses(i)
  <2>1. PICK bidOn \in BOOLEAN, now \in {"closed", "reopened"} :
          /\ windows' = [windows EXCEPT ![i] = now]
          /\ streams' = Cast([k \in 1..(IF bidOn THEN 2 ELSE 1) |-> Closing(i)])
    BY <1>3 DEF WindowCloses
  <2> DEFINE n == IF bidOn THEN 2 ELSE 1
             updates == [k \in 1..n |-> Closing(i)]
  <2>2. n \in Nat /\ Closing(i) \in Updates
    BY DEF Closing, Updates
  <2>3. streams' = Cast(updates)
    BY <2>1
  <2> HIDE DEF n
  <2>4. updates \in Seq(Updates)
    BY <2>2
  <2> HIDE DEF updates
  <2>5. /\ StreamsSound'
        /\ \A a \in Agents : /\ streams'[a].skipped = streams[a].skipped
                             /\ streams'[a].pc = streams[a].pc
                             /\ \A j : Told(streams[a], j) => Told(streams'[a], j)
    BY <1>1, <2>3, <2>4, CastSound, CastKeeps
  <2> QED
    BY <1>1, <2>1, <2>5, WindowStep
<1> QED
  BY <1>2, <1>3

-----------------------------------------------------------------------------
(* Agents and the shutdown                                                 *)

\* One stream changes.
LEMMA OneStreamKeeps ==
  ASSUME StreamIInv, NEW a \in Agents, NEW t, streams' = [streams EXCEPT ![a] = t],
         UNCHANGED <<rootPending, feed, channel, pulling, intents, windows>>,
         StreamIsSound(t), HasAllBut(t), SkippedClosed(t)
  PROVE  StreamIInv'
<1>1. /\ PathType' /\ (Casting' => pulling'.batch # <<>>) /\ WindowType'
      /\ \A i : Due(i)' <=> Due(i)
  BY DEF StreamIInv, PathType, Casting, Due, WindowType
<1>2. /\ streams \in [Agents -> StreamRecord]
      /\ \A b \in Agents :
           StreamIsSound(streams[b]) /\ HasAllBut(streams[b]) /\ SkippedClosed(streams[b])
  BY DEF StreamIInv, StreamsSound
<1>3. /\ streams' \in [Agents -> StreamRecord]
      /\ \A b \in Agents : streams'[b] = IF b = a THEN t ELSE streams[b]
  BY <1>2 DEF StreamIsSound
<1>4. ASSUME NEW b \in Agents
      PROVE  /\ StreamIsSound(streams'[b])
             /\ streams'[b].pc = "streaming" =>
                  \A i \in intents : i \in streams'[b].skipped \/ Due(i) \/ Told(streams'[b], i)
             /\ \A i \in streams'[b].skipped : windows[i] # "open"
  <2>1. CASE b = a
    BY <1>3, <2>1 DEF HasAllBut, SkippedClosed
  <2>2. CASE b # a
    BY <1>2, <1>3, <2>2 DEF HasAllBut, SkippedClosed
  <2> QED
    BY <2>1, <2>2
<1>5. StreamsSound'
  BY <1>3, <1>4 DEF StreamsSound, StreamIsSound
<1>6. ASSUME NEW b \in Agents PROVE HasAllBut(streams[b])' /\ SkippedClosed(streams[b])'
  BY <1>1, <1>4 DEF HasAllBut, SkippedClosed, Told
<1> QED
  BY <1>1, <1>5, <1>6 DEF StreamIInv

LEMMA AgentKeeps ==
  ASSUME StreamSize \in Nat, StreamIInv, NEW a \in Agents,
         StreamIntents(a) \/ SendExisting(a) \/ StreamUpdate(a) \/ AgentLeaves(a)
  PROVE  StreamIInv'
<1> DEFINE s == streams[a]
<1>1. /\ s \in StreamRecord /\ StreamIsSound(s) /\ HasAllBut(s) /\ SkippedClosed(s)
      /\ streams \in [Agents -> StreamRecord]
  BY DEF StreamIInv, StreamsSound
<1>2. UNCHANGED <<rootPending, feed, channel, pulling, intents, windows>>
  BY DEF StreamIntents, SendExisting, StreamUpdate, AgentLeaves
<1>3. CASE StreamIntents(a)
  <2> DEFINE t == [s EXCEPT !.pc = "registered"]
  <2>1. streams' = [streams EXCEPT ![a] = t] /\ s.pc = "none"
    BY <1>1, <1>3 DEF StreamIntents
  <2>2. StreamIsSound(t) /\ t.pc = "registered" /\ t.skipped = s.skipped
    BY <1>1, <2>1 DEF StreamIsSound, StreamRecord
  <2>3. HasAllBut(t) /\ SkippedClosed(t)
    BY <1>1, <2>2 DEF HasAllBut, SkippedClosed
  <2> HIDE DEF t, s
  <2> QED
    BY <1>2, <2>1, <2>2, <2>3, OneStreamKeeps
<1>4. ASSUME NEW order \in SetToSeqs(Existing), s.pc = "registered",
             streams' = [streams EXCEPT ![a] = [Offer(s, order) EXCEPT
                           !.pc = "streaming", !.skipped = intents \cap WindowClosed]]
      PROVE  StreamIInv'
  <2> DEFINE u == Offer(s, order)
             closed == intents \cap WindowClosed
             t == [u EXCEPT !.pc = "streaming", !.skipped = closed]
  <2>1. IsFiniteSet(Existing) /\ Existing \subseteq Updates
    <3>1. IsFiniteSet(intents) /\ intents \subseteq Intents
      BY DEF StreamIInv
    <3>2. IsFiniteSet(intents \ WindowClosed)
      BY <3>1, FS_Difference
    <3> DEFINE f == [i \in intents \ WindowClosed |-> Opening(i)]
    <3>3. f \in Surjection(intents \ WindowClosed, Existing)
      BY DEF Surjection, Existing
    <3>4. IsFiniteSet(Existing)
      BY <3>2, <3>3, FS_Surjection
    <3>5. \A i \in Intents : Opening(i) \in Updates
      BY DEF Opening, Updates
    <3> QED
      BY <3>1, <3>4, <3>5 DEF Existing
  <2>2. order \in Seq(Existing) /\ \A x \in Existing : Contains(order, x)
    BY <2>1, OrderNamesAll
  <2>3. order \in Seq(Updates) /\ \A i \in intents \ closed : Contains(order, Opening(i))
    BY <2>1, <2>2, SeqMonotonic DEF Existing
  <2>4. /\ u \in StreamRecord /\ Len(u.queue) <= StreamSize /\ u.closes = s.closes
        /\ \A i \in intents \ closed : Told(u, i)
    BY <1>1, <2>3, OfferKeeps DEF StreamIsSound
  <2>5. closed \subseteq Intents /\ \A i \in closed : windows[i] # "open"
    BY DEF WindowClosed, StreamIInv
  <2>6. streams' = [streams EXCEPT ![a] = t]
    BY <1>4
  <2> HIDE DEF u, closed
  <2>7. /\ t \in StreamRecord /\ t.pc = "streaming" /\ t.closes = u.closes
        /\ t.queue = u.queue /\ t.seen = u.seen /\ t.missed = u.missed /\ t.skipped = closed
    BY <2>4, <2>5 DEF StreamRecord
  <2> HIDE DEF t
  <2>8. StreamIsSound(t) /\ SkippedClosed(t)
    BY <1>1, <1>4, <2>4, <2>5, <2>7 DEF StreamIsSound, SkippedClosed
  <2>9. HasAllBut(t)
    BY <2>4, <2>7 DEF HasAllBut, Told
  <2> QED
    BY <1>2, <2>6, <2>8, <2>9, OneStreamKeeps
<1>5. CASE StreamUpdate(a)
  <2> DEFINE t == [s EXCEPT !.queue = Tail(s.queue), !.seen = s.seen \cup Openings({Head(s.queue)})]
  <2>1. s.pc = "streaming" /\ s.queue # <<>> /\ streams' = [streams EXCEPT ![a] = t]
    BY <1>1, <1>5 DEF StreamUpdate
  <2>2. s.queue \in Seq(Updates)
    BY <1>1 DEF StreamRecord
  <2>3. /\ Head(s.queue) \in Updates /\ Tail(s.queue) \in Seq(Updates)
        /\ Len(Tail(s.queue)) = Len(s.queue) - 1
        /\ \A k \in 1..Len(Tail(s.queue)) : Tail(s.queue)[k] = s.queue[k + 1]
    BY <2>1, <2>2, HeadTailProperties
  <2>9. Openings({Head(s.queue)}) \subseteq Intents
    BY <2>3, OpeningsTyped
  <2>4. /\ t \in StreamRecord /\ t.pc = "streaming" /\ t.closes = s.closes
        /\ t.queue = Tail(s.queue) /\ t.missed = s.missed
        /\ t.seen = s.seen \cup Openings({Head(s.queue)}) /\ t.skipped = s.skipped
    BY <1>1, <2>1, <2>3, <2>9 DEF StreamRecord
  <2>5. Len(s.queue) \in Nat
    BY <2>2
  <2> HIDE DEF t, s
  <2>6. StreamIsSound(t)
    BY <1>1, <2>1, <2>3, <2>4, <2>5 DEF StreamIsSound
  <2>7. ASSUME NEW i, Told(s, i) PROVE Told(t, i)
    <3>1. ASSUME NEW k \in 1..Len(s.queue), s.queue[k] = Opening(i) PROVE Told(t, i)
      <4>1. CASE k = 1
        <5>1. Head(s.queue) = s.queue[1]
          BY <2>1, <2>2
        <5>2. i \in Openings({Head(s.queue)})
          BY <3>1, <4>1, <5>1, OpeningOpens
        <5> QED
          BY <2>4, <5>2 DEF Told
      <4>2. CASE k # 1
        <5>1. k - 1 \in 1..Len(Tail(s.queue)) /\ (k - 1) + 1 = k
          BY <2>3, <2>5, <4>2
        <5>2. t.queue[k - 1] = Opening(i) /\ k - 1 \in 1..Len(t.queue)
          BY <2>3, <2>4, <3>1, <5>1
        <5> QED
          BY <5>2 DEF Told, Contains
      <4> QED
        BY <4>1, <4>2
    <3> QED
      BY <2>4, <2>7, <3>1 DEF Told, Contains
  <2>8. HasAllBut(t) /\ SkippedClosed(t)
    BY <1>1, <2>1, <2>4, <2>7 DEF HasAllBut, SkippedClosed
  <2> QED
    BY <1>2, <2>1, <2>6, <2>8, OneStreamKeeps
<1>6. CASE AgentLeaves(a)
  <2> DEFINE t == [s EXCEPT !.pc = "left", !.closes = s.closes + 1]
  <2>1. streams' = [streams EXCEPT ![a] = t] /\ s.pc = "streaming"
    BY <1>1, <1>6 DEF AgentLeaves
  <2>2. s.closes = 0 /\ Len(s.queue) <= StreamSize
    BY <1>1, <2>1 DEF StreamIsSound
  <2>3. /\ t \in StreamRecord /\ t.pc = "left" /\ t.closes = 1 /\ t.queue = s.queue
        /\ t.skipped = s.skipped
    <3>1. [s EXCEPT !.pc = "left", !.closes = 1] = t /\ 1 \in Nat
      BY <2>2
    <3> HIDE DEF s
    <3>2. s \in StreamRecord
      BY <1>1
    <3> HIDE DEF t
    <3> QED
      BY <3>1, <3>2 DEF StreamRecord
  <2> HIDE DEF t, s
  <2>4. StreamIsSound(t) /\ HasAllBut(t) /\ SkippedClosed(t)
    BY <1>1, <2>2, <2>3 DEF StreamIsSound, HasAllBut, SkippedClosed
  <2> QED
    BY <1>2, <2>1, <2>3, <2>4, OneStreamKeeps
<1> QED
  BY <1>3, <1>4, <1>5, <1>6 DEF SendExisting

\* Stop finds no stream registered: it waits for the handlers.
LEMMA StopKeeps == StreamIInv /\ Stop => StreamIInv'
<1> SUFFICES ASSUME StreamIInv, Stop PROVE StreamIInv'
  OBVIOUS
<1>1. \A a \in Agents : ~Registered(streams[a])
  BY DEF Stop, Drained, Registered
<1>2. streams \in [Agents -> StreamRecord]
  BY DEF StreamIInv, StreamsSound
<1>3. streams' = streams
  BY <1>1, <1>2 DEF Stop
<1>4. UNCHANGED <<rootPending, channel, pulling, intents, windows>>
  BY DEF Stop
<1>5. feed' \in FeedRecord
  <2>1. feed \in FeedRecord /\ feed' = [feed EXCEPT !.queue = <<>>, !.broken = TRUE]
    BY DEF Stop, StreamIInv, PathType
  <2>2. <<>> \in Seq(Intents)
    OBVIOUS
  <2> QED
    BY <2>1, <2>2, Zenon DEF FeedRecord
<1>6. PathType'
  BY <1>4, <1>5 DEF StreamIInv, PathType
<1>7. PathStep
  BY <1>3, <1>4, <1>6 DEF PathStep
<1> QED
  BY <1>7, PathStepKeeps

LEMMA NextStream ==
  ASSUME StreamSize \in Nat, PageSize \in Nat
  PROVE  StreamIInv /\ [StreamNext]_streamVars => StreamIInv'
<1> SUFFICES ASSUME StreamIInv, [StreamNext]_streamVars PROVE StreamIInv'
  OBVIOUS
<1>1. CASE UNCHANGED streamVars
  <2>1. PathStep
    BY <1>1 DEF streamVars, PathStep, StreamIInv, PathType
  <2> QED
    BY <2>1, PathStepKeeps
<1>2. CASE \/ \E i \in Intents : NewIntent(i)
           \/ Break \/ Repair \/ Forwarding \/ ShutdownSignal \/ Exit
  BY <1>2, FeedSteps, PathStepKeeps
<1>3. CASE OpenFeed \/ TakeFromStream \/ GetPendingIntents \/ PullingEnds \/ RestoreStreaming
  BY <1>3, PullingSteps, PathStepKeeps
<1>4. CASE StreamNext
  BY <1>2, <1>3, <1>4, AddIntentKeeps, BroadcastKeeps, WindowKeeps, AgentKeeps, StopKeeps
     DEF StreamNext, Pulling
<1> QED
  BY <1>1, <1>4

\* A streaming agent is told of every intent the matcher has finished adding, unless its channel
\* was full or the intent's window was closed when the agent's handler listed the intents, in
\* whatever order the handler's three steps, AddIntent's two and the windows' come; and no channel
\* is closed by both Stop and its handler.  The channel and the pages may have any size.
THEOREM StreamInvHolds ==
  ASSUME StreamSize \in Nat, PageSize \in Nat
  PROVE  StreamSpec => []StreamInv
<1>1. StreamInit => StreamIInv
  <2> SUFFICES ASSUME StreamInit PROVE StreamIInv
    OBVIOUS
  <2>1. NoFeed \in FeedRecord /\ StreamIsSound(NoStream) /\ NoStream.pc = "none"
    BY DEF NoFeed, NoStream, FeedRecord, StreamRecord, StreamIsSound
  <2>5. NoStream.skipped = {}
    BY DEF NoStream
  <2>2. PathType /\ ~Casting
    BY <2>1 DEF StreamInit, PathType, PullingRecord, Casting
  <2>3. /\ StreamsSound /\ WindowType
        /\ \A a \in Agents : HasAllBut(streams[a]) /\ SkippedClosed(streams[a])
    BY <2>1, <2>5
    DEF StreamInit, StreamsSound, StreamIsSound, HasAllBut, SkippedClosed, WindowType
  <2>4. intents \in SUBSET Intents /\ IsFiniteSet(intents)
    BY FS_EmptySet DEF StreamInit
  <2> QED
    BY <2>2, <2>3, <2>4 DEF StreamIInv
<1>2. StreamIInv => StreamInv
  <2> SUFFICES ASSUME StreamIInv PROVE StreamInv
    OBVIOUS
  <2>1. StreamMissesNothing
    BY DEF StreamIInv, HasAllBut, SkippedClosed, Due, Casting, StreamMissesNothing
  <2>2. ChannelClosedOnce
    BY DEF StreamIInv, StreamsSound, StreamIsSound, ChannelClosedOnce
  <2> QED
    BY <2>1, <2>2 DEF StreamInv
<1> QED
  BY <1>1, <1>2, NextStream, PTL DEF StreamSpec

-----------------------------------------------------------------------------
(***************************************************************************)
(* Auction: the inductive invariants of the bid book and the assignments   *)
(***************************************************************************)

Books == UNION {[A -> Prices] : A \in SUBSET AuctionAgents}

AssignmentRecord ==
    [agent : AuctionAgents, status : {"PENDING", "SENT", "ACTIVE", "REJECTED", "deleted"}]

BookType ==
    /\ Exists => snapshot \in [bids : Books, closed : BOOLEAN]
    /\ closedWindows \in Nat /\ reported \in BOOLEAN

BookIInv == BookType /\ ClosedIsAnnounced /\ AllBidsAreOfTheBook

AssignType ==
    /\ assignments \in Seq(AssignmentRecord) /\ byIntent \in 0..Len(assignments)
    /\ runnerUps \in Seq(AuctionAgents) /\ causes \in Nat

\* An intent without an index entry is entitled to one more assignment.
EntitledWithoutIndex == byIntent = 0 => Len(assignments) < causes

AssignIInv == AssignType /\ IntentIndexResolves /\ AssignedOncePerCause /\ EntitledWithoutIndex

AuctionIInv == BookIInv /\ AssignIInv

\* A book that is there, open or closed, differs from an absent one.
LEMMA BookIsThere ==
  ASSUME NEW k \in [bids : Books, closed : BOOLEAN]
  PROVE  k # <<>>
<1>1. k = [bids |-> k.bids, closed |-> k.closed]
  OBVIOUS
<1>2. [bids |-> k.bids, closed |-> k.closed] # <<>>
  OBVIOUS
<1> QED
  BY <1>1, <1>2

LEMMA NextBook == AuctionIInv /\ [AuctionNext]_auctionVars => BookIInv'
<1> SUFFICES ASSUME AuctionIInv, [AuctionNext]_auctionVars PROVE BookIInv'
  OBVIOUS
<1> USE DEF AuctionIInv, BookIInv
<1>1. /\ Exists => snapshot \in [bids : Books, closed : BOOLEAN]
      /\ closedWindows \in Nat /\ closedWindows + 1 \in Nat /\ closedWindows + 1 > 0
      /\ reported \in BOOLEAN
  BY DEF BookType
<1>2. CASE UNCHANGED <<snapshot, closedWindows, reported, allBids, round>>
  BY <1>2 DEF BookType, ClosedIsAnnounced, AllBidsAreOfTheBook, BidIds, Exists
<1>3. CASE StartBidding
  <2>1. /\ snapshot' = [bids |-> <<>>, closed |-> FALSE] /\ allBids' = {} /\ reported' = FALSE
        /\ closedWindows' = closedWindows
    BY <1>3 DEF StartBidding, AllBidsAreOfTheBook
  <2>2. <<>> \in Books
    <3>1. <<>> \in [{} -> Prices]
      OBVIOUS
    <3> QED
      BY <3>1 DEF Books
  <2>3. BidIds' = {}
    BY <2>1 DEF BidIds
  <2> QED
    BY <1>1, <2>1, <2>2, <2>3 DEF BookType, ClosedIsAnnounced, AllBidsAreOfTheBook, Exists
<1>4. ASSUME NEW a \in AuctionAgents, NEW p \in Prices, AddBid(a, p)
      PROVE  BookIInv'
  <2> DEFINE b == WithBid(snapshot.bids, a, p)
  <2>1. /\ Exists /\ ~snapshot.closed /\ snapshot' = [snapshot EXCEPT !.bids = b]
        /\ UNCHANGED <<closedWindows, reported, round>>
    BY <1>4 DEF AddBid
  <2>2. b \in Books /\ DOMAIN b = DOMAIN snapshot.bids \cup {a}
    <3>1. PICK A \in SUBSET AuctionAgents : snapshot.bids \in [A -> Prices]
      BY <1>1, <2>1 DEF Books
    <3>2. b \in [A \cup {a} -> Prices]
      BY <3>1 DEF WithBid
    <3> QED
      BY <3>1, <3>2 DEF Books
  <2> HIDE DEF b
  <2>3. /\ snapshot' \in [bids : Books, closed : BOOLEAN] /\ ~snapshot'.closed
        /\ snapshot'.bids = b
    BY <1>1, <2>1, <2>2
  <2>4. allBids' = allBids \cup {<<a, round>>}
    <3>1. CASE a \in DOMAIN snapshot.bids
      BY <1>4, <2>1, <3>1 DEF AddBid, AllBidsAreOfTheBook, BidIds
    <3>2. CASE a \notin DOMAIN snapshot.bids
      BY <1>4, <3>2 DEF AddBid
    <3> QED
      BY <3>1, <3>2
  <2>5. allBids' = BidIds'
    BY <2>1, <2>2, <2>3, <2>4 DEF AllBidsAreOfTheBook, BidIds
  <2>6. Exists'
    BY <2>3, BookIsThere DEF Exists
  <2> QED
    BY <1>1, <2>1, <2>3, <2>5, <2>6 DEF BookType, ClosedIsAnnounced, AllBidsAreOfTheBook
<1>5. CASE /\ Exists /\ snapshot' = [snapshot EXCEPT !.closed = TRUE]
           /\ UNCHANGED <<allBids, round>>
           /\ \/ closedWindows' = closedWindows + 1 /\ reported' = reported
              \/ closedWindows' = 0 /\ reported' = TRUE
  <2>1. snapshot' \in [bids : Books, closed : BOOLEAN] /\ snapshot'.bids = snapshot.bids
    BY <1>1, <1>5
  <2>2. BidIds' = BidIds
    BY <1>5, <2>1 DEF BidIds
  <2>3. Exists'
    BY <2>1, BookIsThere DEF Exists
  <2>4. reported' \in BOOLEAN
    BY <1>1, <1>5, Zenon
  <2>5. closedWindows' \in Nat
    BY <1>1, <1>5
  <2>6. reported' \/ closedWindows' > 0
    BY <1>1, <1>5
  <2> QED
    BY <1>5, <2>1, <2>2, <2>3, <2>4, <2>5, <2>6 DEF BookType, ClosedIsAnnounced, AllBidsAreOfTheBook
<1>6. CASE AddBidLate
  BY <1>5, <1>6 DEF AddBidLate, CloseWindow
<1>7. ASSUME NEW u \in upgrading, GetSnapshotUpgraded(u)
      PROVE  BookIInv'
  <2>1. CASE Exists /\ u[2] = round
    BY <1>5, <1>7, <2>1 DEF GetSnapshotUpgraded, CloseWindow
  <2>2. CASE ~(Exists /\ u[2] = round)
    BY <1>1, <1>7, <2>2 DEF GetSnapshotUpgraded, BookType, ClosedIsAnnounced,
                           AllBidsAreOfTheBook, BidIds, Exists
  <2> QED
    BY <2>1, <2>2
<1>8. CASE GetClosedWindows
  <2>1. CASE Exists /\ ~snapshot.closed /\ past
    <3>1. /\ snapshot' = [snapshot EXCEPT !.closed = TRUE] /\ closedWindows' = 0
          /\ UNCHANGED <<allBids, round>>
      BY <1>8, <2>1 DEF GetClosedWindows
    <3>2. snapshot'.closed = TRUE
      BY <1>1, <2>1, <3>1
    <3>3. reported' = TRUE
      BY <1>8, <2>1, <3>2 DEF GetClosedWindows
    <3> QED
      BY <1>5, <2>1, <3>1, <3>3
  <2>2. CASE ~(Exists /\ ~snapshot.closed /\ past)
    <3>1. UNCHANGED <<snapshot, allBids, round>> /\ closedWindows' = 0
      BY <1>8, <2>2 DEF GetClosedWindows
    <3>2. reported' = (reported \/ (Exists /\ snapshot.closed))
      BY <1>8, <3>1 DEF GetClosedWindows
    <3>3. reported' \in BOOLEAN
      BY <3>2
    <3>4. Exists /\ snapshot.closed => reported'
      BY <3>2
    <3> QED
      BY <1>1, <3>1, <3>3, <3>4 DEF BookType, ClosedIsAnnounced, AllBidsAreOfTheBook, BidIds, Exists
  <2> QED
    BY <2>1, <2>2
<1>9. CASE RemoveIntent \/ CleanupExpiredBids
  <2>1. /\ snapshot' = <<>> /\ allBids' = {} /\ UNCHANGED <<closedWindows, reported>>
    BY <1>9 DEF RemoveIntent, CleanupExpiredBids, DropBids, AllBidsAreOfTheBook
  <2> QED
    BY <1>1, <2>1 DEF BookType, ClosedIsAnnounced, AllBidsAreOfTheBook, Exists
<1>10. CASE EndTimePasses \/ GetSnapshot \/ MatchAndCreateAssignment
  BY <1>2, <1>10 DEF EndTimePasses, GetSnapshot, MatchAndCreateAssignment
<1>11. ASSUME NEW i \in DOMAIN assignments,
              \/ SendToAgent(i) \/ SendToAgentReturns(i) \/ ConfirmAssignment(i)
              \/ HandleRejection(i) \/ CleanupExpiredAssignment(i)
       PROVE  BookIInv'
  <2>1. UNCHANGED bookVars
    BY <1>11 DEF SendToAgent, SendToAgentReturns, ConfirmAssignment, HandleRejection,
                 CleanupExpiredAssignment
  <2> QED
    BY <1>2, <2>1 DEF bookVars
<1>12. CASE UNCHANGED auctionVars
  BY <1>2, <1>12 DEF auctionVars, bookVars
<1> QED
  BY <1>3, <1>4, <1>6, <1>7, <1>8, <1>9, <1>10, <1>11, <1>12 DEF AuctionNext

\* The winner and the runner-ups of a scored book are agents.
LEMMA ScoredAgents ==
  ASSUME NEW bids \in Books, bids # <<>>, NEW s \in Scored(bids)
  PROVE  s \in Seq(AuctionAgents) /\ Len(s) \in Nat \ {0}
<1>1. PICK A \in SUBSET AuctionAgents : bids \in [A -> Prices]
  BY DEF Books
<1>2. A # {}
  <2>1. A = {} => bids = <<>>
    BY <1>1
  <2> QED
    BY <2>1
<1>3. IsFiniteSet(A) /\ Cardinality(A) \in Nat /\ Cardinality(A) # 0
  BY <1>2, AuctionAssumption, FS_Subset, FS_CardinalityType, FS_EmptySet
<1>4. s \in [1..Cardinality(A) -> A]
  BY <1>1 DEF Scored, SetToSeqs
<1>5. s \in Seq(A) /\ Len(s) = Cardinality(A)
  BY <1>3, <1>4
<1>6. s \in Seq(AuctionAgents)
  BY <1>3, <1>4
<1> QED
  BY <1>3, <1>5, <1>6

WithStatus(q, i, st) == [q EXCEPT ![i].status = st]

\* What a new status of one assignment leaves as it was.
LEMMA StatusSet ==
  ASSUME NEW q \in Seq(AssignmentRecord), NEW i \in 1..Len(q),
         NEW st \in {"PENDING", "SENT", "ACTIVE", "REJECTED", "deleted"}
  PROVE  /\ WithStatus(q, i, st) \in Seq(AssignmentRecord)
         /\ Len(WithStatus(q, i, st)) = Len(q)
         /\ \A j \in 1..Len(q) :
              WithStatus(q, i, st)[j].status = IF j = i THEN st ELSE q[j].status
<1> DEFINE r == [q[i] EXCEPT !.status = st]
           after == WithStatus(q, i, st)
<1>1. DOMAIN q = 1..Len(q) /\ \A j \in 1..Len(q) : q[j] \in AssignmentRecord
  BY ElementOfSeq
<1>2. r \in AssignmentRecord /\ r.status = st
  BY <1>1 DEF AssignmentRecord
<1>3. after = [q EXCEPT ![i] = r]
  BY DEF WithStatus
<1> HIDE DEF r, after
<1>4. after = [j \in 1..Len(q) |-> IF j = i THEN r ELSE q[j]]
  BY <1>1, <1>3
<1>5. after \in Seq(AssignmentRecord) /\ Len(after) = Len(q)
  BY <1>1, <1>2, <1>4
<1> QED
  BY <1>2, <1>4, <1>5 DEF after

LEMMA NextAssign == AuctionIInv /\ [AuctionNext]_auctionVars => AssignIInv'
<1> SUFFICES ASSUME AuctionIInv, [AuctionNext]_auctionVars PROVE AssignIInv'
  OBVIOUS
<1> USE DEF AuctionIInv, AssignIInv
<1>1. /\ assignments \in Seq(AssignmentRecord) /\ Len(assignments) \in Nat
      /\ byIntent \in 0..Len(assignments)
      /\ runnerUps \in Seq(AuctionAgents) /\ causes \in Nat
  BY DEF AssignType
<1>2. CASE UNCHANGED <<assignments, byIntent, runnerUps, causes>>
  BY <1>2 DEF AssignType, IntentIndexResolves, AssignedOncePerCause, EntitledWithoutIndex
<1>3. ASSUME NEW a \in AuctionAgents
      PROVE  NewAssignment(a) \in AssignmentRecord /\ NewAssignment(a).status # "deleted"
  BY DEF NewAssignment, AssignmentRecord
\* One assignment more, and the index on it.
<1>4. ASSUME NEW before \in Seq(AssignmentRecord), Len(before) = Len(assignments),
             NEW a \in AuctionAgents, assignments' = Append(before, NewAssignment(a)),
             byIntent' = Len(assignments) + 1, runnerUps' \in Seq(AuctionAgents),
             causes' \in Nat, Len(assignments) < causes'
      PROVE  AssignIInv'
  <2>1. /\ assignments' \in Seq(AssignmentRecord) /\ Len(assignments') = Len(assignments) + 1
        /\ assignments'[Len(assignments) + 1] = NewAssignment(a)
    BY <1>1, <1>3, <1>4, AppendProperties
  <2> QED
    BY <1>1, <1>3, <1>4, <2>1 DEF AssignType, IntentIndexResolves, AssignedOncePerCause,
                                  EntitledWithoutIndex
<1>5. CASE MatchAndCreateAssignment
  <2>1. CASE UNCHANGED <<assignments, byIntent, runnerUps>>
    BY <1>2, <1>5, <2>1 DEF MatchAndCreateAssignment
  <2>2. CASE /\ Exists /\ snapshot.bids # <<>> /\ MayCreate
             /\ \E s \in Scored(snapshot.bids) :
                  /\ Stored(s[1])
                  /\ runnerUps' = IF Len(s) > 1 THEN SubSeq(s, 2, IF Len(s) < 3 THEN Len(s) ELSE 3)
                                  ELSE runnerUps
    <3>1. PICK s \in Scored(snapshot.bids) :
            /\ Stored(s[1])
            /\ runnerUps' = IF Len(s) > 1 THEN SubSeq(s, 2, IF Len(s) < 3 THEN Len(s) ELSE 3)
                            ELSE runnerUps
      BY <2>2
    <3>2. snapshot.bids \in Books
      BY <2>2 DEF BookIInv, BookType
    <3>3. s \in Seq(AuctionAgents) /\ Len(s) \in Nat \ {0}
      BY <2>2, <3>2, ScoredAgents
    <3>4. s[1] \in AuctionAgents
      BY <3>3, ElementOfSeq
    <3>5. runnerUps' \in Seq(AuctionAgents)
      <4>1. CASE Len(s) > 1
        <5> DEFINE m == IF Len(s) < 3 THEN Len(s) ELSE 3
        <5>1. m \in 1..Len(s) /\ runnerUps' = SubSeq(s, 2, m)
          BY <3>1, <3>3, <4>1
        <5> HIDE DEF m
        <5>2. m \in 1..Len(s) + 1 /\ 2 \in 1..Len(s) + 1
          BY <3>3, <4>1, <5>1
        <5> QED
          BY <3>3, <5>1, <5>2, SubSeqProperties
      <4>2. CASE ~(Len(s) > 1)
        BY <1>1, <3>1, <4>2
      <4> QED
        BY <4>1, <4>2
    <3>6. byIntent = 0 /\ Len(assignments) < causes /\ causes' = causes
      BY <1>5, <2>2 DEF MayCreate, MatchAndCreateAssignment, EntitledWithoutIndex
    <3> QED
      BY <1>1, <1>4, <3>1, <3>4, <3>5, <3>6 DEF Stored
  <2> QED
    BY <1>5, <2>1, <2>2 DEF MatchAndCreateAssignment
<1>6. ASSUME NEW i \in 1..Len(assignments), NEW st \in {"SENT", "ACTIVE", "REJECTED"},
             assignments[i].status # "deleted",
             assignments' = [assignments EXCEPT ![i].status = st],
             UNCHANGED <<byIntent, runnerUps, causes>>
      PROVE  AssignIInv'
  <2>1. /\ assignments' \in Seq(AssignmentRecord) /\ Len(assignments') = Len(assignments)
        /\ \A j \in 1..Len(assignments) :
             assignments'[j].status = IF j = i THEN st ELSE assignments[j].status
    <3>1. st \in {"PENDING", "SENT", "ACTIVE", "REJECTED", "deleted"}
      OBVIOUS
    <3>2. assignments' = WithStatus(assignments, i, st)
      BY <1>6 DEF WithStatus
    <3>3. /\ WithStatus(assignments, i, st) \in Seq(AssignmentRecord)
          /\ Len(WithStatus(assignments, i, st)) = Len(assignments)
          /\ \A j \in 1..Len(assignments) :
               WithStatus(assignments, i, st)[j].status = IF j = i THEN st ELSE assignments[j].status
      BY <1>1, <3>1, StatusSet
    <3> QED
      BY <3>2, <3>3
  <2>2. byIntent # 0 => assignments'[byIntent].status # "deleted"
    BY <1>1, <1>6, <2>1 DEF IntentIndexResolves
  <2> QED
    BY <1>1, <1>6, <2>1, <2>2 DEF AssignType, IntentIndexResolves, AssignedOncePerCause,
                                  EntitledWithoutIndex
<1>7. ASSUME NEW i \in DOMAIN assignments,
             SendToAgent(i) \/ SendToAgentReturns(i) \/ ConfirmAssignment(i)
      PROVE  AssignIInv'
  <2>1. i \in 1..Len(assignments)
    BY <1>1
  <2>2. CASE SendToAgent(i)
    BY <1>2, <2>2 DEF SendToAgent
  <2>3. CASE SendToAgentReturns(i)
    <3>1. CASE assignments[i].status = "deleted"
      BY <1>2, <2>3, <3>1 DEF SendToAgentReturns, bookVars
    <3>2. CASE assignments[i].status # "deleted"
      BY <1>6, <2>1, <2>3, <3>2 DEF SendToAgentReturns
    <3> QED
      BY <3>1, <3>2
  <2>4. CASE ConfirmAssignment(i)
    BY <1>6, <2>1, <2>4 DEF ConfirmAssignment
  <2> QED
    BY <1>7, <2>2, <2>3, <2>4
<1>8. ASSUME NEW i \in DOMAIN assignments, HandleRejection(i)
      PROVE  AssignIInv'
  <2>1. i \in 1..Len(assignments)
    BY <1>1
  <2>2. CASE runnerUps = <<>>
    BY <1>6, <1>8, <2>1, <2>2 DEF HandleRejection
  <2>3. CASE runnerUps # <<>>
    <3> DEFINE rejected == WithStatus(assignments, i, "REJECTED")
    <3>1. rejected \in Seq(AssignmentRecord) /\ Len(rejected) = Len(assignments)
      BY <1>1, <2>1, StatusSet
    <3>2. /\ assignments' = Append(rejected, NewAssignment(Head(runnerUps)))
          /\ byIntent' = Len(assignments) + 1
          /\ runnerUps' = Tail(runnerUps) /\ causes' = causes + 1
      BY <1>8, <2>3 DEF HandleRejection, WithStatus
    <3> HIDE DEF rejected
    <3>3. Head(runnerUps) \in AuctionAgents /\ Tail(runnerUps) \in Seq(AuctionAgents)
      BY <1>1, <2>3, HeadTailProperties
    <3>4. Len(assignments) <= causes
      BY DEF AssignedOncePerCause
    <3>5. causes' \in Nat /\ Len(assignments) < causes'
      BY <1>1, <3>2, <3>4
    <3> QED
      BY <1>4, <3>1, <3>2, <3>3, <3>5
  <2> QED
    BY <2>2, <2>3
<1>9. ASSUME NEW i \in DOMAIN assignments, CleanupExpiredAssignment(i)
       PROVE  AssignIInv'
  <2>1. /\ assignments' = WithStatus(assignments, i, "deleted")
        /\ byIntent' = 0 /\ causes' = causes + 1 /\ runnerUps' = runnerUps
    BY <1>9 DEF CleanupExpiredAssignment, IndexAfterCleanup, WithStatus
  <2>2. assignments' \in Seq(AssignmentRecord) /\ Len(assignments') = Len(assignments)
    <3>1. i \in 1..Len(assignments)
      BY <1>1
    <3> QED
      BY <1>1, <2>1, <3>1, StatusSet
  <2> QED
    BY <1>1, <2>1, <2>2 DEF AssignType, IntentIndexResolves, AssignedOncePerCause, EntitledWithoutIndex
<1>10. CASE \/ StartBidding \/ EndTimePasses \/ AddBidLate \/ GetSnapshot \/ GetClosedWindows
            \/ RemoveIntent \/ CleanupExpiredBids
            \/ \E a \in AuctionAgents, p \in Prices : AddBid(a, p)
            \/ \E u \in upgrading : GetSnapshotUpgraded(u)
  <2>1. UNCHANGED assignVars
    BY <1>10 DEF StartBidding, EndTimePasses, AddBidLate, GetSnapshot, GetClosedWindows, RemoveIntent,
                 CleanupExpiredBids, AddBid, GetSnapshotUpgraded
  <2> QED
    BY <1>2, <2>1 DEF assignVars
<1>11. CASE UNCHANGED auctionVars
  BY <1>2, <1>11 DEF auctionVars, assignVars
<1> QED
  BY <1>5, <1>7, <1>8, <1>9, <1>10, <1>11 DEF AuctionNext

\* Whichever call closes a bidding window, it is reported; a window reported twice is assigned
\* once; the index of an intent names an assignment that is there, and the bid count is that of
\* the books, in every interleaving of the book's and the assignments' critical sections, for
\* any agents and prices and any number of rounds, reads and assignments.
THEOREM AuctionInvHolds == AuctionSpec => []AuctionInv
<1>1. AuctionInit => AuctionIInv
  <2> SUFFICES ASSUME AuctionInit PROVE AuctionIInv
    OBVIOUS
  <2>1. /\ snapshot = <<>> /\ closedWindows = 0 /\ reported = FALSE /\ allBids = {}
        /\ assignments = <<>> /\ byIntent = 0 /\ runnerUps = <<>> /\ causes = 1
    BY DEF AuctionInit
  <2>2. BookIInv
    BY <2>1 DEF BookIInv, BookType, ClosedIsAnnounced, AllBidsAreOfTheBook, Exists
  <2>3. Len(assignments) = 0
    BY <2>1
  <2>4. AssignIInv
    BY <2>1, <2>3 DEF AssignIInv, AssignType, IntentIndexResolves, AssignedOncePerCause,
                      EntitledWithoutIndex
  <2> QED
    BY <2>2, <2>4 DEF AuctionIInv
<1>2. AuctionIInv => AuctionInv
  BY DEF AuctionIInv, BookIInv, AssignIInv, AuctionInv
<1>3. AuctionIInv /\ [AuctionNext]_auctionVars => AuctionIInv'
  BY NextBook, NextAssign DEF AuctionIInv
<1> QED
  BY <1>1, <1>2, <1>3, PTL DEF AuctionSpec

-----------------------------------------------------------------------------
(***************************************************************************)
(* Tasks: the inductive invariants of the manager and the distributor      *)
(***************************************************************************)

TaskRecord == [agent : Bidders, sent : BOOLEAN, responded : BOOLEAN, accepted : BOOLEAN]

ManagerIInv ==
    /\ tasks \in Seq(TaskRecord) /\ pendingTasks \subseteq 1..Len(tasks)
    /\ DOMAIN agentTasks = Bidders /\ agentTasks = [a \in Bidders |-> agentTasks[a]]
    /\ NoTaskForgotten /\ AgentIndexAgrees

ActiveRecord == [agent : Bidders, responded : BOOLEAN, Retries : 0..maxRetries]

DistributorIInv ==
    /\ intent \in [kind : Kinds, remaining : Remaining,
                   priority : {"normal", "high", "critical", "low"}]
    /\ activeTasks \in [DOMAIN activeTasks -> ActiveRecord]
    /\ RetryAvoidsFailed

-----------------------------------------------------------------------------
(***************************************************************************)
(* Tasks: every step of the manager and of the distributor                 *)
(***************************************************************************)

Less == {ss \in Nat \X Nat : ss[1] < ss[2]}

LEMMA LowestExists ==
  ASSUME NEW T \in SUBSET Nat, T # {}
  PROVE  \E n \in T : \A m \in T : n <= m
<1>1. IsWellFoundedOn(Less, Nat)
  BY NatLessThanWellFounded, Zenon DEF OpToRel, Less
<1>2. PICK n \in T : \A m \in T : ~(<<m, n>> \in Less)
  BY <1>1, WFMin
<1>3. ASSUME NEW m \in T
      PROVE  n <= m
  <2>1. m \in Nat /\ n \in Nat /\ <<m, n>> \in Nat \X Nat
    OBVIOUS
  <2>2. m < n => <<m, n>> \in Less
    BY <2>1 DEF Less
  <2> QED
    BY <1>2, <2>1, <2>2
<1> QED
  BY <1>3

\* Prices are natural numbers, so some bid is the lowest.
LEMMA CheapestIsBid ==
  ASSUME NEW S \in SUBSET Bidders, S # {}
  PROVE  Cheapest(S) \in S
<1> DEFINE T == {Price[a] : a \in S}
<1>1. T \in SUBSET Nat /\ T # {}
  BY PricesAssumption
<1> HIDE DEF T
<1>2. \E n \in T : \A m \in T : n <= m
  BY <1>1, LowestExists
<1>3. \E a \in S : \A b \in S : Price[a] <= Price[b]
  BY <1>2 DEF T
<1> QED
  BY <1>3 DEF Cheapest

\* What the manager knows of its tasks once more of them are done.
LEMMA SameAgents ==
  ASSUME ManagerIInv, tasks' \in Seq(TaskRecord), Len(tasks') = Len(tasks),
         \A t \in 1..Len(tasks) : tasks'[t].agent = tasks[t].agent,
         UNCHANGED <<pendingTasks, agentTasks>>, NoTaskForgotten'
  PROVE  ManagerIInv'
BY DEF ManagerIInv, AgentIndexAgrees

\* Dropping tasks keeps map and index in step.
LEMMA ForgetKeeps ==
  ASSUME ManagerIInv, NEW S, Forget(S), tasks' = tasks,
         sending \cup waiting \cup handing \cup handed
           \subseteq (sending \cup waiting \cup handing \cup handed)'
  PROVE  ManagerIInv'
<1>1. /\ pendingTasks' = pendingTasks \ S
      /\ agentTasks' = [a \in Bidders |-> agentTasks[a] \ S]
  BY DEF Forget
<1>2. NoTaskForgotten'
  BY <1>1 DEF ManagerIInv, NoTaskForgotten
<1>3. AgentIndexAgrees'
  BY <1>1 DEF ManagerIInv, AgentIndexAgrees
<1> QED
  BY <1>1, <1>2, <1>3 DEF ManagerIInv

\* A task more, registered with an agent that has a bid.
LEMMA RegisterKeeps ==
  ASSUME ManagerIInv, NEW a \in Bidders, Register(a),
         waiting \cup handing \cup handed \subseteq (waiting \cup handing \cup handed)'
  PROVE  ManagerIInv'
<1> DEFINE n == Len(tasks) + 1
<1>1. tasks \in Seq(TaskRecord) /\ Len(tasks) \in Nat /\ pendingTasks \subseteq 1..Len(tasks)
  BY DEF ManagerIInv
<1>2. Task(a) \in TaskRecord /\ Task(a).agent = a
  BY DEF Task, TaskRecord
<1>3. /\ tasks' \in Seq(TaskRecord) /\ Len(tasks') = n /\ tasks'[n] = Task(a)
      /\ \A t \in 1..Len(tasks) : tasks'[t] = tasks[t]
  BY <1>1, <1>2, AppendProperties DEF Register
<1>4. /\ pendingTasks' = pendingTasks \cup {n} /\ sending' = sending \cup {n}
      /\ agentTasks' = [agentTasks EXCEPT ![a] = @ \cup {n}]
  BY DEF Register
<1>5. n \in Nat /\ n \notin 1..Len(tasks) /\ 1..n = 1..Len(tasks) \cup {n}
  BY <1>1
<1> HIDE DEF n
<1>6. pendingTasks' \subseteq 1..Len(tasks')
  BY <1>1, <1>3, <1>4, <1>5
<1>7. NoTaskForgotten'
  <2> SUFFICES ASSUME NEW t \in pendingTasks', ~tasks'[t].responded
               PROVE  t \in (sending \cup waiting \cup handing \cup handed)'
    BY DEF NoTaskForgotten
  <2>1. CASE t = n
    BY <1>4, <2>1
  <2>2. CASE t \in pendingTasks
    BY <1>1, <1>3, <1>4, <2>2 DEF ManagerIInv, NoTaskForgotten
  <2> QED
    BY <1>4, <2>1, <2>2
<1>8. AgentIndexAgrees'
  <2> SUFFICES ASSUME NEW b \in Bidders
               PROVE  agentTasks'[b] = {t \in pendingTasks' : tasks'[t].agent = b}
    BY DEF AgentIndexAgrees
  <2>1. agentTasks[b] = {t \in pendingTasks : tasks[t].agent = b}
    BY DEF ManagerIInv, AgentIndexAgrees
  <2>2. {t \in pendingTasks' : tasks'[t].agent = b} =
          {t \in pendingTasks : tasks[t].agent = b} \cup IF a = b THEN {n} ELSE {}
    BY <1>1, <1>2, <1>3, <1>4
  <2> QED
    BY <1>4, <2>1, <2>2 DEF ManagerIInv
<1>9. DOMAIN agentTasks' = Bidders /\ agentTasks' = [b \in Bidders |-> agentTasks'[b]]
  BY <1>4 DEF ManagerIInv
<1> QED
  BY <1>3, <1>6, <1>7, <1>8, <1>9 DEF ManagerIInv

LEMMA NextManager == ManagerIInv /\ [ManagerNext]_managerVars => ManagerIInv'
<1> SUFFICES ASSUME ManagerIInv, [ManagerNext]_managerVars PROVE ManagerIInv'
  OBVIOUS
<1>1. tasks \in Seq(TaskRecord) /\ Len(tasks) \in Nat /\ pendingTasks \subseteq 1..Len(tasks)
  BY DEF ManagerIInv
<1>2. DOMAIN tasks = 1..Len(tasks) /\ \A t \in 1..Len(tasks) : tasks[t] \in TaskRecord
  BY <1>1, ElementOfSeq
\* The tasks and the map stay, and what hands a task on does not get less.
<1>3. ASSUME UNCHANGED <<tasks, pendingTasks, agentTasks>>, NoTaskForgotten'
      PROVE  ManagerIInv'
  BY <1>1, <1>3, SameAgents
<1>4. CASE UNCHANGED managerVars \/ Expire
  <2>1. UNCHANGED <<tasks, pendingTasks, agentTasks, sending, waiting, handing, handed>>
    BY <1>4 DEF managerVars, Expire
  <2> QED
    BY <1>3, <2>1 DEF ManagerIInv, NoTaskForgotten
<1>5. ASSUME NEW t \in 1..Len(tasks), SendTaskToAgent(t)
      PROVE  ManagerIInv'
  <2>1. UNCHANGED <<pendingTasks, agentTasks, handed>> /\ sending' = sending \ {t}
    BY <1>5 DEF SendTaskToAgent
  <2>2. CASE handing' = handing \cup {t} /\ UNCHANGED <<waiting, tasks>>
    BY <1>3, <2>1, <2>2 DEF ManagerIInv, NoTaskForgotten
  <2>3. CASE /\ waiting' = waiting \cup {t} /\ tasks' = [tasks EXCEPT ![t].sent = TRUE]
             /\ UNCHANGED handing
    <3> DEFINE r == [tasks[t] EXCEPT !.sent = TRUE]
    <3>1. r \in TaskRecord /\ r.agent = tasks[t].agent
      BY <1>2 DEF TaskRecord
    <3>2. r.responded = tasks[t].responded
      BY <1>2 DEF TaskRecord
    <3>3. tasks' = [tasks EXCEPT ![t] = r]
      BY <2>3
    <3> HIDE DEF r
    <3>4. tasks' = [u \in 1..Len(tasks) |-> IF u = t THEN r ELSE tasks[u]]
      BY <1>2, <3>3
    <3>5. tasks' \in Seq(TaskRecord) /\ Len(tasks') = Len(tasks)
      BY <1>1, <1>2, <3>1, <3>4
    <3>6. NoTaskForgotten'
      BY <1>1, <2>1, <2>3, <3>2, <3>4 DEF ManagerIInv, NoTaskForgotten
    <3>7. \A u \in 1..Len(tasks) : tasks'[u].agent = tasks[u].agent
      BY <3>1, <3>4
    <3> QED
      BY <2>1, <3>5, <3>6, <3>7, SameAgents
  <2> QED
    BY <1>5, <2>2, <2>3 DEF SendTaskToAgent
<1>6. ASSUME NEW t \in 1..Len(tasks), NEW accepts \in BOOLEAN, HandleAgentResponse(t, accepts)
      PROVE  ManagerIInv'
  <2>1. /\ UNCHANGED <<pendingTasks, agentTasks, sending, waiting, handed>>
        /\ handing \subseteq handing'
        /\ tasks' = [tasks EXCEPT ![t].responded = TRUE, ![t].accepted = accepts]
    BY <1>6 DEF HandleAgentResponse
  <2> DEFINE r == [tasks[t] EXCEPT !.responded = TRUE, !.accepted = accepts]
  <2>2. r \in TaskRecord /\ r.agent = tasks[t].agent
    BY <1>2 DEF TaskRecord
  <2>3. r.responded
    BY <1>2 DEF TaskRecord
  <2>4. tasks' = [tasks EXCEPT ![t] = r]
    BY <1>1, <2>1
  <2> HIDE DEF r
  <2>5. tasks' = [u \in 1..Len(tasks) |-> IF u = t THEN r ELSE tasks[u]]
    BY <1>2, <2>4
  <2>6. tasks' \in Seq(TaskRecord) /\ Len(tasks') = Len(tasks)
    BY <1>1, <1>2, <2>2, <2>5
  <2>7. NoTaskForgotten'
    BY <1>1, <2>1, <2>3, <2>5 DEF ManagerIInv, NoTaskForgotten
  <2>8. \A u \in 1..Len(tasks) : tasks'[u].agent = tasks[u].agent
    BY <2>2, <2>5
  <2> QED
    BY <2>1, <2>6, <2>7, <2>8, SameAgents
<1>7. ASSUME NEW t \in 1..Len(tasks), WaitForResponse(t)
      PROVE  ManagerIInv'
  <2>1. /\ UNCHANGED <<tasks, pendingTasks, agentTasks, sending, handed>>
        /\ waiting' = waiting \ {t}
        /\ handing' = IF t \in pendingTasks /\ ~tasks[t].responded THEN handing \cup {t} ELSE handing
    BY <1>7 DEF WaitForResponse, WaiterActs
  <2>2. NoTaskForgotten'
    BY <2>1 DEF ManagerIInv, NoTaskForgotten
  <2> QED
    BY <1>3, <2>1, <2>2
<1>8. ASSUME NEW t \in 1..Len(tasks), TryRunnerUp(t)
      PROVE  ManagerIInv'
  <2> DEFINE others == Bidders \ {tasks[t].agent}
  <2>1. handing' = handing \ {t} /\ handed' = handed \cup {t} /\ waiting' = waiting
    BY <1>8 DEF TryRunnerUp
  <2>2. waiting \cup handing \cup handed \subseteq (waiting \cup handing \cup handed)'
    BY <2>1
  <2>3. CASE UNCHANGED <<tasks, pendingTasks, agentTasks, sending>>
    BY <1>3, <2>2, <2>3 DEF ManagerIInv, NoTaskForgotten
  <2>4. CASE Forget(pendingTasks) /\ UNCHANGED <<tasks, sending>>
    BY <2>2, <2>4, ForgetKeeps
  <2>5. CASE others # {} /\ Register(Cheapest(others))
    <3>1. Cheapest(others) \in Bidders
      BY <2>5, CheapestIsBid
    <3> QED
      BY <2>2, <2>5, <3>1, RegisterKeeps
  <2> QED
    BY <1>8, <2>3, <2>4, <2>5 DEF TryRunnerUp
<1>9. ASSUME NEW t \in 1..Len(tasks), MonitorExecution(t)
      PROVE  ManagerIInv'
  <2>1. UNCHANGED <<tasks, sending, waiting, handing>>
    BY <1>9 DEF MonitorExecution
  <2>2. CASE Forget(pendingTasks) /\ handed' = handed \cup pendingTasks
    BY <2>1, <2>2, ForgetKeeps
  <2>3. CASE UNCHANGED <<pendingTasks, agentTasks, handed>>
    BY <1>3, <2>1, <2>3 DEF ManagerIInv, NoTaskForgotten
  <2> QED
    BY <1>9, <2>2, <2>3 DEF MonitorExecution
<1>10. CASE CleanupOldTasks
  BY <1>10, ForgetKeeps DEF CleanupOldTasks
<1> QED
  BY <1>4, <1>5, <1>6, <1>7, <1>8, <1>9, <1>10 DEF ManagerNext

\* A clamped time is within the limits.
LEMMA ClampBounds ==
  ASSUME NEW t \in Int
  PROVE  Clamp(t) \in MinResponseTimeout..MaxResponseTimeout
<1>1. /\ MinResponseTimeout \in Int /\ MaxResponseTimeout \in Int
      /\ MinResponseTimeout <= MaxResponseTimeout
  BY DEF MinResponseTimeout, MaxResponseTimeout, Minute, Second
<1>2. /\ Clamp(t) \in Int
      /\ MinResponseTimeout <= Clamp(t) /\ Clamp(t) <= MaxResponseTimeout
  BY <1>1 DEF Clamp
<1> QED
  BY <1>1, <1>2

TimeoutSettings == [response : Int, retries : 0..3]

LEMMA TypeSettingsTyped == \A kind \in Kinds : TypeSettings[kind] \in TimeoutSettings
<1>1. ASSUME NEW kind \in DOMAIN TypeSettings
      PROVE  TypeSettings[kind] \in TimeoutSettings
  BY <1>1 DEF TypeSettings, TimeoutSettings, DefaultRetries, Minute, Second
<1> QED
  BY <1>1, KindsAssumption

\* The settings of an intent: the response time is within the limits, and there are at most
\* three retries.
LEMMA SettingsTyped ==
  ASSUME NEW kind \in Kinds, NEW left \in Remaining, NEW priority
  PROVE  /\ CalculateTimeouts(kind, left, priority).response \in MinResponseTimeout..MaxResponseTimeout
         /\ CalculateTimeouts(kind, left, priority).retries \in 0..3
<1> DEFINE t == TypeSettings[kind]
           d == ByDeadline(t, left)
           p == ByPriority(d, priority)
<1>1. t \in TimeoutSettings
  BY TypeSettingsTyped
<1> HIDE DEF t
<1>2. d \in TimeoutSettings
  <2>1. left \in Int
    BY KindsAssumption
  <2>2. Clamp(left \div 10) \in Int
    BY <2>1 DEF Clamp, MinResponseTimeout, MaxResponseTimeout, Minute, Second
  <2>3. CASE left <= 0
    BY <1>1, <2>3 DEF ByDeadline
  <2>4. CASE ~(left <= 0)
    <3> DEFINE n == IF left < Minute THEN 0 ELSE IF left < 5 * Minute THEN 1 ELSE t.retries
    <3>1. n \in 0..3
      BY <1>1 DEF TimeoutSettings
    <3>2. d = [response |-> Clamp(left \div 10), retries |-> n]
      BY <2>4 DEF ByDeadline
    <3> HIDE DEF n, d
    <3> QED
      BY <2>2, <3>1, <3>2 DEF TimeoutSettings
  <2> QED
    BY <2>3, <2>4
<1> HIDE DEF d
<1>3. p \in TimeoutSettings
  <2>1. d.response \in Int /\ d.retries \in 0..3
    BY <1>2 DEF TimeoutSettings
  <2>2. /\ (d.response * 3) \div 10 \in Int /\ d.response \div 2 \in Int /\ d.response * 2 \in Int
        /\ 0 \in 0..3 /\ 3 \in 0..3
        /\ (IF d.retries > 1 THEN 1 ELSE d.retries) \in 0..3
    BY <2>1
  <2>3. CASE priority = "critical"
    BY <2>2, <2>3 DEF ByPriority, TimeoutSettings
  <2>4. CASE priority = "high"
    BY <2>2, <2>4 DEF ByPriority, TimeoutSettings
  <2>5. CASE priority = "low"
    BY <2>2, <2>5 DEF ByPriority, TimeoutSettings
  <2>6. CASE priority \notin {"critical", "high", "low"}
    BY <1>2, <2>6 DEF ByPriority
  <2> QED
    BY <2>3, <2>4, <2>5, <2>6
<1>4. CalculateTimeouts(kind, left, priority) = [p EXCEPT !.response = Clamp(@)]
  BY DEF CalculateTimeouts, d, t
<1> HIDE DEF p
<1>5. p.response \in Int /\ p.retries \in 0..3
  BY <1>3 DEF TimeoutSettings
<1>6. Clamp(p.response) \in MinResponseTimeout..MaxResponseTimeout
  BY <1>5, ClampBounds
<1> QED
  BY <1>3, <1>4, <1>5, <1>6 DEF TimeoutSettings

\* A runner-up has a bid, and is not the agent just tried.
LEMMA RunnerUpIsOther ==
  ASSUME NEW excluded, NEW a \in RunnerUp(excluded)
  PROVE  a \in Bidders /\ a # excluded
<1> DEFINE others == Bidders \ {excluded}
<1>1. others # {} /\ a = Cheapest(others)
  BY DEF RunnerUp
<1>2. Cheapest(others) \in others
  BY <1>1, CheapestIsBid
<1> QED
  BY <1>1, <1>2

LEMMA NextDistributor == DistributorIInv /\ [DistributorNext]_distributorVars => DistributorIInv'
<1> SUFFICES ASSUME DistributorIInv, [DistributorNext]_distributorVars PROVE DistributorIInv'
  OBVIOUS
<1>1. /\ intent \in [kind : Kinds, remaining : Remaining,
                     priority : {"normal", "high", "critical", "low"}]
      /\ activeTasks \in [DOMAIN activeTasks -> ActiveRecord] /\ RetryAvoidsFailed
  BY DEF DistributorIInv
<1>2. ASSUME intent' = intent, retried' = retried, activeTasks' \in [DOMAIN activeTasks' -> ActiveRecord]
      PROVE  DistributorIInv'
  BY <1>1, <1>2 DEF DistributorIInv, RetryAvoidsFailed
<1>3. CASE UNCHANGED <<intent, retried, activeTasks>>
  BY <1>1, <1>2, <1>3
\* What one record becomes.
<1>4. ASSUME NEW id, NEW r, intent' = intent, retried' = retried,
             activeTasks' = [activeTasks EXCEPT ![id] = r],
             id \in DOMAIN activeTasks => r \in ActiveRecord
      PROVE  DistributorIInv'
  <2>1. DOMAIN activeTasks' = DOMAIN activeTasks
    BY <1>1, <1>4
  <2>2. \A x \in DOMAIN activeTasks : activeTasks'[x] \in ActiveRecord
    BY <1>1, <1>4
  <2>3. activeTasks' \in [DOMAIN activeTasks' -> ActiveRecord]
    BY <1>1, <1>4, <2>1, <2>2
  <2> QED
    BY <1>2, <1>4, <2>3
<1>5. ASSUME NEW g \in steps, SendTask(g) \/ CheckTimeout(g)
      PROVE  DistributorIInv'
  BY <1>3, <1>5 DEF SendTask, CheckTimeout
<1>6. ASSUME NEW g \in steps, StoreRetryLimit(g)
      PROVE  DistributorIInv'
  <2> DEFINE n == maxRetries - Settings(g.id).retries
             r == [activeTasks[g.id] EXCEPT !.Retries = n]
  <2>1. CASE Settings(g.id).retries < maxRetries
    <3>1. Settings(g.id).retries \in 0..3
      BY <1>1, SettingsTyped DEF Settings
    <3>2. n \in 0..maxRetries
      BY <2>1, <3>1 DEF maxRetries, DefaultRetries
    <3>3. activeTasks' = [activeTasks EXCEPT ![g.id] = r]
      BY <1>6, <2>1 DEF StoreRetryLimit
    <3> HIDE DEF n
    <3>4. g.id \in DOMAIN activeTasks => r \in ActiveRecord
      BY <1>1, <3>2 DEF ActiveRecord
    <3> HIDE DEF r
    <3>5. intent' = intent /\ retried' = retried
      BY <1>6 DEF StoreRetryLimit
    <3> QED
      BY <1>4, <3>3, <3>4, <3>5
  <2>2. CASE ~(Settings(g.id).retries < maxRetries)
    BY <1>3, <1>6, <2>2 DEF StoreRetryLimit
  <2> QED
    BY <2>1, <2>2
<1>7. ASSUME NEW id \in DOMAIN activeTasks, NEW accepted \in BOOLEAN, HandleResponse(id, accepted)
      PROVE  DistributorIInv'
  <2> DEFINE r == [activeTasks[id] EXCEPT !.responded = TRUE]
  <2>1. activeTasks' = [activeTasks EXCEPT ![id] = r] /\ intent' = intent /\ retried' = retried
    BY <1>7 DEF HandleResponse
  <2>2. r \in ActiveRecord
    BY <1>1 DEF ActiveRecord
  <2> HIDE DEF r
  <2> QED
    BY <1>4, <2>1, <2>2
<1>8. ASSUME NEW g \in steps, ReassignTask(g)
      PROVE  DistributorIInv'
  <2>1. CASE g.id \in DOMAIN activeTasks /\ RetriesLeft(g.id)
    <3> DEFINE r == [activeTasks[g.id] EXCEPT !.Retries = @ + 1]
    <3>1. activeTasks' = [activeTasks EXCEPT ![g.id] = r] /\ intent' = intent /\ retried' = retried
      BY <1>8, <2>1 DEF ReassignTask
    <3>2. /\ activeTasks[g.id] \in ActiveRecord /\ activeTasks[g.id].Retries \in 0..maxRetries
          /\ activeTasks[g.id].Retries < maxRetries
      BY <1>1, <2>1 DEF ActiveRecord, RetriesLeft
    <3>3. activeTasks[g.id].Retries + 1 \in 0..maxRetries
      BY <3>2 DEF maxRetries, DefaultRetries
    <3>4. r \in ActiveRecord
      BY <3>2, <3>3 DEF ActiveRecord
    <3> HIDE DEF r
    <3> QED
      BY <1>4, <3>1, <3>4
  <2>2. CASE ~(g.id \in DOMAIN activeTasks /\ RetriesLeft(g.id))
    BY <1>3, <1>8, <2>2 DEF ReassignTask
  <2> QED
    BY <2>1, <2>2
<1>9. ASSUME NEW g \in steps, Retry(g)
      PROVE  DistributorIInv'
  <2> DEFINE id == Append(g.id, activeTasks[g.id].Retries)
  <2>1. CASE UNCHANGED <<activeTasks, retried>>
    BY <1>3, <1>9, <2>1 DEF Retry
  <2>2. ASSUME NEW a \in RunnerUp(g.agent),
               activeTasks' = [t \in DOMAIN activeTasks \cup {id} |->
                                 IF t = id THEN Active(a) ELSE activeTasks[t]],
               retried' = retried \cup {[from |-> g.agent, to |-> a]}
        PROVE  DistributorIInv'
    <3>1. a \in Bidders /\ a # g.agent
      BY RunnerUpIsOther
    <3>2. Active(a) \in ActiveRecord
      BY <3>1 DEF Active, ActiveRecord, maxRetries, DefaultRetries
    <3> HIDE DEF id
    <3>3. activeTasks' \in [DOMAIN activeTasks' -> ActiveRecord]
      BY <1>1, <2>2, <3>2
    <3>4. RetryAvoidsFailed'
      BY <1>1, <2>2, <3>1 DEF RetryAvoidsFailed
    <3>5. intent' = intent
      BY <1>9 DEF Retry
    <3> QED
      BY <1>1, <3>3, <3>4, <3>5 DEF DistributorIInv
  <2> QED
    BY <1>9, <2>1, <2>2 DEF Retry
<1>10. ASSUME NEW id \in DOMAIN activeTasks, Cleanup(id)
       PROVE  DistributorIInv'
  <2>1. /\ activeTasks' = [x \in DOMAIN activeTasks \ {id} |-> activeTasks[x]]
        /\ intent' = intent /\ retried' = retried
    BY <1>10 DEF Cleanup, Restrict
  <2>2. activeTasks' \in [DOMAIN activeTasks' -> ActiveRecord]
    BY <1>1, <2>1
  <2> QED
    BY <1>2, <2>1, <2>2
<1>11. CASE UNCHANGED distributorVars
  BY <1>3, <1>11 DEF distributorVars
<1> QED
  BY <1>5, <1>6, <1>7, <1>8, <1>9, <1>10, <1>11 DEF DistributorNext

\* No unanswered task of the manager is left without a goroutine that hands it on, and the
\* index of the agents agrees with the map; the distributor's timeouts and retry counts stay
\* within their limits and a retry leaves the agent that failed, however answers, timers,
\* cleanups and the unlocked write of the retry limit interleave, for any bids, deadlines and
\* bounds.
THEOREM TasksInvHolds == ManagerSpec /\ DistributorSpec => []TasksInv
<1>1. ManagerInit => ManagerIInv
  <2> SUFFICES ASSUME ManagerInit PROVE ManagerIInv
    OBVIOUS
  <2> DEFINE a == Cheapest(Bidders)
  <2>1. a \in Bidders
    BY PricesAssumption, CheapestIsBid
  <2>2. /\ tasks = <<Task(a)>> /\ pendingTasks = {1} /\ sending = {1}
        /\ agentTasks = [b \in Bidders |-> IF b = a THEN {1} ELSE {}]
    BY DEF ManagerInit
  <2> HIDE DEF a
  <2>3. Task(a) \in TaskRecord /\ Task(a).agent = a
    BY <2>1 DEF Task, TaskRecord
  <2>4. tasks \in Seq(TaskRecord) /\ Len(tasks) = 1 /\ tasks[1] = Task(a)
    BY <2>2, <2>3
  <2>5. NoTaskForgotten
    BY <2>2 DEF NoTaskForgotten
  <2>6. AgentIndexAgrees
    BY <2>2, <2>3, <2>4 DEF AgentIndexAgrees
  <2> QED
    BY <2>2, <2>4, <2>5, <2>6 DEF ManagerIInv
<1>2. DistributorInit => DistributorIInv
  <2> SUFFICES ASSUME DistributorInit PROVE DistributorIInv
    OBVIOUS
  <2>1. Cheapest(Bidders) \in Bidders
    BY PricesAssumption, CheapestIsBid
  <2>2. Active(Cheapest(Bidders)) \in ActiveRecord
    BY <2>1 DEF Active, ActiveRecord, maxRetries, DefaultRetries
  <2>3. activeTasks \in [DOMAIN activeTasks -> ActiveRecord] /\ RetryAvoidsFailed
    BY <2>2 DEF DistributorInit, RetryAvoidsFailed
  <2>4. PICK k \in Kinds, r \in Remaining, p \in {"normal", "high", "critical", "low"} :
          intent = [kind |-> k, remaining |-> r, priority |-> IntentPriority(p, r)]
    BY DEF DistributorInit
  <2>5. IntentPriority(p, r) \in {"normal", "high", "critical", "low"}
    BY DEF IntentPriority
  <2> QED
    BY <2>3, <2>4, <2>5 DEF DistributorIInv
<1>3. ManagerIInv /\ DistributorIInv => TasksInv
  <2> SUFFICES ASSUME ManagerIInv, DistributorIInv PROVE TasksInv
    OBVIOUS
  <2>1. NoTaskForgotten /\ AgentIndexAgrees
    BY DEF ManagerIInv
  <2>2. TimeoutWithinLimits
    BY SettingsTyped DEF DistributorIInv, TimeoutWithinLimits, Settings
  <2>3. RetriesBounded
    BY DEF DistributorIInv, ActiveRecord, RetriesBounded, maxRetries, DefaultRetries
  <2> QED
    BY <2>1, <2>2, <2>3 DEF DistributorIInv, TasksInv
<1> QED
  BY <1>1, <1>2, <1>3, NextManager, NextDistributor, PTL DEF ManagerSpec, DistributorSpec

-----------------------------------------------------------------------------
(***************************************************************************)
(* Intents: the inductive invariants of the feed                           *)
(***************************************************************************)

PullerRecord == [pc : {"idle", "fetched", "broadcast"}, set : SUBSET FeedIntents]

SubRecord ==
    [agent : Subscribers, queued : Seq(FeedIntents), got : SUBSET FeedIntents,
     missed : SUBSET FeedIntents, closed : BOOLEAN]

SenderRecord == [sub : 1..Len(subs), pc : {"copy", "send"}, left : SUBSET FeedIntents]

FeedType ==
    /\ atRoot \subseteq FeedIntents /\ pendingIntents \subseteq FeedIntents
    /\ puller \in [Pullers -> PullerRecord]
    /\ subs \in Seq(SubRecord) /\ senders \subseteq SenderRecord
    /\ subscriptions \in [Subscribers -> 0..Len(subs)]
    /\ broadcasts \in [FeedIntents -> Nat] /\ forgets \in [FeedIntents -> Nat]

\* The pullers that are going to broadcast an intent.
Broadcasting(i) == {p \in Pullers : puller[p].pc = "broadcast" /\ i \in puller[p].set}

\* A broadcast made or due takes a processed record, there or dropped.
BroadcastsCounted ==
    \A i \in FeedIntents :
        broadcasts[i] + Cardinality(Broadcasting(i)) <= forgets[i] + IF i \in processedIntents THEN 1 ELSE 0

\* What was or will be broadcast is kept for later subscribers.
BroadcastIsPending ==
    \A i \in FeedIntents : broadcasts[i] > 0 \/ Broadcasting(i) # {} => i \in pendingIntents

\* sendPendingIntents will still come to the intent.
WillBeSent(s, i) == \E g \in senders : g.sub = s /\ (g.pc = "copy" \/ i \in g.left)

\* A current subscription has had what is pending, or will be sent it.
Reaches(s, i) == i \in subs[s].got \cup subs[s].missed \/ WillBeSent(s, i) \/ Broadcasting(i) # {}

PendingReachesAll ==
    \A a \in Subscribers : subscriptions[a] # NoSubscription =>
        /\ subs[subscriptions[a]].agent = a
        /\ \A i \in pendingIntents : Reaches(subscriptions[a], i)

FeedIInv == FeedType /\ BroadcastsCounted /\ BroadcastIsPending /\ PendingReachesAll

-----------------------------------------------------------------------------
(***************************************************************************)
(* Intents: every step of the feed                                         *)
(***************************************************************************)

LEMMA BroadcastingFinite ==
  ASSUME NEW i
  PROVE  IsFiniteSet(Broadcasting(i)) /\ Cardinality(Broadcasting(i)) \in Nat
<1>1. Broadcasting(i) \subseteq Pullers /\ IsFiniteSet(Pullers)
  BY FeedAssumption DEF Broadcasting
<1> QED
  BY <1>1, FS_Subset, FS_CardinalityType

\* A puller that changes leaves the others at what they are going to broadcast.
LEMMA OnePullerChanges ==
  ASSUME FeedType, NEW p \in Pullers, NEW r, puller' = [puller EXCEPT ![p] = r], NEW i
  PROVE  Broadcasting(i)' = (Broadcasting(i) \ {p}) \cup
                            IF r.pc = "broadcast" /\ i \in r.set THEN {p} ELSE {}
BY DEF FeedType, Broadcasting

\* A puller that is not to broadcast anything more.
LEMMA PullerRests ==
  ASSUME FeedType, NEW p \in Pullers, NEW r, puller' = [puller EXCEPT ![p] = r],
         r.pc # "broadcast", NEW i, p \notin Broadcasting(i)
  PROVE  Broadcasting(i)' = Broadcasting(i)
<1>1. Broadcasting(i)' = (Broadcasting(i) \ {p}) \cup
                         IF r.pc = "broadcast" /\ i \in r.set THEN {p} ELSE {}
  BY OnePullerChanges
<1> QED
  BY <1>1

\* Fetching, and the end of a pull, broadcast nothing and take no broadcast back.
LEMMA PullEnds ==
  ASSUME FeedType, NEW p \in Pullers, Fetch(p) \/ PullDone(p), NEW i
  PROVE  Broadcasting(i)' = Broadcasting(i)
<1>1. CASE Fetch(p)
  <2>1. PICK S : puller' = [puller EXCEPT ![p] = [pc |-> "fetched", set |-> S]]
    BY <1>1 DEF Fetch
  <2>2. p \notin Broadcasting(i)
    BY <1>1 DEF Fetch, NotPulling, Broadcasting
  <2> DEFINE r == [pc |-> "fetched", set |-> S]
  <2>3. puller' = [puller EXCEPT ![p] = r] /\ r.pc # "broadcast"
    BY <2>1
  <2> HIDE DEF r
  <2> QED
    BY <2>2, <2>3, PullerRests
<1>2. CASE PullDone(p)
  <2>1. puller' = [puller EXCEPT ![p] = NotPulling] /\ p \notin Broadcasting(i)
    BY <1>2 DEF PullDone, Broadcasting
  <2>2. NotPulling.pc # "broadcast"
    BY DEF NotPulling
  <2> QED
    BY <2>1, <2>2, PullerRests
<1> QED
  BY <1>1, <1>2

\* A pull will broadcast what is new to it.
LEMMA PullFilters ==
  ASSUME FeedType, NEW p \in Pullers, FilterFetched(p)
  PROVE  LET new == puller[p].set \ processedIntents
         IN  /\ new \subseteq FeedIntents
             /\ pendingIntents' = pendingIntents \cup new
             /\ processedIntents' = processedIntents \cup new
             /\ \A i \in FeedIntents :
                  /\ p \notin Broadcasting(i)
                  /\ Broadcasting(i)' = Broadcasting(i) \cup IF i \in new THEN {p} ELSE {}
<1> DEFINE new == puller[p].set \ processedIntents
           r == [pc |-> "broadcast", set |-> new]
<1>1. /\ puller' = [puller EXCEPT ![p] = r]
      /\ pendingIntents' = pendingIntents \cup new /\ processedIntents' = processedIntents \cup new
      /\ puller[p].pc = "fetched"
  BY DEF FilterFetched, NewAmong, PendingAfter
<1>2. new \subseteq FeedIntents
  BY DEF FeedType, PullerRecord
<1>3. r.pc = "broadcast" /\ r.set = new
  OBVIOUS
<1> HIDE DEF new, r
<1>4. ASSUME NEW i \in FeedIntents
      PROVE  /\ p \notin Broadcasting(i)
             /\ Broadcasting(i)' = Broadcasting(i) \cup IF i \in new THEN {p} ELSE {}
  <2>1. p \notin Broadcasting(i)
    BY <1>1 DEF Broadcasting
  <2>2. Broadcasting(i)' = (Broadcasting(i) \ {p}) \cup IF i \in new THEN {p} ELSE {}
    BY <1>1, <1>3, OnePullerChanges
  <2> QED
    BY <2>1, <2>2
<1> QED
  BY <1>1, <1>2, <1>4 DEF new

\* A broadcast is no longer due.
LEMMA BroadcastTaken ==
  ASSUME FeedType, NEW p \in Pullers, NEW i \in FeedIntents, BroadcastIntent(p, i)
  PROVE  /\ p \in Broadcasting(i) /\ Broadcasting(i)' = Broadcasting(i) \ {p}
         /\ \A j : j # i => Broadcasting(j)' = Broadcasting(j)
<1> DEFINE r == [puller[p] EXCEPT !.set = @ \ {i}]
<1>1. puller[p] \in PullerRecord /\ puller[p].pc = "broadcast" /\ i \in puller[p].set
  BY DEF FeedType, BroadcastIntent
<1>2. puller' = [puller EXCEPT ![p] = r]
  BY DEF BroadcastIntent
<1>3. r.pc = "broadcast" /\ r.set = puller[p].set \ {i}
  BY <1>1 DEF PullerRecord
<1> HIDE DEF r
<1>4. p \in Broadcasting(i)
  BY <1>1 DEF Broadcasting
<1>5. Broadcasting(i)' = Broadcasting(i) \ {p}
  <2>1. Broadcasting(i)' = (Broadcasting(i) \ {p}) \cup IF i \in puller[p].set \ {i} THEN {p} ELSE {}
    BY <1>2, <1>3, OnePullerChanges
  <2> QED
    BY <2>1
<1>6. ASSUME NEW j, j # i
      PROVE  Broadcasting(j)' = Broadcasting(j)
  <2>1. Broadcasting(j)' = (Broadcasting(j) \ {p}) \cup IF j \in puller[p].set THEN {p} ELSE {}
    BY <1>2, <1>3, <1>6, OnePullerChanges
  <2>2. p \in Broadcasting(j) <=> j \in puller[p].set
    BY <1>1 DEF Broadcasting
  <2> QED
    BY <2>1, <2>2
<1> QED
  BY <1>4, <1>5, <1>6

\* A send keeps the subscription's form, and the intent is there or missed.
LEMMA TrySendKeeps ==
  ASSUME NEW k \in SubRecord, NEW i \in FeedIntents
  PROVE  /\ TrySend(k, i) \in SubRecord /\ TrySend(k, i).agent = k.agent
         /\ i \in TrySend(k, i).got \cup TrySend(k, i).missed
         /\ k.got \cup k.missed \subseteq TrySend(k, i).got \cup TrySend(k, i).missed
<1>1. CASE Len(k.queued) < ChannelSize
  <2> DEFINE q == Append(k.queued, i)
             r == [k EXCEPT !.queued = q, !.got = @ \cup {i}]
  <2>1. q \in Seq(FeedIntents)
    BY DEF SubRecord
  <2>2. TrySend(k, i) = r
    BY <1>1 DEF TrySend
  <2> HIDE DEF q
  <2> QED
    BY <2>1, <2>2 DEF SubRecord
<1>2. CASE ~(Len(k.queued) < ChannelSize)
  <2>1. TrySend(k, i) = [k EXCEPT !.missed = @ \cup {i}]
    BY <1>2 DEF TrySend, Misses
  <2> QED
    BY <2>1 DEF SubRecord
<1> QED
  BY <1>1, <1>2

-----------------------------------------------------------------------------
(* The types of the feed                                                   *)

\* The closed subscription of an agent is otherwise as it was.
LEMMA ClosedKeeps ==
  ASSUME FeedType, NEW a
  PROVE  /\ Closed(a) \in Seq(SubRecord) /\ Len(Closed(a)) = Len(subs)
         /\ \A s \in 1..Len(subs) :
              /\ Closed(a)[s].agent = subs[s].agent
              /\ Closed(a)[s].got = subs[s].got /\ Closed(a)[s].missed = subs[s].missed
<1>1. subs \in Seq(SubRecord) /\ Len(subs) \in Nat /\ DOMAIN subs = 1..Len(subs)
  BY DEF FeedType
<1>2. \A s \in 1..Len(subs) : subs[s] \in SubRecord
  BY <1>1, ElementOfSeq
<1>3. Closed(a) = [s \in 1..Len(subs) |-> IF s = subscriptions[a]
                                          THEN [subs[s] EXCEPT !.closed = TRUE] ELSE subs[s]]
  BY <1>1 DEF Closed
<1>4. ASSUME NEW s \in 1..Len(subs)
      PROVE  /\ Closed(a)[s] \in SubRecord /\ Closed(a)[s].agent = subs[s].agent
             /\ Closed(a)[s].got = subs[s].got /\ Closed(a)[s].missed = subs[s].missed
  <2> DEFINE k == subs[s]
             c == Closed(a)[s]
  <2>1. k \in SubRecord
    BY <1>2
  <2>2. c = [k EXCEPT !.closed = TRUE] \/ c = k
    BY <1>3
  <2> HIDE DEF k, c
  <2>3. c \in SubRecord /\ c.agent = k.agent /\ c.got = k.got /\ c.missed = k.missed
    BY <2>1, <2>2 DEF SubRecord
  <2> QED
    BY <2>3 DEF k, c
<1>5. Closed(a) \in Seq(SubRecord) /\ Len(Closed(a)) = Len(subs)
  BY <1>1, <1>3, <1>4
<1> QED
  BY <1>4, <1>5

\* Subscriptions are added, and lose nothing they had.
SubsGrow ==
    /\ subs' \in Seq(SubRecord) /\ Len(subs) <= Len(subs')
    /\ \A s \in 1..Len(subs) :
         /\ subs'[s].agent = subs[s].agent
         /\ subs[s].got \cup subs[s].missed \subseteq subs'[s].got \cup subs'[s].missed

\* Each subscription stays what it is, or has something more.
LEMMA EachGrows ==
  ASSUME FeedType, DOMAIN subs' = 1..Len(subs), subs' = [s \in 1..Len(subs) |-> subs'[s]],
         \A s \in 1..Len(subs) :
           /\ subs'[s] \in SubRecord /\ subs'[s].agent = subs[s].agent
           /\ subs[s].got \cup subs[s].missed \subseteq subs'[s].got \cup subs'[s].missed
  PROVE  SubsGrow
<1>1. Len(subs) \in Nat
  BY DEF FeedType
<1>2. subs' \in Seq(SubRecord) /\ Len(subs') = Len(subs)
  BY <1>1
<1> QED
  BY <1>1, <1>2 DEF SubsGrow

LEMMA OneGrows ==
  ASSUME FeedType, NEW n \in 1..Len(subs), NEW r \in SubRecord, subs' = [subs EXCEPT ![n] = r],
         r.agent = subs[n].agent,
         subs[n].got \cup subs[n].missed \subseteq r.got \cup r.missed
  PROVE  SubsGrow
<1>1. subs \in Seq(SubRecord) /\ DOMAIN subs = 1..Len(subs)
  BY DEF FeedType
<1>2. \A s \in 1..Len(subs) : subs[s] \in SubRecord
  BY <1>1, ElementOfSeq
<1>3. subs' = [s \in 1..Len(subs) |-> IF s = n THEN r ELSE subs[s]]
  BY <1>1
<1>4. DOMAIN subs' = 1..Len(subs) /\ subs' = [s \in 1..Len(subs) |-> subs'[s]]
  BY <1>3
<1>5. \A s \in 1..Len(subs) :
        /\ subs'[s] \in SubRecord /\ subs'[s].agent = subs[s].agent
        /\ subs[s].got \cup subs[s].missed \subseteq subs'[s].got \cup subs'[s].missed
  BY <1>2, <1>3
<1> QED
  BY <1>4, <1>5, EachGrows

LEMMA BroadcastGrows ==
  ASSUME FeedType, NEW p, NEW i \in FeedIntents, BroadcastIntent(p, i)
  PROVE  /\ SubsGrow
         /\ \A s \in 1..Len(subs) :
              subscriptions[subs[s].agent] = s => i \in subs'[s].got \cup subs'[s].missed
<1>1. subs \in Seq(SubRecord) /\ DOMAIN subs = 1..Len(subs)
  BY DEF FeedType
<1>2. \A s \in 1..Len(subs) : subs[s] \in SubRecord
  BY <1>1, ElementOfSeq
<1>3. subs' = [s \in 1..Len(subs) |-> IF subscriptions[subs[s].agent] = s
                                      THEN TrySend(subs[s], i) ELSE subs[s]]
  BY <1>1 DEF BroadcastIntent
<1>4. DOMAIN subs' = 1..Len(subs) /\ subs' = [s \in 1..Len(subs) |-> subs'[s]]
  BY <1>3
<1>5. ASSUME NEW s \in 1..Len(subs)
      PROVE  /\ subs'[s] \in SubRecord /\ subs'[s].agent = subs[s].agent
             /\ subs[s].got \cup subs[s].missed \subseteq subs'[s].got \cup subs'[s].missed
             /\ subscriptions[subs[s].agent] = s => i \in subs'[s].got \cup subs'[s].missed
  <2>1. CASE subscriptions[subs[s].agent] = s
    <3>1. subs'[s] = TrySend(subs[s], i)
      BY <1>3, <2>1
    <3> QED
      BY <1>2, <3>1, TrySendKeeps
  <2>2. CASE subscriptions[subs[s].agent] # s
    <3>1. subs'[s] = subs[s]
      BY <1>3, <2>2
    <3> QED
      BY <1>2, <2>2, <3>1
  <2> QED
    BY <2>1, <2>2
<1> QED
  BY <1>4, <1>5, EachGrows

\* What sendPendingIntents sends next, and what a full channel misses.
LEMMA SendGrows ==
  ASSUME FeedType, NEW g \in senders, SendPending(g)
  PROVE  /\ SubsGrow
         /\ \/ UNCHANGED <<subs, senders>>
            \/ \E i \in g.left :
                 /\ i \in subs'[g.sub].got \cup subs'[g.sub].missed
                 /\ senders' = (senders \ {g}) \cup {[g EXCEPT !.left = @ \ {i}]}
            \/ /\ g.left \subseteq subs'[g.sub].got \cup subs'[g.sub].missed
               /\ senders' = senders \ {g}
<1> DEFINE k == subs[g.sub]
<1>1. g.sub \in 1..Len(subs) /\ g.left \subseteq FeedIntents
  BY DEF FeedType, SenderRecord
<1>2. subs \in Seq(SubRecord) /\ DOMAIN subs = 1..Len(subs)
  BY DEF FeedType
<1>3. k \in SubRecord
  BY <1>1, <1>2, ElementOfSeq
<1>4. CASE UNCHANGED <<subs, senders>>
  <2>1. /\ DOMAIN subs' = 1..Len(subs) /\ subs' = [s \in 1..Len(subs) |-> subs'[s]]
        /\ \A s \in 1..Len(subs) : subs'[s] \in SubRecord /\ subs'[s] = subs[s]
    BY <1>2, <1>4, ElementOfSeq
  <2> QED
    BY <1>4, <2>1, EachGrows
<1>5. CASE \E i \in g.left :
             /\ subs' = [subs EXCEPT ![g.sub] =
                           IF Len(@.queued) < ChannelSize THEN TrySend(@, i)
                           ELSE Misses(@, g.left)]
             /\ senders' = (senders \ {g}) \cup
                           IF Len(subs[g.sub].queued) < ChannelSize
                           THEN {[g EXCEPT !.left = @ \ {i}]} ELSE {}
  <2>1. PICK i \in g.left :
             /\ subs' = [subs EXCEPT ![g.sub] =
                           IF Len(@.queued) < ChannelSize THEN TrySend(@, i)
                           ELSE Misses(@, g.left)]
             /\ senders' = (senders \ {g}) \cup
                           IF Len(subs[g.sub].queued) < ChannelSize
                           THEN {[g EXCEPT !.left = @ \ {i}]} ELSE {}
    BY <1>5
  <2>2. CASE Len(k.queued) < ChannelSize
    <3> DEFINE r == TrySend(k, i)
    <3>1. subs' = [subs EXCEPT ![g.sub] = r] /\ subs'[g.sub] = r
      BY <1>1, <1>2, <2>1, <2>2
    <3>2. senders' = (senders \ {g}) \cup {[g EXCEPT !.left = @ \ {i}]}
      BY <2>1, <2>2
    <3>3. /\ r \in SubRecord /\ r.agent = k.agent /\ i \in r.got \cup r.missed
          /\ k.got \cup k.missed \subseteq r.got \cup r.missed
      BY <1>1, <1>3, TrySendKeeps
    <3> HIDE DEF r
    <3> QED
      BY <1>1, <3>1, <3>2, <3>3, OneGrows
  <2>3. CASE ~(Len(k.queued) < ChannelSize)
    <3> DEFINE r == Misses(k, g.left)
    <3>1. subs' = [subs EXCEPT ![g.sub] = r] /\ subs'[g.sub] = r
      BY <1>1, <1>2, <2>1, <2>3
    <3>2. senders' = senders \ {g}
      BY <2>1, <2>3
    <3>3. /\ r \in SubRecord /\ r.agent = k.agent /\ g.left \subseteq r.got \cup r.missed
          /\ k.got \cup k.missed \subseteq r.got \cup r.missed
      BY <1>1, <1>3 DEF Misses, SubRecord
    <3> HIDE DEF r
    <3> QED
      BY <1>1, <3>1, <3>2, <3>3, OneGrows
  <2> QED
    BY <2>2, <2>3
<1> QED
  BY <1>4, <1>5 DEF SendPending

LEMMA FeedGrows == FeedType /\ [FeedNext]_feedVars => SubsGrow
<1> SUFFICES ASSUME FeedType, [FeedNext]_feedVars PROVE SubsGrow
  OBVIOUS
<1>1. subs \in Seq(SubRecord) /\ Len(subs) \in Nat /\ DOMAIN subs = 1..Len(subs)
  BY DEF FeedType
<1>2. \A s \in 1..Len(subs) : subs[s] \in SubRecord
  BY <1>1, ElementOfSeq
<1>3. CASE UNCHANGED subs
  BY <1>1, <1>3 DEF SubsGrow
<1>4. ASSUME NEW a \in Subscribers, Subscribe(a)
      PROVE  SubsGrow
  <2> DEFINE r == [agent |-> a, queued |-> <<>>, got |-> {}, missed |-> {}, closed |-> FALSE]
  <2>1. r \in SubRecord
    BY DEF SubRecord
  <2>2. subs' = Append(Closed(a), r)
    BY <1>4 DEF Subscribe
  <2> HIDE DEF r
  <2>3. /\ subs' \in Seq(SubRecord) /\ Len(subs') = Len(subs) + 1
        /\ \A s \in 1..Len(subs) : subs'[s] = Closed(a)[s]
    BY <1>1, <2>1, <2>2, ClosedKeeps, AppendProperties
  <2> QED
    BY <1>1, <2>3, ClosedKeeps DEF SubsGrow
<1>5. ASSUME NEW a \in Subscribers, Unsubscribe(a)
      PROVE  SubsGrow
  <2>1. subs' = Closed(a)
    BY <1>5 DEF Unsubscribe
  <2> QED
    BY <1>1, <2>1, ClosedKeeps DEF SubsGrow
<1>6. ASSUME NEW s \in DOMAIN subs, ReadChannel(s)
      PROVE  SubsGrow
  <2> DEFINE q == Tail(subs[s].queued)
             r == [subs[s] EXCEPT !.queued = q]
  <2>1. subs' = [subs EXCEPT ![s] = r] /\ subs[s].queued # <<>>
    BY <1>6 DEF ReadChannel
  <2>2. q \in Seq(FeedIntents)
    <3>1. subs[s].queued \in Seq(FeedIntents)
      BY <1>1, <1>2 DEF SubRecord
    <3> QED
      BY <2>1, <3>1, HeadTailProperties
  <2> HIDE DEF q
  <2>3. /\ r \in SubRecord /\ r.agent = subs[s].agent /\ r.got = subs[s].got
        /\ r.missed = subs[s].missed
    BY <1>1, <1>2, <2>2 DEF SubRecord
  <2> HIDE DEF r
  <2> QED
    BY <1>1, <2>1, <2>3, OneGrows
<1>7. CASE \/ \E i \in FeedIntents : AppearAtRoot(i) \/ CleanupProcessed(i)
           \/ \E p \in Pullers : Fetch(p) \/ FilterFetched(p) \/ PullDone(p)
           \/ \E g \in senders : CopyPending(g) \/ SendDone(g)
           \/ UNCHANGED feedVars
  BY <1>3, <1>7 DEF AppearAtRoot, CleanupProcessed, Fetch, FilterFetched, PullDone, CopyPending,
                    SendDone, feedVars
<1> QED
  BY <1>4, <1>5, <1>6, <1>7, BroadcastGrows, SendGrows DEF FeedNext

\* The senders are about subscriptions that exist, and have intents left to send.
LEMMA FeedTyped == FeedType /\ [FeedNext]_feedVars => FeedType'
<1> SUFFICES ASSUME FeedType, [FeedNext]_feedVars PROVE FeedType'
  OBVIOUS
<1>1. SubsGrow
  BY FeedGrows
<1>2. /\ subs' \in Seq(SubRecord) /\ Len(subs) \in Nat /\ Len(subs') \in Nat
      /\ 1..Len(subs) \subseteq 1..Len(subs') /\ 0..Len(subs) \subseteq 0..Len(subs')
  BY <1>1 DEF SubsGrow, FeedType
\* What every step but a subscription does to senders and subscriptions.
<1>3. ASSUME atRoot' \subseteq FeedIntents, pendingIntents' \subseteq FeedIntents,
             puller' \in [Pullers -> PullerRecord],
             \A g \in senders' : g \in senders \/ g \in SenderRecord,
             subscriptions' \in [Subscribers -> 0..Len(subs')],
             broadcasts' \in [FeedIntents -> Nat], forgets' \in [FeedIntents -> Nat]
      PROVE  FeedType'
  <2>1. senders' \subseteq SenderRecord'
    BY <1>2, <1>3 DEF SenderRecord, FeedType
  <2> QED
    BY <1>2, <1>3, <2>1 DEF FeedType
<1>4. /\ atRoot \subseteq FeedIntents /\ pendingIntents \subseteq FeedIntents
      /\ puller \in [Pullers -> PullerRecord] /\ senders \subseteq SenderRecord
      /\ subscriptions \in [Subscribers -> 0..Len(subs')]
      /\ broadcasts \in [FeedIntents -> Nat] /\ forgets \in [FeedIntents -> Nat]
  BY <1>2 DEF FeedType
<1>5. ASSUME NEW p \in Pullers, Fetch(p) \/ FilterFetched(p) \/ PullDone(p)
      PROVE  FeedType'
  <2>1. ASSUME NEW r \in PullerRecord, puller' = [puller EXCEPT ![p] = r]
        PROVE  puller' \in [Pullers -> PullerRecord]
    BY <1>4, <2>1
  <2>2. puller' \in [Pullers -> PullerRecord]
    <3>1. CASE Fetch(p)
      <4>1. PICK S \in {atRoot, {}} : puller' = [puller EXCEPT ![p] = [pc |-> "fetched", set |-> S]]
        BY <3>1 DEF Fetch
      <4>2. [pc |-> "fetched", set |-> S] \in PullerRecord
        BY <1>4 DEF PullerRecord
      <4> QED
        BY <2>1, <4>1, <4>2
    <3>2. CASE FilterFetched(p)
      <4> DEFINE r == [pc |-> "broadcast", set |-> NewAmong(puller[p].set)]
      <4>1. r \in PullerRecord
        BY <1>4 DEF NewAmong, PullerRecord
      <4>2. puller' = [puller EXCEPT ![p] = r]
        BY <3>2 DEF FilterFetched
      <4> HIDE DEF r
      <4> QED
        BY <2>1, <4>1, <4>2
    <3>3. CASE PullDone(p)
      <4>1. NotPulling \in PullerRecord
        BY DEF NotPulling, PullerRecord
      <4> QED
        BY <2>1, <3>3, <4>1 DEF PullDone
    <3> QED
      BY <1>5, <3>1, <3>2, <3>3
  <2>3. pendingIntents' \subseteq FeedIntents
    <3>1. CASE FilterFetched(p)
      BY <1>4, <3>1, PullFilters
    <3>2. CASE Fetch(p) \/ PullDone(p)
      BY <1>4, <3>2 DEF Fetch, PullDone
    <3> QED
      BY <1>5, <3>1, <3>2
  <2>4. UNCHANGED <<atRoot, senders, subscriptions, broadcasts, forgets>>
    BY <1>5 DEF Fetch, FilterFetched, PullDone
  <2> QED
    BY <1>3, <1>4, <2>2, <2>3, <2>4
<1>6. ASSUME NEW p \in Pullers, NEW i \in FeedIntents, BroadcastIntent(p, i)
      PROVE  FeedType'
  <2> DEFINE r == [puller[p] EXCEPT !.set = @ \ {i}]
  <2>1. r \in PullerRecord
    BY <1>4 DEF PullerRecord
  <2>2. puller' = [puller EXCEPT ![p] = r]
    BY <1>6 DEF BroadcastIntent
  <2> HIDE DEF r
  <2>3. puller' \in [Pullers -> PullerRecord]
    BY <1>4, <2>1, <2>2
  <2>4. broadcasts' \in [FeedIntents -> Nat]
    BY <1>4, <1>6 DEF BroadcastIntent
  <2>5. UNCHANGED <<atRoot, pendingIntents, senders, subscriptions, forgets>>
    BY <1>6 DEF BroadcastIntent
  <2> QED
    BY <1>3, <1>4, <2>3, <2>4, <2>5
<1>7. ASSUME NEW a \in Subscribers, Subscribe(a)
      PROVE  FeedType'
  <2>1. Len(subs') = Len(subs) + 1
    BY <1>2, <1>7, ClosedKeeps, AppendProperties DEF Subscribe
  <2>2. subscriptions' \in [Subscribers -> 0..Len(subs')]
    <3>1. Len(subs) + 1 \in 0..Len(subs')
      BY <1>2, <2>1
    <3> QED
      BY <1>4, <1>7, <3>1 DEF Subscribe
  <2>3. senders' \subseteq SenderRecord'
    <3>1. SenderRecord \subseteq SenderRecord'
      BY <1>2 DEF SenderRecord
    <3>2. [sub |-> Len(subs) + 1, pc |-> "copy", left |-> {}] \in SenderRecord'
      BY <1>2, <2>1 DEF SenderRecord
    <3> QED
      BY <1>4, <1>7, <3>1, <3>2 DEF Subscribe
  <2>4. UNCHANGED <<atRoot, pendingIntents, puller, broadcasts, forgets>>
    BY <1>7 DEF Subscribe
  <2> QED
    BY <1>2, <1>4, <2>2, <2>3, <2>4 DEF FeedType
<1>8. ASSUME NEW a \in Subscribers, Unsubscribe(a)
      PROVE  FeedType'
  <2>1. 0 \in 0..Len(subs')
    BY <1>2
  <2>2. subscriptions' \in [Subscribers -> 0..Len(subs')]
    BY <1>4, <1>8, <2>1 DEF Unsubscribe, NoSubscription
  <2>3. UNCHANGED <<atRoot, pendingIntents, puller, senders, broadcasts, forgets>>
    BY <1>8 DEF Unsubscribe
  <2> QED
    BY <1>3, <1>4, <2>2, <2>3
<1>9. ASSUME NEW g \in senders, CopyPending(g) \/ SendPending(g) \/ SendDone(g)
      PROVE  FeedType'
  <2>1. g \in SenderRecord
    BY <1>4
  <2>2. \A h \in senders' : h \in senders \/ h \in SenderRecord
    <3>1. CASE CopyPending(g)
      <4>1. [g EXCEPT !.pc = "send", !.left = pendingIntents] \in SenderRecord
        BY <1>4, <2>1 DEF SenderRecord
      <4> QED
        BY <3>1, <4>1 DEF CopyPending
    <3>2. CASE SendPending(g)
      <4>1. \A i : [g EXCEPT !.left = @ \ {i}] \in SenderRecord
        BY <2>1 DEF SenderRecord
      <4> QED
        BY <3>2, <4>1, SendGrows
    <3>3. CASE SendDone(g)
      BY <3>3 DEF SendDone
    <3> QED
      BY <1>9, <3>1, <3>2, <3>3
  <2>3. UNCHANGED <<atRoot, pendingIntents, puller, subscriptions, broadcasts, forgets>>
    BY <1>9 DEF CopyPending, SendPending, SendDone
  <2> QED
    BY <1>3, <1>4, <2>2, <2>3
<1>10. ASSUME NEW i \in FeedIntents, AppearAtRoot(i) \/ CleanupProcessed(i)
       PROVE  FeedType'
  <2>1. UNCHANGED <<pendingIntents, puller, senders, subscriptions, broadcasts>>
    BY <1>10 DEF AppearAtRoot, CleanupProcessed
  <2>2. atRoot' \subseteq FeedIntents /\ forgets' \in [FeedIntents -> Nat]
    BY <1>4, <1>10 DEF AppearAtRoot, CleanupProcessed
  <2> QED
    BY <1>3, <1>4, <2>1, <2>2
<1>11. CASE (\E s \in DOMAIN subs : ReadChannel(s)) \/ UNCHANGED feedVars
  <2>1. UNCHANGED <<atRoot, pendingIntents, puller, senders, subscriptions, broadcasts, forgets>>
    BY <1>11 DEF ReadChannel, feedVars
  <2> QED
    BY <1>3, <1>4, <2>1
<1> QED
  BY <1>5, <1>6, <1>7, <1>8, <1>9, <1>10, <1>11 DEF FeedNext

\* A processed record, there or dropped, for each broadcast made or due.
LEMMA FeedCounted ==
  FeedType /\ BroadcastsCounted /\ [FeedNext]_feedVars => BroadcastsCounted'
<1> SUFFICES ASSUME FeedType, BroadcastsCounted, [FeedNext]_feedVars,
                    NEW i \in FeedIntents
             PROVE  broadcasts'[i] + Cardinality(Broadcasting(i)') <=
                      forgets'[i] + IF i \in processedIntents' THEN 1 ELSE 0
  BY DEF BroadcastsCounted, Broadcasting
<1> DEFINE n == Cardinality(Broadcasting(i))
<1>1. /\ broadcasts[i] \in Nat /\ forgets[i] \in Nat /\ n \in Nat
      /\ IsFiniteSet(Broadcasting(i))
      /\ broadcasts[i] + n <= forgets[i] + IF i \in processedIntents THEN 1 ELSE 0
  BY BroadcastingFinite DEF FeedType, BroadcastsCounted
<1>2. CASE /\ Broadcasting(i)' = Broadcasting(i)
           /\ UNCHANGED <<broadcasts, forgets, processedIntents>>
  BY <1>1, <1>2
<1>3. ASSUME NEW p \in Pullers, FilterFetched(p)
      PROVE  broadcasts'[i] + Cardinality(Broadcasting(i)') <=
               forgets'[i] + IF i \in processedIntents' THEN 1 ELSE 0
  <2> DEFINE new == puller[p].set \ processedIntents
  <2>1. UNCHANGED <<broadcasts, forgets>>
    BY <1>3 DEF FilterFetched
  <2>2. /\ processedIntents' = processedIntents \cup new /\ p \notin Broadcasting(i)
        /\ Broadcasting(i)' = Broadcasting(i) \cup IF i \in new THEN {p} ELSE {}
    BY <1>3, PullFilters
  <2>3. CASE i \in new
    <3>1. Cardinality(Broadcasting(i)') = n + 1
      <4>1. Broadcasting(i)' = Broadcasting(i) \cup {p}
        BY <2>2, <2>3
      <4> QED
        BY <1>1, <2>2, <4>1, FS_AddElement
    <3>2. i \notin processedIntents /\ i \in processedIntents'
      BY <2>2, <2>3
    <3> HIDE DEF new
    <3> QED
      BY <1>1, <2>1, <3>1, <3>2
  <2>4. CASE i \notin new
    <3>1. Broadcasting(i)' = Broadcasting(i) /\ (i \in processedIntents' <=> i \in processedIntents)
      BY <2>2, <2>4
    <3> HIDE DEF new
    <3> QED
      BY <1>1, <2>1, <3>1
  <2> QED
    BY <2>3, <2>4
<1>4. ASSUME NEW p \in Pullers, NEW j \in FeedIntents, BroadcastIntent(p, j)
      PROVE  broadcasts'[i] + Cardinality(Broadcasting(i)') <=
               forgets'[i] + IF i \in processedIntents' THEN 1 ELSE 0
  <2>1. UNCHANGED <<forgets, processedIntents>> /\ broadcasts' = [broadcasts EXCEPT ![j] = @ + 1]
    BY <1>4 DEF BroadcastIntent
  <2>2. CASE j = i
    <3>1. broadcasts'[i] = broadcasts[i] + 1
      BY <2>1, <2>2 DEF FeedType
    <3>2. p \in Broadcasting(i) /\ Broadcasting(i)' = Broadcasting(i) \ {p}
      BY <1>4, <2>2, BroadcastTaken
    <3>3. Cardinality(Broadcasting(i)') = n - 1
      BY <1>1, <3>2, FS_RemoveElement
    <3> QED
      BY <1>1, <2>1, <3>1, <3>3
  <2>3. CASE j # i
    <3>1. broadcasts'[i] = broadcasts[i]
      BY <2>1, <2>3 DEF FeedType
    <3>2. Broadcasting(i)' = Broadcasting(i)
      BY <1>4, <2>3, BroadcastTaken
    <3> QED
      BY <1>1, <2>1, <3>1, <3>2
  <2> QED
    BY <2>2, <2>3
<1>5. ASSUME NEW j \in FeedIntents, CleanupProcessed(j)
      PROVE  broadcasts'[i] + Cardinality(Broadcasting(i)') <=
               forgets'[i] + IF i \in processedIntents' THEN 1 ELSE 0
  <2>1. /\ UNCHANGED <<broadcasts, puller>> /\ j \in processedIntents
        /\ processedIntents' = processedIntents \ {j} /\ forgets' = [forgets EXCEPT ![j] = @ + 1]
    BY <1>5 DEF CleanupProcessed
  <2>2. Broadcasting(i)' = Broadcasting(i)
    BY <2>1 DEF Broadcasting
  <2>3. forgets'[i] = forgets[i] + IF j = i THEN 1 ELSE 0
    BY <1>1, <2>1 DEF FeedType
  <2> QED
    BY <1>1, <2>1, <2>2, <2>3
<1>6. ASSUME NEW p \in Pullers, Fetch(p) \/ PullDone(p)
      PROVE  broadcasts'[i] + Cardinality(Broadcasting(i)') <=
               forgets'[i] + IF i \in processedIntents' THEN 1 ELSE 0
  <2>1. Broadcasting(i)' = Broadcasting(i)
    BY <1>6, PullEnds
  <2> QED
    BY <1>2, <1>6, <2>1 DEF Fetch, PullDone
<1>7. CASE UNCHANGED <<puller, broadcasts, forgets, processedIntents>>
  BY <1>2, <1>7 DEF Broadcasting
<1>8. CASE \/ \E j \in FeedIntents : AppearAtRoot(j)
           \/ \E a \in Subscribers : Subscribe(a) \/ Unsubscribe(a)
           \/ \E g \in senders : CopyPending(g) \/ SendPending(g) \/ SendDone(g)
           \/ \E s \in DOMAIN subs : ReadChannel(s)
           \/ UNCHANGED feedVars
  BY <1>7, <1>8 DEF AppearAtRoot, Subscribe, Unsubscribe, CopyPending, SendPending, SendDone,
                    ReadChannel, feedVars
<1> QED
  BY <1>3, <1>4, <1>5, <1>6, <1>8 DEF FeedNext

\* What is or was broadcast is pending.
LEMMA FeedPending ==
  FeedType /\ BroadcastIsPending /\ [FeedNext]_feedVars => BroadcastIsPending'
<1> SUFFICES ASSUME FeedType, BroadcastIsPending, [FeedNext]_feedVars,
                    NEW i \in FeedIntents, broadcasts'[i] > 0 \/ Broadcasting(i)' # {}
             PROVE  i \in pendingIntents'
  BY DEF BroadcastIsPending, Broadcasting
<1>1. broadcasts[i] > 0 \/ Broadcasting(i) # {} => i \in pendingIntents
  BY DEF BroadcastIsPending
<1>2. ASSUME NEW p \in Pullers, FilterFetched(p)
      PROVE  i \in pendingIntents'
  <2> DEFINE new == puller[p].set \ processedIntents
  <2>1. /\ pendingIntents' = pendingIntents \cup new
        /\ Broadcasting(i)' = Broadcasting(i) \cup IF i \in new THEN {p} ELSE {}
    BY <1>2, PullFilters
  <2>2. broadcasts' = broadcasts
    BY <1>2 DEF FilterFetched
  <2> HIDE DEF new
  <2> QED
    BY <1>1, <2>1, <2>2
<1>3. ASSUME NEW p \in Pullers, NEW j \in FeedIntents, BroadcastIntent(p, j)
      PROVE  i \in pendingIntents'
  <2>1. pendingIntents' = pendingIntents /\ broadcasts' = [broadcasts EXCEPT ![j] = @ + 1]
    BY <1>3 DEF BroadcastIntent
  <2>2. CASE j = i
    BY <1>1, <1>3, <2>1, <2>2, BroadcastTaken
  <2>3. CASE j # i
    <3>1. broadcasts'[i] = broadcasts[i]
      BY <2>1, <2>3 DEF FeedType
    <3> QED
      BY <1>1, <1>3, <2>1, <2>3, <3>1, BroadcastTaken
  <2> QED
    BY <2>2, <2>3
<1>4. ASSUME NEW p \in Pullers, Fetch(p) \/ PullDone(p)
      PROVE  i \in pendingIntents'
  BY <1>1, <1>4, PullEnds DEF Fetch, PullDone
<1>5. CASE \/ \E j \in FeedIntents : AppearAtRoot(j) \/ CleanupProcessed(j)
           \/ \E a \in Subscribers : Subscribe(a) \/ Unsubscribe(a)
           \/ \E g \in senders : CopyPending(g) \/ SendPending(g) \/ SendDone(g)
           \/ \E s \in DOMAIN subs : ReadChannel(s)
           \/ UNCHANGED feedVars
  <2>1. UNCHANGED <<pendingIntents, broadcasts, puller>>
    BY <1>5 DEF AppearAtRoot, CleanupProcessed, Subscribe, Unsubscribe, CopyPending, SendPending,
                SendDone, ReadChannel, feedVars
  <2> QED
    BY <1>1, <2>1 DEF Broadcasting
<1> QED
  BY <1>2, <1>3, <1>4, <1>5 DEF FeedNext

\* A subscription that stays current is reached by what reached it, or would have.
LEMMA StillReaches ==
  ASSUME FeedType, SubsGrow, PendingReachesAll,
         NEW a \in Subscribers, NEW s, s = subscriptions[a], s # NoSubscription,
         NEW i, i \in pendingIntents,
         WillBeSent(s, i) => WillBeSent(s, i)' \/ i \in subs'[s].got \cup subs'[s].missed,
         Broadcasting(i) # {} => Broadcasting(i)' # {} \/ i \in subs'[s].got \cup subs'[s].missed
  PROVE  Reaches(s, i)'
<1>1. s \in 1..Len(subs)
  BY DEF FeedType, NoSubscription
<1>2. Reaches(s, i)
  BY DEF PendingReachesAll
<1>3. i \in subs[s].got \cup subs[s].missed => i \in subs'[s].got \cup subs'[s].missed
  BY <1>1 DEF SubsGrow
<1> QED
  BY <1>2, <1>3 DEF Reaches

\* What a sender has left, another has or it is there.
LEMMA SenderKeeps ==
  ASSUME FeedType, NEW g \in senders, CopyPending(g) \/ SendPending(g) \/ SendDone(g),
         NEW s, NEW i \in pendingIntents, WillBeSent(s, i)
  PROVE  WillBeSent(s, i)' \/ i \in subs'[s].got \cup subs'[s].missed
<1>1. PICK h \in senders : h.sub = s /\ (h.pc = "copy" \/ i \in h.left)
  BY DEF WillBeSent
<1>2. g \in SenderRecord
  BY DEF FeedType
<1>3. CASE h \in senders'
  BY <1>1, <1>3 DEF WillBeSent
<1>4. CASE h = g /\ CopyPending(g)
  <2> DEFINE k == [g EXCEPT !.pc = "send", !.left = pendingIntents]
  <2>1. k \in senders' /\ k.sub = s /\ i \in k.left
    BY <1>1, <1>2, <1>4 DEF CopyPending, SenderRecord
  <2> HIDE DEF k
  <2> QED
    BY <2>1 DEF WillBeSent
<1>5. CASE h = g /\ SendPending(g)
  <2>1. g.pc = "send" /\ i \in g.left
    BY <1>1, <1>5 DEF SendPending
  <2>2. CASE UNCHANGED <<subs, senders>>
    BY <1>1, <2>2 DEF WillBeSent
  <2>3. ASSUME NEW j \in g.left, j \in subs'[g.sub].got \cup subs'[g.sub].missed,
               senders' = (senders \ {g}) \cup {[g EXCEPT !.left = @ \ {j}]}
        PROVE  WillBeSent(s, i)' \/ i \in subs'[s].got \cup subs'[s].missed
    <3> DEFINE k == [g EXCEPT !.left = @ \ {j}]
    <3>1. k \in senders' /\ k.sub = s /\ k.left = g.left \ {j}
      BY <1>1, <1>2, <1>5, <2>3 DEF SenderRecord
    <3> HIDE DEF k
    <3>2. CASE i = j
      BY <1>1, <1>5, <2>3, <3>2
    <3>3. CASE i # j
      BY <2>1, <3>1, <3>3 DEF WillBeSent
    <3> QED
      BY <3>2, <3>3
  <2>4. CASE g.left \subseteq subs'[g.sub].got \cup subs'[g.sub].missed
    BY <1>1, <1>5, <2>1, <2>4
  <2> QED
    BY <1>5, <2>2, <2>3, <2>4, SendGrows
<1>6. CASE h = g /\ SendDone(g)
  BY <1>1, <1>6 DEF SendDone
<1>7. h \in senders' \/ h = g
  BY <1>1, SendGrows DEF CopyPending, SendDone
<1> QED
  BY <1>3, <1>4, <1>5, <1>6, <1>7

LEMMA FeedReaches ==
  FeedIInv /\ [FeedNext]_feedVars => PendingReachesAll'
<1> SUFFICES ASSUME FeedIInv, [FeedNext]_feedVars,
                    NEW a \in Subscribers, NEW s, s = subscriptions'[a], s # NoSubscription
             PROVE  subs'[s].agent = a /\ \A i \in pendingIntents' : Reaches(s, i)'
  BY DEF PendingReachesAll, Reaches, WillBeSent, Broadcasting
<1>1. FeedType /\ SubsGrow /\ PendingReachesAll
  BY FeedGrows DEF FeedIInv
\* A subscription that was current before the step.
<1>2. ASSUME s = subscriptions[a],
             \A i \in pendingIntents' :
               \/ Broadcasting(i)' # {}
               \/ /\ i \in pendingIntents
                  /\ WillBeSent(s, i) => WillBeSent(s, i)' \/ i \in subs'[s].got \cup subs'[s].missed
                  /\ Broadcasting(i) # {} =>
                       Broadcasting(i)' # {} \/ i \in subs'[s].got \cup subs'[s].missed
      PROVE  subs'[s].agent = a /\ \A i \in pendingIntents' : Reaches(s, i)'
  <2>1. s \in 1..Len(subs) /\ subs[s].agent = a
    BY <1>1, <1>2 DEF FeedType, PendingReachesAll, NoSubscription
  <2>2. subs'[s].agent = a
    BY <1>1, <2>1 DEF SubsGrow
  <2>3. ASSUME NEW i \in pendingIntents'
        PROVE  Reaches(s, i)'
    <3>1. CASE Broadcasting(i)' # {}
      BY <3>1 DEF Reaches
    <3>2. CASE Broadcasting(i)' = {}
      BY <1>1, <1>2, <3>2, StillReaches
    <3> QED
      BY <3>1, <3>2
  <2> QED
    BY <2>2, <2>3
<1>3. ASSUME NEW p \in Pullers, Fetch(p) \/ FilterFetched(p) \/ PullDone(p)
      PROVE  subs'[s].agent = a /\ \A i \in pendingIntents' : Reaches(s, i)'
  <2>1. s = subscriptions[a] /\ senders' = senders
    BY <1>3 DEF Fetch, FilterFetched, PullDone
  <2>2. \A i : WillBeSent(s, i) => WillBeSent(s, i)'
    BY <2>1 DEF WillBeSent
  <2>3. ASSUME NEW i \in pendingIntents'
        PROVE  Broadcasting(i)' # {} \/ (i \in pendingIntents /\ Broadcasting(i) = {})
    <3>1. CASE FilterFetched(p)
      <4>1. i \in FeedIntents
        BY <1>1, <3>1, PullFilters DEF FeedType
      <4> QED
        BY <1>1, <3>1, <4>1, PullFilters
    <3>2. CASE Fetch(p) \/ PullDone(p)
      <4>1. pendingIntents' = pendingIntents
        BY <3>2 DEF Fetch, PullDone
      <4> QED
        BY <1>1, <3>2, <4>1, PullEnds
    <3> QED
      BY <1>3, <3>1, <3>2
  <2> QED
    BY <1>2, <2>1, <2>2, <2>3
<1>4. ASSUME NEW p \in Pullers, NEW j \in FeedIntents, BroadcastIntent(p, j)
      PROVE  subs'[s].agent = a /\ \A i \in pendingIntents' : Reaches(s, i)'
  <2>1. s = subscriptions[a] /\ senders' = senders /\ pendingIntents' = pendingIntents
    BY <1>4 DEF BroadcastIntent
  <2>2. \A i : WillBeSent(s, i) => WillBeSent(s, i)'
    BY <2>1 DEF WillBeSent
  <2>3. s \in 1..Len(subs) /\ subs[s].agent = a
    BY <1>1, <2>1 DEF FeedType, PendingReachesAll, NoSubscription
  <2>4. j \in subs'[s].got \cup subs'[s].missed
    BY <1>1, <1>4, <2>1, <2>3, BroadcastGrows
  <2>5. \A i : i # j => Broadcasting(i)' = Broadcasting(i)
    BY <1>1, <1>4, BroadcastTaken
  <2> QED
    BY <1>2, <2>1, <2>2, <2>4, <2>5
<1>5. ASSUME NEW b \in Subscribers, Subscribe(b)
      PROVE  subs'[s].agent = a /\ \A i \in pendingIntents' : Reaches(s, i)'
  <2> DEFINE r == [agent |-> b, queued |-> <<>>, got |-> {}, missed |-> {}, closed |-> FALSE]
             g == [sub |-> Len(subs) + 1, pc |-> "copy", left |-> {}]
  <2>1. /\ subs' = Append(Closed(b), r) /\ senders' = senders \cup {g}
        /\ subscriptions' = [subscriptions EXCEPT ![b] = Len(subs) + 1]
        /\ pendingIntents' = pendingIntents /\ puller' = puller
    BY <1>5 DEF Subscribe
  <2>2. g.sub = Len(subs) + 1 /\ g.pc = "copy" /\ r.agent = b /\ r \in SubRecord
    BY DEF SubRecord
  <2> HIDE DEF r, g
  <2>3. CASE b = a
    <3>1. s = Len(subs) + 1
      BY <1>1, <2>1, <2>3 DEF FeedType
    <3>2. subs'[s] = r
      BY <1>1, <2>1, <2>2, <3>1, ClosedKeeps, AppendProperties
    <3>3. \A i : WillBeSent(s, i)'
      BY <2>1, <2>2, <3>1 DEF WillBeSent
    <3> QED
      BY <2>2, <2>3, <3>2, <3>3 DEF Reaches
  <2>4. CASE b # a
    <3>1. s = subscriptions[a]
      BY <1>1, <2>1, <2>4 DEF FeedType
    <3>2. \A i : WillBeSent(s, i) => WillBeSent(s, i)'
      BY <2>1 DEF WillBeSent
    <3>3. \A i : Broadcasting(i)' = Broadcasting(i)
      BY <2>1 DEF Broadcasting
    <3> QED
      BY <1>2, <2>1, <3>1, <3>2, <3>3
  <2> QED
    BY <2>3, <2>4
<1>6. ASSUME NEW b \in Subscribers, Unsubscribe(b)
      PROVE  subs'[s].agent = a /\ \A i \in pendingIntents' : Reaches(s, i)'
  <2>1. /\ subscriptions' = [subscriptions EXCEPT ![b] = NoSubscription]
        /\ UNCHANGED <<senders, pendingIntents, puller>>
    BY <1>6 DEF Unsubscribe
  <2>2. s = subscriptions[a]
    BY <1>1, <2>1 DEF FeedType
  <2>3. \A i : /\ WillBeSent(s, i) => WillBeSent(s, i)'
               /\ Broadcasting(i)' = Broadcasting(i)
    BY <2>1 DEF WillBeSent, Broadcasting
  <2> QED
    BY <1>2, <2>1, <2>2, <2>3
<1>7. ASSUME NEW g \in senders, CopyPending(g) \/ SendPending(g) \/ SendDone(g)
      PROVE  subs'[s].agent = a /\ \A i \in pendingIntents' : Reaches(s, i)'
  <2>1. UNCHANGED <<subscriptions, pendingIntents, puller>>
    BY <1>7 DEF CopyPending, SendPending, SendDone
  <2>2. \A i \in pendingIntents :
          WillBeSent(s, i) => WillBeSent(s, i)' \/ i \in subs'[s].got \cup subs'[s].missed
    BY <1>1, <1>7, SenderKeeps
  <2>3. \A i : Broadcasting(i)' = Broadcasting(i)
    BY <2>1 DEF Broadcasting
  <2> QED
    BY <1>2, <2>1, <2>2, <2>3
<1>8. CASE \/ \E i \in FeedIntents : AppearAtRoot(i) \/ CleanupProcessed(i)
           \/ \E n \in DOMAIN subs : ReadChannel(n)
           \/ UNCHANGED feedVars
  <2>1. UNCHANGED <<subscriptions, senders, pendingIntents, puller>>
    BY <1>8 DEF AppearAtRoot, CleanupProcessed, ReadChannel, feedVars
  <2>2. \A i : /\ WillBeSent(s, i) => WillBeSent(s, i)'
               /\ Broadcasting(i)' = Broadcasting(i)
    BY <2>1 DEF WillBeSent, Broadcasting
  <2> QED
    BY <1>2, <2>1, <2>2
<1> QED
  BY <1>3, <1>4, <1>5, <1>6, <1>7, <1>8 DEF FeedNext

LEMMA NextFeed == FeedIInv /\ [FeedNext]_feedVars => FeedIInv'
BY FeedTyped, FeedCounted, FeedPending, FeedReaches DEF FeedIInv

LEMMA InitFeed == FeedInit => FeedIInv
<1> SUFFICES ASSUME FeedInit PROVE FeedIInv
  OBVIOUS
<1>1. NotPulling \in PullerRecord /\ NotPulling.pc = "idle"
  BY DEF NotPulling, PullerRecord
<1>2. FeedType
  BY <1>1 DEF FeedInit, FeedType, NoSubscription
<1>3. \A i : Broadcasting(i) = {}
  BY <1>1 DEF FeedInit, Broadcasting
<1>4. BroadcastsCounted
  <2>1. \A i : Cardinality(Broadcasting(i)) = 0
    BY <1>3, FS_EmptySet
  <2> QED
    BY <2>1 DEF FeedInit, BroadcastsCounted
<1>5. BroadcastIsPending /\ PendingReachesAll
  BY <1>3 DEF FeedInit, BroadcastIsPending, PendingReachesAll
<1> QED
  BY <1>2, <1>4, <1>5 DEF FeedIInv

\* What the feed's invariant says of its subscribers.
LEMMA FeedDelivers == FeedIInv => NoIntentMissed /\ BroadcastOnce
<1> SUFFICES ASSUME FeedIInv PROVE NoIntentMissed /\ BroadcastOnce
  OBVIOUS
<1>1. NoIntentMissed
  <2> SUFFICES ASSUME NEW a \in Subscribers, subscriptions[a] # NoSubscription,
                      \A g \in senders : g.sub # subscriptions[a],
                      NEW i \in FeedIntents, broadcasts[i] > 0,
                      \A p \in Pullers : i \notin puller[p].set
               PROVE  i \in subs[subscriptions[a]].got \cup subs[subscriptions[a]].missed
    BY DEF NoIntentMissed
  <2>1. i \in pendingIntents
    BY DEF FeedIInv, BroadcastIsPending
  <2>2. Reaches(subscriptions[a], i)
    BY <2>1 DEF FeedIInv, PendingReachesAll
  <2>3. ~WillBeSent(subscriptions[a], i) /\ Broadcasting(i) = {}
    BY DEF WillBeSent, Broadcasting
  <2> QED
    BY <2>2, <2>3 DEF Reaches
<1>2. ASSUME NEW i \in FeedIntents
      PROVE  broadcasts[i] <= 1 + forgets[i]
  <2>1. /\ broadcasts[i] \in Nat /\ forgets[i] \in Nat /\ Cardinality(Broadcasting(i)) \in Nat
        /\ broadcasts[i] + Cardinality(Broadcasting(i)) <=
             forgets[i] + IF i \in processedIntents THEN 1 ELSE 0
    BY BroadcastingFinite DEF FeedIInv, FeedType, BroadcastsCounted
  <2> QED
    BY <2>1
<1> QED
  BY <1>1, <1>2 DEF BroadcastOnce

-----------------------------------------------------------------------------
(***************************************************************************)
(* Bids: the inductive invariant of the batches                            *)
(***************************************************************************)

BidRecord == [id : STRING, intent : STRING]
AckRecord == [id : STRING, accepted : BOOLEAN]

SubmissionRecord ==
    [bids : Seq(BidRecord), partialOk : BOOLEAN, at : {"verify", "add", "done"}, acks : Seq(AckRecord)]

BidType ==
    /\ window \in [Windows -> {"open", "closed"}] /\ book \in [Windows -> Seq(STRING)]
    /\ submissions \in [Callers -> {NoCall} \cup SubmissionRecord]

\* A call has an acknowledgement for each bid it has come to, and is done with the last.
AnswersInOrder(k) ==
    /\ Len(k.acks) <= Len(k.bids)
    /\ k.at = "done" <=> Len(k.acks) = Len(k.bids)
    /\ \A n \in 1..Len(k.acks) : k.acks[n].id = k.bids[n].id

\* Without partial success, a refusal ends the call.
RefusalEnds(k) ==
    ~k.partialOk =>
      /\ k.at # "done" => \A n \in 1..Len(k.acks) : k.acks[n].accepted
      /\ \A n, m \in 1..Len(k.acks) : n < m /\ k.acks[m].accepted => k.acks[n].accepted

SubmissionIsSound(k) == k # NoCall => AnswersInOrder(k) /\ RefusalEnds(k)

\* The bids of a call acknowledged for an intent.
AcceptedIn(k, i) ==
    {k.bids[n].id : n \in {m \in DOMAIN k.acks : k.bids[m].intent = i /\ k.acks[m].accepted}}

BookIsAccepted ==
    \A i \in Windows :
        {book[i][n] : n \in DOMAIN book[i]} =
        UNION {AcceptedIn(submissions[c], i) : c \in {d \in Callers : submissions[d] # NoCall}}

ClosedIsMatched ==
    /\ DOMAIN matched = {i \in Windows : window[i] = "closed"}
    /\ \A i \in DOMAIN matched : matched[i] = book[i]

BidIInv ==
    /\ BidType /\ BookIsAccepted /\ ClosedIsMatched
    /\ \A c \in Callers : SubmissionIsSound(submissions[c])

-----------------------------------------------------------------------------
(***************************************************************************)
(* Bids: every step of the batches                                         *)
(***************************************************************************)

\* A call at work, as an answer to its next bid finds it.
AtWork(k) ==
    /\ k \in SubmissionRecord /\ k.at \in {"verify", "add"}
    /\ AnswersInOrder(k) /\ RefusalEnds(k)

LEMMA NextBidIsThere ==
  ASSUME NEW k, AtWork(k)
  PROVE  /\ Len(k.acks) \in Nat /\ Len(k.bids) \in Nat /\ Len(k.acks) < Len(k.bids)
         /\ NextBid(k) \in BidRecord /\ NextBid(k) = k.bids[Len(k.acks) + 1]
<1>1. /\ k.bids \in Seq(BidRecord) /\ k.acks \in Seq(AckRecord)
      /\ Len(k.acks) \in Nat /\ Len(k.bids) \in Nat
  BY DEF AtWork, SubmissionRecord
<1>2. Len(k.acks) < Len(k.bids)
  BY <1>1 DEF AtWork, AnswersInOrder
<1>3. Len(k.acks) + 1 \in 1..Len(k.bids)
  BY <1>1, <1>2
<1> QED
  BY <1>1, <1>2, <1>3, ElementOfSeq DEF NextBid

LEMMA AckTyped ==
  ASSUME NEW bid \in BidRecord, NEW accepted \in BOOLEAN
  PROVE  /\ Ack(bid, accepted) \in AckRecord /\ Ack(bid, accepted).id = bid.id
         /\ Ack(bid, accepted).accepted = accepted
<1>1. bid.id \in STRING
  BY DEF BidRecord
<1>2. Ack(bid, accepted) \in AckRecord
  BY <1>1 DEF Ack, AckRecord
<1>3. Ack(bid, accepted).id = bid.id
  BY DEF Ack
<1>4. Ack(bid, accepted).accepted = accepted
  BY DEF Ack
<1> QED
  BY <1>2, <1>3, <1>4

\* The acknowledgements a call has after one more.
LEMMA OneAckMore ==
  ASSUME NEW k, AtWork(k), NEW accepted \in BOOLEAN,
         NEW acks, acks = Append(k.acks, Ack(NextBid(k), accepted))
  PROVE  /\ acks \in Seq(AckRecord) /\ Len(acks) = Len(k.acks) + 1
         /\ acks[Len(k.acks) + 1] = Ack(NextBid(k), accepted)
         /\ \A n \in 1..Len(k.acks) : acks[n] = k.acks[n]
<1>1. k.acks \in Seq(AckRecord)
  BY DEF AtWork, SubmissionRecord
<1> QED
  BY <1>1, NextBidIsThere, AckTyped, AppendProperties

\* A function on the first n places is a sequence.
LEMMA PlacesAreSeq ==
  ASSUME NEW n \in Nat, NEW S, NEW f, f = [i \in 1..n |-> f[i]], \A i \in 1..n : f[i] \in S
  PROVE  f \in Seq(S) /\ Len(f) = n
<1>1. f \in [1..n -> S]
  OBVIOUS
<1> QED
  BY <1>1

Refusal(bid) == Ack(bid, FALSE)

\* An acknowledgement for every bid: those there are, and a refusal for each of the rest.
LEMMA FilledSeq ==
  ASSUME NEW k, k.bids \in Seq(BidRecord), NEW acks \in Seq(AckRecord), Len(acks) <= Len(k.bids)
  PROVE  /\ Filled(k, acks) \in Seq(AckRecord) /\ Len(Filled(k, acks)) = Len(k.bids)
         /\ \A n \in 1..Len(k.bids) :
              /\ n <= Len(acks) => Filled(k, acks)[n] = acks[n]
              /\ n > Len(acks) => Filled(k, acks)[n] = Refusal(k.bids[n])
<1>1. Len(acks) \in Nat /\ Len(k.bids) \in Nat /\ DOMAIN k.bids = 1..Len(k.bids)
  OBVIOUS
<1>2. Filled(k, acks) = [n \in 1..Len(k.bids) |-> IF n <= Len(acks) THEN acks[n] ELSE Refusal(k.bids[n])]
  BY <1>1 DEF Filled, Refusal
<1>3. ASSUME NEW n \in 1..Len(k.bids)
      PROVE  (IF n <= Len(acks) THEN acks[n] ELSE Refusal(k.bids[n])) \in AckRecord
  <2>1. CASE n <= Len(acks)
    <3>1. n \in 1..Len(acks)
      BY <1>1, <2>1
    <3> QED
      BY <2>1, <3>1, ElementOfSeq
  <2>2. CASE ~(n <= Len(acks))
    <3>1. k.bids[n] \in BidRecord
      BY ElementOfSeq
    <3> QED
      BY <2>2, <3>1, AckTyped DEF Refusal
  <2> QED
    BY <2>1, <2>2
<1> DEFINE f == Filled(k, acks)
<1>4. \A n \in 1..Len(k.bids) :
        f[n] = IF n <= Len(acks) THEN acks[n] ELSE Refusal(k.bids[n])
  BY <1>2
<1>5. f = [n \in 1..Len(k.bids) |-> f[n]]
  BY <1>2
<1> HIDE DEF f
<1>6. \A n \in 1..Len(k.bids) : f[n] \in AckRecord
  BY <1>3, <1>4
<1>7. f \in Seq(AckRecord) /\ Len(f) = Len(k.bids)
  BY <1>1, <1>5, <1>6, PlacesAreSeq
<1>8. \A n \in 1..Len(k.bids) :
        /\ n <= Len(acks) => f[n] = acks[n]
        /\ n > Len(acks) => f[n] = Refusal(k.bids[n])
  BY <1>1, <1>4
<1> QED
  BY <1>7, <1>8 DEF f

\* Giving a call its answers changes nothing else of it.
LEMMA CallWith ==
  ASSUME NEW k \in SubmissionRecord, NEW acks \in Seq(AckRecord), NEW at \in {"verify", "done"},
         NEW r, r = [k EXCEPT !.acks = acks, !.at = at]
  PROVE  /\ r \in SubmissionRecord /\ r.acks = acks /\ r.at = at
         /\ r.bids = k.bids /\ r.partialOk = k.partialOk
BY DEF SubmissionRecord

\* A record of a call is not the mark of an idle caller.
LEMMA CallIsNoIdle ==
  ASSUME NEW k \in SubmissionRecord
  PROVE  k # NoCall
<1>1. k.at \in {"verify", "add", "done"}
  BY DEF SubmissionRecord
<1>2. NoCall.at = "idle"
  BY DEF NoCall
<1> QED
  BY <1>1, <1>2

\* What an answer adds to a call: its acknowledgement, and refusals after it if it ends the call.
AnswerAdds(k, ack, r) ==
    /\ r \in SubmissionRecord /\ r.bids = k.bids /\ r.partialOk = k.partialOk
    /\ Len(k.acks) < Len(r.acks) /\ Len(r.acks) <= Len(k.bids)
    /\ r.at = "done" <=> Len(r.acks) = Len(k.bids)
    /\ r.at # "done" => Len(r.acks) = Len(k.acks) + 1
    /\ \A n \in 1..Len(k.acks) : r.acks[n] = k.acks[n]
    /\ r.acks[Len(k.acks) + 1] = ack
    /\ \A n \in 1..Len(r.acks) : n > Len(k.acks) + 1 => r.acks[n] = Refusal(k.bids[n])
    /\ ~ack.accepted /\ ~k.partialOk => r.at = "done"

LEMMA RefusedRestAdds ==
  ASSUME NEW k, AtWork(k), NEW ack \in AckRecord, NEW acks \in Seq(AckRecord),
         Len(acks) = Len(k.acks) + 1, acks[Len(k.acks) + 1] = ack,
         \A n \in 1..Len(k.acks) : acks[n] = k.acks[n],
         NEW r, r = [k EXCEPT !.acks = Filled(k, acks), !.at = "done"]
  PROVE  AnswerAdds(k, ack, r)
<1>1. k \in SubmissionRecord /\ k.bids \in Seq(BidRecord)
  BY DEF AtWork, SubmissionRecord
<1>2. Len(k.acks) \in Nat /\ Len(k.bids) \in Nat /\ Len(k.acks) < Len(k.bids)
  BY NextBidIsThere
<1>3. Len(acks) <= Len(k.bids)
  BY <1>2
<1> DEFINE f == Filled(k, acks)
<1>4. /\ f \in Seq(AckRecord) /\ Len(f) = Len(k.bids)
      /\ \A n \in 1..Len(k.bids) :
           /\ n <= Len(acks) => f[n] = acks[n]
           /\ n > Len(acks) => f[n] = Refusal(k.bids[n])
  BY <1>1, <1>3, FilledSeq
<1>5. r = [k EXCEPT !.acks = f, !.at = "done"]
  OBVIOUS
<1> HIDE DEF f
<1>6. /\ r \in SubmissionRecord /\ r.acks = f /\ r.at = "done"
      /\ r.bids = k.bids /\ r.partialOk = k.partialOk
  BY <1>1, <1>4, <1>5 DEF SubmissionRecord
<1>7. \A n \in 1..Len(k.acks) : f[n] = k.acks[n]
  BY <1>2, <1>4
<1>8. f[Len(k.acks) + 1] = ack
  BY <1>2, <1>4
<1>9. \A n \in 1..Len(k.bids) : n > Len(k.acks) + 1 => f[n] = Refusal(k.bids[n])
  BY <1>2, <1>4
<1> QED
  BY <1>2, <1>4, <1>6, <1>7, <1>8, <1>9 DEF AnswerAdds

LEMMA OneAckAdds ==
  ASSUME NEW k, AtWork(k), NEW ack \in AckRecord, NEW acks \in Seq(AckRecord),
         Len(acks) = Len(k.acks) + 1, acks[Len(k.acks) + 1] = ack,
         \A n \in 1..Len(k.acks) : acks[n] = k.acks[n],
         ack.accepted \/ k.partialOk,
         NEW at \in {"verify", "done"}, at = "done" <=> Len(acks) = Len(k.bids),
         NEW r, r = [k EXCEPT !.acks = acks, !.at = at]
  PROVE  AnswerAdds(k, ack, r)
<1>1. k \in SubmissionRecord
  BY DEF AtWork
<1>2. Len(k.acks) \in Nat /\ Len(k.bids) \in Nat /\ Len(k.acks) < Len(k.bids)
  BY NextBidIsThere
<1>3. /\ r \in SubmissionRecord /\ r.acks = acks /\ r.at = at
      /\ r.bids = k.bids /\ r.partialOk = k.partialOk
  BY <1>1 DEF SubmissionRecord
<1>4. \A n \in 1..Len(r.acks) : n > Len(k.acks) + 1 => r.acks[n] = Refusal(k.bids[n])
  BY <1>2, <1>3
<1> QED
  BY <1>2, <1>3, <1>4 DEF AnswerAdds

LEMMA AnswerAddsOne ==
  ASSUME NEW k, AtWork(k), NEW accepted \in BOOLEAN
  PROVE  AnswerAdds(k, Ack(NextBid(k), accepted), Answered(k, accepted))
<1> DEFINE ack == Ack(NextBid(k), accepted)
           acks == Append(k.acks, ack)
           r == Answered(k, accepted)
           at == IF Len(acks) = Len(k.bids) THEN "done" ELSE "verify"
<1>1. /\ acks \in Seq(AckRecord) /\ Len(acks) = Len(k.acks) + 1
      /\ acks[Len(k.acks) + 1] = ack /\ \A n \in 1..Len(k.acks) : acks[n] = k.acks[n]
  BY OneAckMore, Zenon
<1>2. ack \in AckRecord /\ ack.accepted = accepted
  BY NextBidIsThere, AckTyped, Zenon
<1>3. CASE ~accepted /\ ~k.partialOk
  <2>1. r = [k EXCEPT !.acks = Filled(k, acks), !.at = "done"]
    BY <1>3 DEF Answered
  <2> HIDE DEF ack, acks, r
  <2>2. AnswerAdds(k, ack, r)
    BY <1>1, <1>2, <2>1, RefusedRestAdds
  <2> QED
    BY <2>2 DEF ack, r
<1>4. CASE accepted \/ k.partialOk
  <2>1. r = [k EXCEPT !.acks = acks, !.at = at]
    BY <1>4 DEF Answered
  <2>2. at \in {"verify", "done"} /\ (at = "done" <=> Len(acks) = Len(k.bids))
    OBVIOUS
  <2>3. ack.accepted \/ k.partialOk
    BY <1>2, <1>4, Zenon
  <2> HIDE DEF ack, acks, r, at
  <2>4. AnswerAdds(k, ack, r)
    BY <1>1, <1>2, <2>1, <2>2, <2>3, OneAckAdds
  <2> QED
    BY <2>4 DEF ack, r
<1>5. accepted \/ k.partialOk \/ (~accepted /\ ~k.partialOk)
  OBVIOUS
<1> QED
  BY <1>3, <1>4, <1>5

\* The acknowledgements of an answered call: those it had, the new one, and refusals.
LEMMA AnsweredAcks ==
  ASSUME NEW k, AtWork(k), NEW ack \in AckRecord, ack.id = NextBid(k).id,
         NEW r, AnswerAdds(k, ack, r), NEW n \in 1..Len(r.acks)
  PROVE  /\ n \in Nat /\ Len(k.acks) \in Nat /\ r.acks[n].id = k.bids[n].id
         /\ n <= Len(k.acks) => n \in 1..Len(k.acks) /\ r.acks[n] = k.acks[n]
         /\ n = Len(k.acks) + 1 => r.acks[n] = ack
         /\ n > Len(k.acks) + 1 => ~r.acks[n].accepted
<1>1. /\ Len(k.acks) \in Nat /\ Len(k.bids) \in Nat /\ NextBid(k) = k.bids[Len(k.acks) + 1]
      /\ k.bids \in Seq(BidRecord)
  BY NextBidIsThere DEF AtWork, SubmissionRecord
<1>2. Len(r.acks) <= Len(k.bids) /\ Len(r.acks) \in Nat
  BY <1>1 DEF AnswerAdds, SubmissionRecord
<1>3. CASE n <= Len(k.acks)
  <2>1. n \in 1..Len(k.acks)
    BY <1>1, <1>3
  <2>2. r.acks[n] = k.acks[n]
    BY <2>1 DEF AnswerAdds
  <2>3. k.acks[n].id = k.bids[n].id
    BY <2>1 DEF AtWork, AnswersInOrder
  <2> QED
    BY <1>1, <1>3, <2>1, <2>2, <2>3
<1>4. CASE n = Len(k.acks) + 1
  <2>1. r.acks[n] = ack
    BY <1>4 DEF AnswerAdds
  <2> QED
    BY <1>1, <1>4, <2>1
<1>5. CASE n > Len(k.acks) + 1
  <2>1. r.acks[n] = Refusal(k.bids[n])
    BY <1>5 DEF AnswerAdds
  <2>2. n \in 1..Len(k.bids)
    BY <1>1, <1>2
  <2>3. k.bids[n] \in BidRecord
    BY <1>1, <2>2, ElementOfSeq
  <2>4. Refusal(k.bids[n]).id = k.bids[n].id /\ ~Refusal(k.bids[n]).accepted
    BY <2>3, AckTyped DEF Refusal
  <2>5. r.acks[n].id = k.bids[n].id
    BY <2>1, <2>4
  <2>6. ~r.acks[n].accepted
    BY <2>1, <2>4
  <2> QED
    BY <1>1, <1>5, <2>5, <2>6
<1> QED
  BY <1>1, <1>3, <1>4, <1>5

\* An answer leaves a call sound.
LEMMA AnsweredIsSound ==
  ASSUME NEW k, AtWork(k), NEW ack \in AckRecord, ack.id = NextBid(k).id,
         NEW r, AnswerAdds(k, ack, r)
  PROVE  r \in SubmissionRecord /\ AnswersInOrder(r) /\ RefusalEnds(r)
<1>1. \A n \in 1..Len(r.acks) :
        /\ n \in Nat /\ Len(k.acks) \in Nat /\ r.acks[n].id = k.bids[n].id
        /\ n <= Len(k.acks) => n \in 1..Len(k.acks) /\ r.acks[n] = k.acks[n]
        /\ n = Len(k.acks) + 1 => r.acks[n] = ack
        /\ n > Len(k.acks) + 1 => ~r.acks[n].accepted
  BY AnsweredAcks
<1>2. r \in SubmissionRecord /\ r.bids = k.bids /\ r.partialOk = k.partialOk
  BY DEF AnswerAdds
<1>3. AnswersInOrder(r)
  BY <1>1, <1>2 DEF AnswerAdds, AnswersInOrder
<1>4. ASSUME ~r.partialOk, NEW n \in 1..Len(k.acks)
      PROVE  k.acks[n].accepted
  BY <1>2, <1>4 DEF AtWork, RefusalEnds
<1>5. ASSUME ~r.partialOk, r.at # "done", NEW n \in 1..Len(r.acks)
      PROVE  r.acks[n].accepted
  <2>1. ack.accepted /\ Len(r.acks) = Len(k.acks) + 1
    BY <1>2, <1>5 DEF AnswerAdds
  <2>2. n <= Len(k.acks) \/ n = Len(k.acks) + 1
    BY <1>1, <2>1
  <2>3. CASE n <= Len(k.acks)
    BY <1>1, <1>4, <1>5, <2>3
  <2>4. CASE n = Len(k.acks) + 1
    BY <1>1, <2>1, <2>4
  <2> QED
    BY <2>2, <2>3, <2>4
<1>6. ASSUME ~r.partialOk, NEW n \in 1..Len(r.acks), NEW m \in 1..Len(r.acks), n < m,
             r.acks[m].accepted
      PROVE  r.acks[n].accepted
  <2>1. ~(m > Len(k.acks) + 1)
    BY <1>1, <1>6
  <2>2. n \in 1..Len(k.acks) /\ r.acks[n] = k.acks[n]
    BY <1>1, <1>6, <2>1
  <2> QED
    BY <1>4, <1>6, <2>2
<1> QED
  BY <1>2, <1>3, <1>5, <1>6 DEF RefusalEnds

\* What a call has got accepted grows by the bid just answered, if it was.
LEMMA AnsweredAccepts ==
  ASSUME NEW k, AtWork(k), NEW ack \in AckRecord, ack.id = NextBid(k).id,
         NEW r, AnswerAdds(k, ack, r), NEW i
  PROVE  AcceptedIn(r, i) =
         AcceptedIn(k, i) \cup {x \in {NextBid(k).id} : ack.accepted /\ NextBid(k).intent = i}
<1>1. \A n \in 1..Len(r.acks) :
        /\ n \in Nat /\ Len(k.acks) \in Nat /\ r.acks[n].id = k.bids[n].id
        /\ n <= Len(k.acks) => n \in 1..Len(k.acks) /\ r.acks[n] = k.acks[n]
        /\ n = Len(k.acks) + 1 => r.acks[n] = ack
        /\ n > Len(k.acks) + 1 => ~r.acks[n].accepted
  BY AnsweredAcks
<1>2. /\ Len(k.acks) \in Nat /\ Len(r.acks) \in Nat /\ Len(k.acks) < Len(r.acks)
      /\ r.bids = k.bids /\ NextBid(k) = k.bids[Len(k.acks) + 1]
      /\ DOMAIN k.acks = 1..Len(k.acks) /\ DOMAIN r.acks = 1..Len(r.acks)
  BY NextBidIsThere DEF AnswerAdds, AtWork, SubmissionRecord
<1>3. ASSUME NEW x \in AcceptedIn(r, i)
      PROVE  x \in AcceptedIn(k, i) \/ (x = NextBid(k).id /\ ack.accepted /\ NextBid(k).intent = i)
  <2>1. PICK n \in 1..Len(r.acks) : k.bids[n].intent = i /\ r.acks[n].accepted /\ x = k.bids[n].id
    BY <1>2, <1>3 DEF AcceptedIn
  <2>2. n <= Len(k.acks) \/ n = Len(k.acks) + 1
    BY <1>1, <2>1
  <2>3. CASE n <= Len(k.acks)
    <3>1. n \in DOMAIN k.acks /\ k.acks[n].accepted
      BY <1>1, <1>2, <2>1, <2>3
    <3> QED
      BY <2>1, <3>1 DEF AcceptedIn
  <2>4. CASE n = Len(k.acks) + 1
    BY <1>1, <1>2, <2>1, <2>4
  <2> QED
    BY <2>2, <2>3, <2>4
<1>4. ASSUME NEW x \in AcceptedIn(k, i)
      PROVE  x \in AcceptedIn(r, i)
  <2>1. PICK n \in 1..Len(k.acks) : k.bids[n].intent = i /\ k.acks[n].accepted /\ x = k.bids[n].id
    BY <1>2, <1>4 DEF AcceptedIn
  <2>2. n \in 1..Len(r.acks) /\ n <= Len(k.acks)
    BY <1>2
  <2>3. r.acks[n].accepted
    BY <1>1, <2>1, <2>2
  <2> QED
    BY <1>2, <2>1, <2>2, <2>3 DEF AcceptedIn
<1>5. ASSUME ack.accepted, NextBid(k).intent = i
      PROVE  NextBid(k).id \in AcceptedIn(r, i)
  <2> DEFINE n == Len(k.acks) + 1
  <2>1. n \in 1..Len(r.acks) /\ n = Len(k.acks) + 1
    BY <1>2
  <2> HIDE DEF n
  <2>2. r.acks[n].accepted /\ r.bids[n] = NextBid(k)
    BY <1>1, <1>2, <1>5, <2>1
  <2> QED
    BY <1>2, <1>5, <2>1, <2>2 DEF AcceptedIn
<1> QED
  BY <1>3, <1>4, <1>5

\* All a matcher has acknowledged for an intent.
AllAccepted(i) ==
    UNION {AcceptedIn(submissions[c], i) : c \in {d \in Callers : submissions[d] # NoCall}}

\* The bids of one call are accepted beside those of the others.
LEMMA CallAccepts ==
  ASSUME NEW c \in Callers, submissions'[c] # NoCall,
         \A d \in Callers : d # c => submissions'[d] = submissions[d],
         NEW i, NEW X,
         \/ submissions[c] = NoCall /\ AcceptedIn(submissions'[c], i) = X
         \/ submissions[c] # NoCall /\ AcceptedIn(submissions'[c], i) = AcceptedIn(submissions[c], i) \cup X
  PROVE  AllAccepted(i)' = AllAccepted(i) \cup X
<1>2. AllAccepted(i)' =
        UNION {AcceptedIn(submissions'[d], i) : d \in {e \in Callers : submissions'[e] # NoCall}}
  BY DEF AllAccepted, AcceptedIn
<1>3. ASSUME NEW x \in AllAccepted(i)'
      PROVE  x \in AllAccepted(i) \cup X
  <2>1. PICK d \in Callers : submissions'[d] # NoCall /\ x \in AcceptedIn(submissions'[d], i)
    BY <1>2, <1>3
  <2>2. CASE d = c
    BY <2>1, <2>2 DEF AllAccepted
  <2>3. CASE d # c
    BY <2>1, <2>3 DEF AllAccepted
  <2> QED
    BY <2>2, <2>3
<1>4. ASSUME NEW x \in AllAccepted(i) \cup X
      PROVE  x \in AllAccepted(i)'
  <2>1. CASE x \in X
    BY <1>2, <2>1
  <2>2. CASE x \in AllAccepted(i)
    <3>1. PICK d \in Callers : submissions[d] # NoCall /\ x \in AcceptedIn(submissions[d], i)
      BY <2>2 DEF AllAccepted
    <3>2. CASE d = c
      BY <1>2, <3>1, <3>2
    <3>3. CASE d # c
      BY <1>2, <3>1, <3>3
    <3> QED
      BY <3>2, <3>3
  <2> QED
    BY <1>4, <2>1, <2>2
<1> QED
  BY <1>3, <1>4

\* A caller whose call is at work.
LEMMA CallAtWork ==
  ASSUME BidIInv, NEW c \in Callers, submissions[c].at \in {"verify", "add"}
  PROVE  AtWork(submissions[c]) /\ submissions[c] # NoCall
<1>1. NoCall.at = "idle"
  BY DEF NoCall
<1>2. submissions[c] # NoCall
  BY <1>1
<1>3. submissions[c] \in SubmissionRecord
  BY <1>2 DEF BidIInv, BidType
<1>4. AnswersInOrder(submissions[c]) /\ RefusalEnds(submissions[c])
  BY <1>2 DEF BidIInv, SubmissionIsSound
<1> QED
  BY <1>2, <1>3, <1>4 DEF AtWork

\* What an answer does to the calls, and to what is accepted.
LEMMA CallAnswered ==
  ASSUME BidIInv, NEW c \in Callers, submissions[c].at \in {"verify", "add"}, NEW accepted \in BOOLEAN,
         submissions' = [submissions EXCEPT ![c] = Answered(@, accepted)]
  PROVE  /\ submissions' \in [Callers -> {NoCall} \cup SubmissionRecord]
         /\ \A d \in Callers : SubmissionIsSound(submissions'[d])
         /\ \A i : AllAccepted(i)' = AllAccepted(i) \cup
              {x \in {NextBid(submissions[c]).id} : accepted /\ NextBid(submissions[c]).intent = i}
<1> DEFINE k == submissions[c]
           ack == Ack(NextBid(k), accepted)
           r == Answered(k, accepted)
<1>1. AtWork(k) /\ k # NoCall
  BY CallAtWork
<1>2. AnswerAdds(k, ack, r)
  BY <1>1, AnswerAddsOne
<1>3. ack \in AckRecord /\ ack.id = NextBid(k).id /\ ack.accepted = accepted
  BY <1>1, NextBidIsThere, AckTyped, Zenon
<1>4. submissions' = [submissions EXCEPT ![c] = r] /\ submissions \in [Callers -> {NoCall} \cup SubmissionRecord]
  BY DEF BidIInv, BidType
<1>5. \A d \in Callers : SubmissionIsSound(submissions[d])
  BY DEF BidIInv
<1>9. \A i : {x \in {NextBid(k).id} : accepted /\ NextBid(k).intent = i}
             = {x \in {NextBid(k).id} : ack.accepted /\ NextBid(k).intent = i}
  BY <1>3, Zenon
<1> HIDE DEF ack, r
<1>6. r \in SubmissionRecord /\ AnswersInOrder(r) /\ RefusalEnds(r)
  BY <1>1, <1>2, <1>3, AnsweredIsSound
<1>7. r # NoCall
  BY <1>6, CallIsNoIdle
<1>8. \A i : AcceptedIn(r, i) =
        AcceptedIn(k, i) \cup {x \in {NextBid(k).id} : ack.accepted /\ NextBid(k).intent = i}
  BY <1>1, <1>2, <1>3, AnsweredAccepts
<1>10. ASSUME NEW i
       PROVE  AllAccepted(i)' =
                AllAccepted(i) \cup {x \in {NextBid(k).id} : ack.accepted /\ NextBid(k).intent = i}
  <2> DEFINE X == {x \in {NextBid(k).id} : ack.accepted /\ NextBid(k).intent = i}
  <2>1. submissions'[c] = r /\ \A d \in Callers : d # c => submissions'[d] = submissions[d]
    BY <1>4
  <2>2. AcceptedIn(submissions'[c], i) = AcceptedIn(submissions[c], i) \cup X
    BY <1>8, <2>1
  <2> HIDE DEF X
  <2>3. AllAccepted(i)' = AllAccepted(i) \cup X
    BY <1>1, <1>7, <2>1, <2>2, CallAccepts
  <2> QED
    BY <2>3 DEF X
<1>11. submissions' \in [Callers -> {NoCall} \cup SubmissionRecord]
  BY <1>4, <1>6
<1>12. \A d \in Callers : SubmissionIsSound(submissions'[d])
  BY <1>4, <1>5, <1>6 DEF SubmissionIsSound
<1> QED
  BY <1>9, <1>10, <1>11, <1>12

\* What an appended element adds to the values of a sequence.
LEMMA AppendedValues ==
  ASSUME NEW S, NEW s \in Seq(S), NEW x \in S, NEW t, t = Append(s, x)
  PROVE  {t[n] : n \in DOMAIN t} = {s[n] : n \in DOMAIN s} \cup {x}
<1>1. /\ t \in Seq(S) /\ Len(t) = Len(s) + 1 /\ t[Len(s) + 1] = x
      /\ \A n \in 1..Len(s) : t[n] = s[n]
  BY AppendProperties
<1>2. Len(s) \in Nat /\ DOMAIN s = 1..Len(s) /\ DOMAIN t = 1..Len(s) + 1
  BY <1>1
<1>3. \A n \in DOMAIN t : t[n] \in {s[m] : m \in DOMAIN s} \cup {x}
  BY <1>1, <1>2
<1>4. \A n \in DOMAIN s : n \in DOMAIN t /\ t[n] = s[n]
  BY <1>1, <1>2
<1>5. Len(s) + 1 \in DOMAIN t
  BY <1>2
<1> QED
  BY <1>1, <1>3, <1>4, <1>5

LEMMA NextBids ==
  BidIInv /\ [BidNext]_bidVars => BidIInv'
<1> SUFFICES ASSUME BidIInv, [BidNext]_bidVars
             PROVE  BidIInv'
  OBVIOUS
<1>1. /\ window \in [Windows -> {"open", "closed"}] /\ book \in [Windows -> Seq(STRING)]
      /\ submissions \in [Callers -> {NoCall} \cup SubmissionRecord]
      /\ \A c \in Callers : SubmissionIsSound(submissions[c])
      /\ \A i \in Windows : {book[i][n] : n \in DOMAIN book[i]} = AllAccepted(i)
      /\ DOMAIN matched = {i \in Windows : window[i] = "closed"}
      /\ \A i \in DOMAIN matched : matched[i] = book[i]
  BY DEF BidIInv, BidType, BookIsAccepted, AllAccepted, ClosedIsMatched
\* The parts of the invariant, as the steps give them.
<1>2. ASSUME window' \in [Windows -> {"open", "closed"}], book' \in [Windows -> Seq(STRING)],
             submissions' \in [Callers -> {NoCall} \cup SubmissionRecord],
             \A c \in Callers : SubmissionIsSound(submissions'[c]),
             \A i \in Windows : {book'[i][n] : n \in DOMAIN book'[i]} = AllAccepted(i)',
             DOMAIN matched' = {i \in Windows : window'[i] = "closed"},
             \A i \in DOMAIN matched' : matched'[i] = book'[i]
      PROVE  BidIInv'
  <2>1. BidType'
    BY <1>2 DEF BidType, SubmissionRecord, NoCall
  <2>2. BookIsAccepted'
    BY <1>2 DEF BookIsAccepted, AllAccepted
  <2>3. ClosedIsMatched'
    BY <1>2 DEF ClosedIsMatched
  <2>4. (\A c \in Callers : SubmissionIsSound(submissions[c]))'
    BY <1>2 DEF SubmissionIsSound, NoCall, AnswersInOrder, RefusalEnds
  <2> QED
    BY <2>1, <2>2, <2>3, <2>4 DEF BidIInv
<1>3. ASSUME NEW c \in Callers, NEW bids \in Batches, NEW p \in BOOLEAN, SubmitBidBatch(c, bids, p)
      PROVE  BidIInv'
  <2> DEFINE r == [bids |-> bids, partialOk |-> p, at |-> "verify", acks |-> <<>>]
  <2>1. submissions' = [submissions EXCEPT ![c] = r] /\ submissions[c] = NoCall
        /\ UNCHANGED <<window, book, matched>>
    BY <1>3 DEF SubmitBidBatch
  <2>2. bids \in Seq(BidRecord) /\ bids # <<>>
    BY BatchesAssumption DEF BidRecord
  <2>3. r \in SubmissionRecord
    BY <2>2 DEF SubmissionRecord
  <2>4. AnswersInOrder(r) /\ RefusalEnds(r)
    BY <2>2 DEF AnswersInOrder, RefusalEnds
  <2>5. \A i : AcceptedIn(r, i) = {}
    BY DEF AcceptedIn
  <2> HIDE DEF r
  <2>6. r # NoCall
    BY <2>3, CallIsNoIdle
  <2>7. \A i \in Windows : AllAccepted(i)' = AllAccepted(i)
    <3> TAKE i \in Windows
    <3>1. submissions'[c] = r /\ \A d \in Callers : d # c => submissions'[d] = submissions[d]
      BY <1>1, <2>1
    <3>2. AcceptedIn(submissions'[c], i) = {}
      BY <2>5, <3>1
    <3>3. AllAccepted(i)' = AllAccepted(i) \cup {}
      BY <2>1, <2>6, <3>1, <3>2, CallAccepts
    <3> QED
      BY <3>3
  <2>8. \A d \in Callers : SubmissionIsSound(submissions'[d])
    BY <1>1, <2>1, <2>4 DEF SubmissionIsSound
  <2>9. submissions' \in [Callers -> {NoCall} \cup SubmissionRecord]
    BY <1>1, <2>1, <2>3
  <2> QED
    BY <1>1, <1>2, <2>1, <2>7, <2>8, <2>9
<1>4. ASSUME NEW c \in Callers, Verified(c)
      PROVE  BidIInv'
  <2> DEFINE k == submissions[c]
             r == [k EXCEPT !.at = "add"]
  <2>1. submissions' = [submissions EXCEPT ![c] = r] /\ k.at = "verify"
        /\ UNCHANGED <<window, book, matched>>
    BY <1>1, <1>4 DEF Verified
  <2>2. AtWork(k) /\ k # NoCall
    BY <2>1, CallAtWork
  <2>3. /\ r \in SubmissionRecord /\ r.at = "add" /\ r.bids = k.bids
        /\ r.acks = k.acks /\ r.partialOk = k.partialOk
    BY <2>2 DEF AtWork, SubmissionRecord
  <2> HIDE DEF r
  <2>4. AnswersInOrder(r) /\ RefusalEnds(r)
    BY <2>1, <2>2, <2>3 DEF AtWork, AnswersInOrder, RefusalEnds
  <2>5. r # NoCall
    BY <2>3, CallIsNoIdle
  <2>6. \A i \in Windows : AllAccepted(i)' = AllAccepted(i)
    <3> TAKE i \in Windows
    <3>1. submissions'[c] = r /\ \A d \in Callers : d # c => submissions'[d] = submissions[d]
      BY <1>1, <2>1
    <3>2. AcceptedIn(submissions'[c], i) = AcceptedIn(k, i) \cup {}
      BY <2>3, <3>1 DEF AcceptedIn
    <3>3. AllAccepted(i)' = AllAccepted(i) \cup {}
      BY <2>2, <2>5, <3>1, <3>2, CallAccepts
    <3> QED
      BY <3>3
  <2>7. \A d \in Callers : SubmissionIsSound(submissions'[d])
    BY <1>1, <2>1, <2>4 DEF SubmissionIsSound
  <2>8. submissions' \in [Callers -> {NoCall} \cup SubmissionRecord]
    BY <1>1, <2>1, <2>3
  <2> QED
    BY <1>1, <1>2, <2>1, <2>6, <2>7, <2>8
<1>5. ASSUME NEW c \in Callers, Refused(c)
      PROVE  BidIInv'
  <2>1. /\ submissions[c].at = "verify" /\ UNCHANGED <<window, book, matched>>
        /\ submissions' = [submissions EXCEPT ![c] = Answered(@, FALSE)]
    BY <1>5 DEF Refused
  <2>2. /\ submissions' \in [Callers -> {NoCall} \cup SubmissionRecord]
        /\ \A d \in Callers : SubmissionIsSound(submissions'[d])
        /\ \A i : AllAccepted(i)' = AllAccepted(i) \cup
              {x \in {NextBid(submissions[c]).id} : FALSE /\ NextBid(submissions[c]).intent = i}
    BY <2>1, CallAnswered, Zenon
  <2>3. \A i \in Windows : AllAccepted(i)' = AllAccepted(i)
    BY <2>2
  <2> QED
    BY <1>1, <1>2, <2>1, <2>2, <2>3
<1>6. ASSUME NEW c \in Callers, ProcessSingleBid(c)
      PROVE  BidIInv'
  <2> DEFINE bid == NextBid(submissions[c])
  <2>1. /\ submissions[c].at = "add" /\ UNCHANGED <<window, matched>>
        /\ book' = IF Takes(bid.intent) THEN [book EXCEPT ![bid.intent] = Append(@, bid.id)] ELSE book
        /\ submissions' = [submissions EXCEPT ![c] = Answered(@, Takes(bid.intent))]
    BY <1>6 DEF ProcessSingleBid
  <2>2. Takes(bid.intent) \in BOOLEAN
    BY DEF Takes
  <2>3. /\ submissions' \in [Callers -> {NoCall} \cup SubmissionRecord]
        /\ \A d \in Callers : SubmissionIsSound(submissions'[d])
        /\ \A i : AllAccepted(i)' = AllAccepted(i) \cup {x \in {bid.id} : Takes(bid.intent) /\ bid.intent = i}
    BY <2>1, <2>2, CallAnswered, Zenon
  <2>4. bid \in BidRecord
    BY <2>1, CallAtWork, NextBidIsThere
  <2>5. bid.id \in STRING
    BY <2>4 DEF BidRecord
  <2> HIDE DEF bid
  <2>6. CASE Takes(bid.intent)
    <3>1. bid.intent \in Windows /\ window[bid.intent] = "open"
      BY <1>1, <2>6 DEF Takes
    <3>2. book' = [book EXCEPT ![bid.intent] = Append(@, bid.id)]
      BY <2>1, <2>6
    <3>3. /\ book'[bid.intent] = Append(book[bid.intent], bid.id)
          /\ \A i \in Windows : i # bid.intent => book'[i] = book[i]
          /\ book[bid.intent] \in Seq(STRING)
      BY <1>1, <3>1, <3>2
    <3>4. Append(book[bid.intent], bid.id) \in Seq(STRING)
      BY <2>5, <3>3, AppendProperties
    <3>5. book' \in [Windows -> Seq(STRING)]
      BY <1>1, <3>1, <3>2, <3>4
    <3>6. \A i \in Windows : {book'[i][n] : n \in DOMAIN book'[i]} = AllAccepted(i)'
      <4> TAKE i \in Windows
      <4>1. CASE i = bid.intent
        <5> DEFINE s == book[i]
                   t == book'[i]
        <5>1. s \in Seq(STRING) /\ t = Append(s, bid.id)
          BY <3>3, <4>1
        <5>2. {t[n] : n \in DOMAIN t} = {s[n] : n \in DOMAIN s} \cup {bid.id}
          <6> HIDE DEF s, t
          <6> QED
            BY <2>5, <5>1, AppendedValues
        <5>3. {book'[i][n] : n \in DOMAIN book'[i]} = {book[i][n] : n \in DOMAIN book[i]} \cup {bid.id}
          BY <5>2
        <5>4. AllAccepted(i)' = AllAccepted(i) \cup {bid.id}
          BY <2>3, <2>6, <4>1
        <5> QED
          BY <1>1, <5>3, <5>4
      <4>2. CASE i # bid.intent
        <5>1. AllAccepted(i)' = AllAccepted(i)
          BY <2>3, <4>2
        <5> QED
          BY <1>1, <3>3, <4>2, <5>1
      <4> QED
        BY <4>1, <4>2
    <3>7. \A i \in DOMAIN matched' : matched'[i] = book'[i]
      BY <1>1, <2>1, <3>1, <3>3
    <3> QED
      BY <1>1, <1>2, <2>1, <2>3, <3>5, <3>6, <3>7
  <2>7. CASE ~Takes(bid.intent)
    <3>1. UNCHANGED <<window, book, matched>>
      BY <2>1, <2>7
    <3>2. \A i \in Windows : AllAccepted(i)' = AllAccepted(i)
      BY <2>3, <2>7
    <3> QED
      BY <1>1, <1>2, <2>3, <3>1, <3>2
  <2> QED
    BY <2>6, <2>7
<1>7. ASSUME NEW i \in DOMAIN window, CheckAndCloseWindows(i)
      PROVE  BidIInv'
  <2>1. /\ window' = [window EXCEPT ![i] = "closed"] /\ UNCHANGED <<book, submissions>>
        /\ matched' = [j \in DOMAIN matched \cup {i} |-> IF j = i THEN book[i] ELSE matched[j]]
    BY <1>7 DEF CheckAndCloseWindows
  <2>2. \A j \in Windows : AllAccepted(j)' = AllAccepted(j)
    BY <2>1 DEF AllAccepted, AcceptedIn
  <2>3. window' \in [Windows -> {"open", "closed"}]
    BY <1>1, <2>1
  <2>4. DOMAIN matched' = {j \in Windows : window'[j] = "closed"}
    BY <1>1, <1>7, <2>1
  <2>5. \A j \in DOMAIN matched' : matched'[j] = book'[j]
    BY <1>1, <2>1
  <2> QED
    BY <1>1, <1>2, <2>1, <2>2, <2>3, <2>4, <2>5
<1>8. CASE UNCHANGED bidVars
  <2>1. UNCHANGED <<window, book, matched, submissions>>
    BY <1>8 DEF bidVars
  <2>2. \A i \in Windows : AllAccepted(i)' = AllAccepted(i)
    BY <2>1 DEF AllAccepted, AcceptedIn
  <2> QED
    BY <1>1, <1>2, <2>1, <2>2
<1> QED
  BY <1>3, <1>4, <1>5, <1>6, <1>7, <1>8 DEF BidNext

LEMMA InitBids ==
  BidInit => BidIInv
<1> SUFFICES ASSUME BidInit
             PROVE  BidIInv
  OBVIOUS
<1>1. BidType
  BY DEF BidInit, BidType
<1>2. \A i \in Windows : {book[i][n] : n \in DOMAIN book[i]} = {}
  BY DEF BidInit
<1>3. {d \in Callers : submissions[d] # NoCall} = {}
  BY DEF BidInit
<1>4. BookIsAccepted
  BY <1>2, <1>3 DEF BookIsAccepted
<1>5. ClosedIsMatched
  BY DEF BidInit, ClosedIsMatched
<1>6. \A c \in Callers : SubmissionIsSound(submissions[c])
  BY DEF BidInit, SubmissionIsSound
<1> QED
  BY <1>1, <1>4, <1>5, <1>6 DEF BidIInv

\* What the property says of the acknowledgements is what the invariant says.
LEMMA AcceptedIsAll ==
  ASSUME BidIInv, NEW i
  PROVE  Accepted(i) = AllAccepted(i)
<1>1. ASSUME NEW c, NEW a \in AcksOf(c), a.bid.intent = i, a.ack.accepted
      PROVE  a.bid.id \in AcceptedIn(submissions[c], i)
  <2>1. PICK n \in DOMAIN submissions[c].acks :
            a = [bid |-> submissions[c].bids[n], ack |-> submissions[c].acks[n]]
    BY <1>1 DEF AcksOf
  <2>2. a.bid = submissions[c].bids[n] /\ a.ack = submissions[c].acks[n]
    BY <2>1
  <2> QED
    BY <1>1, <2>2 DEF AcceptedIn
<1>2. ASSUME NEW c, NEW id \in AcceptedIn(submissions[c], i)
      PROVE  \E a \in AcksOf(c) : a.bid.intent = i /\ a.ack.accepted /\ id = a.bid.id
  <2>1. PICK n \in DOMAIN submissions[c].acks :
            /\ submissions[c].bids[n].intent = i /\ submissions[c].acks[n].accepted
            /\ id = submissions[c].bids[n].id
    BY <1>2 DEF AcceptedIn
  <2> DEFINE a == [bid |-> submissions[c].bids[n], ack |-> submissions[c].acks[n]]
  <2>2. a \in AcksOf(c) /\ a.bid = submissions[c].bids[n] /\ a.ack = submissions[c].acks[n]
    BY DEF AcksOf
  <2> HIDE DEF a
  <2> QED
    BY <2>1, <2>2
<1> DEFINE atWork == {d \in Callers : submissions[d] # NoCall}
<1>3. ASSUME NEW id \in Accepted(i)
      PROVE  id \in AllAccepted(i)
  <2>1. PICK a \in UNION {AcksOf(c) : c \in atWork} :
            a.bid.intent = i /\ a.ack.accepted /\ id = a.bid.id
    BY <1>3 DEF Accepted
  <2>2. PICK c \in atWork : a \in AcksOf(c)
    BY <2>1
  <2>3. id \in AcceptedIn(submissions[c], i)
    BY <1>1, <2>1, <2>2
  <2> QED
    BY <2>2, <2>3 DEF AllAccepted
<1>4. ASSUME NEW id \in AllAccepted(i)
      PROVE  id \in Accepted(i)
  <2>1. PICK c \in atWork : id \in AcceptedIn(submissions[c], i)
    BY <1>4 DEF AllAccepted
  <2>2. PICK a \in AcksOf(c) : a.bid.intent = i /\ a.ack.accepted /\ id = a.bid.id
    BY <1>2, <2>1
  <2> QED
    BY <2>1, <2>2 DEF Accepted
<1> QED
  BY <1>3, <1>4

LEMMA BidsKept ==
  BidIInv => AcceptedIsMatched /\ AcksFollowBids
<1> SUFFICES ASSUME BidIInv
             PROVE  AcceptedIsMatched /\ AcksFollowBids
  OBVIOUS
<1>1. ASSUME NEW i \in DOMAIN matched
      PROVE  /\ Accepted(i) = {matched[i][k] : k \in DOMAIN matched[i]}
             /\ GetIntentSnapshot(i, TRUE) = matched[i]
  <2>1. i \in Windows /\ window[i] = "closed" /\ matched[i] = book[i] /\ DOMAIN window = Windows
    BY DEF BidIInv, BidType, ClosedIsMatched
  <2>2. {book[i][n] : n \in DOMAIN book[i]} = AllAccepted(i)
    BY <2>1 DEF BidIInv, BookIsAccepted, AllAccepted
  <2>3. Accepted(i) = {matched[i][k] : k \in DOMAIN matched[i]}
    BY <2>1, <2>2, AcceptedIsAll
  <2>4. GetIntentSnapshot(i, TRUE) = matched[i]
    BY <2>1 DEF GetIntentSnapshot
  <2> QED
    BY <2>3, <2>4
<1>2. ASSUME NEW c \in Callers, submissions[c].at = "done"
      PROVE  /\ Len(submissions[c].acks) = Len(submissions[c].bids)
             /\ \A k \in DOMAIN submissions[c].bids : submissions[c].acks[k].id = submissions[c].bids[k].id
             /\ ~submissions[c].partialOk =>
                  \A k, m \in DOMAIN submissions[c].bids :
                      k < m /\ submissions[c].acks[m].accepted => submissions[c].acks[k].accepted
  <2> DEFINE s == submissions[c]
  <2>1. NoCall.at = "idle"
    BY DEF NoCall
  <2>2. s # NoCall
    BY <1>2, <2>1
  <2>3. s \in SubmissionRecord /\ AnswersInOrder(s) /\ RefusalEnds(s)
    BY <2>2 DEF BidIInv, BidType, SubmissionIsSound
  <2>4. Len(s.acks) = Len(s.bids)
    BY <1>2, <2>3 DEF AnswersInOrder
  <2>5. DOMAIN s.bids = 1..Len(s.acks)
    BY <2>3, <2>4 DEF SubmissionRecord
  <2> QED
    BY <2>3, <2>4, <2>5 DEF AnswersInOrder, RefusalEnds
<1> QED
  BY <1>1, <1>2 DEF AcceptedIsMatched, AcksFollowBids

\* What comes in takes part, for all agents, intents, pullers, calls and batches: the feed
\* (PullPendingIntents, Subscribe, sendPendingIntents) misses no caught-up subscriber and
\* broadcasts once per processed record, and the batches (SubmitBidBatch, processSingleBid,
\* checkAndCloseWindows) match exactly what they acknowledged, in the order of the bids.
THEOREM IntakeInvHolds == FeedSpec /\ BidSpec => []IntakeInv
<1>1. FeedInit => FeedIInv
  BY InitFeed
<1>2. FeedIInv /\ [FeedNext]_feedVars => FeedIInv'
  BY NextFeed
<1>3. FeedIInv => NoIntentMissed /\ BroadcastOnce
  BY FeedDelivers
<1>4. BidInit => BidIInv
  BY InitBids
<1>5. BidIInv /\ [BidNext]_bidVars => BidIInv'
  BY NextBids
<1>6. BidIInv => AcceptedIsMatched /\ AcksFollowBids
  BY BidsKept
<1>7. NoIntentMissed /\ BroadcastOnce /\ AcceptedIsMatched /\ AcksFollowBids => IntakeInv
  BY DEF IntakeInv
<1> QED
  BY <1>1, <1>2, <1>3, <1>4, <1>5, <1>6, <1>7, PTL DEF FeedSpec, BidSpec
=============================================================================
