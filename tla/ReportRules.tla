------------------------------ MODULE ReportRules ------------------------------
(***************************************************************************)
(* What a validator makes of an execution report: the rules of             *)
(* internal/validator/report_validator.go, single and in batches, the HTTP *)
(* entry (handleHTTPExecutionReport of node.go), and the score a node      *)
(* gives a report when it is committed there (scoreReport of handlers.go). *)
(* Signatures and the match with the assignment are SignedMessages'.       *)
(*                                                                         *)
(* Sizes: a result is 0 (absent), 1 (present) or 2 (over a megabyte).      *)
(* Evidence is the set of its parts that are present.                      *)
(***************************************************************************)
EXTENDS Integers, Sequences, FiniteSets

CONSTANTS
    Reports,        \* reports [status, result, error, evidence, usage, assignment, ts]
    AssignmentTimes, \* assignment id -> time of the assignment
    Policies,       \* [min, max, proof, confidence]; confidence in percent
    MaxExecutionTime, MaxTimeDrift,     \* rules, in ticks
    MaxBatch,       \* bound: reports of a batch
    MaxTime         \* bound: ticks

VARIABLES
    now,
    batch,          \* reports of the batch being validated
    assigned,       \* the assignment each was validated with, or "none"
    results,        \* ValidateBatch's answer so far: TRUE for no error
    policy,
    scores          \* scored reports: [age, result, score]

ruleVars == <<now, batch, assigned, results, policy, scores>>

-----------------------------------------------------------------------------
(* Rules                                                                   *)

\* validateStatusConsistency: result and error fit the status.
StatusIsConsistent(r) ==
    \/ r.status = "success" /\ r.result > 0 /\ r.error = "none"
    \/ r.status = "failed" /\ r.error = "given"
    \/ r.status = "partial" /\ (r.result > 0 \/ r.error # "none")

Always == {"proof", "environment", "inputs", "outputs"}

\* validateEvidence: complete, with transcript and references for a large result, and
\* validateResourceUsage on the usage it may have.
EvidenceIsComplete(r) ==
    /\ Always \subseteq r.evidence
    /\ r.result = 2 => {"transcript", "references"} \subseteq r.evidence
    /\ r.usage # "unrealistic"

\* validateTimestamps; without an assignment only the clock counts.
TimesAreValid(r, a) ==
    /\ r.ts <= now + MaxTimeDrift /\ now <= r.ts + MaxTimeDrift + MaxExecutionTime
    /\ a # "none" => r.ts >= AssignmentTimes[a] /\ r.ts - AssignmentTimes[a] <= MaxExecutionTime

\* ValidateExecutionReport, all parts of which a report must pass; the ids that must be there
\* and the status, which must not be unspecified.
IsValid(r, a) ==
    /\ r.status # "unspecified" /\ r.ts # 0
    /\ TimesAreValid(r, a) /\ StatusIsConsistent(r) /\ EvidenceIsComplete(r)

\* Faulty: a report without an assignment is validated with the one before it.
AssignmentOfKept(k) ==
    IF batch[k].assignment \in DOMAIN AssignmentTimes THEN batch[k].assignment
    ELSE IF k > 1 THEN assigned[k - 1] ELSE "none"

\* The assignment the caller gave for the report, nil if there is none.
AssignmentOf(k) ==
    IF batch[k].assignment \in DOMAIN AssignmentTimes THEN batch[k].assignment ELSE "none"

-----------------------------------------------------------------------------
(* The HTTP entry                                                          *)

\* parseReportStatus: nothing said is a success.
ParseReportStatus(s) ==
    CASE s \in {"", "success", "ok", "accepted"}          -> "success"
      [] s \in {"failed", "error", "rejected"}            -> "failed"
      [] s = "partial"                                    -> "partial"
      [] s \in {"status_unspecified", "unspecified"}      -> "unspecified"

\* handleHTTPExecutionReport: the report has neither evidence nor error, and gets the time of
\* its arrival when it has none.
FromHTTP(r, status) ==
    [r EXCEPT !.status = ParseReportStatus(status), !.error = "none", !.evidence = {}, !.usage = "none",
              !.ts = IF @ = 0 THEN now ELSE @]

-----------------------------------------------------------------------------
(* The score                                                               *)

Abs(x) == IF x < 0 THEN -x ELSE x

\* Faulty: the deviation is not taken relative to the optimum.
TimeScoreAbsolute(age, p) ==
    IF p.min = 0 /\ p.max = 0 THEN 100
    ELSE IF age < p.min \/ age > p.max THEN 100 \div 2
    ELSE 100 - Abs(age - (p.min + p.max) \div 2) * 25

\* Up to ten points for the distance from the middle of the range (more where the middle is
\* rounded down to a small number), and half of all outside of it.
TimeScore(age, p) ==
    LET optimal == (p.min + p.max) \div 2
    IN  IF p.min = 0 /\ p.max = 0 THEN 100
        ELSE IF age < p.min \/ age > p.max THEN 100 \div 2
        ELSE IF optimal > 0 THEN 100 - (Abs(age - optimal) * 10) \div optimal
        ELSE 100

\* The confidence of every report is taken to be 95 percent, which is worth 9 points.
ConfidenceScore(p) ==
    IF p.confidence = 0 THEN 0 ELSE IF p.confidence <= 95 THEN 9 ELSE -30

Clamp(s) == IF s < 0 THEN 0 ELSE IF s > 200 THEN 200 ELSE s

ScoreReport(r, p) ==
    Clamp(TimeScore(now - r.ts, p)
          + (IF p.proof /\ r.result > 0 THEN 20 ELSE 0)
          + ConfidenceScore(p))

-----------------------------------------------------------------------------

RulesInit ==
    /\ now = 0 /\ batch = <<>> /\ assigned = <<>> /\ results = <<>> /\ scores = {}
    /\ policy \in Policies

\* A report for the batch.
SubmitReport(r) ==
    /\ Len(batch) < MaxBatch /\ results = <<>> /\ scores = {}
    /\ batch' = Append(batch, r)
    /\ UNCHANGED <<now, assigned, results, policy, scores>>

\* One round of ValidateBatch's loop.
ValidateNext ==
    /\ Len(results) < Len(batch)
    /\ LET k == Len(results) + 1
       IN  /\ assigned' = Append(assigned, AssignmentOf(k))
           /\ results' = Append(results, IsValid(batch[k], AssignmentOf(k)))
    /\ UNCHANGED <<now, batch, policy, scores>>

\* A committed report is scored at the node's own time.  It came by gRPC with a time, or by
\* HTTP; the rules are not asked.
Score(r) ==
    /\ Cardinality(scores) < 2 /\ batch = <<>>
    /\ \E x \in {FromHTTP(r, s) : s \in {"", "failed"}} \cup (IF r.ts = 0 THEN {} ELSE {r}) :
         scores' = scores \cup {[age |-> now - x.ts, result |-> x.result > 0, score |-> ScoreReport(x, policy)]}
    /\ UNCHANGED <<now, batch, assigned, results, policy>>

Tick ==
    /\ now < MaxTime /\ now' = now + 1
    /\ UNCHANGED <<batch, assigned, results, policy, scores>>

RulesNext == (\E r \in Reports : SubmitReport(r) \/ Score(r)) \/ ValidateNext \/ Tick

-----------------------------------------------------------------------------
\* The verdict on a report depends on the report and its assignment alone, not on the others
\* of its batch: a report that names no known assignment is judged without one.  One that is
\* found valid has a result or an error to show for itself.
VerdictIsOwn ==
    \A k \in DOMAIN results :
        /\ assigned[k] # "none" => assigned[k] = batch[k].assignment
        /\ results[k] => batch[k].result > 0 \/ batch[k].error # "none"

\* Under one policy, a report whose age is in the policy's range scores higher than one whose
\* age is not, if they agree on having a result; no rounding and no bonus reverses that.
InRangeScoresHigher ==
    \A x, y \in scores :
        LET inRange(s) == s.age >= policy.min /\ s.age <= policy.max
        IN  policy.max > 0 /\ x.result = y.result /\ inRange(x) /\ ~inRange(y) => x.score > y.score

\* Neither the batch nor rounding can turn a verdict or a ranking.
RulesInv == VerdictIsOwn /\ InRangeScoresHigher
=============================================================================
