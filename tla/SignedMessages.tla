---------------------------- MODULE SignedMessages ----------------------------
(***************************************************************************)
(* Signed protocol messages (internal/crypto: signature.go, signer.go,     *)
(* message_signer.go, verifier_service.go; internal/grpc/interceptors) and *)
(* the rules a validator has for execution reports                         *)
(* (internal/validator/report_validator.go).                               *)
(*                                                                         *)
(* A message is a function from its fields to values.  What is signed is   *)
(* its canonical form: the chain id, where the scheme has one, and the     *)
(* fields the scheme covers.  Hashes are ideal.  On its way a message may  *)
(* have one field changed and its signature re-encoded.                    *)
(***************************************************************************)
EXTENDS Naturals, Sequences, FiniteSets, Functions

CONSTANTS
    SigningAgents,  \* signing agents, numbers; each has one key, named like it
    Chains,         \* chain ids
    Assignee,       \* the agent of the one assignment
    AssignedAt,     \* its time
    ExecutionTime,  \* rules: time a report may take, in ticks
    TimeDrift,      \* clocks may differ by this much, in ticks
    MessageTime,    \* bound: ticks
    MaxMessages     \* bound: messages signed

VARIABLES
    messageClock,
    signed,         \* messages as signed: [kind, fields, chain, key, at, sig]
    accepted        \* acceptances: [by, sent, got, at]

messagesVars == <<messageClock, signed, accepted>>

-----------------------------------------------------------------------------
(* Fields and canonical forms                                              *)

\* Values: 1 is what the sender meant, 2 another value; "agent" and "ts" hold an agent
\* and a time.
FieldsOf(kind) ==
    CASE kind = "bid"        -> {"bid_id", "intent", "agent", "price", "settle_chain"}
      [] kind = "report"     -> {"report_id", "assignment", "intent", "agent", "status", "ts", "result", "evidence"}
      [] kind = "assignment" -> {"assignment", "intent", "agent", "bid_id", "matcher", "status"}
      [] kind = "call"       -> {"agent", "method", "ts", "nonce", "request"}
      [] kind = "stream"     -> {"agent", "method", "ts", "nonce"}

\* Faulty: the bid's price is not signed.
CoveredWithoutPrice(kind) ==
    CASE kind = "bid"        -> {"bid_id", "intent", "agent"}
      [] kind = "report"     -> {"assignment", "intent", "agent", "status", "ts", "result"}
      [] kind = "assignment" -> {"assignment", "intent", "agent", "bid_id", "matcher", "status"}
      [] kind = "call"       -> {"method", "ts", "nonce", "request"}
      [] kind = "stream"     -> {"method", "ts", "nonce"}

\* Faulty: the time of a call is not signed.
CoveredWithoutTime(kind) ==
    CASE kind = "bid"        -> {"bid_id", "intent", "agent", "price"}
      [] kind = "report"     -> {"assignment", "intent", "agent", "status", "ts", "result"}
      [] kind = "assignment" -> {"assignment", "intent", "agent", "bid_id", "matcher", "status"}
      [] kind = "call"       -> {"method", "nonce", "request"}
      [] kind = "stream"     -> {"method", "nonce"}

\* MessageSigner's createCanonical... and the interceptor's createCanonicalMessage.
Covered(kind) ==
    CASE kind = "bid"        -> {"bid_id", "intent", "agent", "price"}
      [] kind = "report"     -> {"assignment", "intent", "agent", "status", "ts", "result"}
      [] kind = "assignment" -> {"assignment", "intent", "agent", "bid_id", "matcher", "status"}
      [] kind = "call"       -> {"method", "ts", "nonce", "request"}
      [] kind = "stream"     -> {"method", "ts", "nonce"}

Canonical(kind, m, chain) ==
    [scheme |-> "chain", kind |-> kind, chain |-> chain, fields |-> Restrict(m, Covered(kind))]

\* verifier_service.go: other fields, a prefix for the version and no chain id.
ServiceCovered(kind) ==
    CASE kind = "bid"    -> {"bid_id", "intent", "agent", "price", "settle_chain"}
      [] kind = "report" -> {"report_id", "assignment", "intent", "agent", "status", "ts"}
      [] OTHER           -> {}

ServiceCanonical(kind, m) ==
    [scheme |-> "v1", kind |-> kind, fields |-> Restrict(m, ServiceCovered(kind))]

-----------------------------------------------------------------------------
(* Signing and verifying                                                   *)

\* ECDSASigner.Sign yields R || S || V.
Sign(key, canonical) == [key |-> key, of |-> canonical, form |-> "rsv"]

\* ECDSAVerifier.Verify reads DER.
Verify(key, canonical, sig) == sig.form = "der" /\ sig.key = key /\ sig.of = canonical

Fields(kind, a) == [f \in FieldsOf(kind) |-> IF f = "agent" THEN a ELSE IF f = "ts" THEN messageClock ELSE 1]

Send(kind, m, a, chain, canonical) ==
    /\ Cardinality(signed) < MaxMessages
    /\ signed' = signed \cup {[kind |-> kind, fields |-> m, chain |-> chain, key |-> a,
                               at |-> messageClock, sig |-> Sign(a, canonical)]}
    /\ UNCHANGED <<messageClock, accepted>>

\* A message the agent signs for a chain with MessageSigner or (for the verifier service's
\* peers outside this repository) in the service's form.
SignMessage(kind, a, chain) ==
    LET m == Fields(kind, a)
    IN  \E c \in {Canonical(kind, m, chain)} \cup
                 (IF kind = "assignment" THEN {} ELSE {ServiceCanonical(kind, m)}) :
          Send(kind, m, a, chain, c)

\* Unary- and StreamClientInterceptor: a stream is signed without its requests.
ClientInterceptor(kind, a, chain) ==
    LET m == Fields(kind, a) IN Send(kind, m, a, chain, Canonical(kind, m, chain))

\* What may arrive of a message: at most one field differs, the signature is as signed
\* or re-encoded.
Values(f) == IF f = "agent" THEN SigningAgents ELSE IF f = "ts" THEN 0..MessageTime ELSE {1, 2}
Changed(s, f, v, e) == [s EXCEPT !.fields = [s.fields EXCEPT ![f] = v], !.sig.form = e]
Arrivals(s) ==
    {Changed(s, f, v, e) :
        f \in DOMAIN s.fields, v \in UNION {Values(g) : g \in DOMAIN s.fields}, e \in {"rsv", "der"}}
Arriving(s) == {r \in Arrivals(s) : \A f \in DOMAIN r.fields : r.fields[f] \in Values(f)}

Accept(by, s, r) ==
    /\ accepted' = accepted \cup {[by |-> by, sent |-> s, got |-> r, at |-> messageClock]}
    /\ UNCHANGED <<messageClock, signed>>

\* MessageVerifier of a chain, given the public key of the agent the message names.
VerifyMessage(s, r, chain) ==
    /\ r.kind \notin {"call", "stream"}
    /\ Verify(r.fields["agent"], Canonical(r.kind, r.fields, chain), r.sig)
    /\ Accept(<<"verifier", chain>>, s, r)

\* verifyTimestamp
InDrift(ts) == ts <= messageClock + TimeDrift /\ messageClock <= ts + TimeDrift

\* verifyRequest: chain, clock, a known signer, signature.
VerifyRequest(r, chain) ==
    /\ r.chain = chain /\ InDrift(r.fields["ts"])
    /\ Verify(r.fields["agent"], Canonical(r.kind, r.fields, chain), r.sig)

\* Unary- and StreamServerInterceptor of a server that enforces verification.
ServerInterceptor(s, r, chain) ==
    /\ r.kind \in {"call", "stream"} /\ VerifyRequest(r, chain)
    /\ Accept(<<"interceptor", chain>>, s, r)

\* VerifierService on a bid, with the trusted key of the named agent.
VerifyBidSignature(s, r) ==
    /\ r.kind = "bid"
    /\ Verify(r.fields["agent"], ServiceCanonical("bid", r.fields), r.sig)
    /\ Accept(<<"service">>, s, r)

\* Faulty: any agent may report on the assignment.
MatchesAssignmentOfAnyone(m) == m["assignment"] = 1 /\ m["intent"] = 1

\* validateReportMatchesAssignment; the assignment and its intent have value 1.
MatchesAssignment(m) == m["assignment"] = 1 /\ m["intent"] = 1 /\ m["agent"] = Assignee

\* validateTimestamps: neither from the future nor old, after the assignment and within
\* the time allowed for it.
TimeIsValid(ts) ==
    /\ ts <= messageClock + TimeDrift /\ messageClock <= ts + TimeDrift + ExecutionTime
    /\ ts >= AssignedAt /\ ts - AssignedAt <= ExecutionTime

\* ValidateExecutionReport with an assignment: fields present, a status the result fits
\* (1) and complete evidence (1) besides.
ValidateExecutionReport(s, r) ==
    /\ r.kind = "report"
    /\ MatchesAssignment(r.fields)
    /\ TimeIsValid(r.fields["ts"])
    /\ r.fields["status"] = 1 /\ r.fields["evidence"] = 1
    /\ Verify(r.fields["agent"], ServiceCanonical("report", r.fields), r.sig)
    /\ Accept(<<"rules">>, s, r)

MessagesTick == messageClock < MessageTime /\ messageClock' = messageClock + 1 /\ UNCHANGED <<signed, accepted>>

MessagesInit == messageClock = 0 /\ signed = {} /\ accepted = {}

MessagesNext ==
    \/ \E kind \in {"bid", "report", "assignment"}, a \in SigningAgents, c \in Chains : SignMessage(kind, a, c)
    \/ \E kind \in {"call", "stream"}, a \in SigningAgents, c \in Chains : ClientInterceptor(kind, a, c)
    \* Acceptances are independent of each other: one is followed.
    \/ accepted = {} /\ \E s \in signed : \E r \in Arriving(s) :
         \/ \E c \in Chains : VerifyMessage(s, r, c) \/ ServerInterceptor(s, r, c)
         \/ VerifyBidSignature(s, r) \/ ValidateExecutionReport(s, r)
    \/ MessagesTick

MessagesSpec == MessagesInit /\ [][MessagesNext]_messagesVars

-----------------------------------------------------------------------------
\* What a verifier accepts is what its signer signed, for that chain where the form has
\* one: the agent, the intent and the price of a bid, the result a MessageVerifier
\* accepts, whatever was changed on the way.
AcceptedAsSigned ==
    \A x \in accepted :
        /\ x.got.fields["agent"] = x.sent.key
        /\ x.by[1] \in {"verifier", "interceptor"} => x.by[2] = x.sent.chain
        /\ \A f \in {"intent", "price"} \cap DOMAIN x.got.fields : x.got.fields[f] = x.sent.fields[f]
        /\ x.by[1] = "verifier" /\ x.got.kind = "report" => x.got.fields["result"] = x.sent.fields["result"]

\* A call or stream the interceptor lets pass was signed within the drift allowed, even when its
\* time was rewritten on the way.
CallIsFresh == \A x \in accepted : x.got.kind \in {"call", "stream"} => x.at - x.sent.at <= TimeDrift

\* A report the rules accept for an assignment was signed by the agent it is assigned to,
\* and within the execution time from the assignment on.
ReportIsOfAssignee ==
    \A x \in accepted : x.by[1] = "rules" =>
        x.sent.key = Assignee /\ x.sent.at \in AssignedAt..(AssignedAt + ExecutionTime)

\* What an accepted message says of the one that was signed.
MessagesInv == AcceptedAsSigned /\ CallIsFresh /\ ReportIsOfAssignee
=============================================================================
