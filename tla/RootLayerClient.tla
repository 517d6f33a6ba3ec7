--------------------------- MODULE RootLayerClient ---------------------------
(***************************************************************************)
(* internal/rootlayer/complete_client.go: one client shared by the        *)
(* goroutines of a matcher or validator.  A call takes the client handle   *)
(* under the lock, releases the lock and talks to the RootLayer; Connect   *)
(* and Close may come in between.  The RootLayer records what it accepts   *)
(* before its answer, which may be lost, reaches the caller.               *)
(***************************************************************************)
EXTENDS Naturals, FiniteSets

CONSTANTS
    Callers,        \* goroutines that use the client
    Items,          \* bundles, intents and assignments, by their id
    MaxConnections, \* bound: connections ever made
    MaxSubmits      \* bound: calls of each goroutine

VARIABLES
    conn,           \* c.conn and the stubs built on it, 0 for nil
    connected,      \* c.connected
    open,           \* gRPC connections not closed yet
    made,           \* number of connections made
    calls,          \* call of every goroutine
    ledger          \* what the RootLayer has recorded, with its status

clientVars == <<conn, connected, open, made, calls, ledger>>

Ops == {"SubmitValidationBundle", "SubmitValidationBundleBatch", "SubmitIntentBatch",
        "SubmitAssignment", "PostAssignmentBatch"}
\* The RootLayer accepts these item by item and says so in its answer.
CountedBatches == {"SubmitValidationBundleBatch", "SubmitIntentBatch"}
Assignments == {"SubmitAssignment", "PostAssignmentBatch"}
Statuses == {"UNSPECIFIED", "ACTIVE", "DONE", "FAILED"}

Idle == [pc |-> "idle", op |-> "", items |-> {}, status |-> "", conn |-> 0, resp |-> {}, ok |-> FALSE, n |-> 0]

ClientInit ==
    /\ conn = 0 /\ connected = FALSE /\ open = {} /\ made = 0
    /\ calls = [g \in Callers |-> Idle] /\ ledger = {}

-----------------------------------------------------------------------------
\* Faulty: dials although there is a connection.
MayDialAlways == made < MaxConnections

\* Connect returns at once on a connected client.
MayDial == ~connected /\ made < MaxConnections

Connect ==
    /\ MayDial
    /\ made' = made + 1 /\ conn' = made + 1 /\ open' = open \cup {made + 1} /\ connected' = TRUE
    /\ UNCHANGED <<calls, ledger>>

Close ==
    /\ conn # 0
    /\ open' = open \ {conn} /\ conn' = 0 /\ connected' = FALSE
    /\ UNCHANGED <<made, calls, ledger>>

\* Both assignment calls overwrite the status in the caller's own record.
SentStatus(op, status) ==
    IF op \in Assignments /\ status # "FAILED" THEN "ACTIVE" ELSE status

Return(g, ok) == [calls EXCEPT ![g] = [@ EXCEPT !.pc = "returned", !.ok = ok]]

\* The checks before the RPC: a handle, and something to send.
Submit(g, op, items, status) ==
    /\ calls[g].pc = "idle" /\ calls[g].n < MaxSubmits
    /\ calls' = [calls EXCEPT ![g] =
         [pc |-> IF conn = 0 \/ items = {} THEN "returned" ELSE "sent", op |-> op, items |-> items,
          status |-> SentStatus(op, status), conn |-> conn, resp |-> {}, ok |-> FALSE, n |-> @.n + 1]]
    /\ UNCHANGED <<conn, connected, open, made, ledger>>

\* One bundle; nil is refused.
SubmitValidationBundle(g, items) ==
    Cardinality(items) <= 1 /\ Submit(g, "SubmitValidationBundle", items, "UNSPECIFIED")

SubmitValidationBundleBatch(g, items) == Submit(g, "SubmitValidationBundleBatch", items, "UNSPECIFIED")

SubmitIntentBatch(g, items) == Submit(g, "SubmitIntentBatch", items, "UNSPECIFIED")

SubmitAssignment(g, i, status) == Submit(g, "SubmitAssignment", {i}, status)

PostAssignmentBatch(g, items, status) == Submit(g, "PostAssignmentBatch", items, status)

\* The result of a match, as an ACTIVE assignment with an id of intent and second.
SubmitMatchingResult(g, i) == SubmitAssignment(g, i, "ACTIVE")

\* External: the RootLayer takes all, nothing or, in a counted batch, a part.
Handle(g, taken) ==
    /\ calls[g].pc = "sent" /\ calls[g].conn \in open
    /\ taken \in {{}, calls[g].items} \/ calls[g].op \in CountedBatches
    /\ ledger' = ledger \cup {[id |-> i, status |-> calls[g].status] : i \in taken}
    /\ calls' = [calls EXCEPT ![g] = [@ EXCEPT !.pc = "answered", !.resp = taken]]
    /\ UNCHANGED <<conn, connected, open, made>>

\* Faulty: takes any answer for a success.
SucceedsAlways(call) == TRUE

\* resp.Ok where there is one; a counted batch returns the counts without an error.
Succeeds(call) == call.op \in CountedBatches \/ call.resp = call.items

Receive(g) ==
    /\ calls[g].pc = "answered" /\ calls[g].conn \in open
    /\ calls' = Return(g, Succeeds(calls[g]))
    /\ UNCHANGED <<conn, connected, open, made, ledger>>

\* The context ends or the connection was closed under the call.
Fail(g) ==
    /\ calls[g].pc \in {"sent", "answered"}
    /\ calls' = Return(g, FALSE)
    /\ UNCHANGED <<conn, connected, open, made, ledger>>

\* The caller goes on; what it may believe is in ok, items and resp until its next call.
NextCall(g) ==
    /\ calls[g].pc = "returned"
    /\ calls' = [calls EXCEPT ![g] = [Idle EXCEPT !.n = calls[g].n]]
    /\ UNCHANGED <<conn, connected, open, made, ledger>>

\* Calls that ask for a handle and then answer without the RootLayer.
AnswerLocally(g, op) ==
    /\ calls[g].pc = "idle" /\ calls[g].n < MaxSubmits
    /\ calls' = [calls EXCEPT ![g] = [Idle EXCEPT !.pc = "returned", !.op = op, !.ok = conn # 0,
                                                 !.n = calls[g].n + 1]]
    /\ UNCHANGED <<conn, connected, open, made, ledger>>

\* Says ACTIVE of any assignment.
GetAssignment(g) == AnswerLocally(g, "GetAssignment")

\* Only logs: nothing is submitted.
SubmitCheckpoint(g) == AnswerLocally(g, "SubmitCheckpoint")

\* Three made-up validators with a threshold of 2/3.
GetValidatorSet(g) == AnswerLocally(g, "GetValidatorSet")

\* Only logs: nothing is registered.
RegisterValidator(g) == AnswerLocally(g, "RegisterValidator")

ClientNext ==
    \/ Connect \/ Close
    \/ \E g \in Callers :
         \/ \E items \in SUBSET Items :
              \/ SubmitValidationBundle(g, items) \/ SubmitValidationBundleBatch(g, items)
              \/ SubmitIntentBatch(g, items)
              \/ \E status \in Statuses : PostAssignmentBatch(g, items, status)
         \/ \E i \in Items :
              SubmitMatchingResult(g, i) \/ \E status \in Statuses : SubmitAssignment(g, i, status)
         \/ GetAssignment(g) \/ SubmitCheckpoint(g) \/ GetValidatorSet(g) \/ RegisterValidator(g)
         \/ \E taken \in SUBSET calls[g].items : Handle(g, taken)
         \/ Receive(g) \/ Fail(g) \/ NextCall(g)

-----------------------------------------------------------------------------
\* A submission that returned without an error, though connections came and went between its
\* check and its answer, is recorded at the RootLayer: every item of a single call or an
\* assignment batch, the counted ones of the others.  An assignment is recorded as ACTIVE or
\* FAILED, whatever status the matcher passed in.
AckedIsRecorded ==
    \A g \in Callers :
      LET c == calls[g]
          counted == IF c.op \in CountedBatches THEN c.resp ELSE c.items
      IN  c.pc = "returned" /\ c.ok /\ c.op \in Ops =>
            /\ \A i \in counted : [id |-> i, status |-> c.status] \in ledger
            /\ c.op \in Assignments => c.status \in {"ACTIVE", "FAILED"}

\* Every connection that was dialled and not closed is the one the client holds: Connect and
\* Close racing with each other and with calls leak none, and connected says whether there is one.
NoConnectionLeaked == open = {conn} \ {0} /\ connected = (conn # 0)

\* What the matcher and the validators rely on when a call returns and when the client is closed.
ClientInv == AckedIsRecorded /\ NoConnectionLeaked
=============================================================================
