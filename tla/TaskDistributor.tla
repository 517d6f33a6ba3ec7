---------------------------- MODULE TaskDistributor ----------------------------
(***************************************************************************)
(* SimpleTaskDistributor (internal/matcher/task_distributor.go), which     *)
(* keeps the tasks handed to agents, retries a task on another agent after *)
(* a rejection or a timeout, and takes timeout and retry limit from the    *)
(* intent (timeout_config.go, intent_metadata.go).  Times are in           *)
(* milliseconds.  The server does not create a distributor yet; tasks come *)
(* from a caller that sends the intent's first task once.                  *)
(*                                                                         *)
(* The sender, the response handler and checkTimeout run concurrently and  *)
(* hold d.mu only between the steps below.  A task's id is the sequence of *)
(* retry numbers appended to the first id.                                 *)
(***************************************************************************)
EXTENDS BidChoice, Integers, Sequences, FiniteSets, Functions

CONSTANTS
    Kinds,          \* intent types that occur, "other" for one without settings
    Remaining,      \* times to the deadline that occur (0: no deadline)
    MaxDepth,       \* bound: retries of retries
    MaxResponses    \* bound: responses handled

VARIABLES
    intent,         \* [kind, remaining, priority]
    activeTasks,    \* id -> [agent, responded, Retries]
    steps,          \* goroutines inside the distributor: <<step, id, agent>>
    responses,      \* responses handled
    retried         \* history: [from, to] agents of each retry

distributorVars == <<intent, activeTasks, steps, responses, retried>>

-----------------------------------------------------------------------------
(* TimeoutConfig                                                           *)

Second == 1000
Minute == 60 * Second
MinResponseTimeout == 5 * Second
MaxResponseTimeout == 2 * Minute
DefaultRetries == 2

\* DefaultTimeoutConfig.
TypeSettings ==
    [real_time    |-> [response |-> 5 * Second,  retries |-> 1],
     urgent       |-> [response |-> 10 * Second, retries |-> 1],
     normal       |-> [response |-> 30 * Second, retries |-> 2],
     batch        |-> [response |-> 60 * Second, retries |-> 3],
     long_running |-> [response |-> 2 * Minute,  retries |-> 3],
     other        |-> [response |-> 30 * Second, retries |-> DefaultRetries]]

\* Deadlines may be past.
ASSUME KindsAssumption == Kinds \subseteq DOMAIN TypeSettings /\ Remaining \subseteq Int

Clamp(t) == IF t < MinResponseTimeout THEN MinResponseTimeout
            ELSE IF t > MaxResponseTimeout THEN MaxResponseTimeout ELSE t

\* A tenth of the time left is for the response; a tight deadline leaves no retries.
ByDeadline(s, left) ==
    IF left <= 0 THEN s
    ELSE [response |-> Clamp(left \div 10),
          retries |-> IF left < Minute THEN 0 ELSE IF left < 5 * Minute THEN 1 ELSE s.retries]

ByPriority(s, priority) ==
    CASE priority = "critical" -> [response |-> (s.response * 3) \div 10, retries |-> 0]
      [] priority = "high"     -> [response |-> s.response \div 2,
                                   retries |-> IF s.retries > 1 THEN 1 ELSE s.retries]
      [] priority = "low"      -> [response |-> s.response * 2, retries |-> 3]
      [] OTHER                 -> s

\* Faulty: the result of the priority is not clamped again.
CalculateTimeoutsUnclamped(kind, left, priority) ==
    ByPriority(ByDeadline(TypeSettings[kind], left), priority)

CalculateTimeouts(kind, left, priority) ==
    LET s == ByPriority(ByDeadline(TypeSettings[kind], left), priority)
    IN  [s EXCEPT !.response = Clamp(@)]

\* ParseIntentMetadata without explicit fields: a near deadline raises the priority.
IntentPriority(prefix, left) ==
    IF left > 0 /\ left < Minute THEN "critical"
    ELSE IF left > 0 /\ left < 5 * Minute /\ prefix = "normal" THEN "high"
    ELSE prefix

\* The first task has the intent's priority, a retry is always sent as "normal".
Settings(id) ==
    CalculateTimeouts(intent.kind, intent.remaining, IF id = <<>> THEN intent.priority ELSE "normal")

-----------------------------------------------------------------------------
(* SimpleTaskDistributor                                                   *)

maxRetries == DefaultRetries

\* Faulty: takes the cheapest bid.
RunnerUpAny(excluded) == {Cheapest(Bidders)}

\* findRunnerUp leaves out only the agent just tried; empty when there is none.
RunnerUp(excluded) ==
    LET others == Bidders \ {excluded}
    IN  IF others = {} THEN {} ELSE {Cheapest(others)}

Active(a) == [agent |-> a, responded |-> FALSE, Retries |-> 0]
Goroutine(step, id, a) == [step |-> step, id |-> id, agent |-> a]

DistributorInit ==
    /\ intent \in {[kind |-> k, remaining |-> r, priority |-> IntentPriority(p, r)] :
                     k \in Kinds, r \in Remaining, p \in {"normal", "high", "critical", "low"}}
    /\ activeTasks = [id \in {<<>>} |-> Active(Cheapest(Bidders))]
    /\ steps = {Goroutine("send", <<>>, Cheapest(Bidders))}
    /\ responses = 0 /\ retried = {}

\* SendTaskWithPriority hands the task to the agent's stream, starts checkTimeout and
\* has the retry limit still to write; or the stream stays full and only the record
\* remains.
SendTask(g) ==
    /\ g.step = "send"
    /\ \/ steps' = (steps \ {g}) \cup {Goroutine("watch", g.id, g.agent), Goroutine("limit", g.id, g.agent)}
       \/ steps' = steps \ {g}
    /\ UNCHANGED <<intent, activeTasks, responses, retried>>

\* The limit is written without the lock, over retries counted since the send.
StoreRetryLimit(g) ==
    /\ g.step = "limit"
    /\ steps' = steps \ {g}
    /\ activeTasks' = IF Settings(g.id).retries < maxRetries
                      THEN [activeTasks EXCEPT ![g.id].Retries = maxRetries - Settings(g.id).retries]
                      ELSE activeTasks
    /\ UNCHANGED <<intent, responses, retried>>

\* HandleResponse: an acceptance only marks the task, a rejection goes on to reassign.
\* Agents answer, perhaps repeatedly, for the tasks they were sent.
HandleResponse(id, accepted) ==
    /\ responses < MaxResponses /\ Goroutine("send", id, activeTasks[id].agent) \notin steps
    /\ responses' = responses + 1
    /\ activeTasks' = [activeTasks EXCEPT ![id].responded = TRUE]
    /\ steps' = IF accepted THEN steps
                ELSE steps \cup {Goroutine("reassign", id, activeTasks[id].agent)}
    /\ UNCHANGED <<intent, retried>>

\* checkTimeout treats silence as a rejection.
CheckTimeout(g) ==
    /\ g.step = "watch"
    /\ steps' = (steps \ {g}) \cup
                IF g.id \in DOMAIN activeTasks /\ ~activeTasks[g.id].responded
                THEN {Goroutine("reassign", g.id, g.agent)} ELSE {}
    /\ UNCHANGED <<intent, activeTasks, responses, retried>>

\* Faulty: one retry too many.
RetriesLeftOffByOne(id) == activeTasks[id].Retries <= maxRetries

RetriesLeft(id) == activeTasks[id].Retries < maxRetries

\* reassignTask counts the retry under the lock, or gives the task up.
ReassignTask(g) ==
    /\ g.step = "reassign"
    /\ IF g.id \in DOMAIN activeTasks /\ RetriesLeft(g.id)
       THEN /\ activeTasks' = [activeTasks EXCEPT ![g.id].Retries = @ + 1]
            /\ steps' = (steps \ {g}) \cup {Goroutine("retry", g.id, g.agent)}
       ELSE steps' = steps \ {g} /\ UNCHANGED activeTasks
    /\ UNCHANGED <<intent, responses, retried>>

\* The rest of reassignTask: a task with a fresh record and count for the runner-up,
\* named by the count read now, over a task of the same name.
Retry(g) ==
    LET id == Append(g.id, activeTasks[g.id].Retries)
    IN  /\ g.step = "retry" /\ Len(id) <= MaxDepth
        /\ \/ \E a \in RunnerUp(g.agent) :
                /\ activeTasks' = [t \in DOMAIN activeTasks \cup {id} |->
                                    IF t = id THEN Active(a) ELSE activeTasks[t]]
                /\ steps' = (steps \ {g}) \cup {Goroutine("send", id, a)}
                /\ retried' = retried \cup {[from |-> g.agent, to |-> a]}
           \/ /\ RunnerUp(g.agent) = {} /\ steps' = steps \ {g}
              /\ UNCHANGED <<activeTasks, retried>>
        /\ UNCHANGED <<intent, responses>>

\* Cleanup drops tasks older than the interval, long after their goroutines are done.
Cleanup(id) ==
    /\ \A g \in steps : g.id # id
    /\ activeTasks' = Restrict(activeTasks, DOMAIN activeTasks \ {id})
    /\ UNCHANGED <<intent, steps, responses, retried>>

DistributorNext ==
    \/ \E g \in steps : SendTask(g) \/ StoreRetryLimit(g) \/ CheckTimeout(g) \/ ReassignTask(g) \/ Retry(g)
    \/ \E id \in DOMAIN activeTasks :
         Cleanup(id) \/ \E accepted \in BOOLEAN : HandleResponse(id, accepted)

DistributorSpec == DistributorInit /\ [][DistributorNext]_distributorVars

-----------------------------------------------------------------------------
\* The timeout an agent is given stays within the configured limits, whatever type,
\* deadline and priority the intent has.
TimeoutWithinLimits ==
    \A id \in DOMAIN activeTasks : Settings(id).response \in MinResponseTimeout..MaxResponseTimeout

\* No task counts more retries than maxRetries, though rejection, timeout and the
\* unlocked write of the limit interleave.
RetriesBounded == \A id \in DOMAIN activeTasks : activeTasks[id].Retries <= maxRetries

\* A retry goes to an agent other than the one that rejected the task or stayed silent.
RetryAvoidsFailed == \A r \in retried : r.from # r.to
=============================================================================
