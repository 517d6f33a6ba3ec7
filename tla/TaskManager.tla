------------------------------ MODULE TaskManager ------------------------------
(***************************************************************************)
(* SimpleTaskManager (internal/matcher/simple_task_manager.go): hands the  *)
(* task of one intent to the winning agent, waits for its answer, and on   *)
(* rejection, silence or a failed send goes on to the cheapest other bid.  *)
(*                                                                         *)
(* The goroutines: the one that sends a task, waitForResponse, the         *)
(* response handler and monitorExecution.  tm.mu is given up between       *)
(* registering a task and sending it, and between deciding to hand a task  *)
(* over and looking it up again.                                           *)
(***************************************************************************)
EXTENDS BidChoice, Sequences, FiniteSets

CONSTANT
    MaxTasks        \* bound: tasks created

VARIABLES
    tasks,          \* the tasks created, in order
    pendingTasks,   \* indices of the tasks still in the map
    agentTasks,     \* agent -> the tasks it is said to hold
    sending,        \* tasks registered and not yet sent
    waiting,        \* tasks waitForResponse sleeps on
    handing,        \* tasks being handed over to the runner-up
    handed,         \* history: tasks handed over, or given up with their intent
    monitored,      \* tasks monitorExecution sleeps on
    submitted,      \* assignments submitted to the RootLayer
    expired,        \* the intent's deadline has passed
    managerCrashed  \* a goroutine has dereferenced nil

managerVars == <<tasks, pendingTasks, agentTasks, sending, waiting, handing, handed,
                 monitored, submitted, expired, managerCrashed>>

Task(a) == [agent |-> a, sent |-> FALSE, responded |-> FALSE, accepted |-> FALSE]

\* CreateAndSendTask up to the send.
Register(a) ==
    /\ tasks' = Append(tasks, Task(a))
    /\ pendingTasks' = pendingTasks \cup {Len(tasks) + 1}
    /\ agentTasks' = [agentTasks EXCEPT ![a] = @ \cup {Len(tasks) + 1}]
    /\ sending' = sending \cup {Len(tasks) + 1}

ManagerInit ==
    /\ tasks = <<Task(Cheapest(Bidders))>>
    /\ pendingTasks = {1} /\ sending = {1}
    /\ agentTasks = [a \in Bidders |-> IF a = Cheapest(Bidders) THEN {1} ELSE {}]
    /\ waiting = {} /\ handing = {} /\ handed = {} /\ monitored = {}
    /\ submitted = {}
    /\ expired = FALSE /\ managerCrashed = FALSE

-----------------------------------------------------------------------------
\* sendTaskToAgent succeeds and waitForResponse starts, or there is no stream or it is
\* full, and the task is handed over at once.
SendTaskToAgent(t) ==
    /\ t \in sending
    /\ sending' = sending \ {t}
    /\ \/ /\ waiting' = waiting \cup {t} /\ tasks' = [tasks EXCEPT ![t].sent = TRUE]
          /\ UNCHANGED handing
       \/ handing' = handing \cup {t} /\ UNCHANGED <<waiting, tasks>>
    /\ UNCHANGED <<pendingTasks, agentTasks, handed, monitored, submitted,
                   expired, managerCrashed>>

\* HandleAgentResponse, on time or late, first or repeated.
HandleAgentResponse(t, accepts) ==
    /\ t \in pendingTasks /\ tasks[t].sent
    /\ tasks' = [tasks EXCEPT ![t].responded = TRUE, ![t].accepted = accepts]
    /\ IF accepts
       THEN /\ submitted' = submitted \cup {t}
            /\ monitored' = IF expired THEN monitored ELSE monitored \cup {t}
            /\ UNCHANGED handing
       ELSE /\ handing' = handing \cup {t} /\ UNCHANGED <<submitted, monitored>>
    /\ UNCHANGED <<pendingTasks, agentTasks, sending, waiting, handed, expired, managerCrashed>>

\* Faulty: takes a task that is gone, or answered, for one that needs no answer and the
\* others too.
WaiterGivesUp(t) == FALSE

\* waitForResponse wakes: a task still there and not answered is handed over.
WaiterActs(t) == t \in pendingTasks /\ ~tasks[t].responded

WaitForResponse(t) ==
    /\ t \in waiting
    /\ waiting' = waiting \ {t}
    /\ handing' = IF WaiterActs(t) THEN handing \cup {t} ELSE handing
    /\ UNCHANGED <<tasks, pendingTasks, agentTasks, sending, handed, monitored,
                   submitted, expired, managerCrashed>>

\* Faulty: leaves the agent's index alone.
ForgetTasksOnly(S) ==
    /\ pendingTasks' = pendingTasks \ S
    /\ agentTasks' = agentTasks

\* delete(pendingTasks, id) with the agent's index.
Forget(S) ==
    /\ pendingTasks' = pendingTasks \ S
    /\ agentTasks' = [a \in Bidders |-> agentTasks[a] \ S]

\* tryRunnerUp: nothing after the deadline; only the agent just tried is left out.
\* Without another bid the intent fails and all its tasks are dropped.  The next task
\* takes the intent from the task handed over, gone from the map or not.
TryRunnerUp(t) ==
    /\ t \in handing
    /\ handing' = handing \ {t} /\ handed' = handed \cup {t}
    /\ LET others == Bidders \ {tasks[t].agent}
           gone == t \notin pendingTasks
       IN  \/ /\ ~gone /\ expired
              /\ UNCHANGED <<tasks, pendingTasks, agentTasks, sending, managerCrashed>>
           \/ /\ gone \/ ~expired
              /\ others = {}
              /\ Forget(pendingTasks)
              /\ UNCHANGED <<tasks, sending, managerCrashed>>
           \/ /\ gone /\ others # {}
              /\ managerCrashed' = TRUE
              /\ UNCHANGED <<tasks, pendingTasks, agentTasks, sending>>
           \/ /\ ~gone /\ ~expired /\ others # {} /\ Len(tasks) < MaxTasks
              /\ Register(Cheapest(others))
              /\ UNCHANGED managerCrashed
    /\ UNCHANGED <<waiting, monitored, submitted, expired>>

\* The deadline: a new task is refused from now on.
Expire ==
    /\ ~expired /\ expired' = TRUE
    /\ UNCHANGED <<tasks, pendingTasks, agentTasks, sending, waiting, handing, handed,
                   monitored, submitted, managerCrashed>>

\* monitorExecution wakes at the deadline; handleTaskTimeout never has time left to
\* reassign then, so the intent fails and its tasks are dropped.
MonitorExecution(t) ==
    /\ t \in monitored /\ expired
    /\ monitored' = monitored \ {t}
    /\ IF t \in pendingTasks /\ tasks[t].accepted
       THEN Forget(pendingTasks) /\ handed' = handed \cup pendingTasks
       ELSE UNCHANGED <<pendingTasks, agentTasks, handed>>
    /\ UNCHANGED <<tasks, sending, waiting, handing, submitted, expired, managerCrashed>>

\* CleanupOldTasks, an hour after a task was created.
CleanupOldTasks ==
    /\ \E S \in SUBSET (pendingTasks \ sending) : S # {} /\ Forget(S)
    /\ UNCHANGED <<tasks, sending, waiting, handing, handed, monitored, submitted,
                   expired, managerCrashed>>

ManagerNext ==
    /\ ~managerCrashed
    /\ \/ \E t \in 1..Len(tasks) :
            \/ SendTaskToAgent(t) \/ WaitForResponse(t) \/ TryRunnerUp(t) \/ MonitorExecution(t)
            \/ \E accepts \in BOOLEAN : HandleAgentResponse(t, accepts)
       \/ CleanupOldTasks \/ Expire

ManagerSpec == ManagerInit /\ [][ManagerNext]_managerVars

-----------------------------------------------------------------------------
\* A task that is in the map and not answered has a goroutine that will hand it on:
\* it is being sent, waited for or handed over, or it has been handed over.
NoTaskForgotten ==
    \A t \in pendingTasks : ~tasks[t].responded => t \in sending \cup waiting \cup handing \cup handed

\* The index of an agent's tasks and the map of tasks agree after every rejection,
\* timeout, failure and cleanup.
AgentIndexAgrees ==
    \A a \in Bidders : agentTasks[a] = {t \in pendingTasks : tasks[t].agent = a}
=============================================================================
