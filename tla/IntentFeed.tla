------------------------------ MODULE IntentFeed ------------------------------
(***************************************************************************)
(* IntentPuller (internal/matcher/intent_puller.go): pulls the pending     *)
(* intents of the RootLayer, keeps them and feeds them to the subscribed   *)
(* agents; a new subscriber is caught up by a goroutine of its own.        *)
(*                                                                         *)
(* PullPendingIntents calls the RootLayer before it takes the lock, so     *)
(* pulls overlap; sendPendingIntents sends after it has given the lock up, *)
(* so Unsubscribe may close the channel it sends on, which panics.         *)
(***************************************************************************)
EXTENDS Naturals, Sequences, FiniteSets

CONSTANTS
    Subscribers,    \* subscribing agents, with capabilities that match every intent
    FeedIntents,    \* intents of the RootLayer
    Pullers,        \* goroutines that pull and broadcast
    ChannelSize,    \* capacity of a subscription's channel (100)
    MaxSubs,        \* bound: subscriptions made
    MaxForgets      \* bound: processed records dropped

ASSUME FeedAssumption == IsFiniteSet(Pullers) /\ ChannelSize \in Nat

NoSubscription == 0

VARIABLES
    atRoot,             \* intents the RootLayer reports as pending
    pendingIntents,     \* every intent ever pulled
    processedIntents,   \* intents not to be pulled again
    puller,             \* puller -> what it fetched, then what it must broadcast
    subs,               \* every subscription: [agent, queued, got, missed, closed]
    subscriptions,      \* agent -> its subscription, or NoSubscription
    senders,            \* sendPendingIntents at work: sub -> intents left to send
    broadcasts,         \* history: intent -> times broadcast
    forgets,            \* history: intent -> times its processed record was dropped
    feedCrashed         \* a goroutine sent on a closed channel

feedVars == <<atRoot, pendingIntents, processedIntents, puller, subs, subscriptions, senders,
          broadcasts, forgets, feedCrashed>>

NotPulling == [pc |-> "idle", set |-> {}]

FeedInit ==
    /\ atRoot = {} /\ pendingIntents = {} /\ processedIntents = {}
    /\ puller = [p \in Pullers |-> NotPulling]
    /\ subs = <<>> /\ senders = {}
    /\ subscriptions = [a \in Subscribers |-> NoSubscription]
    /\ broadcasts = [i \in FeedIntents |-> 0] /\ forgets = [i \in FeedIntents |-> 0]
    /\ feedCrashed = FALSE

\* A requester submits an intent to the RootLayer (it stays pending there).
AppearAtRoot(i) ==
    /\ i \notin atRoot /\ atRoot' = atRoot \cup {i}
    /\ UNCHANGED <<pendingIntents, processedIntents, puller, subs, subscriptions, senders,
                   broadcasts, forgets, feedCrashed>>

\* PullPendingIntents up to the lock: GetPendingIntents answers, or fails with nothing.
Fetch(p) ==
    /\ puller[p] = NotPulling
    /\ \E S \in {atRoot, {}} : puller' = [puller EXCEPT ![p] = [pc |-> "fetched", set |-> S]]
    /\ UNCHANGED <<atRoot, pendingIntents, processedIntents, subs, subscriptions, senders,
                   broadcasts, forgets, feedCrashed>>

\* Faulty: broadcasts whatever was fetched.
NewAmongAll(S) == S

\* FeedIntents not processed before.
NewAmong(S) == S \ processedIntents

\* Faulty: keeps nothing for later subscribers.
PendingAfterNothing(new) == pendingIntents

PendingAfter(new) == pendingIntents \cup new

\* The rest of PullPendingIntents.
FilterFetched(p) ==
    /\ puller[p].pc = "fetched"
    /\ LET new == NewAmong(puller[p].set)
       IN  /\ pendingIntents' = PendingAfter(new)
           /\ processedIntents' = processedIntents \cup new
           /\ puller' = [puller EXCEPT ![p] = [pc |-> "broadcast", set |-> new]]
    /\ UNCHANGED <<atRoot, subs, subscriptions, senders, broadcasts, forgets, feedCrashed>>

Misses(s, set) == [s EXCEPT !.missed = @ \cup set]

\* A send that does not block: a full channel misses the intent.
TrySend(s, i) ==
    IF Len(s.queued) < ChannelSize
    THEN [s EXCEPT !.queued = Append(@, i), !.got = @ \cup {i}]
    ELSE Misses(s, {i})

\* BroadcastIntent, with the subscriptions locked; no current one is closed.
BroadcastIntent(p, i) ==
    /\ puller[p].pc = "broadcast" /\ i \in puller[p].set
    /\ puller' = [puller EXCEPT ![p].set = @ \ {i}]
    /\ subs' = [s \in DOMAIN subs |->
                  IF subscriptions[subs[s].agent] = s THEN TrySend(subs[s], i) ELSE subs[s]]
    /\ broadcasts' = [broadcasts EXCEPT ![i] = @ + 1]
    /\ UNCHANGED <<atRoot, pendingIntents, processedIntents, subscriptions, senders,
                   forgets, feedCrashed>>

PullDone(p) ==
    /\ puller[p].pc = "broadcast" /\ puller[p].set = {}
    /\ puller' = [puller EXCEPT ![p] = NotPulling]
    /\ UNCHANGED <<atRoot, pendingIntents, processedIntents, subs, subscriptions, senders,
                   broadcasts, forgets, feedCrashed>>

Closed(a) == [s \in DOMAIN subs |-> IF s = subscriptions[a] THEN [subs[s] EXCEPT !.closed = TRUE]
                                    ELSE subs[s]]

\* Subscribe closes the agent's earlier subscription and starts sendPendingIntents.
Subscribe(a) ==
    /\ Len(subs) < MaxSubs
    /\ subs' = Append(Closed(a), [agent |-> a, queued |-> <<>>, got |-> {}, missed |-> {}, closed |-> FALSE])
    /\ subscriptions' = [subscriptions EXCEPT ![a] = Len(subs) + 1]
    /\ senders' = senders \cup {[sub |-> Len(subs) + 1, pc |-> "copy", left |-> {}]}
    /\ UNCHANGED <<atRoot, pendingIntents, processedIntents, puller, broadcasts, forgets, feedCrashed>>

Unsubscribe(a) ==
    /\ subscriptions[a] # NoSubscription
    /\ subs' = Closed(a)
    /\ subscriptions' = [subscriptions EXCEPT ![a] = NoSubscription]
    /\ UNCHANGED <<atRoot, pendingIntents, processedIntents, puller, senders, broadcasts, forgets, feedCrashed>>

\* sendPendingIntents copies the pending intents under the read lock ...
CopyPending(g) ==
    /\ g.pc = "copy"
    /\ senders' = (senders \ {g}) \cup {[g EXCEPT !.pc = "send", !.left = pendingIntents]}
    /\ UNCHANGED <<atRoot, pendingIntents, processedIntents, puller, subs, subscriptions,
                   broadcasts, forgets, feedCrashed>>

\* ... and sends them one by one without it; on a channel full for a second it gives up.
SendPending(g) ==
    /\ g.pc = "send" /\ g.left # {}
    /\ IF subs[g.sub].closed
       THEN feedCrashed' = TRUE /\ UNCHANGED <<subs, senders>>
       ELSE /\ \E i \in g.left :
                 /\ subs' = [subs EXCEPT ![g.sub] =
                               IF Len(@.queued) < ChannelSize THEN TrySend(@, i)
                               ELSE Misses(@, g.left)]
                 /\ senders' = (senders \ {g}) \cup
                               IF Len(subs[g.sub].queued) < ChannelSize
                               THEN {[g EXCEPT !.left = @ \ {i}]} ELSE {}
            /\ UNCHANGED feedCrashed
    /\ UNCHANGED <<atRoot, pendingIntents, processedIntents, puller, subscriptions,
                   broadcasts, forgets>>

SendDone(g) ==
    /\ g.pc = "send" /\ g.left = {} /\ senders' = senders \ {g}
    /\ UNCHANGED <<atRoot, pendingIntents, processedIntents, puller, subs, subscriptions,
                   broadcasts, forgets, feedCrashed>>

\* The agent reads its channel.
ReadChannel(s) ==
    /\ subs[s].queued # <<>> /\ ~subs[s].closed
    /\ subs' = [subs EXCEPT ![s].queued = Tail(@)]
    /\ UNCHANGED <<atRoot, pendingIntents, processedIntents, puller, subscriptions, senders,
                   broadcasts, forgets, feedCrashed>>

\* CleanupProcessed, past its limit, drops records in no particular order.
CleanupProcessed(i) ==
    /\ i \in processedIntents /\ forgets[i] < MaxForgets
    /\ processedIntents' = processedIntents \ {i}
    /\ forgets' = [forgets EXCEPT ![i] = @ + 1]
    /\ UNCHANGED <<atRoot, pendingIntents, puller, subs, subscriptions, senders, broadcasts, feedCrashed>>

FeedNext ==
    /\ ~feedCrashed
    /\ \/ \E i \in FeedIntents : AppearAtRoot(i) \/ CleanupProcessed(i)
       \/ \E p \in Pullers : Fetch(p) \/ FilterFetched(p) \/ PullDone(p)
                             \/ \E i \in FeedIntents : BroadcastIntent(p, i)
       \/ \E a \in Subscribers : Subscribe(a) \/ Unsubscribe(a)
       \/ \E g \in senders : CopyPending(g) \/ SendPending(g) \/ SendDone(g)
       \/ \E s \in DOMAIN subs : ReadChannel(s)

FeedSpec == FeedInit /\ [][FeedNext]_feedVars

-----------------------------------------------------------------------------
\* A subscriber that has been caught up is missing no intent already broadcast, unless
\* its channel was full: what was pulled before it subscribed comes from the copy, what
\* was pulled later by broadcast, however pull, broadcast and subscription interleave.
NoIntentMissed ==
    \A a \in Subscribers :
        LET s == subscriptions[a]
        IN  s # NoSubscription /\ (\A g \in senders : g.sub # s)
            => \A i \in FeedIntents :
                 broadcasts[i] > 0 /\ (\A p \in Pullers : i \notin puller[p].set)
                 => i \in subs[s].got \cup subs[s].missed

\* Overlapping pulls broadcast an intent once, and again only for each time its processed
\* record was dropped.
BroadcastOnce == \A i \in FeedIntents : broadcasts[i] <= 1 + forgets[i]
=============================================================================
