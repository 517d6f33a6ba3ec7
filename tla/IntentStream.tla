---------------------------- MODULE IntentStream ----------------------------
(***************************************************************************)
(* How an intent reaches an agent: CompleteClient.StreamIntents and        *)
(* GetPendingIntents (internal/rootlayer/complete_client.go), the pulling  *)
(* loop of the matcher with its fall back to polling, AddIntent, the       *)
(* windows that close and open again, the broadcasts and the agents'       *)
(* StreamIntents handlers (internal/matcher/server.go), and the shutdown   *)
(* in cmd/matcher/main.go.                                                 *)
(*                                                                         *)
(* Goroutines: the forwarding one of the subscription, the pulling loop,   *)
(* one handler per agent.  The RootLayer answers a subscription with the   *)
(* intents already pending and then the new ones, as the one in            *)
(* cmd/mock-rootlayer does.  Intents do not expire here; what closes and   *)
(* opens their windows is in Matcher.                                      *)
(***************************************************************************)
EXTENDS Naturals, Sequences, SequencesExt

CONSTANTS
    Intents,        \* intents submitted to the RootLayer
    Agents,         \* agents that open a stream
    PageSize,       \* intents in one answer of GetPendingIntents (100)
    FeedSize,       \* capacity of the subscription's channel (10)
    StreamSize,     \* capacity of an agent's channel (100)
    MaxBreaks       \* bound: times the connection to the RootLayer breaks

VARIABLES
    rootPending,    \* RootLayer: pending intents, in the order submitted
    link,           \* the connection: "up", "down" or, after Close, "closed"
    breaks,         \* times it broke
    done,           \* the context of the matcher is cancelled
    feed,           \* forwarding goroutine [pc, queue, held, broken]: queue is in the gRPC stream
    channel,        \* intentChan [items, closed]
    pulling,        \* pullIntentsFromRootLayer [pc, batch], batch still to be added
    intents,        \* s.intents
    windows,        \* of every intent: "closed" if WindowClosed is set, "reopened" if it was before
    streams,        \* StreamIntents of every agent [pc, queue, seen, missed, skipped, closes]
    phase           \* main: "running", "draining", "stopped", "exited"

streamVars == <<rootPending, link, breaks, done, feed, channel, pulling, intents, windows,
                streams, phase>>

\* What an agent is sent about an intent: that it may bid (NEW_INTENT, EXISTING_INTENT)
\* or no longer (WINDOW_CLOSED, MATCHED).
Opening(i) == [intent |-> i, open |-> TRUE]
Closing(i) == [intent |-> i, open |-> FALSE]

Openings(updates) == {u.intent : u \in {v \in updates : v.open}}

NoFeed == [pc |-> "none", queue |-> <<>>, held |-> <<>>, broken |-> FALSE]
NoStream ==
    [pc |-> "none", queue |-> <<>>, seen |-> {}, missed |-> {}, skipped |-> {}, closes |-> 0]

StreamInit ==
    /\ rootPending = <<>> /\ link = "up" /\ breaks = 0 /\ done = FALSE
    /\ feed = NoFeed /\ channel = [items |-> <<>>, closed |-> FALSE]
    /\ pulling = [pc |-> "connect", batch |-> <<>>] /\ intents = {}
    /\ windows = [i \in Intents |-> "open"]
    /\ streams = [a \in Agents |-> NoStream]
    /\ phase = "running"

-----------------------------------------------------------------------------
(* The RootLayer and the connection                                        *)

NewIntent(i) ==
    /\ ~Contains(rootPending, i)
    /\ rootPending' = Append(rootPending, i)
    /\ feed' = IF feed.pc \in {"recv", "forward"} /\ ~feed.broken
               THEN [feed EXCEPT !.queue = Append(@, i)] ELSE feed
    /\ UNCHANGED <<link, breaks, done, channel, pulling, intents, streams, windows, phase>>

\* What is in the gRPC stream is lost with the connection.
Break ==
    /\ link = "up" /\ breaks < MaxBreaks
    /\ link' = "down" /\ breaks' = breaks + 1
    /\ feed' = [feed EXCEPT !.queue = <<>>, !.broken = TRUE]
    /\ UNCHANGED <<rootPending, done, channel, pulling, intents, streams, windows, phase>>

\* gRPC dials again by itself.
Repair ==
    /\ link = "down" /\ link' = "up"
    /\ UNCHANGED <<rootPending, breaks, done, feed, channel, pulling, intents, streams, windows,
                   phase>>

-----------------------------------------------------------------------------
(* CompleteClient.StreamIntents                                            *)

\* The goroutine closes the channel when it returns, for whatever reason.
EndFeed ==
    /\ feed' = [NoFeed EXCEPT !.pc = "end"]
    /\ channel' = [channel EXCEPT !.closed = TRUE]

\* stream.Recv gives the next intent, or fails with the connection or the context.
Recv ==
    /\ feed.pc = "recv"
    /\ \/ /\ ~done /\ feed.queue # <<>>
          /\ feed' = [feed EXCEPT !.pc = "forward", !.queue = Tail(@),
                                  !.held = <<Head(feed.queue)>>]
          /\ UNCHANGED channel
       \/ (done \/ feed.broken) /\ EndFeed
    /\ UNCHANGED <<rootPending, link, breaks, done, pulling, intents, streams, windows, phase>>

\* Faulty: waits for room in the channel only.
GivesUpNever == FALSE

\* The second case of the select around the send.
GivesUp == done

\* The held intent reaches the channel, or is dropped when the context ends.
Forward ==
    /\ feed.pc = "forward"
    /\ \/ /\ Len(channel.items) < FeedSize
          /\ channel' = [channel EXCEPT !.items = @ \o feed.held]
          /\ feed' = [feed EXCEPT !.pc = "recv", !.held = <<>>]
       \/ GivesUp /\ EndFeed
    /\ UNCHANGED <<rootPending, link, breaks, done, pulling, intents, streams, windows, phase>>

-----------------------------------------------------------------------------
(* pullIntentsFromRootLayer                                                *)

\* StreamIntents returns a channel, or an error while the connection is down: the loop
\* sleeps and tries again.
OpenFeed ==
    /\ pulling.pc = "connect" /\ ~done /\ link = "up"
    /\ pulling' = [pulling EXCEPT !.pc = "stream"]
    /\ feed' = [NoFeed EXCEPT !.pc = "recv", !.queue = rootPending]
    /\ channel' = [items |-> <<>>, closed |-> FALSE]
    /\ UNCHANGED <<rootPending, link, breaks, done, intents, streams, windows, phase>>

\* Faulty: goes on reading the closed channel.
AfterClosedStuck == "stream"

AfterClosed == "poll"

\* The loop takes an intent, or finds the channel closed and empty and turns to polling.
TakeFromStream ==
    /\ pulling.pc = "stream" /\ pulling.batch = <<>> /\ ~done
    /\ \/ /\ channel.items # <<>>
          /\ pulling' = [pulling EXCEPT !.batch = <<Head(channel.items)>>]
          /\ channel' = [channel EXCEPT !.items = Tail(@)]
       \/ /\ channel.items = <<>> /\ channel.closed
          /\ pulling' = [pulling EXCEPT !.pc = AfterClosed]
          /\ UNCHANGED channel
    /\ UNCHANGED <<rootPending, link, breaks, done, feed, intents, streams, windows, phase>>

FirstPage(s) == SubSeq(s, 1, IF Len(s) < PageSize THEN Len(s) ELSE PageSize)

\* GetPendingIntents: the first page, or an error that waits for the next tick.
GetPendingIntents ==
    /\ pulling.pc = "poll" /\ pulling.batch = <<>> /\ ~done /\ link = "up"
    /\ pulling' = [pulling EXCEPT !.batch = FirstPage(rootPending)]
    /\ UNCHANGED <<rootPending, link, breaks, done, feed, channel, intents, streams, windows,
                   phase>>

\* restoreTicker
RestoreStreaming ==
    /\ pulling.pc = "poll" /\ pulling.batch = <<>> /\ ~done
    /\ pulling' = [pulling EXCEPT !.pc = "connect"]
    /\ UNCHANGED <<rootPending, link, breaks, done, feed, channel, intents, streams, windows,
                   phase>>

\* ctx.Done() is looked at before each wait.
PullingEnds ==
    /\ done /\ pulling.pc \in {"connect", "stream", "poll"} /\ pulling.batch = <<>>
    /\ pulling' = [pulling EXCEPT !.pc = "end"]
    /\ UNCHANGED <<rootPending, link, breaks, done, feed, channel, intents, streams, windows,
                   phase>>

\* AddIntent up to the unlock: a duplicate is refused.
AddIntent ==
    LET i == Head(pulling.batch)
    IN  /\ pulling.batch # <<>> /\ pulling.pc \in {"stream", "poll"}
        /\ IF i \in intents
           THEN pulling' = [pulling EXCEPT !.batch = Tail(@)] /\ UNCHANGED intents
           ELSE /\ pulling' = [pulling EXCEPT !.pc =
                                 IF @ = "poll" THEN "poll cast" ELSE "stream cast"]
                /\ intents' = intents \cup {i}
        /\ UNCHANGED <<rootPending, link, breaks, done, feed, channel, streams, windows, phase>>

-----------------------------------------------------------------------------
(* Agents                                                                  *)

\* Sends that do not wait: what the channel has no room for is missed.
Offer(s, items) ==
    LET room == StreamSize - Len(s.queue)
        fit == IF Len(items) < room THEN Len(items) ELSE room
    IN  [s EXCEPT !.queue = @ \o SubSeq(items, 1, fit),
                  !.missed = @ \cup Openings({items[k] : k \in (fit + 1)..Len(items)})]

\* The handler puts its channel into s.intentStreams before it looks at the intents.
Registered(s) == s.pc \in {"registered", "streaming"}

\* broadcastIntentUpdateLocked, for one update or several in a row.
Cast(updates) ==
    [a \in Agents |-> IF Registered(streams[a]) THEN Offer(streams[a], updates) ELSE streams[a]]

\* broadcastIntentUpdate, the last call of AddIntent.
Broadcast ==
    /\ pulling.pc \in {"stream cast", "poll cast"}
    /\ pulling' = [pc |-> IF pulling.pc = "poll cast" THEN "poll" ELSE "stream",
                   batch |-> Tail(pulling.batch)]
    /\ streams' = Cast(<<Opening(Head(pulling.batch))>>)
    /\ UNCHANGED <<rootPending, link, breaks, done, feed, channel, intents, windows, phase>>

WindowClosed == {i \in Intents : windows[i] = "closed"}

\* checkAndCloseWindows, under the lock: WINDOW_CLOSED, after MATCHED if somebody bid.
\* An assignment that fails at once opens the window again before the two are sent.
WindowCloses(i) ==
    /\ i \in intents \ WindowClosed /\ ~done
    /\ \E bidOn \in BOOLEAN, now \in {"closed", "reopened"} :
         /\ now = "reopened" => bidOn
         /\ windows' = [windows EXCEPT ![i] = now]
         /\ streams' = Cast([k \in 1..(IF bidOn THEN 2 ELSE 1) |-> Closing(i)])
    /\ UNCHANGED <<rootPending, link, breaks, done, feed, channel, pulling, intents, phase>>

\* resetIntentWindowLocked after a runner-up's failure, which no stream is told of.
WindowReopens(i) ==
    /\ i \in WindowClosed
    /\ windows' = [windows EXCEPT ![i] = "reopened"]
    /\ UNCHANGED <<rootPending, link, breaks, done, feed, channel, pulling, intents, streams,
                   phase>>

\* GracefulStop takes no new calls.
StreamIntents(a) ==
    /\ streams[a].pc = "none" /\ phase = "running"
    /\ streams' = [streams EXCEPT ![a].pc = "registered"]
    /\ UNCHANGED <<rootPending, link, breaks, done, feed, channel, pulling, intents, windows,
                   phase>>

\* Faulty: a new stream only gets new intents.
ExistingNone == {}

Existing == {Opening(i) : i \in intents \ WindowClosed}

\* "Send existing intents first", those whose window is open, in the order of the map.
SendExisting(a) ==
    /\ streams[a].pc = "registered"
    /\ \E order \in SetToSeqs(Existing) :
         streams' = [streams EXCEPT ![a] = [Offer(streams[a], order) EXCEPT
                       !.pc = "streaming", !.skipped = intents \cap WindowClosed]]
    /\ UNCHANGED <<rootPending, link, breaks, done, feed, channel, pulling, intents, windows,
                   phase>>

StreamUpdate(a) ==
    /\ streams[a].pc = "streaming" /\ streams[a].queue # <<>>
    /\ streams' = [streams EXCEPT ![a].queue = Tail(@),
                                  ![a].seen = @ \cup Openings({Head(streams[a].queue)})]
    /\ UNCHANGED <<rootPending, link, breaks, done, feed, channel, pulling, intents, windows,
                   phase>>

\* The agent leaves; the deferred cleanup closes the channel.
AgentLeaves(a) ==
    /\ streams[a].pc = "streaming"
    /\ streams' = [streams EXCEPT ![a].pc = "left", ![a].closes = @ + 1]
    /\ UNCHANGED <<rootPending, link, breaks, done, feed, channel, pulling, intents, windows,
                   phase>>

-----------------------------------------------------------------------------
(* Shutdown                                                                *)

ShutdownSignal ==
    /\ phase = "running" /\ phase' = "draining"
    /\ UNCHANGED <<rootPending, link, breaks, done, feed, channel, pulling, intents, streams,
                   windows>>

\* Faulty: Stop does not wait for GracefulStop.
DrainedAlways == TRUE

\* GracefulStop returns when the last handler has.
Drained == \A a \in Agents : streams[a].pc \in {"none", "left"}

\* Server.Stop: closes the client and every channel still registered.
Stop ==
    /\ phase = "draining" /\ Drained
    /\ phase' = "stopped" /\ link' = "closed"
    /\ feed' = [feed EXCEPT !.queue = <<>>, !.broken = TRUE]
    /\ streams' = [a \in Agents |->
                     IF Registered(streams[a]) THEN [streams[a] EXCEPT !.closes = @ + 1]
                     ELSE streams[a]]
    /\ UNCHANGED <<rootPending, breaks, done, channel, pulling, intents, windows>>

\* main returns; its deferred cancel ends the context.
Exit ==
    /\ phase = "stopped" /\ phase' = "exited" /\ done' = TRUE
    /\ UNCHANGED <<rootPending, link, breaks, feed, channel, pulling, intents, streams, windows>>

\* The forwarding goroutine and the pulling loop.
Forwarding == Recv \/ Forward

Pulling ==
    \/ OpenFeed \/ TakeFromStream \/ GetPendingIntents \/ PullingEnds
    \/ AddIntent \/ Broadcast

StreamNext ==
    \/ \E i \in Intents : NewIntent(i)
    \/ Break \/ Repair \/ Forwarding \/ Pulling \/ RestoreStreaming
    \/ \E i \in Intents : WindowCloses(i) \/ WindowReopens(i)
    \/ \E a \in Agents : StreamIntents(a) \/ SendExisting(a) \/ StreamUpdate(a) \/ AgentLeaves(a)
    \/ ShutdownSignal \/ Stop \/ Exit

\* Goroutines that can go on do; tickers tick; gRPC dials again after a break; main goes on
\* after Stop.  Agents and signals are free.
StreamFairness ==
    /\ WF_streamVars(Repair) /\ WF_streamVars(Forwarding) /\ WF_streamVars(Pulling)
    /\ SF_streamVars(RestoreStreaming) /\ WF_streamVars(Exit)

StreamSpec == StreamInit /\ [][StreamNext]_streamVars /\ StreamFairness

-----------------------------------------------------------------------------
\* An intent submitted to the RootLayer gets its bidding window, though the stream breaks with
\* the intent in flight, polling sees one page and the loop changes between the two modes;
\* unless the matcher is being stopped.
EveryIntentAdded ==
    \A i \in Intents : Contains(rootPending, i) ~> (i \in intents \/ phase # "running")

\* After main's cancel the forwarding goroutine ends, also when it waits for room in a channel
\* that the loop no longer reads.
FeedReleased == (phase = "exited") ~> (feed.pc \in {"none", "end"} /\ pulling.pc = "end")

\* Intents go on while the matcher runs, and its goroutines end when it does.
IntentsGoOn == EveryIntentAdded /\ FeedReleased

\* The agent has been told that it may bid for i, or its channel was full.
Told(s, i) == i \in s.seen \cup s.missed \/ Contains(s.queue, Opening(i))

\* A streaming agent is told of every intent the matcher has finished adding, unless its
\* channel was full, although the handler registers, lists the open intents and streams
\* in three steps, AddIntent inserts and broadcasts in two, and windows close in between.
\* What it is not told of was closed when it listed them, and is closed still or was
\* opened again, which is not broadcast.
StreamMissesNothing ==
    \A a \in Agents :
      /\ \A i \in streams[a].skipped : windows[i] # "open"
      /\ streams[a].pc = "streaming" =>
           \A i \in intents \ streams[a].skipped :
             \/ Told(streams[a], i)
             \/ pulling.pc \in {"stream cast", "poll cast"} /\ i = Head(pulling.batch)

\* No channel of an agent is closed twice, which would panic: by Stop and by its handler.
ChannelClosedOnce == \A a \in Agents : streams[a].closes <= 1

\* What the streams of the agents may rely on.
StreamInv == StreamMissesNothing /\ ChannelClosedOnce
=============================================================================
