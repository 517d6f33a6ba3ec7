---------------------------- MODULE AuthInterceptor ----------------------------
(***************************************************************************)
(* The gRPC interceptor of the validator service                           *)
(* (internal/validator/auth_interceptor.go): timestamp window, nonces, the *)
(* cache of agents' public keys and the signature of a request.            *)
(*                                                                         *)
(* Handlers run concurrently; nonceMu and cacheMu are taken one after the  *)
(* other, so a request is authenticated in three steps: the timestamp, the *)
(* nonce, and the key with the signature.                                  *)
(***************************************************************************)
EXTENDS Naturals, FiniteSets

CONSTANTS
    Agents,         \* agents that sign requests
    Nonces,         \* nonces agents draw
    Handlers,       \* goroutines inside the interceptor
    Second,         \* ticks of a second: the clock is finer than time.Now().Unix()
    Window,         \* 300: seconds a timestamp may differ from the clock
    MaxStep,        \* bound: ticks a handler spends between two of its steps
    SignTime,       \* bound: last tick at which an agent signs
    AuthTime        \* bound: ticks of a behaviour

NonceLife == 2 * Window * Second     \* 10 minutes
KeyLife == Window * Second           \* 5 minutes
Unix(t) == t \div Second

VARIABLES
    clock,
    sent,           \* requests agents have signed
    usedNonces,     \* nonce -> when it was stored, with the others absent
    agentCache,     \* agent -> when its key was cached, with the others absent
    handler,        \* step of each goroutine
    authenticated   \* history: the requests handed on to the service, with a count

authVars == <<clock, sent, usedNonces, agentCache, handler, authenticated>>

Free == [pc |-> "free"]

AuthInit ==
    /\ clock = 0
    /\ sent = {}
    /\ usedNonces = [n \in {} |-> 0]
    /\ agentCache = [a \in {} |-> 0]
    /\ handler = [h \in Handlers |-> Free]
    /\ authenticated = [r \in {} |-> 0]

\* An agent signs a request with a fresh nonce and any timestamp: its clock may be
\* behind the server's or ahead of it.  The first requests carry its public key, and
\* some a signature that does not recover to it.  A request may reach the server any
\* number of times.  "signed" is the server's clock at that moment, for the property.
SignRequest(a, n) ==
    /\ clock <= SignTime /\ \A r \in sent : r.nonce # n
    /\ \E ts \in 0..Unix(AuthTime) + Window : \E key, good \in BOOLEAN :
         sent' = sent \cup {[agent |-> a, nonce |-> n, timestamp |-> ts, key |-> key,
                            good |-> good, signed |-> clock]}
    /\ UNCHANGED <<clock, usedNonces, agentCache, handler, authenticated>>

\* verifyRequest up to the timestamp check.
InWindow(ts) == Unix(clock) <= ts + Window /\ ts <= Unix(clock) + Window

CheckTimestamp(h, r) ==
    /\ handler[h] = Free /\ InWindow(r.timestamp)
    /\ handler' = [handler EXCEPT ![h] = [pc |-> "nonce", request |-> r, since |-> clock]]
    /\ UNCHANGED <<clock, sent, usedNonces, agentCache, authenticated>>

\* Faulty: nonces are kept for the window only.
KeptNoncesShort == [n \in {m \in DOMAIN usedNonces : usedNonces[m] + Window * Second > clock}
                      |-> usedNonces[n]]

\* checkAndStoreNonce forgets the nonces older than ten minutes.
KeptNonces == [n \in {m \in DOMAIN usedNonces : usedNonces[m] + NonceLife >= clock}
                 |-> usedNonces[n]]

Stored(f, x, t) == [y \in DOMAIN f \cup {x} |-> IF y = x THEN t ELSE f[y]]

\* checkAndStoreNonce: a nonce is spent before the signature is looked at.
CheckAndStoreNonce(h) ==
    /\ handler[h].pc = "nonce"
    /\ LET n == handler[h].request.nonce
       IN  \/ /\ n \in DOMAIN KeptNonces
              /\ usedNonces' = KeptNonces
              /\ handler' = [handler EXCEPT ![h] = Free]
           \/ /\ n \notin DOMAIN KeptNonces
              /\ usedNonces' = Stored(KeptNonces, n, clock)
              /\ handler' = [handler EXCEPT ![h].pc = "key", ![h].since = clock]
    /\ UNCHANGED <<clock, sent, agentCache, authenticated>>

\* getAgentPublicKey: a cached key for five minutes, else the one in the request.
KeyCached(a) == a \in DOMAIN agentCache /\ clock < agentCache[a] + KeyLife

\* The rest of verifyRequest; requests of an agent whose key has left the cache and
\* that carry none, and those with another signature, are refused, their nonce spent.
VerifySignature(h) ==
    /\ handler[h].pc = "key"
    /\ handler' = [handler EXCEPT ![h] = Free]
    /\ LET r == handler[h].request
       IN  \/ /\ ~KeyCached(r.agent) /\ ~r.key
              /\ UNCHANGED <<agentCache, authenticated>>
           \/ /\ KeyCached(r.agent) \/ r.key
              /\ agentCache' = IF KeyCached(r.agent) THEN agentCache
                               ELSE Stored(agentCache, r.agent, clock)
              /\ authenticated' = IF ~r.good THEN authenticated ELSE Stored(authenticated, r,
                   IF r \in DOMAIN authenticated THEN authenticated[r] + 1 ELSE 1)
    /\ UNCHANGED <<clock, sent, usedNonces>>

AuthTick ==
    /\ clock < AuthTime
    /\ \A h \in Handlers : handler[h] # Free => clock < handler[h].since + MaxStep
    /\ clock' = clock + 1
    /\ UNCHANGED <<sent, usedNonces, agentCache, handler, authenticated>>

AuthNext ==
    \/ \E a \in Agents, n \in Nonces : SignRequest(a, n)
    \/ \E h \in Handlers :
         \/ \E r \in sent : CheckTimestamp(h, r)
         \/ CheckAndStoreNonce(h) \/ VerifySignature(h)
    \/ AuthTick

-----------------------------------------------------------------------------
\* Stamped so far ahead of the server's clock that the timestamp may outlive the nonce:
\* the window less a second (Unix() rounds down) and the step of a handler.
StampedAhead(r) ==
    r.timestamp * Second + Second - 1 + MaxStep > r.signed + Window * Second

\* A signed request is handed to the service at most once, however often it is
\* delivered, at once or late, and by however many handlers: its nonce outlives its
\* timestamp.  Only for a request stamped almost the whole window ahead is ten minutes
\* too short; even that one is handed on twice at most.
AuthenticatedOnce ==
    \A r \in DOMAIN authenticated :
      authenticated[r] = 1 \/ (StampedAhead(r) /\ authenticated[r] = 2)
=============================================================================
