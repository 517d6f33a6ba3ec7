---------------------------- MODULE Services_proofs ----------------------------
(***************************************************************************)
(* Proofs about services around the consensus that share no state: the     *)
(* interceptor of signed calls (AuthInterceptor), the client of the        *)
(* RootLayer (RootLayerClient), the spreading of checkpoint signatures     *)
(* (SignatureGossip), the rules and scores of reports (ReportRules), the   *)
(* cache of on-chain participants (ParticipantVerifier), signed messages   *)
(* (SignedMessages) and the submission of bundles (BundleSubmission).      *)
(* Each is proved on its own, for any sets of agents, handlers, callers,   *)
(* nodes and reports and any bounds; what is needed of its constants       *)
(* stands before each theorem.                                             *)
(***************************************************************************)
EXTENDS AuthInterceptor, RootLayerClient, SignatureGossip, ReportRules, ParticipantVerifier,
        SignedMessages, BundleSubmission, FiniteSetTheorems, SequenceTheorems, TLAPS

-----------------------------------------------------------------------------
(***************************************************************************)
(* Signed calls                                                            *)
(***************************************************************************)

AuthSpec == AuthInit /\ [][AuthNext]_authVars

\* A second has ticks, the window is not empty, and a handler is not suspended between two
\* of its steps for longer than the window leaves (299 seconds in the code).
AuthBounds ==
    /\ Second \in Nat \ {0} /\ Window \in Nat \ {0} /\ MaxStep \in Nat /\ AuthTime \in Nat
    /\ MaxStep <= (Window - 1) * Second + 1

Request == [agent : Agents, nonce : Nonces, timestamp : Nat, key : BOOLEAN, good : BOOLEAN,
            signed : Nat]

AuthType ==
    /\ clock \in Nat
    /\ sent \subseteq Request
    /\ handler \in [Handlers -> {Free} \cup [pc : {"nonce", "key"}, request : sent, since : Nat]]

\* A nonce belongs to one request.
NonceOfOne == \A r, s \in sent : r.nonce = s.nonce => r = s

SignedBefore == \A r \in sent : r.signed <= clock

\* t is d ticks or more after the first moment at which r may pass: r is signed, and its
\* timestamp is in the window.
After(r, t, d) ==
    r.signed + d <= t /\ r.timestamp * Second + d <= t + Window * Second

\* A handler is not held up for longer than a step may last, and one with its nonce still to
\* store found the timestamp in the window.
InTime ==
    \A h \in Handlers : handler[h] # Free =>
      /\ handler[h].since <= clock /\ clock <= handler[h].since + MaxStep
      /\ handler[h].pc = "nonce" =>
           /\ After(handler[h].request, handler[h].since, 0)
           /\ handler[h].since < (handler[h].request.timestamp + Window + 1) * Second

\* A stored nonce is that of a request, and was stored when the request might pass.
StoredInTime ==
    \A n \in DOMAIN usedNonces : \E r \in sent :
      r.nonce = n /\ usedNonces[n] \in Nat /\ After(r, usedNonces[n], 0)

\* A handler holds the nonce of r, or the service has been given r; and that twice.
HoldsKey(h, r) == handler[h].pc = "key" /\ handler[h].request = r
Passed(r) == r \in DOMAIN authenticated \/ \E h \in Handlers : HoldsKey(h, r)
PassedTwice(r) ==
    /\ r \in DOMAIN authenticated
    /\ authenticated[r] = 2 \/ \E h \in Handlers : HoldsKey(h, r)

\* The nonce that a handler has stored is still there.
HolderStored ==
    \A h \in Handlers, r \in sent : HoldsKey(h, r) =>
      r.nonce \in DOMAIN usedNonces /\ usedNonces[r.nonce] = handler[h].since

\* The nonce of a request that passed is remembered, or was forgotten after its life; after the
\* second time it is remembered for another life.
Remembered ==
    \A r \in sent :
      /\ Passed(r) => r.nonce \in DOMAIN usedNonces \/ After(r, clock, NonceLife + 1)
      /\ PassedTwice(r) =>
           \/ r.nonce \in DOMAIN usedNonces /\ After(r, usedNonces[r.nonce], NonceLife + 1)
           \/ After(r, clock, 2 * NonceLife)

\* Of all deliveries of a request one passes at a time, two in all if it is stamped ahead.
PassesOnce ==
    /\ DOMAIN authenticated \subseteq sent
    /\ \A r \in DOMAIN authenticated : authenticated[r] \in {1, 2}
    /\ \A h \in Handlers, r \in sent : HoldsKey(h, r) =>
         /\ r \in DOMAIN authenticated => authenticated[r] = 1
         /\ \A g \in Handlers : HoldsKey(g, r) => g = h
    /\ \A r \in sent : PassedTwice(r) => StampedAhead(r)

\* The inductive invariant of the interceptor.
AuthInv ==
    /\ AuthType /\ NonceOfOne /\ SignedBefore /\ InTime
    /\ StoredInTime /\ HolderStored /\ Remembered /\ PassesOnce

\* time.Now().Unix() rounds down to a second.
LEMMA UnixBounds ==
  ASSUME AuthBounds, NEW t \in Nat
  PROVE  Unix(t) \in Nat /\ Unix(t) * Second <= t /\ t < (Unix(t) + 1) * Second
<1>1. Second \in Nat \ {0}
  BY DEF AuthBounds
<1>2. /\ t = (t \div Second) * Second + (t % Second)
      /\ (t % Second) \in 0..Second - 1 /\ (t \div Second) \in Nat
  BY <1>1, Z3
<1>3. ((t \div Second) + 1) * Second = (t \div Second) * Second + Second
  BY <1>1, <1>2, Z3
<1>4. (t \div Second) * Second \in Nat
  BY <1>1, <1>2, Z3
<1> QED
  BY <1>1, <1>2, <1>3, <1>4 DEF Unix

\* Whole seconds are ordered like their ticks.
LEMMA SecondsKeepOrder ==
  ASSUME AuthBounds, NEW x \in Nat, NEW y \in Nat, x <= y
  PROVE  x * Second <= y * Second
<1>1. PICK d \in Nat : y = x + d
  <2>1. y - x \in Nat /\ y = x + (y - x)
    OBVIOUS
  <2> QED
    BY <2>1
<1>2. Second \in Nat
  BY DEF AuthBounds
<1>3. y * Second = x * Second + d * Second
  <2>1. \A a, b, c \in Nat : (a + b) * c = a * c + b * c
    BY Z3
  <2> QED
    BY <1>1, <1>2, <2>1
<1>4. d * Second \in Nat /\ x * Second \in Nat
  BY <1>2
<1> QED
  BY <1>3, <1>4

\* What is in the window of a timestamp at one time, is neither before nor beyond it.
LEMMA WindowBound ==
  ASSUME AuthBounds, NEW t \in Nat, NEW ts \in Nat, Unix(t) <= ts + Window,
         ts <= Unix(t) + Window
  PROVE  t < (ts + Window + 1) * Second /\ ts * Second <= t + Window * Second
<1>1. Unix(t) \in Nat /\ Unix(t) * Second <= t /\ t < (Unix(t) + 1) * Second
  BY UnixBounds
<1>2. Window \in Nat /\ Second \in Nat
  BY DEF AuthBounds
<1>3. (Unix(t) + 1) * Second <= (ts + Window + 1) * Second
  <2>1. Unix(t) + 1 \in Nat /\ ts + Window + 1 \in Nat /\ Unix(t) + 1 <= ts + Window + 1
    BY <1>1, <1>2
  <2> QED
    BY <2>1, SecondsKeepOrder
<1>4. ts * Second <= (Unix(t) + Window) * Second
  <2>1. Unix(t) + Window \in Nat
    BY <1>1, <1>2
  <2> QED
    BY <2>1, SecondsKeepOrder
<1>5. (Unix(t) + Window) * Second = Unix(t) * Second + Window * Second
  <2>1. \A a, b, c \in Nat : (a + b) * c = a * c + b * c
    BY Z3
  <2> QED
    BY <1>1, <1>2, <2>1
<1>6. /\ Unix(t) * Second \in Nat /\ Window * Second \in Nat /\ ts * Second \in Nat
      /\ (Unix(t) + 1) * Second \in Nat /\ (ts + Window + 1) * Second \in Nat
  BY <1>1, <1>2
<1> QED
  BY <1>1, <1>3, <1>4, <1>5, <1>6

\* When a handler that found the timestamp in the window stores the nonce, a life of a nonce
\* has passed since the first moment for a request that is stamped ahead only, and two for none.
LEMMA StillKept ==
  ASSUME AuthBounds, NEW r \in Request, NEW since \in Nat, NEW t \in Nat,
         since < (r.timestamp + Window + 1) * Second, t <= since + MaxStep
  PROVE  /\ After(r, t, NonceLife + 1) => StampedAhead(r)
         /\ ~After(r, t, 2 * NonceLife)
<1>1. /\ Second \in Nat \ {0} /\ Window \in Nat \ {0} /\ MaxStep \in Nat /\ r.timestamp \in Nat
      /\ r.signed \in Nat
  BY DEF AuthBounds, Request
<1> DEFINE w == Window * Second
           s == r.timestamp * Second
<1>2. w \in Nat /\ s \in Nat
  BY <1>1
<1>3. (r.timestamp + Window + 1) * Second = s + w + Second
  <2>1. \A a, b, c \in Nat : (a + b + 1) * c = a * c + b * c + c
    BY Z3
  <2> QED
    BY <1>1, <2>1
<1>4. (Window - 1) * Second = w - Second /\ 2 * Window * Second = 2 * w
  BY <1>1, Z3
<1>5. /\ StampedAhead(r) <=> s + Second - 1 + MaxStep > r.signed + w
      /\ \A d : After(r, t, d) <=> r.signed + d <= t /\ s + d <= t + w
  BY DEF StampedAhead, After
<1> HIDE DEF w, s
<1>6. MaxStep <= w - Second + 1 /\ NonceLife = 2 * w
  BY <1>4 DEF AuthBounds, NonceLife
<1>7. t <= s + w + Second - 1 + MaxStep
  BY <1>1, <1>2, <1>3
<1>8. After(r, t, NonceLife + 1) => StampedAhead(r)
  BY <1>1, <1>2, <1>5, <1>6, <1>7
<1>9. ~After(r, t, 2 * NonceLife)
  <2>1. CASE w = 0
    <3>1. w # 0
      BY <1>1, Z3 DEF w
    <3> QED
      BY <2>1, <3>1
  <2>2. CASE w > 0
    BY <1>1, <1>2, <1>5, <1>6, <1>7, <2>2
  <2> QED
    BY <1>2, <2>1, <2>2
<1> QED
  BY <1>8, <1>9

\* The moment moves with the clock.
LEMMA AfterLater ==
  ASSUME AuthBounds, NEW r \in Request, NEW t \in Nat, NEW u \in Nat, NEW d \in Nat,
         NEW e \in Nat, After(r, t, d), t + e <= u
  PROVE  After(r, u, d + e)
<1>1. /\ r.signed \in Nat /\ r.timestamp * Second \in Nat /\ Window * Second \in Nat
  BY DEF AuthBounds, Request
<1> QED
  BY <1>1 DEF After

\* A life of a nonce is longer than the step of a handler.
LEMMA LifeLonger == ASSUME AuthBounds PROVE NonceLife \in Nat /\ MaxStep <= NonceLife
<1>1. Second \in Nat \ {0} /\ Window \in Nat \ {0} /\ MaxStep \in Nat
  BY DEF AuthBounds
<1> DEFINE w == Window * Second
<1>2. (Window - 1) * Second = w - Second /\ 2 * Window * Second = 2 * w /\ w \in Nat
  BY <1>1, Z3
<1> HIDE DEF w
<1> QED
  BY <1>1, <1>2 DEF AuthBounds, NonceLife

\* The invariant holds initially.
LEMMA AuthInitial == ASSUME AuthBounds, AuthInit PROVE AuthInv
<1>1. AuthType
  BY DEF AuthInit, AuthType, Free
<1>2. NonceOfOne /\ SignedBefore /\ StoredInTime /\ Remembered
  BY DEF AuthInit, NonceOfOne, SignedBefore, StoredInTime, Remembered
<1>3. InTime /\ PassesOnce /\ HolderStored
  BY DEF AuthInit, Free, InTime, PassesOnce, HolderStored
<1> QED
  BY <1>1, <1>2, <1>3 DEF AuthInv

\* What a handler that is not free has in hand.
LEMMA InHand ==
  ASSUME AuthBounds, AuthInv, NEW h \in Handlers, handler[h] # Free
  PROVE  /\ handler[h] \in [pc : {"nonce", "key"}, request : sent, since : Nat]
         /\ handler[h].request \in sent /\ handler[h].request \in Request
         /\ handler[h].request.timestamp \in Nat /\ handler[h].since \in Nat
  BY DEF AuthInv, AuthType, Request

\* An agent signs with a fresh nonce and any timestamp.
LEMMA SignAuth ==
  ASSUME AuthBounds, AuthInv, NEW a \in Agents, NEW n \in Nonces, SignRequest(a, n)
  PROVE  AuthInv'
<1>1. PICK ts \in 0..Unix(AuthTime) + Window, key \in BOOLEAN, good \in BOOLEAN :
        sent' = sent \cup {[agent |-> a, nonce |-> n, timestamp |-> ts, key |-> key,
                            good |-> good, signed |-> clock]}
  BY DEF SignRequest
<1> DEFINE new == [agent |-> a, nonce |-> n, timestamp |-> ts, key |-> key, good |-> good,
                   signed |-> clock]
<1>2. /\ UNCHANGED <<clock, usedNonces, handler, authenticated>>
      /\ \A r \in sent : r.nonce # n
  BY DEF SignRequest
<1>3. clock \in Nat /\ ts \in Nat
  BY DEF AuthInv, AuthType
<1>4. new \in Request /\ new.nonce = n /\ new.signed = clock
  BY <1>3 DEF Request
<1>5. sent' = sent \cup {new}
  BY <1>1
<1> HIDE DEF new
<1>6. new \notin sent
  BY <1>2, <1>4
<1>7. AuthType'
  BY <1>2, <1>4, <1>5 DEF AuthInv, AuthType
<1>8. NonceOfOne'
  BY <1>2, <1>4, <1>5 DEF AuthInv, NonceOfOne
<1>9. \A h \in Handlers : ~HoldsKey(h, new)
  BY <1>6, InHand DEF Free, HoldsKey
<1>10. ~Passed(new)
  BY <1>6, <1>9 DEF AuthInv, PassesOnce, Passed
<1>11. ~PassedTwice(new)
  BY <1>10 DEF Passed, PassedTwice
<1>12. SignedBefore' /\ InTime' /\ StoredInTime'
  BY <1>2, <1>3, <1>4, <1>5 DEF AuthInv, SignedBefore, InTime, StoredInTime
<1>13. HolderStored'
  BY <1>2, <1>5, <1>9 DEF AuthInv, HolderStored, HoldsKey
<1>14. PassesOnce'
  <2>1. \A s \in sent' : PassedTwice(s)' => StampedAhead(s)'
    BY <1>2, <1>5, <1>11 DEF AuthInv, PassesOnce, PassedTwice, HoldsKey, StampedAhead
  <2>2. ASSUME NEW h \in Handlers, NEW s \in sent', HoldsKey(h, s)'
        PROVE  /\ s \in DOMAIN authenticated => authenticated[s] = 1
               /\ \A g \in Handlers : HoldsKey(g, s) => g = h
    <3>1. HoldsKey(h, s) /\ s \in sent
      BY <1>2, <1>5, <1>9, <2>2 DEF HoldsKey
    <3> QED
      BY <3>1 DEF AuthInv, PassesOnce
  <2>3. \A h \in Handlers, s \in sent' : HoldsKey(h, s)' <=> HoldsKey(h, s)
    BY <1>2 DEF HoldsKey
  <2>4. DOMAIN authenticated' \subseteq sent'
    BY <1>2, <1>5 DEF AuthInv, PassesOnce
  <2>5. \A s \in DOMAIN authenticated' : authenticated'[s] \in {1, 2}
    BY <1>2 DEF AuthInv, PassesOnce
  <2> QED
    BY <1>2, <2>1, <2>2, <2>3, <2>4, <2>5 DEF PassesOnce
<1>15. Remembered'
  BY <1>2, <1>5, <1>10, <1>11 DEF AuthInv, Remembered, Passed, PassedTwice, HoldsKey
<1> QED
  BY <1>7, <1>8, <1>12, <1>13, <1>14, <1>15 DEF AuthInv

\* The timestamp is checked.
LEMMA TimestampAuth ==
  ASSUME AuthBounds, AuthInv, NEW h \in Handlers, NEW r \in sent, CheckTimestamp(h, r)
  PROVE  AuthInv'
<1> DEFINE new == [pc |-> "nonce", request |-> r, since |-> clock]
<1>1. /\ handler' = [handler EXCEPT ![h] = new] /\ handler[h] = Free
      /\ Unix(clock) <= r.timestamp + Window /\ r.timestamp <= Unix(clock) + Window
      /\ UNCHANGED <<clock, sent, usedNonces, authenticated>>
  BY DEF CheckTimestamp, InWindow
<1>2. clock \in Nat /\ r.timestamp \in Nat /\ r.signed \in Nat /\ new # Free
  BY DEF AuthInv, AuthType, Request, Free
<1>3. new \in [pc : {"nonce", "key"}, request : sent, since : Nat]
  BY <1>2
<1>4. clock < (r.timestamp + Window + 1) * Second /\ After(r, clock, 0)
  <2>1. r.signed <= clock
    BY DEF AuthInv, SignedBefore
  <2>2. /\ clock < (r.timestamp + Window + 1) * Second
        /\ r.timestamp * Second <= clock + Window * Second
    BY <1>1, <1>2, WindowBound
  <2>3. r.timestamp * Second \in Nat
    BY <1>2 DEF AuthBounds
  <2> QED
    BY <1>2, <2>1, <2>2, <2>3 DEF After
<1>5. new.pc = "nonce" /\ new.request = r /\ new.since = clock
  OBVIOUS
<1> HIDE DEF new
<1>6. \A g \in Handlers : handler'[g] = IF g = h THEN new ELSE handler[g]
  BY <1>1 DEF AuthInv, AuthType
<1>7. AuthType' /\ NonceOfOne' /\ SignedBefore' /\ StoredInTime'
  BY <1>1, <1>3 DEF AuthInv, AuthType, NonceOfOne, SignedBefore, StoredInTime
<1>8. InTime'
  <2>1. clock <= clock /\ clock <= clock + MaxStep
    BY <1>2 DEF AuthBounds
  <2> QED
    BY <1>1, <1>4, <1>5, <1>6, <2>1 DEF AuthInv, InTime
<1>9. \A g \in Handlers, s \in sent : HoldsKey(g, s)' => HoldsKey(g, s)
  BY <1>5, <1>6 DEF HoldsKey
<1>10. \A s \in sent : (Passed(s)' => Passed(s)) /\ (PassedTwice(s)' => PassedTwice(s))
  BY <1>1, <1>9 DEF Passed, PassedTwice
<1>11. PassesOnce'
  BY <1>1, <1>5, <1>6, <1>10 DEF AuthInv, PassesOnce, HoldsKey
<1>12. Remembered'
  BY <1>1, <1>10 DEF AuthInv, Remembered
<1>13. HolderStored'
  BY <1>1, <1>5, <1>6, <1>9 DEF AuthInv, HolderStored, HoldsKey
<1> QED
  BY <1>7, <1>8, <1>11, <1>12, <1>13 DEF AuthInv

\* The stored times of the nonces that are kept stay, and those of the handlers are kept.
LEMMA KeptNoncesSound ==
  ASSUME AuthBounds, AuthInv
  PROVE  /\ DOMAIN KeptNonces \subseteq DOMAIN usedNonces
         /\ \A m \in DOMAIN KeptNonces : KeptNonces[m] = usedNonces[m]
         /\ \A g \in Handlers : handler[g].pc = "key" =>
              handler[g].request.nonce \in DOMAIN KeptNonces
<1>1. /\ DOMAIN KeptNonces = {m \in DOMAIN usedNonces : usedNonces[m] + NonceLife >= clock}
      /\ \A m \in DOMAIN KeptNonces : KeptNonces[m] = usedNonces[m]
  BY DEF KeptNonces
<1>2. ASSUME NEW g \in Handlers, handler[g].pc = "key"
      PROVE  handler[g].request.nonce \in DOMAIN KeptNonces
  <2>1. handler[g] # Free
    BY <1>2 DEF Free
  <2>2. /\ handler[g].request.nonce \in DOMAIN usedNonces
        /\ usedNonces[handler[g].request.nonce] = handler[g].since
        /\ clock <= handler[g].since + MaxStep /\ handler[g].since \in Nat /\ clock \in Nat
    BY <1>2, <2>1, InHand DEF AuthInv, HolderStored, HoldsKey, InTime, AuthType
  <2>3. handler[g].since + NonceLife >= clock
    BY <2>2, LifeLonger DEF AuthBounds
  <2> QED
    BY <1>1, <2>2, <2>3
<1> QED
  BY <1>1, <1>2

\* A nonce that is forgotten has had its life.
LEMMA Forgotten ==
  ASSUME AuthBounds, AuthInv, NEW r \in sent, r.nonce \in DOMAIN usedNonces,
         r.nonce \notin DOMAIN KeptNonces
  PROVE  /\ After(r, clock, NonceLife + 1)
         /\ After(r, usedNonces[r.nonce], NonceLife + 1) => After(r, clock, 2 * NonceLife)
<1>1. /\ usedNonces[r.nonce] \in Nat /\ After(r, usedNonces[r.nonce], 0)
      /\ clock \in Nat /\ r \in Request
  BY DEF AuthInv, StoredInTime, NonceOfOne, AuthType
<1>2. ~(usedNonces[r.nonce] + NonceLife >= clock) /\ NonceLife \in Nat
  BY LifeLonger DEF KeptNonces
<1>3. usedNonces[r.nonce] + (NonceLife + 1) <= clock /\ NonceLife + 1 \in Nat
  BY <1>1, <1>2
<1>4. After(r, clock, 0 + (NonceLife + 1))
  BY <1>1, <1>3, AfterLater
<1>5. ASSUME After(r, usedNonces[r.nonce], NonceLife + 1) PROVE After(r, clock, 2 * NonceLife)
  <2>1. After(r, clock, (NonceLife + 1) + (NonceLife + 1))
    BY <1>1, <1>3, <1>5, AfterLater
  <2>2. r.signed \in Nat /\ r.timestamp * Second \in Nat /\ Window * Second \in Nat
    BY <1>1 DEF AuthBounds, Request
  <2> QED
    BY <1>1, <1>2, <2>1, <2>2 DEF After
<1> QED
  BY <1>2, <1>4, <1>5

\* Forgetting nonces keeps what is remembered.
LEMMA ForgetAuth ==
  ASSUME AuthBounds, AuthInv, NEW r \in sent
  PROVE  /\ Passed(r) => r.nonce \in DOMAIN KeptNonces \/ After(r, clock, NonceLife + 1)
         /\ PassedTwice(r) =>
              \/ r.nonce \in DOMAIN KeptNonces /\ After(r, KeptNonces[r.nonce], NonceLife + 1)
              \/ After(r, clock, 2 * NonceLife)
  BY Forgotten, KeptNoncesSound DEF AuthInv, Remembered

\* A nonce that is known already: the request is refused.
LEMMA RefuseAuth ==
  ASSUME AuthBounds, AuthInv, NEW h \in Handlers, handler[h].pc = "nonce",
         usedNonces' = KeptNonces, handler' = [handler EXCEPT ![h] = Free],
         UNCHANGED <<clock, sent, authenticated>>
  PROVE  AuthInv'
<1>1. \A g \in Handlers : handler'[g] = IF g = h THEN Free ELSE handler[g]
  BY DEF AuthInv, AuthType
<1>2. AuthType' /\ NonceOfOne' /\ SignedBefore'
  BY DEF AuthInv, AuthType, NonceOfOne, SignedBefore
<1>3. InTime'
  BY <1>1 DEF AuthInv, InTime
<1>4. StoredInTime'
  BY KeptNoncesSound DEF AuthInv, StoredInTime
<1>5. \A g \in Handlers, s \in sent : HoldsKey(g, s)' => HoldsKey(g, s) /\ handler'[g] = handler[g]
  BY <1>1 DEF HoldsKey, Free
<1>6. HolderStored'
  <2>1. ASSUME NEW g \in Handlers, NEW s \in sent, HoldsKey(g, s)
        PROVE  s.nonce \in DOMAIN KeptNonces /\ KeptNonces[s.nonce] = handler[g].since
    BY <2>1, KeptNoncesSound DEF AuthInv, HolderStored, HoldsKey
  <2> QED
    BY <1>5, <2>1 DEF HolderStored
<1>7. \A s \in sent : (Passed(s)' => Passed(s)) /\ (PassedTwice(s)' => PassedTwice(s))
  BY <1>5 DEF Passed, PassedTwice
<1>8. PassesOnce'
  BY <1>5, <1>7 DEF AuthInv, PassesOnce, StampedAhead
<1>9. Remembered'
  BY <1>7, ForgetAuth DEF Remembered
<1> QED
  BY <1>2, <1>3, <1>4, <1>6, <1>8, <1>9 DEF AuthInv

\* A handler that stores the nonce of r comes to hold it, and no other does.  r has not passed
\* before, or its nonce was forgotten, and then it is stamped ahead and this is the second time.
LEMMA StoredOnce ==
  ASSUME AuthBounds, AuthInv, NEW h \in Handlers, NEW r \in sent,
         handler'[h].pc = "key", handler'[h].request = r, handler'[h].since = clock,
         \A g \in Handlers : g # h => handler'[g] = handler[g],
         handler[h].pc = "nonce", r.nonce \notin DOMAIN KeptNonces,
         After(r, handler[h].since, 0), handler[h].since \in Nat, handler[h].since <= clock,
         handler[h].since < (r.timestamp + Window + 1) * Second,
         clock <= handler[h].since + MaxStep,
         DOMAIN usedNonces' = DOMAIN KeptNonces \cup {r.nonce}, usedNonces'[r.nonce] = clock,
         \A m \in DOMAIN KeptNonces : m # r.nonce => usedNonces'[m] = usedNonces[m],
         UNCHANGED <<clock, sent, authenticated>>
  PROVE  HolderStored' /\ PassesOnce' /\ Remembered'
<1>1. r \in Request /\ clock \in Nat
  BY DEF AuthInv, AuthType
<1>2. \A g \in Handlers : ~HoldsKey(g, r)
  BY KeptNoncesSound DEF HoldsKey
<1>3. \A g \in Handlers, s \in sent :
        HoldsKey(g, s)' <=> (g = h /\ s = r) \/ (g # h /\ HoldsKey(g, s))
  BY DEF HoldsKey
<1>4. \A s \in sent : s # r => (Passed(s)' => Passed(s)) /\ (PassedTwice(s)' => PassedTwice(s))
  BY <1>3 DEF Passed, PassedTwice
<1>5. /\ Passed(r) => After(r, clock, NonceLife + 1) /\ StampedAhead(r)
      /\ ~PassedTwice(r)
  BY <1>1, ForgetAuth, StillKept
<1>6. PassedTwice(r)' => Passed(r)
  BY DEF Passed, PassedTwice
<1>7. r \in DOMAIN authenticated => authenticated[r] = 1
  BY <1>5 DEF AuthInv, PassesOnce, PassedTwice
<1>8. HolderStored'
  <2>1. ASSUME NEW g \in Handlers, NEW s \in sent, g # h, HoldsKey(g, s)
        PROVE  s.nonce \in DOMAIN KeptNonces /\ usedNonces'[s.nonce] = handler'[g].since
    <3>1. s.nonce \in DOMAIN KeptNonces
      BY <2>1, KeptNoncesSound DEF HoldsKey
    <3>2. usedNonces'[s.nonce] = usedNonces[s.nonce]
      BY <3>1
    <3>3. usedNonces[s.nonce] = handler[g].since
      BY <2>1 DEF AuthInv, HolderStored
    <3> QED
      BY <2>1, <3>1, <3>2, <3>3
  <2>2. handler'[h].since = clock
    OBVIOUS
  <2>3. ASSUME NEW g \in Handlers, NEW s \in sent, HoldsKey(g, s)'
        PROVE  s.nonce \in DOMAIN usedNonces' /\ usedNonces'[s.nonce] = handler'[g].since
    BY <1>3, <2>1, <2>2, <2>3
  <2> QED
    BY <2>3 DEF HolderStored
<1>9. PassesOnce'
  <2>1. ASSUME NEW g \in Handlers, NEW s \in sent, HoldsKey(g, s)'
        PROVE  /\ s \in DOMAIN authenticated => authenticated[s] = 1
               /\ \A k \in Handlers : HoldsKey(k, s)' => k = g
    BY <1>2, <1>3, <1>7, <2>1 DEF AuthInv, PassesOnce
  <2>2. \A s \in sent : PassedTwice(s)' => StampedAhead(s)
    <3>1. \A s \in sent : PassedTwice(s) => StampedAhead(s)
      BY DEF AuthInv, PassesOnce
    <3> QED
      BY <1>4, <1>5, <1>6, <3>1
  <2>3. DOMAIN authenticated \subseteq sent /\ \A s \in DOMAIN authenticated : authenticated[s] \in {1, 2}
    BY DEF AuthInv, PassesOnce
  <2>4. \A s \in sent : StampedAhead(s)' <=> StampedAhead(s)
    BY DEF StampedAhead
  <2> QED
    BY <2>1, <2>2, <2>3, <2>4 DEF PassesOnce
<1>10. Remembered'
  <2>1. ASSUME NEW s \in sent, s # r
        PROVE  /\ Passed(s)' => s.nonce \in DOMAIN usedNonces' \/ After(s, clock, NonceLife + 1)
               /\ PassedTwice(s)' =>
                    \/ s.nonce \in DOMAIN usedNonces' /\ After(s, usedNonces'[s.nonce], NonceLife + 1)
                    \/ After(s, clock, 2 * NonceLife)
    <3>1. s.nonce # r.nonce
      BY <2>1 DEF AuthInv, NonceOfOne
    <3>2. s.nonce \in DOMAIN KeptNonces => usedNonces'[s.nonce] = KeptNonces[s.nonce]
      BY <3>1, KeptNoncesSound
    <3>3. /\ Passed(s) => s.nonce \in DOMAIN KeptNonces \/ After(s, clock, NonceLife + 1)
          /\ PassedTwice(s) =>
               \/ s.nonce \in DOMAIN KeptNonces /\ After(s, KeptNonces[s.nonce], NonceLife + 1)
               \/ After(s, clock, 2 * NonceLife)
      BY ForgetAuth
    <3>4. CASE s.nonce \in DOMAIN KeptNonces
      BY <1>4, <2>1, <3>2, <3>3, <3>4
    <3>5. CASE s.nonce \notin DOMAIN KeptNonces
      BY <1>4, <2>1, <3>3, <3>5
    <3> QED
      BY <3>4, <3>5
  <2>2. PassedTwice(r)' => After(r, clock, NonceLife + 1)
    BY <1>5, <1>6
  <2>3. ASSUME NEW s \in sent
        PROVE  /\ Passed(s)' => s.nonce \in DOMAIN usedNonces' \/ After(s, clock, NonceLife + 1)
               /\ PassedTwice(s)' =>
                    \/ s.nonce \in DOMAIN usedNonces' /\ After(s, usedNonces'[s.nonce], NonceLife + 1)
                    \/ After(s, clock, 2 * NonceLife)
    <3>1. CASE s = r
      BY <2>2, <3>1
    <3>2. CASE s # r
      BY <2>1, <3>2
    <3> QED
      BY <3>1, <3>2
  <2>4. clock' = clock
    OBVIOUS
  <2> QED
    BY <2>3, <2>4 DEF Remembered, After
<1> QED
  BY <1>8, <1>9, <1>10

\* A nonce that is not known: the request goes on.
LEMMA StoreAuth ==
  ASSUME AuthBounds, AuthInv, NEW h \in Handlers, handler[h].pc = "nonce",
         handler[h].request.nonce \notin DOMAIN KeptNonces,
         usedNonces' = Stored(KeptNonces, handler[h].request.nonce, clock),
         handler' = [handler EXCEPT ![h].pc = "key", ![h].since = clock],
         UNCHANGED <<clock, sent, authenticated>>
  PROVE  AuthInv'
<1> DEFINE r == handler[h].request
           n == r.nonce
           new == [handler[h] EXCEPT !.pc = "key", !.since = clock]
<1>1. handler[h] # Free
  BY DEF Free
<1>2. /\ handler[h] \in [pc : {"nonce", "key"}, request : sent, since : Nat]
      /\ r \in sent /\ r \in Request /\ r.timestamp \in Nat /\ handler[h].since \in Nat
      /\ clock \in Nat
  BY <1>1, InHand DEF AuthInv, AuthType
<1>3. new \in [pc : {"nonce", "key"}, request : sent, since : Nat]
  BY <1>2
<1>4. new.pc = "key" /\ new.request = r /\ new.since = clock /\ new # Free
  BY <1>2 DEF Free
<1>5. handler' = [handler EXCEPT ![h] = new]
  OBVIOUS
<1>6. /\ After(r, handler[h].since, 0) /\ handler[h].since <= clock
      /\ handler[h].since < (r.timestamp + Window + 1) * Second
      /\ clock <= handler[h].since + MaxStep
  BY <1>1 DEF AuthInv, InTime
<1> HIDE DEF new
<1>7. \A g \in Handlers : handler'[g] = IF g = h THEN new ELSE handler[g]
  BY <1>5 DEF AuthInv, AuthType
<1>8. AuthType' /\ NonceOfOne' /\ SignedBefore'
  BY <1>3, <1>5 DEF AuthInv, AuthType, NonceOfOne, SignedBefore
<1>9. InTime'
  <2>1. clock <= clock /\ clock <= clock + MaxStep
    BY <1>2 DEF AuthBounds
  <2> QED
    BY <1>4, <1>7, <2>1 DEF AuthInv, InTime
<1>10. /\ DOMAIN usedNonces' = DOMAIN KeptNonces \cup {n} /\ usedNonces'[n] = clock
       /\ \A m \in DOMAIN KeptNonces : m # n => usedNonces'[m] = usedNonces[m]
  BY KeptNoncesSound DEF Stored
<1>11. After(r, clock, 0)
  <2>1. After(r, clock, 0 + 0)
    BY <1>2, <1>6, AfterLater
  <2> QED
    BY <2>1
<1>12. StoredInTime'
  <2>1. ASSUME NEW m \in DOMAIN usedNonces', m # n
        PROVE  \E s \in sent : s.nonce = m /\ usedNonces'[m] \in Nat /\ After(s, usedNonces'[m], 0)
    BY <1>10, <2>1, KeptNoncesSound DEF AuthInv, StoredInTime
  <2> QED
    BY <1>2, <1>10, <1>11, <2>1 DEF StoredInTime
<1>13. /\ n = r.nonce /\ r.nonce \notin DOMAIN KeptNonces
       /\ \A g \in Handlers : g # h => handler'[g] = handler[g]
       /\ handler'[h].pc = "key" /\ handler'[h].request = r /\ handler'[h].since = clock
  BY <1>4, <1>7
<1> HIDE DEF r, n
<1>14. HolderStored' /\ PassesOnce' /\ Remembered'
  BY <1>2, <1>6, <1>10, <1>13, StoredOnce
<1> QED
  BY <1>8, <1>9, <1>12, <1>14 DEF AuthInv

\* checkAndStoreNonce forgets old nonces and then looks for the one of the request.
LEMMA NonceAuth ==
  ASSUME AuthBounds, AuthInv, NEW h \in Handlers, CheckAndStoreNonce(h)
  PROVE  AuthInv'
  BY RefuseAuth, StoreAuth DEF CheckAndStoreNonce

\* The signature is verified, and the request handed on or refused.
LEMMA SignatureAuth ==
  ASSUME AuthBounds, AuthInv, NEW h \in Handlers, VerifySignature(h)
  PROVE  AuthInv'
<1> DEFINE r == handler[h].request
<1>1. /\ handler[h].pc = "key" /\ handler[h] # Free /\ handler' = [handler EXCEPT ![h] = Free]
      /\ UNCHANGED <<clock, sent, usedNonces>>
  BY DEF VerifySignature, Free
<1>2. r \in sent /\ HoldsKey(h, r) /\ (r \in DOMAIN authenticated => authenticated[r] = 1)
      /\ \A g \in Handlers : HoldsKey(g, r) => g = h
  BY <1>1, InHand DEF AuthInv, PassesOnce, HoldsKey
<1>3. \/ authenticated' = authenticated
      \/ r \notin DOMAIN authenticated /\ authenticated' = Stored(authenticated, r, 1)
      \/ r \in DOMAIN authenticated /\ authenticated' = Stored(authenticated, r, 2)
  <2>1. r \in DOMAIN authenticated => authenticated[r] + 1 = 2
    BY <1>2
  <2> QED
    BY <2>1 DEF VerifySignature
<1>4. /\ DOMAIN authenticated' \subseteq DOMAIN authenticated \cup {r}
      /\ \A s \in DOMAIN authenticated' :
           \/ s \in DOMAIN authenticated /\ authenticated'[s] = authenticated[s]
           \/ s = r /\ r \notin DOMAIN authenticated /\ authenticated'[s] = 1
           \/ s = r /\ r \in DOMAIN authenticated /\ authenticated'[s] = 2
  BY <1>3 DEF Stored
<1>5. \A g \in Handlers : handler'[g] = IF g = h THEN Free ELSE handler[g]
  BY <1>1 DEF AuthInv, AuthType
<1>6. AuthType' /\ NonceOfOne' /\ SignedBefore' /\ StoredInTime'
  BY <1>1 DEF AuthInv, AuthType, NonceOfOne, SignedBefore, StoredInTime
<1>7. InTime' /\ HolderStored'
  BY <1>1, <1>5 DEF AuthInv, InTime, HolderStored, HoldsKey, Free
<1>8. \A g \in Handlers, s \in sent : HoldsKey(g, s)' => HoldsKey(g, s) /\ g # h /\ s # r
  BY <1>2, <1>5 DEF HoldsKey, Free
<1>9. \A s \in sent : (Passed(s)' => Passed(s)) /\ (PassedTwice(s)' => PassedTwice(s))
  BY <1>2, <1>4, <1>8 DEF Passed, PassedTwice
<1>10. Remembered'
  BY <1>1, <1>9 DEF AuthInv, Remembered
<1>11. PassesOnce'
  <2>1. ASSUME NEW g \in Handlers, NEW s \in sent, HoldsKey(g, s)'
        PROVE  /\ s \in DOMAIN authenticated' => authenticated'[s] = 1
               /\ \A k \in Handlers : HoldsKey(k, s)' => k = g
    <3>1. HoldsKey(g, s) /\ s # r
      BY <1>8, <2>1
    <3>2. /\ s \in DOMAIN authenticated => authenticated[s] = 1
          /\ \A k \in Handlers : HoldsKey(k, s) => k = g
      BY <3>1 DEF AuthInv, PassesOnce
    <3> QED
      BY <1>4, <1>8, <3>1, <3>2
  <2>2. DOMAIN authenticated' \subseteq sent /\ \A s \in DOMAIN authenticated' : authenticated'[s] \in {1, 2}
    BY <1>2, <1>4 DEF AuthInv, PassesOnce
  <2>3. \A s \in sent : PassedTwice(s)' => StampedAhead(s)
    BY <1>9 DEF AuthInv, PassesOnce
  <2>4. \A s \in sent : StampedAhead(s)' <=> StampedAhead(s)
    BY DEF StampedAhead
  <2> QED
    BY <1>1, <2>1, <2>2, <2>3, <2>4 DEF PassesOnce
<1> QED
  BY <1>6, <1>7, <1>10, <1>11 DEF AuthInv

\* Time passes, but not for longer than the step of a handler may last.
LEMMA TickAuth ==
  ASSUME AuthBounds, AuthInv, AuthTick
  PROVE  AuthInv'
<1>1. /\ clock' = clock + 1 /\ UNCHANGED <<sent, usedNonces, handler, authenticated>>
      /\ \A h \in Handlers : handler[h] # Free => clock < handler[h].since + MaxStep
  BY DEF AuthTick
<1>2. clock \in Nat /\ clock' \in Nat /\ \A r \in sent : r \in Request /\ r.signed \in Nat
  BY <1>1 DEF AuthInv, AuthType, Request
<1>3. AuthType' /\ NonceOfOne' /\ StoredInTime' /\ HolderStored'
  BY <1>1, <1>2 DEF AuthInv, AuthType, NonceOfOne, StoredInTime, HolderStored, HoldsKey
<1>4. SignedBefore'
  BY <1>1, <1>2 DEF AuthInv, SignedBefore
<1>5. InTime'
  <2>1. ASSUME NEW h \in Handlers, handler[h] # Free
        PROVE  handler[h].since <= clock + 1 /\ clock + 1 <= handler[h].since + MaxStep
    BY <1>1, <1>2, <2>1, InHand DEF AuthInv, InTime, AuthBounds
  <2> QED
    BY <1>1, <2>1 DEF AuthInv, InTime
<1>6. \A r \in sent : (Passed(r)' <=> Passed(r)) /\ (PassedTwice(r)' <=> PassedTwice(r))
  BY <1>1 DEF Passed, PassedTwice, HoldsKey
<1>7. PassesOnce'
  BY <1>1, <1>6 DEF AuthInv, PassesOnce, HoldsKey
<1>8. Remembered'
  <2>1. NonceLife \in Nat
    BY LifeLonger
  <2>2. \A r \in sent, d \in Nat : After(r, clock, d) => After(r, clock', d)
    <3>1. ASSUME NEW r \in sent, NEW d \in Nat, After(r, clock, d) PROVE After(r, clock', d)
      <4>1. r.signed \in Nat /\ r.timestamp * Second \in Nat /\ Window * Second \in Nat
        BY <1>2 DEF AuthBounds, Request
      <4> QED
        BY <1>1, <1>2, <3>1, <4>1 DEF After
    <3> QED
      BY <3>1
  <2>3. NonceLife + 1 \in Nat /\ 2 * NonceLife \in Nat
    BY <2>1
  <2> QED
    BY <1>1, <1>6, <2>2, <2>3 DEF AuthInv, Remembered
<1> QED
  BY <1>3, <1>4, <1>5, <1>7, <1>8 DEF AuthInv

\* Every step of the interceptor keeps its invariant.
LEMMA NextAuth == ASSUME AuthBounds PROVE AuthInv /\ [AuthNext]_authVars => AuthInv'
<1> SUFFICES ASSUME AuthInv, [AuthNext]_authVars PROVE AuthInv'
  OBVIOUS
<1>1. CASE UNCHANGED authVars
  BY <1>1 DEF authVars, AuthInv, AuthType, NonceOfOne, SignedBefore, InTime, StoredInTime,
     HolderStored, Remembered, Passed, PassedTwice, PassesOnce, HoldsKey
<1>2. CASE AuthNext
  BY <1>2, SignAuth, TimestampAuth, NonceAuth, SignatureAuth, TickAuth DEF AuthNext
<1> QED
  BY <1>1, <1>2

\* A signed request is handed to the service at most once, however often and by however many
\* handlers it is delivered and however wrong its timestamp is, and at most twice if it is
\* stamped almost the whole window ahead; as long as no handler is suspended within the
\* interceptor for longer than AuthBounds allows.
THEOREM AuthenticatedOnceHolds == ASSUME AuthBounds PROVE AuthSpec => []AuthenticatedOnce
<1>1. AuthInit => AuthInv
  BY AuthInitial
<1>2. AuthInv /\ [AuthNext]_authVars => AuthInv'
  BY NextAuth
<1>3. AuthInv => AuthenticatedOnce
  BY DEF AuthInv, PassesOnce, PassedTwice, AuthenticatedOnce
<1> QED
  BY <1>1, <1>2, <1>3, PTL DEF AuthSpec

-----------------------------------------------------------------------------
(***************************************************************************)
(* The RootLayer client                                                    *)
(***************************************************************************)

ClientSpec == ClientInit /\ [][ClientNext]_clientVars

LocalOps == {"GetAssignment", "SubmitCheckpoint", "GetValidatorSet", "RegisterValidator"}

CallRecord ==
    [pc : {"idle", "sent", "answered", "returned"}, op : Ops \cup LocalOps \cup {""},
     items : SUBSET Items, status : Statuses \cup {""}, conn : Nat, resp : SUBSET Items,
     ok : BOOLEAN, n : Nat]

ClientType == made \in Nat /\ conn \in Nat /\ calls \in [Callers -> CallRecord]

\* The RootLayer has recorded these items with the status of the call.
AreRecorded(items, status) == \A i \in items : [id |-> i, status |-> status] \in ledger

\* The answer under way to a call names recorded items only, and a call that returned
\* without an error is recorded.
CallIsSound(c) ==
    /\ c.op \in Assignments => c.status \in {"ACTIVE", "FAILED"}
    /\ c.pc = "answered" => AreRecorded(c.resp, c.status)
    /\ c.pc = "returned" /\ c.ok /\ c.op \in Ops =>
         AreRecorded(IF c.op \in CountedBatches THEN c.resp ELSE c.items, c.status)

CallsInv ==
    /\ ClientType /\ NoConnectionLeaked
    /\ \A g \in Callers : CallIsSound(calls[g])

\* A call that is not under way claims nothing.
LEMMA IdleSound == Idle \in CallRecord /\ CallIsSound(Idle)
  BY DEF Idle, CallRecord, CallIsSound, Ops, Assignments

\* A step of one goroutine that touches neither the connection nor the RootLayer.
LEMMA CallStep ==
  ASSUME CallsInv, NEW g \in Callers, NEW c \in CallRecord, CallIsSound(c),
         calls' = [calls EXCEPT ![g] = c], UNCHANGED <<conn, connected, open, made, ledger>>
  PROVE  CallsInv'
<1>1. \A f \in Callers : calls'[f] = IF f = g THEN c ELSE calls[f]
  BY DEF CallsInv, ClientType
<1>2. ClientType' /\ NoConnectionLeaked'
  BY DEF CallsInv, ClientType, NoConnectionLeaked
<1>3. \A d : CallIsSound(d)' <=> CallIsSound(d)
  BY DEF CallIsSound, AreRecorded
<1>4. ASSUME NEW f \in Callers PROVE CallIsSound(calls[f])'
  BY <1>1 DEF CallsInv, CallIsSound, AreRecorded
<1> QED
  BY <1>2, <1>4 DEF CallsInv

\* Connect and Close replace the only connection.
LEMMA ConnectionCalls == ASSUME CallsInv, Connect \/ Close PROVE CallsInv'
<1>1. UNCHANGED <<calls, ledger>>
  BY DEF Connect, Close
<1>2. ClientType' /\ NoConnectionLeaked'
  <2>1. CASE Connect
    <3>1. conn = 0 /\ open = {}
      BY <2>1 DEF Connect, MayDial, CallsInv, NoConnectionLeaked
    <3>2. made \in Nat /\ conn' = made + 1 /\ made' = made + 1 /\ open' = {made + 1}
      BY <2>1, <3>1 DEF Connect, CallsInv, ClientType
    <3>3. ClientType' /\ conn' # 0
      BY <1>1, <3>2 DEF CallsInv, ClientType
    <3>4. connected' = TRUE
      BY <2>1 DEF Connect
    <3>5. open' = {conn'} \ {0}
      BY <3>2, <3>3
    <3> QED
      BY <3>3, <3>4, <3>5, Zenon DEF NoConnectionLeaked
  <2>2. CASE Close
    <3>1. ClientType' /\ conn' = 0 /\ open' = {conn'} \ {0}
      BY <1>1, <2>2 DEF Close, CallsInv, ClientType, NoConnectionLeaked
    <3>2. connected' = FALSE
      BY <2>2 DEF Close
    <3> QED
      BY <3>1, <3>2, Zenon DEF NoConnectionLeaked
  <2> QED
    BY <2>1, <2>2
<1>3. \A g \in Callers : CallIsSound(calls[g])'
  BY <1>1 DEF CallsInv, CallIsSound, AreRecorded
<1> QED
  BY <1>2, <1>3 DEF CallsInv

\* A submission is refused at once or under way; the status of an assignment is set.
LEMMA SubmitCalls ==
  ASSUME CallsInv, NEW g \in Callers, NEW op \in Ops, NEW items \in SUBSET Items,
         NEW status \in Statuses, Submit(g, op, items, status)
  PROVE  CallsInv'
<1> DEFINE c == [pc |-> IF conn = 0 \/ items = {} THEN "returned" ELSE "sent", op |-> op,
                 items |-> items, status |-> SentStatus(op, status), conn |-> conn,
                 resp |-> {}, ok |-> FALSE, n |-> calls[g].n + 1]
<1>1. calls' = [calls EXCEPT ![g] = c] /\ UNCHANGED <<conn, connected, open, made, ledger>>
  BY DEF Submit
<1>2. SentStatus(op, status) \in Statuses
  BY DEF SentStatus, Statuses
<1>3. op \in Assignments => SentStatus(op, status) \in {"ACTIVE", "FAILED"}
  BY DEF SentStatus
<1>4. conn \in Nat /\ calls[g].n + 1 \in Nat
  <2>1. conn \in Nat /\ calls[g] \in CallRecord
    BY DEF CallsInv, ClientType
  <2>2. calls[g].n \in Nat
    BY <2>1 DEF CallRecord
  <2> QED
    BY <2>1, <2>2
<1>5. c \in CallRecord
  BY <1>2, <1>4 DEF CallRecord
<1>6. CallIsSound(c)
  BY <1>3 DEF CallIsSound
<1> HIDE DEF c
<1> QED
  BY <1>1, <1>5, <1>6, CallStep

\* The calls that are answered without the RootLayer.
LEMMA LocalCalls ==
  ASSUME CallsInv, NEW g \in Callers, NEW op \in LocalOps, AnswerLocally(g, op)
  PROVE  CallsInv'
<1> DEFINE c == [Idle EXCEPT !.pc = "returned", !.op = op, !.ok = conn # 0, !.n = calls[g].n + 1]
<1>1. calls' = [calls EXCEPT ![g] = c] /\ UNCHANGED <<conn, connected, open, made, ledger>>
  BY DEF AnswerLocally
<1>2. calls[g].n + 1 \in Nat
  <2>1. calls[g] \in CallRecord
    BY DEF CallsInv, ClientType
  <2>2. calls[g].n \in Nat
    BY <2>1 DEF CallRecord
  <2> QED
    BY <2>2
<1>3. c \in CallRecord /\ c.op = op /\ c.pc = "returned"
  BY <1>2 DEF Idle, CallRecord
<1>4. CallIsSound(c)
  BY <1>3 DEF CallIsSound, LocalOps, Ops, Assignments
<1> HIDE DEF c
<1> QED
  BY <1>1, <1>3, <1>4, CallStep

\* The RootLayer records what it takes before it answers.
LEMMA HandleCalls ==
  ASSUME CallsInv, NEW g \in Callers, NEW taken \in SUBSET calls[g].items, Handle(g, taken)
  PROVE  CallsInv'
<1> DEFINE c == [calls[g] EXCEPT !.pc = "answered", !.resp = taken]
<1>1. /\ calls' = [calls EXCEPT ![g] = c] /\ UNCHANGED <<conn, connected, open, made>>
      /\ ledger' = ledger \cup {[id |-> i, status |-> calls[g].status] : i \in taken}
  BY DEF Handle
<1>2. calls[g] \in CallRecord
  BY DEF CallsInv, ClientType
<1>3. taken \in SUBSET Items
  BY <1>2 DEF CallRecord
<1>4. c \in CallRecord
  BY <1>2, <1>3 DEF CallRecord
<1>5. c.pc = "answered" /\ c.resp = taken /\ c.op = calls[g].op /\ c.status = calls[g].status
  BY <1>2 DEF CallRecord
<1> HIDE DEF c
<1>6. \A f \in Callers : calls'[f] = IF f = g THEN c ELSE calls[f]
  BY <1>1 DEF CallsInv, ClientType
<1>7. ClientType' /\ NoConnectionLeaked'
  BY <1>1, <1>4 DEF CallsInv, ClientType, NoConnectionLeaked
<1>8. ASSUME NEW f \in Callers PROVE CallIsSound(calls[f])'
  <2>1. CASE f = g
    <3>1. calls'[f] = c
      BY <1>6, <2>1
    <3>2. c.op \in Assignments => c.status \in {"ACTIVE", "FAILED"}
      BY <1>5 DEF CallsInv, CallIsSound
    <3>3. \A i \in taken : [id |-> i, status |-> c.status] \in ledger'
      BY <1>1, <1>5
    <3> QED
      BY <1>5, <3>1, <3>2, <3>3 DEF CallIsSound, AreRecorded
  <2>2. CASE f # g
    <3>1. calls'[f] = calls[f] /\ ledger \subseteq ledger' /\ CallIsSound(calls[f])
      BY <1>1, <1>6, <2>2 DEF CallsInv
    <3> QED
      BY <3>1 DEF CallIsSound, AreRecorded
  <2> QED
    BY <2>1, <2>2
<1> QED
  BY <1>7, <1>8 DEF CallsInv

\* An answer, an error and the next call.
LEMMA ReturnCalls ==
  ASSUME CallsInv, NEW g \in Callers, Receive(g) \/ Fail(g) \/ NextCall(g)
  PROVE  CallsInv'
<1>1. calls[g] \in CallRecord /\ CallIsSound(calls[g])
  BY DEF CallsInv, ClientType
<1>2. CASE Receive(g)
  <2> DEFINE c == [calls[g] EXCEPT !.pc = "returned", !.ok = Succeeds(calls[g])]
  <2>1. calls' = [calls EXCEPT ![g] = c] /\ UNCHANGED <<conn, connected, open, made, ledger>>
    BY <1>2 DEF Receive, Return
  <2>2. calls[g].pc = "answered" /\ Succeeds(calls[g]) \in BOOLEAN
    BY <1>2 DEF Receive, Succeeds
  <2>3. c \in CallRecord
    BY <1>1, <2>2 DEF CallRecord
  <2>4. /\ c.pc = "returned" /\ c.ok = Succeeds(calls[g]) /\ c.op = calls[g].op
        /\ c.status = calls[g].status /\ c.resp = calls[g].resp /\ c.items = calls[g].items
    BY <1>1 DEF CallRecord
  <2> HIDE DEF c
  <2>5. c.ok => c.op \in CountedBatches \/ c.resp = c.items
    BY <2>4 DEF Succeeds
  <2>6. CallIsSound(c)
    BY <1>1, <2>2, <2>4, <2>5 DEF CallIsSound
  <2> QED
    BY <2>1, <2>3, <2>6, CallStep
<1>3. CASE Fail(g)
  <2> DEFINE c == [calls[g] EXCEPT !.pc = "returned", !.ok = FALSE]
  <2>1. calls' = [calls EXCEPT ![g] = c] /\ UNCHANGED <<conn, connected, open, made, ledger>>
    BY <1>3 DEF Fail, Return
  <2>2. c \in CallRecord /\ c.pc = "returned" /\ ~c.ok /\ c.op = calls[g].op /\ c.status = calls[g].status
    BY <1>1 DEF CallRecord
  <2> HIDE DEF c
  <2>3. CallIsSound(c)
    BY <1>1, <2>2 DEF CallIsSound
  <2> QED
    BY <2>1, <2>2, <2>3, CallStep
<1>4. CASE NextCall(g)
  <2> DEFINE c == [Idle EXCEPT !.n = calls[g].n]
  <2>1. calls' = [calls EXCEPT ![g] = c] /\ UNCHANGED <<conn, connected, open, made, ledger>>
    BY <1>4 DEF NextCall
  <2>2. c \in CallRecord /\ c.pc = "idle" /\ c.op = ""
    BY <1>1 DEF CallRecord, Idle
  <2> HIDE DEF c
  <2>3. CallIsSound(c)
    BY <2>2 DEF CallIsSound, Assignments
  <2> QED
    BY <2>1, <2>2, <2>3, CallStep
<1> QED
  BY <1>2, <1>3, <1>4

\* Every step of the client keeps its invariant.
LEMMA NextCalls == CallsInv /\ [ClientNext]_clientVars => CallsInv'
<1> SUFFICES ASSUME CallsInv, [ClientNext]_clientVars PROVE CallsInv'
  OBVIOUS
<1>1. CASE UNCHANGED clientVars
  BY <1>1 DEF clientVars, CallsInv, ClientType, NoConnectionLeaked, CallIsSound, AreRecorded
<1>2. ASSUME NEW g \in Callers, NEW items \in SUBSET Items,
             \/ SubmitValidationBundle(g, items) \/ SubmitValidationBundleBatch(g, items)
             \/ SubmitIntentBatch(g, items)
             \/ \E status \in Statuses : PostAssignmentBatch(g, items, status)
      PROVE  CallsInv'
  <2>1. PICK op \in Ops, status \in Statuses : Submit(g, op, items, status)
    BY <1>2 DEF SubmitValidationBundle, SubmitValidationBundleBatch, SubmitIntentBatch,
       PostAssignmentBatch, Ops, Statuses
  <2> QED
    BY <2>1, SubmitCalls
<1>3. ASSUME NEW g \in Callers, NEW i \in Items,
             SubmitMatchingResult(g, i) \/ \E status \in Statuses : SubmitAssignment(g, i, status)
      PROVE  CallsInv'
  <2>1. PICK op \in Ops, status \in Statuses : Submit(g, op, {i}, status)
    BY <1>3 DEF SubmitMatchingResult, SubmitAssignment, Ops, Statuses
  <2> QED
    BY <2>1, SubmitCalls
<1>4. ASSUME NEW g \in Callers,
             GetAssignment(g) \/ SubmitCheckpoint(g) \/ GetValidatorSet(g) \/ RegisterValidator(g)
      PROVE  CallsInv'
  <2>1. PICK op \in LocalOps : AnswerLocally(g, op)
    BY <1>4 DEF GetAssignment, SubmitCheckpoint, GetValidatorSet, RegisterValidator, LocalOps
  <2> QED
    BY <2>1, LocalCalls
<1>5. CASE ClientNext
  BY <1>2, <1>3, <1>4, <1>5, ConnectionCalls, HandleCalls, ReturnCalls DEF ClientNext
<1> QED
  BY <1>1, <1>5

\* A submission that returned without an error is recorded at the RootLayer, although calls,
\* Connect and Close interleave, and no connection is leaked.
THEOREM ClientInvHolds == ClientSpec => []ClientInv
<1>1. ClientInit => CallsInv
  <2> SUFFICES ASSUME ClientInit PROVE CallsInv
    OBVIOUS
  <2>1. calls = [g \in Callers |-> Idle]
    BY DEF ClientInit
  <2>2. ClientType
    BY <2>1, IdleSound DEF ClientInit, ClientType
  <2>3. conn = 0 /\ open = {}
    BY DEF ClientInit
  <2>4. connected = FALSE
    BY DEF ClientInit
  <2>5. open = {conn} \ {0}
    BY <2>3
  <2>6. NoConnectionLeaked
    BY <2>3, <2>4, <2>5, Zenon DEF NoConnectionLeaked
  <2>7. \A g \in Callers : CallIsSound(calls[g])
    BY <2>1, IdleSound
  <2> QED
    BY <2>2, <2>6, <2>7 DEF CallsInv
<1>2. CallsInv => ClientInv
  BY DEF CallsInv, CallIsSound, AreRecorded, ClientInv, AckedIsRecorded
<1> QED
  BY <1>1, <1>2, NextCalls, PTL DEF ClientSpec

-----------------------------------------------------------------------------
(***************************************************************************)
(* Checkpoint signatures                                                   *)
(***************************************************************************)

GossipSpec == GossipInit /\ [][GossipNext]_gossipVars

\* A committee is finite, and epochs are numbers.
GossipBounds == IsFiniteSet(Nodes) /\ MaxEpoch \in Nat

Signature == [signer : Nodes, made : Nat]

GossipType ==
    /\ committed \in 0..MaxEpoch /\ latest \in [Nodes -> 0..committed]
    /\ broadcast \subseteq Signature
    /\ signatures \in [Nodes -> [0..MaxEpoch -> SUBSET broadcast]]
    /\ queue \in [Nodes -> Seq(Signature)]

\* A node keeps one signature of each signer for an epoch.
OnePerSigner ==
    \A n \in Nodes, e \in 0..MaxEpoch : \A s, t \in signatures[n][e] :
      s.signer = t.signer => s = t

\* Nodes sign checkpoints that are committed.
SignedCommitted == \A s \in broadcast : s.made <= committed

\* The inductive invariant of the gossip.
SpreadInv ==
    GossipType /\ OnePerSigner /\ SignedCommitted /\ NoBroadcastLost

\* Filing a signature keeps one for each signer.
LEMMA StoreKeepsOne ==
  ASSUME SpreadInv, NEW n \in Nodes, NEW e \in 0..MaxEpoch, NEW sig, NEW B,
         broadcast \subseteq B, sig \in B
  PROVE  /\ storeSignature(n, sig, e) \in [Nodes -> [0..MaxEpoch -> SUBSET B]]
         /\ \A m \in Nodes, f \in 0..MaxEpoch : \A s, t \in storeSignature(n, sig, e)[m][f] :
              s.signer = t.signer => s = t
<1> DEFINE old == signatures[n][e]
           filed == {s \in old : s.signer # sig.signer} \cup {sig}
           new == storeSignature(n, sig, e)
<1>1. signatures \in [Nodes -> [0..MaxEpoch -> SUBSET B]]
  BY DEF SpreadInv, GossipType
<1>2. filed \in SUBSET B
  BY <1>1
<1>3. \A s, t \in filed : s.signer = t.signer => s = t
  BY DEF SpreadInv, OnePerSigner
<1>4. new = [signatures EXCEPT ![n][e] = filed]
  BY DEF storeSignature
<1> HIDE DEF filed, new
<1>5. new \in [Nodes -> [0..MaxEpoch -> SUBSET B]]
  BY <1>1, <1>2, <1>4
<1>6. \A m \in Nodes, f \in 0..MaxEpoch :
        new[m][f] = IF m = n /\ f = e THEN filed ELSE signatures[m][f]
  BY <1>1, <1>4
<1>7. \A m \in Nodes, f \in 0..MaxEpoch : \A s, t \in new[m][f] : s.signer = t.signer => s = t
  BY <1>3, <1>6 DEF SpreadInv, OnePerSigner
<1> QED
  BY <1>5, <1>7 DEF new

\* Steps that move no signature.
LEMMA QuietSpread ==
  ASSUME GossipBounds, SpreadInv, NEW n \in Nodes,
         Start(n) \/ Stop(n) \/ ProposeCheckpoint(n) \/ OnCheckpointCommitted(n)
  PROVE  SpreadInv'
<1>1. UNCHANGED <<broadcast, signatures, queue, handed>>
  BY DEF Start, Stop, ProposeCheckpoint, OnCheckpointCommitted
<1>2. committed \in 0..MaxEpoch /\ latest \in [Nodes -> 0..committed]
  BY DEF SpreadInv, GossipType
<1>3. /\ committed' \in 0..MaxEpoch /\ latest' \in [Nodes -> 0..committed']
      /\ committed <= committed'
  <2>1. CASE Start(n) \/ Stop(n)
    BY <1>2, <2>1 DEF Start, Stop
  <2>2. CASE ProposeCheckpoint(n)
    <3>1. committed' = committed + 1 /\ committed < MaxEpoch /\ latest' = latest
      BY <2>2 DEF ProposeCheckpoint
    <3>2. 0..committed \subseteq 0..committed' /\ committed' \in 0..MaxEpoch /\ committed <= committed'
      BY <1>2, <3>1 DEF GossipBounds
    <3> QED
      BY <1>2, <3>1, <3>2
  <2>3. CASE OnCheckpointCommitted(n)
    <3>1. committed' = committed /\ latest[n] < committed /\ latest' = [latest EXCEPT ![n] = @ + 1]
      BY <2>3 DEF OnCheckpointCommitted
    <3>2. latest[n] + 1 \in 0..committed
      BY <1>2, <3>1
    <3> QED
      BY <1>2, <3>1, <3>2
  <2> QED
    BY <2>1, <2>2, <2>3
<1>4. GossipType'
  BY <1>1, <1>3 DEF SpreadInv, GossipType
<1>5. SignedCommitted'
  BY <1>1, <1>2, <1>3 DEF SpreadInv, GossipType, SignedCommitted, Signature, GossipBounds
<1>6. OnePerSigner' /\ NoBroadcastLost'
  BY <1>1 DEF SpreadInv, OnePerSigner, NoBroadcastLost
<1> QED
  BY <1>4, <1>5, <1>6 DEF SpreadInv

\* What is appended to a queue is in it, with all that was.
LEMMA RangeOfAppend ==
  ASSUME NEW S, NEW q \in Seq(S), NEW x \in S
  PROVE  Append(q, x) \in Seq(S) /\ Range(Append(q, x)) = Range(q) \cup {x}
<1>1. /\ Append(q, x) \in Seq(S) /\ DOMAIN Append(q, x) = 1..Len(q) + 1
      /\ DOMAIN q = 1..Len(q) /\ Len(q) \in Nat
  OBVIOUS
<1>2. Append(q, x)[Len(q) + 1] = x /\ \A i \in 1..Len(q) : Append(q, x)[i] = q[i]
  OBVIOUS
<1>3. 1..Len(q) + 1 = 1..Len(q) \cup {Len(q) + 1}
  BY <1>1
<1> QED
  BY <1>1, <1>2, <1>3 DEF Range

\* BroadcastSignature files the node's own signature and puts it into the queue.
LEMMA BroadcastSpread ==
  ASSUME GossipBounds, SpreadInv, NEW n \in Nodes, BroadcastSignature(n)
  PROVE  SpreadInv'
<1>1. PICK e \in 1..latest[n] :
        LET sig == [signer |-> n, made |-> e]
        IN  /\ broadcast' = broadcast \cup {sig}
            /\ signatures' = storeSignature(n, sig, e)
            /\ queue' = [queue EXCEPT ![n] = Append(@, sig)]
  BY DEF BroadcastSignature, QueueSignature
<1> DEFINE sig == [signer |-> n, made |-> e]
<1>2. UNCHANGED <<committed, latest, handed>>
  BY DEF BroadcastSignature
<1>3. committed \in 0..MaxEpoch /\ latest[n] \in 0..committed
  BY DEF SpreadInv, GossipType
<1>4. e \in 0..MaxEpoch /\ e <= committed /\ e \in Nat
  BY <1>3 DEF GossipBounds
<1>5. sig \in Signature /\ sig.signer = n /\ sig.made = e
  BY <1>4 DEF Signature
<1>6. /\ broadcast' = broadcast \cup {sig} /\ signatures' = storeSignature(n, sig, e)
      /\ queue' = [queue EXCEPT ![n] = Append(@, sig)]
  BY <1>1
<1> HIDE DEF sig
<1>7. /\ signatures' \in [Nodes -> [0..MaxEpoch -> SUBSET broadcast']]
      /\ OnePerSigner'
  <2> DEFINE B == broadcast'
  <2>1. broadcast \subseteq B /\ sig \in B
    BY <1>6
  <2> HIDE DEF B
  <2>2. /\ signatures' \in [Nodes -> [0..MaxEpoch -> SUBSET B]]
        /\ \A m \in Nodes, f \in 0..MaxEpoch : \A s, t \in signatures'[m][f] :
             s.signer = t.signer => s = t
    BY <1>4, <1>6, <2>1, StoreKeepsOne
  <2> QED
    BY <2>2 DEF OnePerSigner, B
<1>8. queue \in [Nodes -> Seq(Signature)]
  BY DEF SpreadInv, GossipType
<1>9. Append(queue[n], sig) \in Seq(Signature) /\ Range(Append(queue[n], sig)) = Range(queue[n]) \cup {sig}
  BY <1>5, <1>8, RangeOfAppend
<1>10. GossipType'
  BY <1>2, <1>5, <1>6, <1>7, <1>8, <1>9 DEF SpreadInv, GossipType
<1>11. SignedCommitted'
  BY <1>2, <1>4, <1>5, <1>6 DEF SpreadInv, SignedCommitted
<1>12. \A m \in Nodes : Range(queue'[m]) = IF m = n THEN Range(queue[m]) \cup {sig} ELSE Range(queue[m])
  BY <1>6, <1>8, <1>9
<1>13. NoBroadcastLost'
  <2> SUFFICES ASSUME NEW m \in Nodes, NEW s \in broadcast', s.signer = m
               PROVE  s \in Range(queue'[m]) \cup handed'
    BY DEF NoBroadcastLost
  <2>1. CASE s = sig
    BY <1>5, <1>12, <2>1
  <2>2. CASE s \in broadcast
    <3>1. s \in Range(queue[m]) \cup handed
      BY <2>2 DEF SpreadInv, NoBroadcastLost
    <3> QED
      BY <1>2, <1>12, <3>1
  <2> QED
    BY <1>6, <2>1, <2>2
<1> QED
  BY <1>7, <1>10, <1>11, <1>13 DEF SpreadInv

\* memberlist takes the whole queue, and a node files what it is notified of.
LEMMA SpreadSpread ==
  ASSUME GossipBounds, SpreadInv, NEW n \in Nodes,
         Gossip(n) \/ \E sig \in broadcast : NotifyMsg(n, sig)
  PROVE  SpreadInv'
<1>1. UNCHANGED <<committed, latest, broadcast>>
  BY DEF Gossip, NotifyMsg
<1>2. SignedCommitted'
  BY <1>1 DEF SpreadInv, SignedCommitted
<1>3. CASE Gossip(n)
  <2>1. /\ signatures' = signatures /\ handed' = handed \cup Range(queue[n])
        /\ queue' = [queue EXCEPT ![n] = <<>>]
    BY <1>3 DEF Gossip, GetBroadcasts
  <2>2. GossipType' /\ OnePerSigner'
    BY <1>1, <2>1 DEF SpreadInv, GossipType, OnePerSigner
  <2>3. NoBroadcastLost'
    <3>1. \A m \in Nodes : m # n => queue'[m] = queue[m]
      BY <2>1 DEF SpreadInv, GossipType
    <3> QED
      BY <1>1, <2>1, <3>1 DEF SpreadInv, NoBroadcastLost
  <2> QED
    BY <1>2, <2>2, <2>3 DEF SpreadInv
<1>4. ASSUME NEW sig \in broadcast, NotifyMsg(n, sig) PROVE SpreadInv'
  <2>1. signatures' = storeSignature(n, sig, latest[n]) /\ UNCHANGED <<queue, handed>>
    BY <1>4 DEF NotifyMsg, handleSignature
  <2>2. latest[n] \in 0..MaxEpoch
    <3>1. committed \in 0..MaxEpoch /\ latest[n] \in 0..committed
      BY DEF SpreadInv, GossipType
    <3> QED
      BY <3>1 DEF GossipBounds
  <2>3. signatures' \in [Nodes -> [0..MaxEpoch -> SUBSET broadcast]] /\ OnePerSigner'
    BY <2>1, <2>2, StoreKeepsOne DEF OnePerSigner
  <2>4. GossipType' /\ NoBroadcastLost'
    BY <1>1, <2>1, <2>3 DEF SpreadInv, GossipType, NoBroadcastLost
  <2> QED
    BY <1>2, <2>3, <2>4 DEF SpreadInv
<1> QED
  BY <1>3, <1>4

\* As many signatures as a node has of an epoch, so many validators have signed.
LEMMA CountsSigners ==
  ASSUME GossipBounds, SpreadInv
  PROVE  GossipInv
<1> DEFINE signers == {sig.signer : sig \in {s \in broadcast : s.made <= committed}}
<1>1. signers \in SUBSET Nodes
  BY DEF SpreadInv, GossipType, Signature
<1>2. IsFiniteSet(signers) /\ Cardinality(signers) \in Nat
  BY <1>1, FS_Subset, FS_CardinalityType DEF GossipBounds
<1>3. ASSUME NEW n \in Nodes, NEW e \in 1..MaxEpoch PROVE Cardinality(signatures[n][e]) \in Nat /\ Cardinality(signatures[n][e]) <= Cardinality(signers)
  <2> DEFINE S == signatures[n][e]
             f == [s \in S |-> s.signer]
  <2>0. e \in 0..MaxEpoch
    BY DEF GossipBounds
  <2>1. S \in SUBSET broadcast
    BY <2>0 DEF SpreadInv, GossipType
  <2>2. \A s \in S : s.signer \in signers
    BY <2>1 DEF SpreadInv, SignedCommitted
  <2>3. f \in Injection(S, signers)
    <3>1. f \in [S -> signers]
      BY <2>2
    <3>2. \A s, t \in S : s.signer = t.signer => s = t
      BY <2>0 DEF SpreadInv, OnePerSigner
    <3>3. IsInjective(f)
      BY <3>2 DEF IsInjective
    <3> QED
      BY <3>1, <3>3 DEF Injection
  <2> HIDE DEF f, S, signers
  <2>4. IsFiniteSet(S) /\ Cardinality(S) <= Cardinality(signers)
    BY <1>2, <2>3, FS_Injection
  <2> QED
    BY <2>4, FS_CardinalityType DEF S
<1>4. ThresholdIsThreeValidators
  BY <1>2, <1>3 DEF ThresholdIsThreeValidators, CheckThreshold, GetSignatures, RequiredSignatures
<1> QED
  BY <1>4 DEF GossipInv, SpreadInv

\* A node that sees the threshold of signatures for an epoch has those of three validators,
\* and every signature handed in for broadcast is queued or with memberlist.
THEOREM GossipInvHolds == ASSUME GossipBounds PROVE GossipSpec => []GossipInv
<1>1. GossipInit => SpreadInv
  BY DEF GossipBounds, GossipInit, SpreadInv, GossipType, OnePerSigner, SignedCommitted, NoBroadcastLost
<1>2. SpreadInv /\ [GossipNext]_gossipVars => SpreadInv'
  <2> SUFFICES ASSUME SpreadInv, [GossipNext]_gossipVars PROVE SpreadInv'
    OBVIOUS
  <2>1. CASE UNCHANGED gossipVars
    BY <2>1 DEF gossipVars, SpreadInv, GossipType, OnePerSigner, SignedCommitted, NoBroadcastLost
  <2>2. CASE GossipNext
    BY <2>2, QuietSpread, BroadcastSpread, SpreadSpread DEF GossipNext
  <2> QED
    BY <2>1, <2>2
<1>3. SpreadInv => GossipInv
  BY CountsSigners
<1> QED
  BY <1>1, <1>2, <1>3, PTL DEF GossipSpec

-----------------------------------------------------------------------------
(***************************************************************************)
(* Verdicts and scores of reports                                          *)
(***************************************************************************)

RulesSpec == RulesInit /\ [][RulesNext]_ruleVars

ReportRecord ==
    [status : STRING, result : Nat, error : STRING, evidence : SUBSET STRING, usage : STRING,
     assignment : STRING, ts : Nat]

Policy == [min : Nat, max : Nat, proof : BOOLEAN, confidence : Nat]

\* Sizes, times and the bounds of a policy are not negative.
RulesBounds == Reports \subseteq ReportRecord /\ Policies \subseteq Policy

\* The verdicts given are of the first reports of the batch.
VerdictsInOrder ==
    /\ batch \in Seq(Reports) /\ Len(assigned) = Len(results) /\ Len(results) <= Len(batch)
    /\ assigned \in Seq({batch[k].assignment : k \in 1..Len(batch)} \cup {"none"})
    /\ results \in Seq(BOOLEAN)

\* What a score is made of.
Bonus(result, p) == IF p.proof /\ result THEN 20 ELSE 0
ScoreOf(age, result, p) == Clamp(TimeScore(age, p) + Bonus(result, p) + ConfidenceScore(p))

ScoredByPolicy ==
    \A x \in scores : x.age \in Int /\ x.score = ScoreOf(x.age, x.result, policy)

\* The inductive invariant of the rules.
JudgedInv ==
    /\ now \in Nat /\ policy \in Policies
    /\ VerdictsInOrder /\ VerdictIsOwn /\ ScoredByPolicy

\* In the range of the policy the distance from its middle costs 20 points at most, with
\* the middle and the cost rounded down.
LEMMA TimeScoreInRange ==
  ASSUME NEW p \in Policy, NEW age \in Int, p.min <= age, age <= p.max
  PROVE  TimeScore(age, p) \in 80..100
<1> DEFINE optimal == (p.min + p.max) \div 2
           off == Abs(age - optimal)
           cost == (off * 10) \div optimal
<1>1. p.min \in Nat /\ p.max \in Nat
  BY DEF Policy
<1>2. optimal \in Nat /\ 2 * optimal <= p.min + p.max /\ p.min + p.max <= 2 * optimal + 1
  BY <1>1
<1>3. TimeScore(age, p) = IF p.min = 0 /\ p.max = 0 THEN 100
                          ELSE IF optimal > 0 THEN 100 - cost ELSE 100
  BY <1>1 DEF TimeScore
<1> HIDE DEF optimal
<1>4. off \in Nat /\ off <= optimal + 1
  BY <1>1, <1>2 DEF Abs
<1> HIDE DEF off
<1>5. CASE optimal > 0
  <2>1. off * 10 \in Nat /\ off * 10 <= optimal * 20
    BY <1>2, <1>4, <1>5
  <2>2. cost \in Nat /\ optimal * cost <= off * 10
    <3> DEFINE n == off * 10
    <3>1. n \in Nat
      BY <2>1
    <3> HIDE DEF n
    <3>2. n \div optimal \in Nat /\ optimal * (n \div optimal) <= n
      BY <1>2, <1>5, <3>1
    <3> QED
      BY <3>2 DEF n
  <2> HIDE DEF cost
  <2>3. optimal * cost <= optimal * 20
    BY <1>2, <2>1, <2>2
  <2>4. cost <= 20
    BY <1>2, <1>5, <2>2, <2>3
  <2> QED
    BY <1>3, <2>2, <2>4
<1>6. CASE ~(optimal > 0)
  BY <1>3, <1>6
<1> QED
  BY <1>5, <1>6

\* Neither the bonus nor the confidence makes up for it.
LEMMA InRangeOutscores ==
  ASSUME NEW p \in Policy, p.max > 0, NEW a \in Int, NEW b \in Int, NEW result,
         p.min <= a, a <= p.max, ~(b >= p.min /\ b <= p.max)
  PROVE  ScoreOf(a, result, p) > ScoreOf(b, result, p)
<1>1. p.min \in Nat /\ p.max \in Nat /\ p.confidence \in Nat
  BY DEF Policy
<1>2. TimeScore(a, p) \in 80..100
  BY TimeScoreInRange
<1>3. TimeScore(b, p) = 50
  BY <1>1 DEF TimeScore
<1>4. Bonus(result, p) \in 0..20
  BY DEF Bonus
<1>5. ConfidenceScore(p) \in -30..9
  BY <1>1 DEF ConfidenceScore
<1> QED
  BY <1>2, <1>3, <1>4, <1>5 DEF ScoreOf, Clamp

\* A report for the batch, before the first verdict.
LEMMA SubmitJudged ==
  ASSUME JudgedInv, NEW r \in Reports, SubmitReport(r)
  PROVE  JudgedInv'
<1>1. /\ batch' = Append(batch, r) /\ results = <<>>
      /\ UNCHANGED <<now, assigned, results, policy, scores>>
  BY DEF SubmitReport
<1>2. batch \in Seq(Reports) /\ Len(assigned) = 0
  BY <1>1 DEF JudgedInv, VerdictsInOrder
<1>3. batch' \in Seq(Reports) /\ Len(batch') \in Nat
  BY <1>1, <1>2
<1>4. assigned = <<>>
  BY <1>2 DEF JudgedInv, VerdictsInOrder
<1>5. VerdictsInOrder'
  BY <1>1, <1>3, <1>4 DEF VerdictsInOrder
<1>6. VerdictIsOwn'
  BY <1>1 DEF VerdictIsOwn
<1> QED
  BY <1>1, <1>5, <1>6 DEF JudgedInv, ScoredByPolicy

\* The next verdict is given with the report's own assignment.
LEMMA ValidateJudged ==
  ASSUME JudgedInv, ValidateNext
  PROVE  JudgedInv'
<1> DEFINE k == Len(results) + 1
           ids == {batch[i].assignment : i \in 1..Len(batch)} \cup {"none"}
           verdict == IsValid(batch[k], AssignmentOf(k))
<1>1. /\ Len(results) < Len(batch) /\ UNCHANGED <<now, batch, policy, scores>>
      /\ assigned' = Append(assigned, AssignmentOf(k)) /\ results' = Append(results, verdict)
  BY DEF ValidateNext
<1>2. /\ batch \in Seq(Reports) /\ Len(assigned) = Len(results) /\ assigned \in Seq(ids)
      /\ results \in Seq(BOOLEAN) /\ Len(results) \in Nat /\ Len(batch) \in Nat
  BY DEF JudgedInv, VerdictsInOrder
<1>3. k \in 1..Len(batch)
  BY <1>1, <1>2
<1>4. AssignmentOf(k) \in ids /\ (AssignmentOf(k) # "none" => AssignmentOf(k) = batch[k].assignment)
  BY <1>3 DEF AssignmentOf
<1>5. verdict \in BOOLEAN
  BY DEF IsValid
<1>6. verdict => batch[k].result > 0 \/ batch[k].error # "none"
  BY DEF IsValid, StatusIsConsistent
<1> HIDE DEF ids, verdict
<1>7. /\ assigned' \in Seq(ids) /\ Len(assigned') = k /\ assigned'[k] = AssignmentOf(k)
      /\ \A i \in 1..Len(assigned) : assigned'[i] = assigned[i]
  BY <1>1, <1>2, <1>4, AppendProperties
<1>8. /\ results' \in Seq(BOOLEAN) /\ Len(results') = k /\ results'[k] = verdict
      /\ \A i \in 1..Len(results) : results'[i] = results[i]
  BY <1>1, <1>2, <1>5, AppendProperties
<1>9. VerdictsInOrder'
  BY <1>1, <1>2, <1>3, <1>7, <1>8 DEF VerdictsInOrder, ids
<1>10. VerdictIsOwn'
  <2>0. DOMAIN results' = 1..k /\ batch' = batch
    BY <1>1, <1>8
  <2> SUFFICES ASSUME NEW i \in 1..k
               PROVE  /\ assigned'[i] # "none" => assigned'[i] = batch[i].assignment
                      /\ results'[i] => batch[i].result > 0 \/ batch[i].error # "none"
    BY <2>0, Zenon DEF VerdictIsOwn
  <2>1. CASE i = k
    BY <1>4, <1>6, <1>7, <1>8, <2>1
  <2>2. CASE i \in 1..Len(results)
    <3>1. assigned'[i] = assigned[i] /\ results'[i] = results[i] /\ i \in DOMAIN results
      BY <1>2, <1>7, <1>8, <2>2
    <3> QED
      BY <3>1 DEF JudgedInv, VerdictIsOwn
  <2> QED
    BY <1>2, <2>1, <2>2
<1> QED
  BY <1>1, <1>9, <1>10 DEF JudgedInv, ScoredByPolicy

\* A committed report is scored by the policy, at the age it has here.
LEMMA ScoreJudged ==
  ASSUME RulesBounds, JudgedInv, NEW r \in Reports, Score(r)
  PROVE  JudgedInv'
<1>1. UNCHANGED <<now, batch, assigned, results, policy>>
  BY DEF Score
<1> DEFINE Committed == {FromHTTP(r, s) : s \in {"", "failed"}} \cup (IF r.ts = 0 THEN {} ELSE {r})
<1>0. \A x \in Committed : x = r \/ \E s : x = FromHTTP(r, s)
  OBVIOUS
<1> HIDE DEF Committed
<1>2. PICK x \in Committed :
        scores' = scores \cup {[age |-> now - x.ts, result |-> x.result > 0, score |-> ScoreReport(x, policy)]}
  BY DEF Score, Committed
<1> DEFINE new == [age |-> now - x.ts, result |-> x.result > 0, score |-> ScoreReport(x, policy)]
<1>3. now \in Nat /\ policy \in Policies /\ r \in ReportRecord
  BY DEF JudgedInv, RulesBounds
<1>4. x.ts \in Nat
  <2>1. \A s : FromHTTP(r, s).ts = IF r.ts = 0 THEN now ELSE r.ts
    BY <1>3 DEF FromHTTP, ReportRecord
  <2>2. r.ts \in Nat
    BY <1>3 DEF ReportRecord
  <2>3. CASE x = r
    BY <2>2, <2>3
  <2>4. CASE \E s : x = FromHTTP(r, s)
    BY <1>3, <2>1, <2>2, <2>4
  <2> QED
    BY <1>0, <2>3, <2>4
<1>5. /\ new.age \in Int /\ new.age = now - x.ts
      /\ new.result = (x.result > 0) /\ new.score = ScoreReport(x, policy)
  <2>1. new.age = now - x.ts /\ new.score = ScoreReport(x, policy)
    OBVIOUS
  <2>2. new.result = (x.result > 0)
    BY Zenon
  <2>3. now - x.ts \in Int
    BY <1>3, <1>4
  <2> HIDE DEF new
  <2>4. new.age \in Int
    BY <2>1, <2>3
  <2> QED
    BY <2>1, <2>2, <2>4, Zenon
<1>6. ScoreReport(x, policy) = ScoreOf(now - x.ts, x.result > 0, policy)
  BY DEF ScoreReport, ScoreOf, Bonus
<1>7. scores' = scores \cup {new}
  BY <1>2
<1> HIDE DEF new
<1>8. ScoredByPolicy'
  BY <1>1, <1>5, <1>6, <1>7 DEF JudgedInv, ScoredByPolicy
<1> QED
  BY <1>1, <1>8 DEF JudgedInv, VerdictsInOrder, VerdictIsOwn

\* The verdict on a report is its own whatever else is in the batch, and a report in time
\* outscores one that is not, whatever is rounded and whatever bonus there is.
THEOREM RulesInvHolds == ASSUME RulesBounds PROVE RulesSpec => []RulesInv
<1>1. RulesInit => JudgedInv
  BY DEF RulesInit, JudgedInv, VerdictsInOrder, VerdictIsOwn, ScoredByPolicy
<1>2. JudgedInv /\ [RulesNext]_ruleVars => JudgedInv'
  <2> SUFFICES ASSUME JudgedInv, [RulesNext]_ruleVars PROVE JudgedInv'
    OBVIOUS
  <2>1. CASE UNCHANGED ruleVars
    BY <2>1 DEF ruleVars, JudgedInv, VerdictsInOrder, VerdictIsOwn, ScoredByPolicy
  <2>2. CASE Tick
    BY <2>2 DEF Tick, JudgedInv, VerdictsInOrder, VerdictIsOwn, ScoredByPolicy
  <2>3. CASE RulesNext
    BY <2>2, <2>3, SubmitJudged, ScoreJudged, ValidateJudged DEF RulesNext
  <2> QED
    BY <2>1, <2>3
<1>3. JudgedInv => RulesInv
  <2> SUFFICES ASSUME JudgedInv PROVE InRangeScoresHigher
    BY DEF JudgedInv, RulesInv
  <2> SUFFICES ASSUME NEW x \in scores, NEW y \in scores, policy.max > 0, x.result = y.result,
                      x.age >= policy.min /\ x.age <= policy.max,
                      ~(y.age >= policy.min /\ y.age <= policy.max)
               PROVE  x.score > y.score
    BY DEF InRangeScoresHigher
  <2>1. policy \in Policy /\ x.age \in Int /\ y.age \in Int
    BY DEF JudgedInv, ScoredByPolicy, RulesBounds
  <2>2. x.score = ScoreOf(x.age, x.result, policy) /\ y.score = ScoreOf(y.age, x.result, policy)
    BY DEF JudgedInv, ScoredByPolicy
  <2>3. policy.min <= x.age
    BY <2>1 DEF Policy
  <2>4. ScoreOf(x.age, x.result, policy) > ScoreOf(y.age, x.result, policy)
    BY <2>1, <2>3, InRangeOutscores
  <2> QED
    BY <2>2, <2>4
<1> QED
  BY <1>1, <1>2, <1>3, PTL DEF RulesSpec

-----------------------------------------------------------------------------
(***************************************************************************)
(* The cache of what the contract says                                     *)
(***************************************************************************)

VerifierBounds == CacheTTL \in Nat /\ CacheSize \in Nat /\ MaxCall \in Nat

EntryRecord == [addr : Addresses, active : BOOLEAN, expires : Nat]

LookupRecord ==
    {NoLookup} \cup [pc : {"call"}, addr : Addresses]
    \cup [pc : {"update"}, addr : Addresses, since : Nat, active : BOOLEAN]

VerifierType ==
    /\ cacheClock \in Nat /\ registered \in [Addresses -> BOOLEAN]
    /\ lastActive \in [Addresses -> Nat]
    /\ order \in Seq(EntryRecord) /\ lookup \in [Lookups -> LookupRecord] /\ stalest \in Nat

\* The history of the contract: an agent that is registered is active now.
ActiveNow ==
    \A a \in Addresses : lastActive[a] <= cacheClock /\ (registered[a] => lastActive[a] = cacheClock)

\* A positive answer was true when the call ended, which was not long ago.
AnswerIsYoung ==
    \A l \in Lookups : lookup[l].pc = "update" =>
        /\ lookup[l].since <= cacheClock /\ cacheClock <= lookup[l].since + MaxCall
        /\ lookup[l].active => lookup[l].since <= lastActive[lookup[l].addr]

\* What is in a cache: no two entries for an address, and no positive one that outlives the
\* agent's activity by more than the life of an entry and a call.
EntryIsYoung(e) == e.active => e.expires <= lastActive[e.addr] + CacheTTL + MaxCall

CacheIsSound(s) ==
    /\ s \in Seq(EntryRecord)
    /\ \A i, j \in 1..Len(s) : s[i].addr = s[j].addr => i = j
    /\ \A i \in 1..Len(s) : EntryIsYoung(s[i])

\* The inductive invariant of the cache.
FreshInv ==
    /\ VerifierType /\ ActiveNow /\ AnswerIsYoung
    /\ CacheIsSound(order) /\ Len(order) <= CacheSize
    /\ VerdictIsFresh

\* What RemoveAt leaves of a sequence.
LEMMA RemoveAtShifts ==
  ASSUME NEW S, NEW s \in Seq(S), NEW i \in 1..Len(s)
  PROVE  /\ RemoveAt(s, i) \in Seq(S) /\ Len(RemoveAt(s, i)) = Len(s) - 1
         /\ \A j \in 1..(Len(s) - 1) : RemoveAt(s, i)[j] = IF j < i THEN s[j] ELSE s[j + 1]
<1> DEFINE n == Len(s)
           left == SubSeq(s, 1, i - 1)
           right == SubSeq(s, i + 1, n)
<1>1. n \in Nat /\ i \in 1..n
  BY LenProperties
<1>2. /\ left \in Seq(S) /\ Len(left) = i - 1
      /\ \A j \in 1..(i - 1) : left[j] = s[j]
  <2>1. \A j \in 1..(i - 1) : j \in 1..Len(s)
    BY <1>1
  <2> QED
    BY <1>1, <2>1, SubSeqProperties
<1>3. /\ right \in Seq(S) /\ Len(right) = n - i
      /\ \A j \in 1..(n - i) : right[j] = s[i + j]
  BY <1>1, SubSeqProperties
<1> HIDE DEF left, right
<1>4. /\ left \o right \in Seq(S) /\ Len(left \o right) = n - 1
      /\ \A j \in 1..(n - 1) : (left \o right)[j] = IF j < i THEN left[j] ELSE right[j - (i - 1)]
  <2>1. /\ left \o right \in Seq(S) /\ Len(left \o right) = Len(left) + Len(right)
        /\ \A j \in 1..(Len(left) + Len(right)) :
             (left \o right)[j] = IF j <= Len(left) THEN left[j] ELSE right[j - Len(left)]
    BY <1>2, <1>3, ConcatProperties
  <2>2. /\ Len(left) + Len(right) = n - 1 /\ Len(left) = i - 1
        /\ \A j \in 1..(n - 1) : j <= i - 1 <=> j < i
    BY <1>1, <1>2, <1>3
  <2> QED
    BY <2>1, <2>2
<1>5. ASSUME NEW j \in 1..(n - 1) PROVE (left \o right)[j] = IF j < i THEN s[j] ELSE s[j + 1]
  <2>1. CASE j < i
    BY <1>1, <1>2, <1>4, <2>1
  <2>2. CASE ~(j < i)
    <3>1. j - (i - 1) \in 1..(n - i) /\ i + (j - (i - 1)) = j + 1
      BY <1>1, <2>2
    <3> QED
      BY <1>3, <1>4, <2>2, <3>1
  <2> QED
    BY <2>1, <2>2
<1> QED
  BY <1>4, <1>5 DEF RemoveAt, left, right

\* A cache without one of its entries.
LEMMA RemoveKeepsSound ==
  ASSUME NEW s, CacheIsSound(s), NEW i \in 1..Len(s)
  PROVE  /\ CacheIsSound(RemoveAt(s, i)) /\ Len(RemoveAt(s, i)) = Len(s) - 1
         /\ \A j \in 1..Len(RemoveAt(s, i)) : RemoveAt(s, i)[j].addr # s[i].addr
<1> DEFINE t == RemoveAt(s, i)
           n == Len(s)
<1>1. s \in Seq(EntryRecord) /\ n \in Nat
  BY LenProperties DEF CacheIsSound
<1>2. /\ t \in Seq(EntryRecord) /\ Len(t) = n - 1
      /\ \A j \in 1..(n - 1) : t[j] = IF j < i THEN s[j] ELSE s[j + 1]
  BY <1>1, RemoveAtShifts
<1> HIDE DEF t
<1>3. \A j \in 1..(n - 1) : \E k \in 1..n : k # i /\ t[j] = s[k] /\ k = IF j < i THEN j ELSE j + 1
  <2> SUFFICES ASSUME NEW j \in 1..(n - 1)
               PROVE  \E k \in 1..n : k # i /\ t[j] = s[k] /\ k = IF j < i THEN j ELSE j + 1
    OBVIOUS
  <2> HIDE DEF n
  <2>1. CASE j < i
    <3>1. j \in 1..n /\ j # i
      BY <1>1, <2>1
    <3> QED
      BY <1>2, <2>1, <3>1
  <2>2. CASE ~(j < i)
    <3>1. j + 1 \in 1..n /\ j + 1 # i
      BY <1>1, <2>2
    <3> QED
      BY <1>2, <2>2, <3>1
  <2> QED
    BY <2>1, <2>2
<1>4. \A j \in 1..n, k \in 1..n : s[j].addr = s[k].addr => j = k
  BY DEF CacheIsSound
<1>5. \A j \in 1..(n - 1) : t[j].addr # s[i].addr
  BY <1>3, <1>4
<1>6. ASSUME NEW j \in 1..(n - 1), NEW k \in 1..(n - 1), t[j].addr = t[k].addr PROVE j = k
  <2>1. PICK x \in 1..n : t[j] = s[x] /\ x = IF j < i THEN j ELSE j + 1
    BY <1>3
  <2>2. PICK y \in 1..n : t[k] = s[y] /\ y = IF k < i THEN k ELSE k + 1
    BY <1>3
  <2>3. x = y
    BY <1>4, <1>6, <2>1, <2>2
  <2> QED
    BY <1>1, <2>1, <2>2, <2>3
<1>7. \A j \in 1..(n - 1) : EntryIsYoung(t[j])
  BY <1>3 DEF CacheIsSound
<1> QED
  BY <1>2, <1>5, <1>6, <1>7 DEF CacheIsSound, t

\* A cache with one more entry in front, for an address it does not have.
LEMMA PushKeepsSound ==
  ASSUME NEW s, CacheIsSound(s), NEW e \in EntryRecord, EntryIsYoung(e),
         \A j \in 1..Len(s) : s[j].addr # e.addr
  PROVE  CacheIsSound(<<e>> \o s) /\ Len(<<e>> \o s) = Len(s) + 1
<1> DEFINE t == <<e>> \o s
           n == Len(s)
<1>1. s \in Seq(EntryRecord) /\ n \in Nat
  BY LenProperties DEF CacheIsSound
<1>2. <<e>> \in Seq(EntryRecord) /\ Len(<<e>>) = 1 /\ <<e>>[1] = e
  OBVIOUS
<1>3. /\ t \in Seq(EntryRecord) /\ Len(t) = n + 1
      /\ t[1] = e /\ \A j \in 2..(n + 1) : t[j] = s[j - 1] /\ j - 1 \in 1..n
  BY <1>1, <1>2, ConcatProperties
<1> HIDE DEF t
<1>4. ASSUME NEW j \in 1..(n + 1), NEW k \in 1..(n + 1), t[j].addr = t[k].addr PROVE j = k
  <2>1. j = 1 \/ j \in 2..(n + 1)
    BY <1>1
  <2>2. k = 1 \/ k \in 2..(n + 1)
    BY <1>1
  <2>3. CASE j = 1
    BY <1>3, <1>4, <2>2, <2>3
  <2>4. CASE k = 1
    BY <1>3, <1>4, <2>1, <2>4
  <2>5. CASE j \in 2..(n + 1) /\ k \in 2..(n + 1)
    <3>1. s[j - 1].addr = s[k - 1].addr /\ j - 1 \in 1..n /\ k - 1 \in 1..n
      BY <1>3, <1>4, <2>5
    <3>2. j - 1 = k - 1
      BY <3>1 DEF CacheIsSound
    <3> QED
      BY <1>1, <3>2
  <2> QED
    BY <2>1, <2>2, <2>3, <2>4, <2>5
<1>5. ASSUME NEW j \in 1..(n + 1) PROVE EntryIsYoung(t[j])
  <2>1. j = 1 \/ j \in 2..(n + 1)
    BY <1>1
  <2> QED
    BY <1>3, <2>1 DEF CacheIsSound
<1> QED
  BY <1>3, <1>4, <1>5 DEF CacheIsSound, t

\* A cache without its last entry.
LEMMA FrontKeepsSound ==
  ASSUME NEW s, CacheIsSound(s), Len(s) > 0
  PROVE  CacheIsSound(Front(s)) /\ Len(Front(s)) = Len(s) - 1
<1> DEFINE n == Len(s)
<1>1. s \in Seq(EntryRecord) /\ n \in Nat /\ n > 0
  BY LenProperties DEF CacheIsSound
<1>2. /\ Front(s) \in Seq(EntryRecord) /\ Len(Front(s)) = n - 1
      /\ \A j \in 1..(n - 1) : Front(s)[j] = s[j] /\ j \in 1..n
  <2>1. \A j \in 1..(n - 1) : j \in 1..Len(s)
    BY <1>1
  <2> DEFINE m == n - 1
             t == SubSeq(s, 1, m)
  <2>2. m \in Int /\ 1 \in Int /\ \A j \in 1..m : s[j] \in EntryRecord
    BY <1>1, <2>1, ElementOfSeq
  <2>3. m \in Nat /\ Front(s) = t
    BY <1>1 DEF Front
  <2> HIDE DEF m
  <2>4. /\ t \in Seq(EntryRecord) /\ Len(t) = IF 1 <= m THEN m - 1 + 1 ELSE 0
        /\ \A j \in 1..(m - 1 + 1) : t[j] = s[1 + j - 1]
    BY <2>2, SubSeqProperties
  <2> HIDE DEF t
  <2>5. t \in Seq(EntryRecord) /\ Len(t) = m /\ \A j \in 1..m : t[j] = s[j]
    BY <2>3, <2>4
  <2> QED
    BY <2>1, <2>3, <2>5 DEF m
<1> QED
  BY <1>2 DEF CacheIsSound

\* removeElement leaves no entry for the address.
LEMMA WithoutKeepsSound ==
  ASSUME CacheIsSound(order), NEW a
  PROVE  /\ CacheIsSound(Without(a)) /\ Len(Without(a)) \in Nat /\ Len(Without(a)) <= Len(order)
         /\ \A j \in 1..Len(Without(a)) : Without(a)[j].addr # a
<1>1. order \in Seq(EntryRecord) /\ Len(order) \in Nat
  BY LenProperties DEF CacheIsSound
<1>2. CASE Cached(a) = {}
  BY <1>1, <1>2 DEF Without, Cached
<1>3. CASE Cached(a) # {}
  <2> DEFINE i == CHOOSE k \in Cached(a) : TRUE
  <2>1. i \in 1..Len(order) /\ order[i].addr = a /\ Without(a) = RemoveAt(order, i)
    BY <1>3 DEF Cached, Without
  <2> HIDE DEF i
  <2>2. /\ CacheIsSound(Without(a)) /\ Len(Without(a)) = Len(order) - 1
        /\ \A j \in 1..Len(Without(a)) : Without(a)[j].addr # a
    BY <2>1, RemoveKeepsSound
  <2> QED
    BY <1>1, <2>1, <2>2
<1> QED
  BY <1>2, <1>3

\* A cache stays sound as long as no agent's activity is taken back.
LEMMA LaterActivity ==
  ASSUME VerifierBounds, lastActive \in [Addresses -> Nat], lastActive' \in [Addresses -> Nat],
         \A a \in Addresses : lastActive[a] <= lastActive'[a],
         NEW s, CacheIsSound(s), order' = s
  PROVE  CacheIsSound(order)'
<1>1. s \in Seq(EntryRecord)
  BY DEF CacheIsSound
<1>2. ASSUME NEW i \in 1..Len(s) PROVE s[i].active => s[i].expires <= lastActive'[s[i].addr] + CacheTTL + MaxCall
  <2>1. s[i] \in EntryRecord
    BY <1>1, ElementOfSeq
  <2>2. s[i].addr \in Addresses /\ s[i].expires \in Nat
    BY <2>1 DEF EntryRecord
  <2>3. EntryIsYoung(s[i])
    BY DEF CacheIsSound
  <2>4. SUFFICES ASSUME s[i].active
                 PROVE  s[i].expires <= lastActive'[s[i].addr] + CacheTTL + MaxCall
    OBVIOUS
  <2>5. s[i].expires <= lastActive[s[i].addr] + CacheTTL + MaxCall
    BY <2>3, <2>4 DEF EntryIsYoung
  <2>6. lastActive[s[i].addr] \in Nat /\ lastActive'[s[i].addr] \in Nat
        /\ lastActive[s[i].addr] <= lastActive'[s[i].addr]
    BY <2>2
  <2> QED
    BY <2>2, <2>5, <2>6 DEF VerifierBounds
<1> QED
  BY <1>1, <1>2 DEF CacheIsSound, EntryIsYoung

\* A verdict that is returned keeps the greatest age within the bound.
LEMMA ReturnedIsFresh ==
  ASSUME VerifierBounds, VerifierType, VerdictIsFresh, NEW a \in Addresses, NEW active,
         Returned(a, active), active => cacheClock <= lastActive[a] + CacheTTL + MaxCall,
         lastActive[a] <= cacheClock
  PROVE  stalest' \in Nat /\ VerdictIsFresh'
<1>1. cacheClock \in Nat /\ lastActive[a] \in Nat /\ stalest \in Nat
  BY DEF VerifierType
<1>2. CASE active /\ cacheClock - lastActive[a] > stalest
  BY <1>1, <1>2 DEF Returned, VerdictIsFresh, VerifierBounds
<1>3. CASE ~(active /\ cacheClock - lastActive[a] > stalest)
  BY <1>1, <1>3 DEF Returned, VerdictIsFresh
<1> QED
  BY <1>2, <1>3

\* A live entry answers, and comes to the front.
LEMMA HitFresh ==
  ASSUME VerifierBounds, FreshInv, NEW a \in Addresses, NEW i \in Cached(a),
         cacheClock <= order[i].expires, order' = Hit(i), Returned(a, order[i].active),
         UNCHANGED <<cacheClock, registered, lastActive, lookup>>
  PROVE  FreshInv'
<1>1. /\ VerifierType /\ ActiveNow /\ AnswerIsYoung /\ CacheIsSound(order)
      /\ Len(order) <= CacheSize /\ VerdictIsFresh
  BY DEF FreshInv
<1>2. i \in 1..Len(order) /\ order[i].addr = a /\ order[i] \in EntryRecord /\ EntryIsYoung(order[i])
  BY <1>1, ElementOfSeq DEF Cached, CacheIsSound
<1>3. CacheIsSound(Hit(i)) /\ Len(Hit(i)) = Len(order)
  <2> DEFINE t == RemoveAt(order, i)
  <2>1. /\ CacheIsSound(t) /\ Len(t) = Len(order) - 1
        /\ \A j \in 1..Len(t) : t[j].addr # order[i].addr
    BY <1>1, <1>2, RemoveKeepsSound
  <2>2. Len(order) \in Nat
    BY <1>1, LenProperties DEF CacheIsSound
  <2> HIDE DEF t
  <2>3. CacheIsSound(<<order[i]>> \o t) /\ Len(<<order[i]>> \o t) = Len(t) + 1
    BY <1>2, <2>1, PushKeepsSound
  <2> QED
    BY <2>1, <2>2, <2>3 DEF Hit, t
<1>4. CacheIsSound(order)' /\ Len(order') <= CacheSize
  <2>1. /\ lastActive \in [Addresses -> Nat] /\ lastActive' \in [Addresses -> Nat]
        /\ \A b \in Addresses : lastActive[b] <= lastActive'[b]
    BY <1>1 DEF VerifierType
  <2> QED
    BY <1>1, <1>3, <2>1, LaterActivity
<1>5. stalest' \in Nat /\ VerdictIsFresh'
  <2>1. lastActive[a] <= cacheClock /\ lastActive[a] \in Nat /\ cacheClock \in Nat /\ order[i].expires \in Nat
    BY <1>1, <1>2 DEF ActiveNow, VerifierType, EntryRecord
  <2>2. ASSUME order[i].active PROVE cacheClock <= lastActive[a] + CacheTTL + MaxCall
    <3>1. order[i].expires <= lastActive[a] + CacheTTL + MaxCall
      BY <1>2, <2>2 DEF EntryIsYoung
    <3> QED
      BY <2>1, <3>1 DEF VerifierBounds
  <2> QED
    BY <1>1, <2>1, <2>2, ReturnedIsFresh
<1>6. VerifierType'
  BY <1>1, <1>4, <1>5 DEF VerifierType, CacheIsSound
<1>7. ActiveNow' /\ AnswerIsYoung'
  BY <1>1 DEF ActiveNow, AnswerIsYoung
<1> QED
  BY <1>4, <1>5, <1>6, <1>7 DEF FreshInv

\* An entry that is missing or has expired sends the goroutine to the contract.
LEMMA MissFresh ==
  ASSUME VerifierBounds, FreshInv, NEW l \in Lookups, NEW a \in Addresses, order' = Without(a),
         lookup' = [lookup EXCEPT ![l] = [pc |-> "call", addr |-> a]],
         UNCHANGED <<cacheClock, registered, lastActive, stalest>>
  PROVE  FreshInv'
<1>1. /\ VerifierType /\ ActiveNow /\ AnswerIsYoung /\ CacheIsSound(order)
      /\ Len(order) <= CacheSize /\ VerdictIsFresh
  BY DEF FreshInv
<1>2. CacheIsSound(Without(a)) /\ Len(Without(a)) \in Nat /\ Len(Without(a)) <= Len(order)
  BY <1>1, WithoutKeepsSound
<1>3. CacheIsSound(order)'
  <2>1. /\ lastActive \in [Addresses -> Nat] /\ lastActive' \in [Addresses -> Nat]
        /\ \A b \in Addresses : lastActive[b] <= lastActive'[b]
    BY <1>1 DEF VerifierType
  <2> QED
    BY <1>2, <2>1, LaterActivity
<1>4. Len(order') <= CacheSize
  <2>1. Len(order) \in Nat
    BY <1>1, LenProperties DEF CacheIsSound
  <2> QED
    BY <1>1, <1>2, <2>1 DEF VerifierBounds
<1>5. lookup' \in [Lookups -> LookupRecord]
  BY <1>1 DEF VerifierType, LookupRecord
<1>6. VerifierType' /\ VerdictIsFresh'
  BY <1>1, <1>3, <1>5 DEF VerifierType, CacheIsSound, VerdictIsFresh
<1>7. ActiveNow'
  BY <1>1 DEF ActiveNow
<1>8. AnswerIsYoung'
  BY <1>1 DEF AnswerIsYoung, VerifierType
<1> QED
  BY <1>3, <1>4, <1>6, <1>7, <1>8 DEF FreshInv

LEMMA TryCacheFresh ==
  ASSUME VerifierBounds, FreshInv, NEW l \in Lookups, NEW a \in Addresses, TryCache(l, a)
  PROVE  FreshInv'
BY HitFresh, MissFresh DEF TryCache

LEMMA CallContractFresh ==
  ASSUME VerifierBounds, FreshInv, NEW l \in Lookups, CallContract(l)
  PROVE  FreshInv'
<1>1. /\ VerifierType /\ ActiveNow /\ AnswerIsYoung /\ CacheIsSound(order)
      /\ Len(order) <= CacheSize /\ VerdictIsFresh
  BY DEF FreshInv
<1>2. UNCHANGED <<cacheClock, registered, lastActive, order, stalest>> /\ lookup[l].pc = "call"
  BY DEF CallContract
<1> DEFINE b == lookup[l].addr
           answer == [pc |-> "update", addr |-> b, since |-> cacheClock, active |-> registered[b]]
<1>3. lookup' = [lookup EXCEPT ![l] = answer] \/ lookup' = [lookup EXCEPT ![l] = NoLookup]
  BY DEF CallContract
<1>4. lookup[l] \in LookupRecord /\ cacheClock \in Nat /\ lookup \in [Lookups -> LookupRecord]
  BY <1>1 DEF VerifierType
<1>5. b \in Addresses
  BY <1>2, <1>4 DEF LookupRecord, NoLookup
<1>6. registered[b] \in BOOLEAN
  BY <1>1, <1>5 DEF VerifierType
<1>7. answer \in LookupRecord
  <2>1. answer \in [pc : {"update"}, addr : Addresses, since : Nat, active : BOOLEAN]
    BY <1>4, <1>5, <1>6, Zenon
  <2> QED
    BY <2>1 DEF LookupRecord
<1>8. lookup' \in [Lookups -> LookupRecord]
  BY <1>3, <1>4, <1>7 DEF LookupRecord
<1>9. AnswerIsYoung'
  <2> SUFFICES ASSUME NEW k \in Lookups, lookup'[k].pc = "update"
               PROVE  /\ lookup'[k].since <= cacheClock /\ cacheClock <= lookup'[k].since + MaxCall
                      /\ lookup'[k].active => lookup'[k].since <= lastActive[lookup'[k].addr]
    BY <1>2 DEF AnswerIsYoung
  <2>1. CASE k # l
    BY <1>1, <1>3, <1>4, <2>1 DEF AnswerIsYoung
  <2>2. CASE k = l
    <3>1. lookup'[k] = answer
      BY <1>3, <1>4, <2>2 DEF NoLookup
    <3>2. lookup'[k].since = cacheClock /\ lookup'[k].addr = b
      BY <3>1
    <3>3. lookup'[k].active = registered[b]
      <4>1. answer.active = registered[b]
        BY Zenon
      <4> HIDE DEF answer
      <4> QED
        BY <3>1, <4>1
    <3>4. registered[b] => lastActive[b] = cacheClock
      BY <1>1, <1>5 DEF ActiveNow
    <3>5. lookup'[k].active => cacheClock <= lastActive[b]
      BY <1>4, <3>3, <3>4
    <3> QED
      BY <1>4, <3>2, <3>5 DEF VerifierBounds
  <2> QED
    BY <2>1, <2>2
<1>10. CacheIsSound(order)'
  <2>1. /\ lastActive \in [Addresses -> Nat] /\ lastActive' \in [Addresses -> Nat]
        /\ \A x \in Addresses : lastActive[x] <= lastActive'[x]
    BY <1>1, <1>2 DEF VerifierType
  <2> QED
    BY <1>1, <1>2, <2>1, LaterActivity
<1> QED
  BY <1>1, <1>2, <1>8, <1>9, <1>10 DEF FreshInv, VerifierType, ActiveNow, VerdictIsFresh

\* The answer is stored, in place of one that another goroutine has stored meanwhile.
LEMMA UpdateCacheFresh ==
  ASSUME VerifierBounds, FreshInv, NEW l \in Lookups, UpdateCache(l)
  PROVE  FreshInv'
<1>1. /\ VerifierType /\ ActiveNow /\ AnswerIsYoung /\ CacheIsSound(order)
      /\ Len(order) <= CacheSize /\ VerdictIsFresh
  BY DEF FreshInv
<1> DEFINE a == lookup[l].addr
           e == Entry(a, lookup[l].active)
           front == <<e>> \o Without(a)
<1>2. /\ lookup[l].pc = "update" /\ order' = WithEntry(e)
      /\ Returned(a, lookup[l].active) /\ lookup' = [lookup EXCEPT ![l] = NoLookup]
      /\ UNCHANGED <<cacheClock, registered, lastActive>>
  BY DEF UpdateCache
<1>3. lookup[l] \in [pc : {"update"}, addr : Addresses, since : Nat, active : BOOLEAN]
  <2>1. lookup[l] \in LookupRecord
    BY <1>1 DEF VerifierType
  <2> QED
    BY <1>2, <2>1 DEF LookupRecord, NoLookup
<1>4. a \in Addresses /\ lookup[l].since \in Nat
  BY <1>3
<1>5. lookup[l].active \in BOOLEAN
  BY <1>3, Zenon
<1>6. cacheClock \in Nat /\ lastActive[a] \in Nat
  BY <1>1, <1>4 DEF VerifierType
<1>7. lookup[l].active => cacheClock <= lastActive[a] + MaxCall
  <2> SUFFICES ASSUME lookup[l].active PROVE cacheClock <= lastActive[a] + MaxCall
    OBVIOUS
  <2>1. lookup[l].since <= lastActive[a] /\ cacheClock <= lookup[l].since + MaxCall
    BY <1>1, <1>2 DEF AnswerIsYoung
  <2> QED
    BY <1>4, <1>6, <2>1 DEF VerifierBounds
<1>8. e \in EntryRecord /\ e.addr = a /\ EntryIsYoung(e)
  <2>1. e.addr = a /\ e.expires = cacheClock + CacheTTL
    BY DEF Entry
  <2>2. e.active = lookup[l].active
    BY Zenon DEF Entry
  <2>3. cacheClock + CacheTTL \in Nat
    BY <1>6 DEF VerifierBounds
  <2>4. e \in EntryRecord
    BY <1>4, <1>5, <2>3, Zenon DEF Entry, EntryRecord
  <2> HIDE DEF e
  <2>5. SUFFICES ASSUME e.active PROVE e.expires <= lastActive[a] + CacheTTL + MaxCall
    BY <2>1, <2>4 DEF EntryIsYoung
  <2>6. cacheClock <= lastActive[a] + MaxCall
    BY <1>7, <2>2, <2>5
  <2> QED
    BY <1>6, <2>1, <2>6 DEF VerifierBounds
<1>9. /\ CacheIsSound(Without(a)) /\ Len(Without(a)) \in Nat /\ Len(Without(a)) <= Len(order)
      /\ \A j \in 1..Len(Without(a)) : Without(a)[j].addr # a
  BY <1>1, WithoutKeepsSound
<1> HIDE DEF e
<1>10. CacheIsSound(front) /\ Len(front) = Len(Without(a)) + 1
  BY <1>8, <1>9, PushKeepsSound
<1>11. CacheIsSound(WithEntry(e)) /\ Len(WithEntry(e)) <= CacheSize
  <2>1. WithEntry(e) = IF Len(front) > CacheSize THEN Front(front) ELSE front
    BY <1>8 DEF WithEntry
  <2>2. Len(front) \in Nat /\ Len(front) > 0
    BY <1>9, <1>10
  <2> HIDE DEF front
  <2>3. CacheIsSound(Front(front)) /\ Len(Front(front)) = Len(front) - 1
    BY <1>10, <2>2, FrontKeepsSound
  <2>4. Len(order) \in Nat
    BY <1>1, LenProperties DEF CacheIsSound
  <2> QED
    BY <1>1, <1>9, <1>10, <2>1, <2>2, <2>3, <2>4 DEF VerifierBounds
<1>12. CacheIsSound(order)'
  <2>1. /\ lastActive \in [Addresses -> Nat] /\ lastActive' \in [Addresses -> Nat]
        /\ \A x \in Addresses : lastActive[x] <= lastActive'[x]
    BY <1>1, <1>2 DEF VerifierType
  <2> QED
    BY <1>2, <1>11, <2>1, LaterActivity
<1>13. stalest' \in Nat /\ VerdictIsFresh'
  <2>1. lookup[l].active => cacheClock <= lastActive[a] + CacheTTL + MaxCall
    BY <1>6, <1>7 DEF VerifierBounds
  <2>2. lastActive[a] <= cacheClock
    BY <1>1, <1>4 DEF ActiveNow
  <2> QED
    BY <1>1, <1>2, <1>4, <2>1, <2>2, ReturnedIsFresh
<1>14. lookup' \in [Lookups -> LookupRecord]
  BY <1>1, <1>2 DEF VerifierType, LookupRecord
<1>15. AnswerIsYoung'
  BY <1>1, <1>2 DEF AnswerIsYoung, VerifierType, NoLookup
<1>16. Len(order') <= CacheSize
  BY <1>2, <1>11
<1> QED
  BY <1>1, <1>2, <1>12, <1>13, <1>14, <1>15, <1>16 DEF FreshInv, VerifierType, ActiveNow, CacheIsSound

\* The contract's list and the clock only make the last activity later.
LEMMA ChainFresh ==
  ASSUME VerifierBounds, FreshInv, (\E a \in Addresses : ChangeStatus(a)) \/ VerifierTick
  PROVE  FreshInv'
<1>1. /\ VerifierType /\ ActiveNow /\ AnswerIsYoung /\ CacheIsSound(order)
      /\ Len(order) <= CacheSize /\ VerdictIsFresh
  BY DEF FreshInv
<1>2. UNCHANGED <<order, lookup, stalest>>
  BY DEF ChangeStatus, VerifierTick
<1>3. cacheClock' \in Nat /\ cacheClock <= cacheClock' /\ cacheClock \in Nat
  BY <1>1 DEF VerifierType, ChangeStatus, VerifierTick
<1>4. registered' \in [Addresses -> BOOLEAN]
  <2>1. registered \in [Addresses -> BOOLEAN]
    BY <1>1 DEF VerifierType
  <2>2. CASE VerifierTick
    BY <2>1, <2>2 DEF VerifierTick
  <2>3. CASE \E a \in Addresses : ChangeStatus(a)
    <3>1. PICK a \in Addresses : registered' = [registered EXCEPT ![a] = ~@]
      BY <2>3 DEF ChangeStatus
    <3> QED
      BY <2>1, <3>1
  <2> QED
    BY <2>2, <2>3
<1>5. /\ lastActive' \in [Addresses -> Nat]
      /\ \A a \in Addresses : /\ lastActive[a] <= lastActive'[a] /\ lastActive'[a] <= cacheClock'
                              /\ registered'[a] => lastActive'[a] = cacheClock'
  <2>1. lastActive \in [Addresses -> Nat] /\ \A a \in Addresses : lastActive[a] <= cacheClock
    BY <1>1 DEF VerifierType, ActiveNow
  <2>2. CASE VerifierTick
    BY <1>3, <2>1, <2>2 DEF VerifierTick
  <2>3. CASE \E a \in Addresses : ChangeStatus(a)
    <3>1. PICK a \in Addresses : ChangeStatus(a)
      BY <2>3
    <3>2. lastActive' = [lastActive EXCEPT ![a] = cacheClock] /\ cacheClock' = cacheClock
      BY <3>1 DEF ChangeStatus
    <3>3. \A b \in Addresses : b # a => registered'[b] = registered[b]
      BY <1>1, <3>1 DEF ChangeStatus, VerifierType
    <3>4. \A b \in Addresses : registered[b] => lastActive[b] = cacheClock
      BY <1>1 DEF ActiveNow
    <3>5. \A b \in Addresses : registered'[b] => lastActive'[b] = cacheClock'
      BY <2>1, <3>2, <3>3, <3>4
    <3> QED
      BY <1>3, <2>1, <3>2, <3>5
  <2> QED
    BY <2>2, <2>3
<1>6. ActiveNow'
  BY <1>5 DEF ActiveNow
<1>7. CacheIsSound(order)'
  <2>1. lastActive \in [Addresses -> Nat]
    BY <1>1 DEF VerifierType
  <2> QED
    BY <1>1, <1>2, <1>5, <2>1, LaterActivity
<1>8. AnswerIsYoung'
  <2> SUFFICES ASSUME NEW l \in Lookups, lookup[l].pc = "update"
               PROVE  /\ lookup[l].since <= cacheClock' /\ cacheClock' <= lookup[l].since + MaxCall
                      /\ lookup[l].active => lookup[l].since <= lastActive'[lookup[l].addr]
    BY <1>2 DEF AnswerIsYoung
  <2>1. lookup[l] \in LookupRecord
    BY <1>1 DEF VerifierType
  <2>2. lookup[l].addr \in Addresses /\ lookup[l].since \in Nat
    BY <2>1 DEF LookupRecord, NoLookup
  <2>3. /\ lookup[l].since <= cacheClock /\ cacheClock <= lookup[l].since + MaxCall
        /\ lookup[l].active => lookup[l].since <= lastActive[lookup[l].addr]
    BY <1>1 DEF AnswerIsYoung
  <2>4. cacheClock' <= lookup[l].since + MaxCall
    <3>1. CASE VerifierTick
      BY <1>3, <2>2, <3>1 DEF VerifierTick, VerifierBounds
    <3>2. CASE \E a \in Addresses : ChangeStatus(a)
      BY <2>3, <3>2 DEF ChangeStatus
    <3> QED
      BY <3>1, <3>2
  <2>5. lastActive[lookup[l].addr] \in Nat /\ lastActive'[lookup[l].addr] \in Nat
        /\ lastActive[lookup[l].addr] <= lastActive'[lookup[l].addr]
    BY <1>1, <1>5, <2>2 DEF VerifierType
  <2>6. ASSUME lookup[l].active PROVE lookup[l].since <= lastActive'[lookup[l].addr]
    BY <2>2, <2>3, <2>5, <2>6
  <2> QED
    BY <1>3, <2>2, <2>3, <2>4, <2>6
<1> QED
  BY <1>1, <1>2, <1>3, <1>4, <1>5, <1>6, <1>7, <1>8 DEF FreshInv, VerifierType, VerdictIsFresh

\* A positive verdict is never older than the life of an entry and a call together, and the
\* cache keeps within its size and has an address once, for any number of overlapping lookups.
THEOREM VerifierInvHolds == ASSUME VerifierBounds PROVE VerifierSpec => []VerifierInv
<1>1. VerifierInit => FreshInv
  <2> SUFFICES ASSUME VerifierInit PROVE FreshInv
    OBVIOUS
  <2>1. VerifierType /\ ActiveNow
    BY DEF VerifierInit, VerifierType, ActiveNow, LookupRecord
  <2>2. CacheIsSound(order) /\ Len(order) <= CacheSize
    BY DEF VerifierInit, CacheIsSound, VerifierBounds
  <2>3. AnswerIsYoung /\ VerdictIsFresh
    BY DEF VerifierInit, AnswerIsYoung, NoLookup, VerdictIsFresh, VerifierBounds
  <2> QED
    BY <2>1, <2>2, <2>3 DEF FreshInv
<1>2. FreshInv /\ [VerifierNext]_verifierVars => FreshInv'
  <2> SUFFICES ASSUME FreshInv, [VerifierNext]_verifierVars PROVE FreshInv'
    OBVIOUS
  <2>1. CASE UNCHANGED verifierVars
    BY <2>1 DEF verifierVars, FreshInv, VerifierType, ActiveNow, AnswerIsYoung, CacheIsSound,
                EntryIsYoung, VerdictIsFresh
  <2>2. CASE VerifierNext
    BY <2>2, TryCacheFresh, CallContractFresh, UpdateCacheFresh, ChainFresh DEF VerifierNext
  <2> QED
    BY <2>1, <2>2
<1>3. FreshInv => VerifierInv
  <2> SUFFICES ASSUME FreshInv PROVE IsInjective([i \in 1..Len(order) |-> order[i].addr])
    BY DEF FreshInv, VerifierInv, CacheIsBounded
  <2> QED
    BY DEF FreshInv, CacheIsSound, IsInjective
<1> QED
  BY <1>1, <1>2, <1>3, PTL DEF VerifierSpec

-----------------------------------------------------------------------------
(***************************************************************************)
(* Signed messages                                                         *)
(***************************************************************************)

MessageBounds == AssignedAt \in Nat /\ ExecutionTime \in Nat /\ TimeDrift \in Nat

Kinds == {"bid", "report", "assignment", "call", "stream"}

\* What an agent means by a message signed at a time, and the forms it is signed in.
Meant(kind, a, t) == [f \in FieldsOf(kind) |-> IF f = "agent" THEN a ELSE IF f = "ts" THEN t ELSE 1]

Forms(kind, a, chain, t) ==
    {Canonical(kind, Meant(kind, a, t), chain)}
    \cup (IF kind \in {"bid", "report"} THEN {ServiceCanonical(kind, Meant(kind, a, t))} ELSE {})

MessageOf(kind, a, chain, t, form) ==
    [kind |-> kind, fields |-> Meant(kind, a, t), chain |-> chain, key |-> a, at |-> t,
     sig |-> Sign(a, form)]

SignedAsMeant ==
    \A s \in signed :
        \E kind \in Kinds, a \in SigningAgents, chain \in Chains, t \in 0..messageClock :
            \E form \in Forms(kind, a, chain, t) : s = MessageOf(kind, a, chain, t, form)

\* The inductive invariant of the messages.
TrueMessages == messageClock \in Nat /\ SignedAsMeant /\ MessagesInv

\* What the properties say of one acceptance.
SoundAcceptance(x) ==
    /\ x.got.fields["agent"] = x.sent.key
    /\ x.by[1] \in {"verifier", "interceptor"} => x.by[2] = x.sent.chain
    /\ \A f \in {"intent", "price"} \cap DOMAIN x.got.fields : x.got.fields[f] = x.sent.fields[f]
    /\ x.by[1] = "verifier" /\ x.got.kind = "report" => x.got.fields["result"] = x.sent.fields["result"]
    /\ x.got.kind \in {"call", "stream"} => x.at - x.sent.at <= TimeDrift
    /\ x.by[1] = "rules" =>
         x.sent.key = Assignee /\ x.sent.at \in AssignedAt..(AssignedAt + ExecutionTime)

LEMMA InvOfAcceptances == MessagesInv <=> \A x \in accepted : SoundAcceptance(x)
BY DEF MessagesInv, AcceptedAsSigned, CallIsFresh, ReportIsOfAssignee, SoundAcceptance

\* On the way the kind, the chain and what is signed stay, and no field is lost.
LEMMA ArrivingKeeps ==
  ASSUME NEW kind, NEW a, NEW chain, NEW t, NEW form, NEW r \in Arriving(MessageOf(kind, a, chain, t, form))
  PROVE  /\ r.kind = kind /\ r.chain = chain /\ r.sig.key = a /\ r.sig.of = form
         /\ DOMAIN r.fields = FieldsOf(kind)
<1> DEFINE s == MessageOf(kind, a, chain, t, form)
           m == Meant(kind, a, t)
<1>1. r \in Arrivals(s)
  BY DEF Arriving
<1>2. s = [kind |-> kind, fields |-> m, chain |-> chain, key |-> a, at |-> t, sig |-> Sign(a, form)]
  BY DEF MessageOf
<1>3. DOMAIN m = FieldsOf(kind)
  BY DEF Meant
<1> HIDE DEF m, s
<1>4. PICK f \in DOMAIN s.fields, v \in UNION {Values(g) : g \in DOMAIN s.fields}, e \in {"rsv", "der"} :
        r = Changed(s, f, v, e)
  BY <1>1 DEF Arrivals
<1>5. /\ r.kind = kind /\ r.chain = chain /\ r.fields = [m EXCEPT ![f] = v]
      /\ r.sig = [Sign(a, form) EXCEPT !.form = e]
  BY <1>2, <1>4 DEF Changed
<1>6. r.sig.key = a /\ r.sig.of = form
  BY <1>5 DEF Sign
<1> QED
  BY <1>3, <1>5, <1>6

\* Who verifies the form with the chain has the covered fields as they were signed.
LEMMA ChainFormBinds ==
  ASSUME NEW kind, NEW m, NEW n, NEW chain, NEW c,
         Canonical(kind, m, c) = Canonical(kind, n, chain)
  PROVE  c = chain /\ \A f \in Covered(kind) : m[f] = n[f]
<1>1. c = chain /\ Restrict(m, Covered(kind)) = Restrict(n, Covered(kind))
  <2>1. /\ Canonical(kind, m, c).chain = c /\ Canonical(kind, m, c).fields = Restrict(m, Covered(kind))
        /\ Canonical(kind, n, chain).chain = chain
        /\ Canonical(kind, n, chain).fields = Restrict(n, Covered(kind))
    BY DEF Canonical
  <2> QED
    BY <2>1
<1> HIDE DEF Covered
<1>2. \A f \in Covered(kind) : Restrict(m, Covered(kind))[f] = m[f] /\ Restrict(n, Covered(kind))[f] = n[f]
  BY DEF Restrict
<1> QED
  BY <1>1, <1>2

LEMMA ServiceFormBinds ==
  ASSUME NEW kind, NEW m, NEW n, ServiceCanonical(kind, m) = ServiceCanonical(kind, n)
  PROVE  \A f \in ServiceCovered(kind) : m[f] = n[f]
<1>1. Restrict(m, ServiceCovered(kind)) = Restrict(n, ServiceCovered(kind))
  <2>1. /\ ServiceCanonical(kind, m).fields = Restrict(m, ServiceCovered(kind))
        /\ ServiceCanonical(kind, n).fields = Restrict(n, ServiceCovered(kind))
    BY DEF ServiceCanonical
  <2> QED
    BY <2>1
<1>2. \A f \in ServiceCovered(kind) :
        Restrict(m, ServiceCovered(kind))[f] = m[f] /\ Restrict(n, ServiceCovered(kind))[f] = n[f]
  BY DEF Restrict
<1> QED
  BY <1>1, <1>2

\* No signature is good in both forms.
LEMMA FormsDiffer ==
  ASSUME NEW k, NEW m, NEW c, NEW j, NEW n PROVE Canonical(k, m, c) # ServiceCanonical(j, n)
<1>1. Canonical(k, m, c).scheme = "chain" /\ ServiceCanonical(j, n).scheme = "v1"
  BY DEF Canonical, ServiceCanonical
<1> QED
  BY <1>1

\* A message that is signed has the fields of its kind.
LEMMA SendTrue ==
  ASSUME TrueMessages, NEW kind \in Kinds, NEW a \in SigningAgents, NEW chain \in Chains,
         NEW form \in Forms(kind, a, chain, messageClock),
         Send(kind, Fields(kind, a), a, chain, form)
  PROVE  TrueMessages'
<1>1. /\ signed' = signed \cup {MessageOf(kind, a, chain, messageClock, form)}
      /\ UNCHANGED <<messageClock, accepted>>
  BY DEF Send, Fields, MessageOf, Meant
<1>2. messageClock \in Nat /\ messageClock \in 0..messageClock
  BY DEF TrueMessages
<1>3. SignedAsMeant'
  <2> SUFFICES ASSUME NEW s \in signed'
               PROVE  \E k \in Kinds, b \in SigningAgents, c \in Chains, t \in 0..messageClock' :
                        \E f \in Forms(k, b, c, t) : s = MessageOf(k, b, c, t, f)
    BY Zenon DEF SignedAsMeant
  <2>1. CASE s \in signed
    <3>1. \E k \in Kinds, b \in SigningAgents, c \in Chains, t \in 0..messageClock :
            \E f \in Forms(k, b, c, t) : s = MessageOf(k, b, c, t, f)
      BY <2>1, Zenon DEF TrueMessages, SignedAsMeant
    <3> QED
      BY <1>1, <3>1
  <2>2. CASE s = MessageOf(kind, a, chain, messageClock, form)
    BY <1>1, <1>2, <2>2, Zenon
  <2> QED
    BY <1>1, <2>1, <2>2
<1>4. MessagesInv'
  BY <1>1 DEF TrueMessages, MessagesInv, AcceptedAsSigned, CallIsFresh, ReportIsOfAssignee
<1> QED
  BY <1>1, <1>2, <1>3, <1>4 DEF TrueMessages

LEMMA SigningTrue ==
  ASSUME TrueMessages, NEW a \in SigningAgents, NEW chain \in Chains, NEW kind \in Kinds,
         \/ kind \in {"bid", "report", "assignment"} /\ SignMessage(kind, a, chain)
         \/ kind \in {"call", "stream"} /\ ClientInterceptor(kind, a, chain)
  PROVE  TrueMessages'
<1>1. Fields(kind, a) = Meant(kind, a, messageClock)
  BY DEF Fields, Meant
<1>2. PICK form \in Forms(kind, a, chain, messageClock) : Send(kind, Fields(kind, a), a, chain, form)
  <2>1. CASE kind \in {"bid", "report", "assignment"} /\ SignMessage(kind, a, chain)
    <3>1. PICK c \in {Canonical(kind, Fields(kind, a), chain)} \cup
                (IF kind = "assignment" THEN {} ELSE {ServiceCanonical(kind, Fields(kind, a))}) :
            Send(kind, Fields(kind, a), a, chain, c)
      BY <2>1, Zenon DEF SignMessage
    <3>2. c \in Forms(kind, a, chain, messageClock)
      BY <1>1, <2>1 DEF Forms
    <3> QED
      BY <3>1, <3>2
  <2>2. CASE kind \in {"call", "stream"} /\ ClientInterceptor(kind, a, chain)
    <3>1. Send(kind, Fields(kind, a), a, chain, Canonical(kind, Fields(kind, a), chain))
      BY <2>2, Zenon DEF ClientInterceptor
    <3>2. Canonical(kind, Fields(kind, a), chain) \in Forms(kind, a, chain, messageClock)
      BY <1>1 DEF Forms
    <3> QED
      BY <3>1, <3>2
  <2> QED
    BY <2>1, <2>2
<1> QED
  BY <1>2, SendTrue

\* An acceptance that is sound.
LEMMA AcceptTrue ==
  ASSUME TrueMessages, NEW by, NEW s, NEW r, Accept(by, s, r),
         SoundAcceptance([by |-> by, sent |-> s, got |-> r, at |-> messageClock])
  PROVE  TrueMessages'
<1>1. /\ accepted' = accepted \cup {[by |-> by, sent |-> s, got |-> r, at |-> messageClock]}
      /\ UNCHANGED <<messageClock, signed>>
  BY DEF Accept
<1>2. \A x \in accepted' : SoundAcceptance(x)
  <2>1. \A x \in accepted : SoundAcceptance(x)
    BY InvOfAcceptances DEF TrueMessages
  <2> QED
    BY <1>1, <2>1
<1>3. MessagesInv'
  BY <1>2 DEF MessagesInv, AcceptedAsSigned, CallIsFresh, ReportIsOfAssignee, SoundAcceptance
<1> QED
  BY <1>1, <1>3 DEF TrueMessages, SignedAsMeant

\* What is known of a message that arrives and whose signature is good for the key of the
\* agent it names.
LEMMA ArrivedSound ==
  ASSUME MessageBounds, TrueMessages, NEW s \in signed, NEW r \in Arriving(s),
         NEW canonical, Verify(r.fields["agent"], canonical, r.sig)
  PROVE  /\ s.kind \in Kinds /\ r.kind = s.kind /\ r.chain = s.chain /\ s.at \in Nat
         /\ r.fields["agent"] = s.key /\ DOMAIN r.fields = FieldsOf(s.kind)
         /\ "ts" \in FieldsOf(s.kind) => s.fields["ts"] = s.at
         /\ \/ canonical = Canonical(s.kind, s.fields, s.chain)
            \/ s.kind \in {"bid", "report"} /\ canonical = ServiceCanonical(s.kind, s.fields)
<1>1. PICK kind \in Kinds, a \in SigningAgents, chain \in Chains, t \in 0..messageClock :
        \E form \in Forms(kind, a, chain, t) : s = MessageOf(kind, a, chain, t, form)
  BY DEF TrueMessages, SignedAsMeant
<1>2. PICK form \in Forms(kind, a, chain, t) : s = MessageOf(kind, a, chain, t, form)
  BY <1>1
<1>3. /\ r.kind = kind /\ r.chain = chain /\ r.sig.key = a /\ r.sig.of = form
      /\ DOMAIN r.fields = FieldsOf(kind)
  BY <1>2, ArrivingKeeps
<1>4. s.kind = kind /\ s.chain = chain /\ s.key = a /\ s.at = t /\ s.fields = Meant(kind, a, t)
  BY <1>2 DEF MessageOf
<1>5. r.fields["agent"] = a /\ canonical = form
  BY <1>3 DEF Verify
<1>6. "ts" \in FieldsOf(kind) => s.fields["ts"] = t
  BY <1>4 DEF Meant
<1>7. \/ form = Canonical(kind, s.fields, chain)
      \/ kind \in {"bid", "report"} /\ form = ServiceCanonical(kind, s.fields)
  BY <1>4 DEF Forms
<1>8. t \in Nat
  BY DEF TrueMessages
<1> QED
  BY <1>3, <1>4, <1>5, <1>6, <1>7, <1>8

\* Whoever checks the form with a chain has the fields of that form as they were signed, and
\* for the same chain.
LEMMA ChainFormArrived ==
  ASSUME MessageBounds, TrueMessages, NEW s \in signed, NEW r \in Arriving(s), NEW chain,
         Verify(r.fields["agent"], Canonical(r.kind, r.fields, chain), r.sig)
  PROVE  chain = s.chain /\ \A f \in Covered(s.kind) : r.fields[f] = s.fields[f]
<1>1. /\ r.kind = s.kind
      /\ \/ Canonical(s.kind, r.fields, chain) = Canonical(s.kind, s.fields, s.chain)
         \/ Canonical(s.kind, r.fields, chain) = ServiceCanonical(s.kind, s.fields)
  BY ArrivedSound
<1>2. Canonical(s.kind, r.fields, chain) = Canonical(s.kind, s.fields, s.chain)
  BY <1>1, FormsDiffer
<1> QED
  BY <1>2, ChainFormBinds

LEMMA ServiceFormArrived ==
  ASSUME MessageBounds, TrueMessages, NEW s \in signed, NEW r \in Arriving(s),
         Verify(r.fields["agent"], ServiceCanonical(r.kind, r.fields), r.sig)
  PROVE  \A f \in ServiceCovered(s.kind) : r.fields[f] = s.fields[f]
<1>1. /\ r.kind = s.kind
      /\ \/ ServiceCanonical(s.kind, r.fields) = Canonical(s.kind, s.fields, s.chain)
         \/ ServiceCanonical(s.kind, r.fields) = ServiceCanonical(s.kind, s.fields)
  BY ArrivedSound
<1>2. ServiceCanonical(s.kind, r.fields) = ServiceCanonical(s.kind, s.fields)
  BY <1>1, FormsDiffer
<1> QED
  BY <1>2, ServiceFormBinds

LEMMA VerifyMessageTrue ==
  ASSUME MessageBounds, TrueMessages, NEW s \in signed, NEW r \in Arriving(s), NEW chain \in Chains,
         VerifyMessage(s, r, chain)
  PROVE  TrueMessages'
<1> DEFINE by == <<"verifier", chain>>
           x == [by |-> by, sent |-> s, got |-> r, at |-> messageClock]
<1>1. /\ r.kind \notin {"call", "stream"}
      /\ Verify(r.fields["agent"], Canonical(r.kind, r.fields, chain), r.sig)
      /\ Accept(by, s, r)
  BY DEF VerifyMessage
<1>2. /\ r.kind = s.kind /\ s.kind \in Kinds /\ r.fields["agent"] = s.key
      /\ DOMAIN r.fields = FieldsOf(s.kind)
  BY <1>1, ArrivedSound
<1>3. chain = s.chain /\ \A f \in Covered(s.kind) : r.fields[f] = s.fields[f]
  BY <1>1, ChainFormArrived
<1>4. /\ {"intent", "price"} \cap FieldsOf(s.kind) \subseteq Covered(s.kind)
      /\ s.kind = "report" => "result" \in Covered(s.kind)
  BY <1>1, <1>2 DEF Kinds, FieldsOf, Covered
<1>5. SoundAcceptance(x)
  BY <1>1, <1>2, <1>3, <1>4 DEF SoundAcceptance
<1> HIDE DEF by
<1> QED
  BY <1>1, <1>5, AcceptTrue

LEMMA ServerInterceptorTrue ==
  ASSUME MessageBounds, TrueMessages, NEW s \in signed, NEW r \in Arriving(s), NEW chain \in Chains,
         ServerInterceptor(s, r, chain)
  PROVE  TrueMessages'
<1> DEFINE by == <<"interceptor", chain>>
           x == [by |-> by, sent |-> s, got |-> r, at |-> messageClock]
<1>1. /\ r.kind \in {"call", "stream"} /\ r.chain = chain /\ InDrift(r.fields["ts"])
      /\ Verify(r.fields["agent"], Canonical(r.kind, r.fields, chain), r.sig)
      /\ Accept(by, s, r)
  BY DEF ServerInterceptor, VerifyRequest
<1>2. /\ r.kind = s.kind /\ r.fields["agent"] = s.key /\ s.at \in Nat
      /\ DOMAIN r.fields = FieldsOf(s.kind) /\ ("ts" \in FieldsOf(s.kind) => s.fields["ts"] = s.at)
  BY <1>1, ArrivedSound
<1>3. chain = s.chain /\ \A f \in Covered(s.kind) : r.fields[f] = s.fields[f]
  BY <1>1, ChainFormArrived
<1>4. {"intent", "price"} \cap FieldsOf(s.kind) = {} /\ "ts" \in Covered(s.kind) \cap FieldsOf(s.kind)
  BY <1>1, <1>2 DEF FieldsOf, Covered
<1>5. messageClock - s.at <= TimeDrift
  <2>1. r.fields["ts"] = s.at
    BY <1>2, <1>3, <1>4
  <2> QED
    BY <1>1, <1>2, <2>1 DEF InDrift, MessageBounds, TrueMessages
<1>6. SoundAcceptance(x)
  <2>1. r.kind # "report"
    BY <1>1
  <2> QED
    BY <1>2, <1>3, <1>4, <1>5, <2>1 DEF SoundAcceptance
<1> HIDE DEF by
<1> QED
  BY <1>1, <1>6, AcceptTrue

LEMMA VerifyBidSignatureTrue ==
  ASSUME MessageBounds, TrueMessages, NEW s \in signed, NEW r \in Arriving(s), VerifyBidSignature(s, r)
  PROVE  TrueMessages'
<1> DEFINE by == <<"service">>
           x == [by |-> by, sent |-> s, got |-> r, at |-> messageClock]
<1>1. /\ r.kind = "bid" /\ Verify(r.fields["agent"], ServiceCanonical(r.kind, r.fields), r.sig)
      /\ Accept(by, s, r)
  BY DEF VerifyBidSignature
<1>2. /\ r.kind = s.kind /\ r.fields["agent"] = s.key /\ DOMAIN r.fields = FieldsOf(s.kind)
  BY <1>1, ArrivedSound
<1>3. \A f \in ServiceCovered(s.kind) : r.fields[f] = s.fields[f]
  BY <1>1, ServiceFormArrived
<1>4. {"intent", "price"} \cap FieldsOf(s.kind) \subseteq ServiceCovered(s.kind)
  BY <1>1, <1>2 DEF FieldsOf, ServiceCovered
<1>5. SoundAcceptance(x)
  BY <1>1, <1>2, <1>3, <1>4 DEF SoundAcceptance
<1> HIDE DEF by
<1> QED
  BY <1>1, <1>5, AcceptTrue

LEMMA ValidateReportTrue ==
  ASSUME MessageBounds, TrueMessages, NEW s \in signed, NEW r \in Arriving(s),
         ValidateExecutionReport(s, r)
  PROVE  TrueMessages'
<1> DEFINE by == <<"rules">>
           x == [by |-> by, sent |-> s, got |-> r, at |-> messageClock]
<1>1. /\ r.kind = "report" /\ r.fields["agent"] = Assignee /\ TimeIsValid(r.fields["ts"])
      /\ Verify(r.fields["agent"], ServiceCanonical(r.kind, r.fields), r.sig)
      /\ Accept(by, s, r)
  BY DEF ValidateExecutionReport, MatchesAssignment
<1>2. /\ r.kind = s.kind /\ r.fields["agent"] = s.key /\ s.at \in Nat
      /\ DOMAIN r.fields = FieldsOf(s.kind) /\ ("ts" \in FieldsOf(s.kind) => s.fields["ts"] = s.at)
  BY <1>1, ArrivedSound
<1>3. \A f \in ServiceCovered(s.kind) : r.fields[f] = s.fields[f]
  BY <1>1, ServiceFormArrived
<1>4. /\ {"intent", "price"} \cap FieldsOf(s.kind) \subseteq ServiceCovered(s.kind)
      /\ "ts" \in ServiceCovered(s.kind) \cap FieldsOf(s.kind)
  BY <1>1, <1>2 DEF FieldsOf, ServiceCovered
<1>5. s.at \in AssignedAt..(AssignedAt + ExecutionTime)
  <2>1. r.fields["ts"] = s.at
    BY <1>2, <1>3, <1>4
  <2> QED
    BY <1>1, <1>2, <2>1 DEF TimeIsValid, MessageBounds
<1>6. SoundAcceptance(x)
  BY <1>1, <1>2, <1>3, <1>4, <1>5 DEF SoundAcceptance
<1> HIDE DEF by
<1> QED
  BY <1>1, <1>6, AcceptTrue

LEMMA MessagesTickTrue == ASSUME TrueMessages, MessagesTick PROVE TrueMessages'
<1>1. messageClock' = messageClock + 1 /\ UNCHANGED <<signed, accepted>> /\ messageClock \in Nat
  BY DEF MessagesTick, TrueMessages
<1>2. 0..messageClock \subseteq 0..messageClock' /\ messageClock' \in Nat
  BY <1>1
<1>3. SignedAsMeant'
  <2> SUFFICES ASSUME NEW s \in signed
               PROVE  \E k \in Kinds, b \in SigningAgents, c \in Chains, t \in 0..messageClock' :
                        \E f \in Forms(k, b, c, t) : s = MessageOf(k, b, c, t, f)
    BY <1>1, Zenon DEF SignedAsMeant
  <2>1. PICK k \in Kinds, b \in SigningAgents, c \in Chains, t \in 0..messageClock :
          \E f \in Forms(k, b, c, t) : s = MessageOf(k, b, c, t, f)
    BY Zenon DEF TrueMessages, SignedAsMeant
  <2>2. t \in 0..messageClock'
    BY <1>2
  <2> QED
    BY <2>1, <2>2, Zenon
<1>4. MessagesInv'
  BY <1>1 DEF TrueMessages, MessagesInv, AcceptedAsSigned, CallIsFresh, ReportIsOfAssignee
<1> QED
  BY <1>2, <1>3, <1>4 DEF TrueMessages

\* What is accepted is what was signed: its agent, its chain, the intent and the price of a
\* bid, the result of a report; a call in time; a report of the assignee and in time.
THEOREM MessagesInvHolds == ASSUME MessageBounds PROVE MessagesSpec => []MessagesInv
<1>1. MessagesInit => TrueMessages
  BY DEF MessagesInit, TrueMessages, SignedAsMeant, MessagesInv, AcceptedAsSigned, CallIsFresh,
         ReportIsOfAssignee
<1>2. TrueMessages /\ [MessagesNext]_messagesVars => TrueMessages'
  <2> SUFFICES ASSUME TrueMessages, [MessagesNext]_messagesVars PROVE TrueMessages'
    OBVIOUS
  <2>1. CASE UNCHANGED messagesVars
    BY <2>1 DEF messagesVars, TrueMessages, SignedAsMeant, MessagesInv, AcceptedAsSigned, CallIsFresh,
                ReportIsOfAssignee
  <2>2. ASSUME NEW kind \in {"bid", "report", "assignment"}, NEW a \in SigningAgents, NEW c \in Chains,
               SignMessage(kind, a, c)
        PROVE  TrueMessages'
    BY <2>2, SigningTrue DEF Kinds
  <2>3. ASSUME NEW kind \in {"call", "stream"}, NEW a \in SigningAgents, NEW c \in Chains,
               ClientInterceptor(kind, a, c)
        PROVE  TrueMessages'
    BY <2>3, SigningTrue DEF Kinds
  <2>4. ASSUME NEW s \in signed, NEW r \in Arriving(s),
               \/ \E c \in Chains : VerifyMessage(s, r, c) \/ ServerInterceptor(s, r, c)
               \/ VerifyBidSignature(s, r) \/ ValidateExecutionReport(s, r)
        PROVE  TrueMessages'
    BY <2>4, VerifyMessageTrue, ServerInterceptorTrue, VerifyBidSignatureTrue, ValidateReportTrue
  <2> QED
    BY <2>1, <2>2, <2>3, <2>4, MessagesTickTrue, Zenon DEF MessagesNext
<1>3. TrueMessages => MessagesInv
  BY DEF TrueMessages
<1> QED
  BY <1>1, <1>2, <1>3, PTL DEF MessagesSpec

-----------------------------------------------------------------------------
(***************************************************************************)
(* Submissions to RootLayer                                                *)
(***************************************************************************)

\* There are finitely many reports, and a first checkpoint.
BundleBounds == IsFiniteSet(BundleReports) /\ MaxCheckpoints \in Nat \ {0}

\* A submission with bundles to send or to clear.
Busy ==
    [phase : {"batch", "single", "clear"}, epoch : 1..MaxCheckpoints, items : Seq(Intents),
     keys : Seq(Intents), results : Seq(BOOLEAN), attempt : Nat]

SubRecord ==
    {None} \cup [phase : {"done"}] \cup [phase : {"sleep"}, epoch : 1..MaxCheckpoints, groups : SUBSET Intents]
    \cup Busy

BundleType ==
    /\ epoch \in 1..MaxCheckpoints /\ seen \subseteq BundleReports /\ pending \subseteq seen
    /\ subs \in [Submissions -> SubRecord]
    /\ recorded \in [Submissions -> [Intents -> Nat]]

\* What a submission has done by the phase it is in, given what RootLayer recorded for it:
\* nothing before it sends; nothing for the bundles still to come, one by one; and what it
\* clears was recorded.
SubIsSound(u, rec) ==
    /\ u.phase \in {"none", "sleep", "batch"} => \A i \in Intents : rec[i] = 0
    /\ u.phase \in {"batch", "single"} =>
         u.keys = u.items /\ \A j, k \in 1..Len(u.items) : u.items[j] = u.items[k] => j = k
    /\ u.phase = "batch" => u.results = <<>>
    /\ u.phase = "single" =>
         /\ Len(u.results) < Len(u.items)
         /\ \A k \in (Len(u.results) + 1)..Len(u.items) : rec[u.items[k]] = 0
    /\ u.phase = "clear" => Len(u.results) = Len(u.keys)
    /\ u.phase \in {"single", "clear"} => \A k \in 1..Len(u.results) : u.results[k] => rec[u.keys[k]] > 0

\* The inductive invariant of the submissions; after a panic there is no more to do.
SoundBundles ==
    /\ BundleType
    /\ alive => \A s \in Submissions : SubIsSound(subs[s], recorded[s])
    /\ BundlesInv

LEMMA IntentsFinite == ASSUME BundleBounds PROVE IsFiniteSet(Intents)
<1> DEFINE f == [r \in BundleReports |-> IntentOf[r]]
<1>1. f \in Surjection(BundleReports, Intents)
  BY DEF Intents, Surjection
<1> QED
  BY <1>1, FS_Surjection DEF BundleBounds

\* Whether from the epoch's list or from the intents', a signature is of the epoch.
LEMMA GroupSignaturesOfEpoch ==
  ASSUME NEW e, NEW sigs \in GroupSignatures(e), NEW x \in sigs
  PROVE  x.epoch = e
<1>1. CASE epochSigs[e] # {}
  BY <1>1 DEF GroupSignatures
<1>2. CASE epochSigs[e] = {}
  <2> DEFINE I == {i \in Intents : IntentSignatures(i, e) # {}}
             F == {g \in [I -> UNION {intentSigs[i] : i \in Intents}] : \A i \in I : g[i] \in IntentSignatures(i, e)}
  <2>1. sigs \in {{f[i] : i \in I} : f \in F}
    BY <1>2, Zenon DEF GroupSignatures
  <2> HIDE DEF I
  <2>2. PICK f \in F : sigs = {f[i] : i \in I}
    BY <2>1
  <2>3. PICK i \in I : x = f[i]
    BY <2>2
  <2>4. x \in IntentSignatures(i, e)
    BY <2>2, <2>3
  <2> QED
    BY <2>4 DEF IntentSignatures
<1> QED
  BY <1>1, <1>2

\* How often RootLayer records an intent of a batch.
Times(items, ok, i) == Cardinality({k \in DOMAIN items : items[k] = i /\ ok[k]})

\* A batch has every intent once: RootLayer records an intent at most once, and does where
\* it says so.
LEMMA RecordedOnce ==
  ASSUME NEW items \in Seq(Intents), \A j, k \in 1..Len(items) : items[j] = items[k] => j = k,
         NEW ok \in [DOMAIN items -> BOOLEAN], NEW i \in Intents
  PROVE  /\ Times(items, ok, i) \in {0, 1}
         /\ \A k \in DOMAIN items : ok[k] /\ items[k] = i => Times(items, ok, i) = 1
<1> DEFINE K == {k \in DOMAIN items : items[k] = i /\ ok[k]}
<1>1. DOMAIN items = 1..Len(items)
  OBVIOUS
<1>2. \A j, k \in K : j = k
  BY <1>1
<1>3. \A k \in DOMAIN items : ok[k] /\ items[k] = i => k \in K
  OBVIOUS
<1> HIDE DEF K
<1>4. CASE K = {}
  BY <1>3, <1>4, FS_EmptySet DEF K, Times
<1>5. CASE K # {}
  <2>1. PICK k \in K : K = {k}
    BY <1>2, <1>5
  <2>2. Cardinality(K) = 1
    BY <2>1, FS_Singleton
  <2> QED
    BY <2>2 DEF K, Times
<1> QED
  BY <1>4, <1>5

\* A submission goes on; what RootLayer recorded for it only grows.
LEMMA SubGoesOn ==
  ASSUME SoundBundles, alive, NEW s \in Submissions, NEW u \in SubRecord, NEW rec \in [Intents -> Nat],
         subs' = [subs EXCEPT ![s] = u], recorded' = [recorded EXCEPT ![s] = rec],
         alive' => SubIsSound(u, rec),
         \A i \in Intents : recorded[s][i] <= rec[i] /\ rec[i] <= 1,
         UNCHANGED <<epoch, seen, pending>>, GroupSignedForEpoch'
  PROVE  SoundBundles'
<1>1. /\ subs \in [Submissions -> SubRecord] /\ recorded \in [Submissions -> [Intents -> Nat]]
      /\ BundleType /\ BundlesInv /\ \A t \in Submissions : SubIsSound(subs[t], recorded[t])
  BY DEF SoundBundles, BundleType
<1>2. \A t \in Submissions : t # s => subs'[t] = subs[t] /\ recorded'[t] = recorded[t]
  BY <1>1
<1>3. subs'[s] = u /\ recorded'[s] = rec
  BY <1>1
<1>4. BundleType'
  BY <1>1 DEF BundleType
<1>5. alive' => \A t \in Submissions : SubIsSound(subs'[t], recorded'[t])
  BY <1>1, <1>2, <1>3
<1>6. \A t \in Submissions, i \in Intents : recorded[t][i] <= recorded'[t][i] /\ recorded'[t][i] <= 1
  BY <1>1, <1>2, <1>3 DEF BundlesInv, RecordedOncePerSubmission
<1>7. ClearedIsRecorded'
  <2> SUFFICES ASSUME NEW r \in seen \ pending
               PROVE  \E t \in Submissions : recorded'[t][IntentOf[r]] > 0
    BY DEF ClearedIsRecorded
  <2>1. PICK t \in Submissions : recorded[t][IntentOf[r]] > 0
    BY <1>1 DEF BundlesInv, ClearedIsRecorded
  <2>2. IntentOf[r] \in Intents
    BY <1>1 DEF BundleType, Intents
  <2>3. recorded[t][IntentOf[r]] \in Nat /\ recorded'[t][IntentOf[r]] \in Nat
    BY <1>1, <1>2, <1>3, <2>2
  <2> QED
    BY <1>6, <2>1, <2>2, <2>3
<1>8. RecordedOncePerSubmission'
  BY <1>6 DEF RecordedOncePerSubmission
<1> QED
  BY <1>4, <1>5, <1>7, <1>8 DEF SoundBundles, BundlesInv

\* Steps that leave the submissions where they are.
LEMMA SubsRest ==
  ASSUME BundleBounds, SoundBundles,
         \/ \E r \in BundleReports : Commit(r)
         \/ SignEpoch \/ NextCheckpoint
         \/ \E i \in Intents : Index(i)
         \/ UNCHANGED bundleVars
  PROVE  SoundBundles'
<1>1. UNCHANGED <<subs, recorded, groups, alive>>
  BY DEF Commit, SignEpoch, NextCheckpoint, Index, bundleVars
<1>2. epoch' \in 1..MaxCheckpoints
  BY DEF BundleBounds, SoundBundles, BundleType, Commit, SignEpoch, NextCheckpoint, Index, bundleVars
<1>3. seen' \subseteq BundleReports /\ pending' \subseteq seen' /\ seen' \ pending' \subseteq seen \ pending
  <2>1. seen \subseteq BundleReports /\ pending \subseteq seen
    BY DEF SoundBundles, BundleType
  <2>2. CASE UNCHANGED <<seen, pending>>
    BY <2>1, <2>2
  <2>3. CASE \E r \in BundleReports : Commit(r)
    BY <2>1, <2>3 DEF Commit
  <2> QED
    BY <2>2, <2>3 DEF SignEpoch, NextCheckpoint, Index, bundleVars
<1>4. ClearedIsRecorded'
  BY <1>1, <1>3 DEF SoundBundles, BundlesInv, ClearedIsRecorded
<1> QED
  BY <1>1, <1>2, <1>3, <1>4 DEF SoundBundles, BundleType, BundlesInv, GroupSignedForEpoch,
                                RecordedOncePerSubmission

\* A submission starts to wait for the indexer.
LEMMA AsleepSound ==
  ASSUME SoundBundles, alive, NEW s \in Submissions, subs[s] = None, NEW intents \in SUBSET Intents,
         subs' = [subs EXCEPT ![s] = Asleep(intents)],
         UNCHANGED <<epoch, seen, pending, recorded, groups, alive>>
  PROVE  SoundBundles'
<1>1. /\ BundleType /\ BundlesInv /\ SubIsSound(None, recorded[s])
      /\ recorded \in [Submissions -> [Intents -> Nat]]
  BY DEF SoundBundles, BundleType
<1>2. Asleep(intents) \in SubRecord
  BY <1>1 DEF Asleep, SubRecord, BundleType
<1>3. \A i \in Intents : recorded[s][i] = 0
  BY <1>1 DEF SubIsSound, None
<1>4. SubIsSound(Asleep(intents), recorded[s])
  BY <1>3 DEF SubIsSound, Asleep
<1>5. recorded' = [recorded EXCEPT ![s] = recorded[s]] /\ recorded[s] \in [Intents -> Nat]
  BY <1>1
<1>6. GroupSignedForEpoch'
  BY <1>1 DEF BundlesInv, GroupSignedForEpoch
<1>7. \A i \in Intents : recorded[s][i] <= recorded[s][i] /\ recorded[s][i] <= 1
  BY <1>3
<1> QED
  BY <1>2, <1>4, <1>5, <1>6, <1>7, SubGoesOn

LEMMA StartSound ==
  ASSUME SoundBundles,
         \/ \E i \in Intents, v \in Peers, e \in 1..MaxCheckpoints : OnIntentSignature(i, v, e)
         \/ \E s \in Submissions : SubmitToRootLayerWithData(s)
  PROVE  SoundBundles'
<1>1. alive /\ UNCHANGED <<epoch, seen, pending, recorded, groups, alive>>
  BY DEF OnIntentSignature, SubmitToRootLayerWithData
<1>2. PendingIntents \subseteq Intents /\ Available \subseteq Intents
  BY DEF SoundBundles, BundleType, PendingIntents, Available, Intents
<1>3. \/ UNCHANGED subs
      \/ \E s \in Submissions, intents \in SUBSET Intents :
           subs[s] = None /\ subs' = [subs EXCEPT ![s] = Asleep(intents)]
  <2>1. ASSUME NEW i \in Intents, NEW v \in Peers, NEW e \in 1..MaxCheckpoints, OnIntentSignature(i, v, e)
        PROVE  \/ UNCHANGED subs
               \/ \E s \in Submissions : subs[s] = None /\ subs' = [subs EXCEPT ![s] = Asleep(Available)]
    BY <2>1 DEF OnIntentSignature
  <2>2. ASSUME NEW s \in Submissions, SubmitToRootLayerWithData(s)
        PROVE  subs[s] = None /\ subs' = [subs EXCEPT ![s] = Asleep(PendingIntents)]
    BY <2>2 DEF SubmitToRootLayerWithData
  <2> QED
    BY <1>2, <2>1, <2>2
<1>4. CASE UNCHANGED subs
  BY <1>1, <1>4 DEF SoundBundles, BundleType, BundlesInv, ClearedIsRecorded, GroupSignedForEpoch,
                    RecordedOncePerSubmission
<1>5. CASE \E s \in Submissions, intents \in SUBSET Intents :
             subs[s] = None /\ subs' = [subs EXCEPT ![s] = Asleep(intents)]
  BY <1>1, <1>5, AsleepSound
<1> QED
  BY <1>3, <1>4, <1>5

\* The bundles of the groups, each once and in some order.
LEMMA BuildSound ==
  ASSUME BundleBounds, SoundBundles, NEW s \in Submissions, NEW how \in {"batch", "single"},
         BuildBundles(s, how)
  PROVE  SoundBundles'
<1>1. /\ alive /\ subs[s].phase = "sleep"
      /\ UNCHANGED <<epoch, seen, pending, recorded, groups, alive>>
  BY DEF BuildBundles
<1>2. PICK items \in SetToSeqs(Bundles(subs[s].groups)) :
        subs' = [subs EXCEPT ![s] =
                   IF items = <<>> THEN [phase |-> "done"]
                   ELSE [phase |-> how, epoch |-> subs[s].epoch, items |-> items,
                         keys |-> KeysOf(items, subs[s].groups), results |-> <<>>, attempt |-> 1]]
  BY Zenon DEF BuildBundles
<1>3. /\ BundleType /\ BundlesInv /\ SubIsSound(subs[s], recorded[s])
      /\ subs \in [Submissions -> SubRecord] /\ recorded \in [Submissions -> [Intents -> Nat]]
  BY <1>1 DEF SoundBundles, BundleType
<1>4. subs[s] \in [phase : {"sleep"}, epoch : 1..MaxCheckpoints, groups : SUBSET Intents]
  <2>1. subs[s] \in SubRecord
    BY <1>3
  <2>2. subs[s] # None /\ subs[s] \notin [phase : {"done"}] /\ subs[s] \notin Busy
    BY <1>1 DEF None, Busy
  <2> QED
    BY <2>1, <2>2 DEF SubRecord
<1> DEFINE S == Bundles(subs[s].groups)
<1>5. S \subseteq Intents /\ IsFiniteSet(S)
  BY <1>4, IntentsFinite, FS_Subset DEF Bundles
<1> HIDE DEF S
<1>6. items \in Seq(Intents) /\ \A j, k \in 1..Len(items) : items[j] = items[k] => j = k
  <2>1. Cardinality(S) \in Nat
    BY <1>5, FS_CardinalityType
  <2>2. /\ items \in [1..Cardinality(S) -> S]
        /\ \A j, k \in 1..Cardinality(S) : j # k => items[j] # items[k]
    BY <1>2 DEF SetToSeqs, S
  <2>3. items \in Seq(S) /\ Len(items) = Cardinality(S)
    BY <2>1, <2>2
  <2> QED
    BY <1>5, <2>2, <2>3, SeqMonotonic
<1> DEFINE busy == [phase |-> how, epoch |-> subs[s].epoch, items |-> items, keys |-> items,
                    results |-> <<>>, attempt |-> 1]
           u == IF items = <<>> THEN [phase |-> "done"] ELSE busy
<1>7. subs' = [subs EXCEPT ![s] = u]
  BY <1>2 DEF KeysOf
<1>8. \A i \in Intents : recorded[s][i] = 0
  BY <1>1, <1>3 DEF SubIsSound
<1>9. u \in SubRecord
  <2>1. busy \in Busy
    <3>1. <<>> \in Seq(BOOLEAN)
      OBVIOUS
    <3> QED
      BY <1>4, <1>6, <3>1 DEF Busy
  <2> HIDE DEF busy
  <2> QED
    BY <2>1 DEF SubRecord
<1>10. SubIsSound(u, recorded[s])
  <2>1. CASE items = <<>>
    BY <2>1 DEF SubIsSound
  <2>2. CASE items # <<>>
    <3>1. Len(items) > 0
      BY <1>6, <2>2, EmptySeq
    <3>2. \A k \in 1..Len(items) : items[k] \in Intents
      BY <1>6, ElementOfSeq
    <3>3. u = busy
      BY <2>2
    <3>4. busy.phase = how /\ busy.items = items /\ busy.keys = items /\ busy.results = <<>>
      OBVIOUS
    <3> HIDE DEF u, busy
    <3> QED
      BY <1>6, <1>8, <3>1, <3>2, <3>3, <3>4 DEF SubIsSound
  <2> QED
    BY <2>1, <2>2
<1> HIDE DEF u
<1>11. recorded' = [recorded EXCEPT ![s] = recorded[s]] /\ recorded[s] \in [Intents -> Nat]
  BY <1>1, <1>3
<1>12. GroupSignedForEpoch'
  BY <1>1, <1>3 DEF BundlesInv, GroupSignedForEpoch
<1>13. \A i \in Intents : recorded[s][i] <= recorded[s][i] /\ recorded[s][i] <= 1
  BY <1>8
<1> QED
  BY <1>1, <1>7, <1>9, <1>10, <1>11, <1>12, <1>13, SubGoesOn

\* A submission that sends or clears.
LEMMA BusySub ==
  ASSUME SoundBundles, alive, NEW s \in Submissions, subs[s].phase \in {"batch", "single", "clear"}
  PROVE  /\ subs[s] \in Busy /\ SubIsSound(subs[s], recorded[s])
         /\ subs \in [Submissions -> SubRecord] /\ recorded \in [Submissions -> [Intents -> Nat]]
         /\ BundlesInv /\ BundleType
<1>1. subs[s] \in SubRecord
  BY DEF SoundBundles, BundleType
<1>2. subs[s] # None /\ subs[s] \notin [phase : {"done"}]
      /\ subs[s] \notin [phase : {"sleep"}, epoch : 1..MaxCheckpoints, groups : SUBSET Intents]
  BY DEF None
<1>3. subs[s] \in Busy
  BY <1>1, <1>2 DEF SubRecord
<1> QED
  BY <1>3 DEF SoundBundles, BundleType

\* The batch is sent: every bundle is recorded once or not at all, and after an answer that
\* says it was recorded it was. After a panic there is nothing that clears.
LEMMA SubmitBatchSound ==
  ASSUME SoundBundles, NEW s \in Submissions, SubmitBatch(s)
  PROVE  SoundBundles'
<1> DEFINE u == subs[s]
           items == u.items
           rec == recorded[s]
<1>1. alive /\ u.phase = "batch" /\ UNCHANGED <<epoch, seen, pending>>
  BY DEF SubmitBatch
<1>2. /\ u \in Busy /\ SubIsSound(u, rec) /\ subs \in [Submissions -> SubRecord]
      /\ recorded \in [Submissions -> [Intents -> Nat]] /\ BundlesInv /\ BundleType
  BY <1>1, BusySub
<1>3. PICK sigs \in GroupSignatures(u.epoch), ok \in Answers(items), answered \in BOOLEAN :
        IF sigs = {}
        THEN alive' = FALSE /\ UNCHANGED <<subs, recorded, groups>>
        ELSE /\ groups' = groups \cup {[epoch |-> u.epoch, sigs |-> sigs]}
             /\ recorded' = Recorded(s, items, ok)
             /\ alive' = answered
             /\ subs' = IF answered THEN [subs EXCEPT ![s].phase = "clear", ![s].results = ok] ELSE subs
  BY Zenon DEF SubmitBatch
<1>4. CASE sigs = {}
  BY <1>1, <1>2, <1>3, <1>4 DEF SoundBundles, BundleType, BundlesInv, ClearedIsRecorded,
                                GroupSignedForEpoch, RecordedOncePerSubmission
<1>5. CASE sigs # {}
  <2> DEFINE after == [i \in Intents |-> rec[i] + Times(items, ok, i)]
             t == [u EXCEPT !.phase = "clear", !.results = ok]
  <2>1. /\ items \in Seq(Intents) /\ u.keys = items /\ \A i \in Intents : rec[i] = 0
        /\ \A j, k \in 1..Len(items) : items[j] = items[k] => j = k
    BY <1>1, <1>2 DEF Busy, SubIsSound
  <2>2. ok \in [DOMAIN items -> BOOLEAN] /\ DOMAIN items = 1..Len(items) /\ Len(items) \in Nat
    BY <1>3, <2>1, LenProperties DEF Answers
  <2>3. ASSUME NEW i \in Intents
        PROVE  /\ Times(items, ok, i) \in {0, 1}
               /\ \A k \in DOMAIN items : ok[k] /\ items[k] = i => Times(items, ok, i) = 1
    <3> HIDE DEF items
    <3> QED
      BY <2>1, <2>2, RecordedOnce
  <2>4. recorded' = [recorded EXCEPT ![s] = after]
    BY <1>3, <1>5 DEF Recorded, Times
  <2>5. after \in [Intents -> Nat] /\ \A i \in Intents : rec[i] <= after[i] /\ after[i] <= 1 /\ after[i] = Times(items, ok, i)
    BY <2>1, <2>3
  <2> HIDE DEF after
  <2>6. ok \in Seq(BOOLEAN) /\ Len(ok) = Len(items)
    BY <2>2
  <2>7. t \in Busy /\ t.phase = "clear" /\ t.keys = items /\ t.results = ok
    BY <1>2, <2>1, <2>6 DEF Busy
  <2>8. SubIsSound(t, after)
    <3>1. \A k \in 1..Len(items) : ok[k] => after[items[k]] > 0
      BY <2>1, <2>2, <2>3, <2>5, ElementOfSeq
    <3> HIDE DEF t
    <3> QED
      BY <2>6, <2>7, <3>1 DEF SubIsSound
  <2>9. GroupSignedForEpoch'
    <3>1. groups' = groups \cup {[epoch |-> u.epoch, sigs |-> sigs]}
      BY <1>3, <1>5
    <3>2. \A x \in sigs : x.epoch = u.epoch
      BY <1>3, GroupSignaturesOfEpoch
    <3> QED
      BY <1>2, <3>1, <3>2 DEF BundlesInv, GroupSignedForEpoch
  <2>10. CASE answered
    <3>1. subs' = [subs EXCEPT ![s] = t]
      BY <1>3, <1>5, <2>10
    <3>2. t \in SubRecord
      BY <2>7 DEF SubRecord
    <3> HIDE DEF t, u, items, rec
    <3> QED
      BY <1>1, <2>4, <2>5, <2>8, <2>9, <3>1, <3>2, SubGoesOn DEF rec
  <2>11. CASE ~answered
    <3>1. subs' = [subs EXCEPT ![s] = u] /\ ~alive'
      BY <1>2, <1>3, <1>5, <2>11
    <3>2. u \in SubRecord
      BY <1>2 DEF SubRecord
    <3> HIDE DEF items
    <3> QED
      BY <1>1, <2>4, <2>5, <2>9, <3>1, <3>2, SubGoesOn
  <2> QED
    BY <2>10, <2>11
<1> QED
  BY <1>4, <1>5

\* One bundle is sent: it is sent again only after RootLayer said that it had not recorded it.
LEMMA SubmitSingleSound ==
  ASSUME SoundBundles, NEW s \in Submissions, SubmitSingle(s)
  PROVE  SoundBundles'
<1> DEFINE u == subs[s]
           items == u.items
           rec == recorded[s]
           here == Len(u.results) + 1
           bundle == items[here]
<1>1. alive /\ u.phase = "single" /\ UNCHANGED <<epoch, seen, pending, groups, alive>>
  BY DEF SubmitSingle
<1>2. /\ u \in Busy /\ SubIsSound(u, rec) /\ subs \in [Submissions -> SubRecord]
      /\ recorded \in [Submissions -> [Intents -> Nat]] /\ BundlesInv /\ BundleType
  BY <1>1, BusySub
<1>3. PICK error \in ErrorsFor(bundle) :
        /\ recorded' = IF error \in {"none", "lost"} THEN [recorded EXCEPT ![s][bundle] = @ + 1] ELSE recorded
        /\ subs' = IF IsRetryable(error) /\ u.attempt < MaxRetries
                   THEN [subs EXCEPT ![s].attempt = @ + 1]
                   ELSE [subs EXCEPT ![s].results = Append(@, Ok(error)), ![s].attempt = 1,
                                     ![s].phase = IF here = Len(items) THEN "clear" ELSE @]
  BY Zenon DEF SubmitSingle
<1>4. /\ items \in Seq(Intents) /\ u.keys = items /\ u.results \in Seq(BOOLEAN) /\ u.attempt \in Nat
      /\ \A i, j \in 1..Len(items) : items[i] = items[j] => i = j
      /\ Len(u.results) < Len(items)
      /\ \A j \in (Len(u.results) + 1)..Len(items) : rec[items[j]] = 0
      /\ \A j \in 1..Len(u.results) : u.results[j] => rec[items[j]] > 0
  BY <1>1, <1>2 DEF Busy, SubIsSound
<1>5. /\ Len(items) \in Nat /\ Len(u.results) \in Nat /\ here \in 1..Len(items) /\ bundle \in Intents
      /\ rec \in [Intents -> Nat] /\ rec[bundle] = 0
  <2>1. Len(items) \in Nat /\ Len(u.results) \in Nat
    BY <1>4, LenProperties
  <2>2. here \in 1..Len(items) /\ here \in (Len(u.results) + 1)..Len(items)
    BY <1>4, <2>1
  <2> QED
    BY <1>2, <1>4, <2>1, <2>2, ElementOfSeq
<1>6. \A i \in Intents : rec[i] <= 1
  BY <1>2 DEF BundlesInv, RecordedOncePerSubmission
<1>7. GroupSignedForEpoch'
  BY <1>1, <1>2 DEF BundlesInv, GroupSignedForEpoch
<1> DEFINE after == IF error \in {"none", "lost"} THEN [rec EXCEPT ![bundle] = 1] ELSE rec
<1>8. recorded' = [recorded EXCEPT ![s] = after]
  <2>1. recorded \in [Submissions -> [Intents -> Nat]] /\ rec = recorded[s]
    BY <1>2
  <2> HIDE DEF bundle
  <2>2. CASE error \in {"none", "lost"}
    <3>1. recorded' = [recorded EXCEPT ![s] = [rec EXCEPT ![bundle] = rec[bundle] + 1]]
      BY <1>3, <2>2
    <3> QED
      BY <1>5, <2>2, <3>1
  <2>3. CASE error \notin {"none", "lost"}
    BY <1>3, <2>1, <2>3
  <2> QED
    BY <2>2, <2>3
<1>9. after \in [Intents -> Nat] /\ \A i \in Intents : rec[i] <= after[i] /\ after[i] <= 1
  BY <1>5, <1>6
<1>10. /\ \A i \in Intents : i # bundle => after[i] = rec[i]
       /\ error = "none" => after[bundle] > 0
       /\ error \notin {"none", "lost"} => after = rec
  BY <1>5
<1>11. CASE IsRetryable(error) /\ u.attempt < MaxRetries
  <2> DEFINE t == [u EXCEPT !.attempt = u.attempt + 1]
  <2>1. subs' = [subs EXCEPT ![s] = t]
    BY <1>3, <1>11
  <2>2. /\ t \in Busy /\ t.phase = u.phase /\ t.items = u.items /\ t.keys = u.keys
        /\ t.results = u.results
    <3> DEFINE n == u.attempt + 1
    <3>1. u \in Busy /\ n \in Nat
      BY <1>2, <1>4
    <3> HIDE DEF u, n
    <3>2. t = [u EXCEPT !.attempt = n]
      BY DEF n
    <3> HIDE DEF t
    <3> QED
      BY <3>1, <3>2 DEF Busy
  <2>3. after = rec
    <3>1. error = "intent status"
      BY <1>11, Zenon DEF IsRetryable
    <3>2. error \notin {"none", "lost"}
      BY <3>1
    <3> HIDE DEF after
    <3> QED
      BY <1>10, <3>2
  <2> HIDE DEF t, after
  <2>4. SubIsSound(t, after)
    BY <1>2, <2>2, <2>3 DEF SubIsSound
  <2>5. t \in SubRecord
    BY <2>2 DEF SubRecord
  <2> HIDE DEF u, items, here, bundle, rec
  <2> QED
    BY <1>1, <1>7, <1>8, <1>9, <2>1, <2>4, <2>5, SubGoesOn DEF rec
<1>12. CASE ~(IsRetryable(error) /\ u.attempt < MaxRetries)
  <2> DEFINE verdicts == Append(u.results, Ok(error))
             phase == IF here = Len(items) THEN "clear" ELSE "single"
             t == [u EXCEPT !.results = verdicts, !.attempt = 1, !.phase = phase]
  <2>1. subs' = [subs EXCEPT ![s] = t]
    BY <1>1, <1>3, <1>12, Zenon
  <2>2. /\ verdicts \in Seq(BOOLEAN) /\ Len(verdicts) = here
        /\ \A j \in 1..(here - 1) : verdicts[j] = u.results[j]
    <3>1. Ok(error) \in BOOLEAN
      BY Zenon DEF Ok
    <3>2. here - 1 = Len(u.results)
      BY <1>5
    <3> QED
      BY <1>4, <3>1, <3>2, AppendProperties
  <2>3. verdicts[here] => error = "none"
    <3>1. Ok(error) \in BOOLEAN /\ (Ok(error) => error = "none")
      BY Zenon DEF Ok
    <3>2. verdicts[here] = Ok(error)
      BY <1>4, <3>1, AppendProperties
    <3> QED
      BY <3>1, <3>2, Zenon
  <2> HIDE DEF verdicts
  <2>4. phase \in {"single", "clear"} /\ (phase = "clear" <=> here = Len(items))
    OBVIOUS
  <2> HIDE DEF phase
  <2>5. /\ t \in Busy /\ t.phase = phase /\ t.items = items /\ t.keys = items /\ t.results = verdicts
    BY <1>2, <1>4, <2>2, <2>4 DEF Busy
  <2> HIDE DEF t
  <2>6. \A j \in 1..here : verdicts[j] => after[items[j]] > 0
    <3> SUFFICES ASSUME NEW j \in 1..here, verdicts[j] PROVE after[items[j]] > 0
      OBVIOUS
    <3>1. CASE j = here
      BY <1>10, <2>3, <3>1
    <3>2. CASE j # here
      <4>1. j \in 1..(here - 1) /\ j \in 1..Len(u.results) /\ j \in 1..Len(items)
        <5> DEFINE n == Len(u.results)
        <5>1. n \in Nat /\ Len(items) \in Nat /\ here = n + 1 /\ here <= Len(items)
          BY <1>5
        <5> HIDE DEF n, here
        <5>2. j \in 1..(here - 1) /\ j \in 1..n /\ j \in 1..Len(items)
          BY <3>2, <5>1
        <5> QED
          BY <5>2 DEF n
      <4>2. rec[items[j]] > 0 /\ items[j] \in Intents
        BY <1>4, <2>2, <4>1, ElementOfSeq
      <4> HIDE DEF after
      <4> QED
        BY <1>5, <1>9, <4>2
    <3> QED
      BY <3>1, <3>2
  <2>7. \A j \in (here + 1)..Len(items) : after[items[j]] = 0
    <3> SUFFICES ASSUME NEW j \in (here + 1)..Len(items) PROVE after[items[j]] = 0
      OBVIOUS
    <3>1. j \in (Len(u.results) + 1)..Len(items) /\ j \in 1..Len(items) /\ j # here
      BY <1>5
    <3>2. rec[items[j]] = 0 /\ items[j] # bundle /\ items[j] \in Intents
      BY <1>4, <1>5, <3>1, ElementOfSeq
    <3> HIDE DEF after
    <3> QED
      BY <1>10, <3>2
  <2>8. phase = "single" => here < Len(items)
    BY <1>5, <2>4
  <2> HIDE DEF after
  <2>9. SubIsSound(t, after)
    BY <1>4, <2>2, <2>4, <2>5, <2>6, <2>7, <2>8 DEF SubIsSound
  <2>10. t \in SubRecord
    BY <2>5 DEF SubRecord
  <2> HIDE DEF u, items, here, bundle, rec
  <2> QED
    BY <1>1, <1>7, <1>8, <1>9, <2>1, <2>9, <2>10, SubGoesOn DEF rec
<1> QED
  BY <1>11, <1>12

\* The reports of a key are cleared when its bundle was recorded.
LEMMA ClearSound ==
  ASSUME SoundBundles, NEW s \in Submissions, ClearReportsForIntent(s)
  PROVE  SoundBundles'
<1> DEFINE u == subs[s]
           rec == recorded[s]
<1>1. /\ alive /\ u.phase = "clear"
      /\ UNCHANGED <<epoch, seen, recorded, groups, alive>>
  BY DEF ClearReportsForIntent
<1>2. /\ u \in Busy /\ SubIsSound(u, rec) /\ subs \in [Submissions -> SubRecord]
      /\ recorded \in [Submissions -> [Intents -> Nat]] /\ BundlesInv /\ BundleType
  BY <1>1, BusySub
<1>3. /\ u.results \in Seq(BOOLEAN) /\ u.keys \in Seq(Intents) /\ Len(u.results) = Len(u.keys)
      /\ \A k \in 1..Len(u.results) : u.results[k] => rec[u.keys[k]] > 0
  BY <1>1, <1>2 DEF Busy, SubIsSound
<1>4. rec \in [Intents -> Nat] /\ \A i \in Intents : rec[i] <= rec[i] /\ rec[i] <= 1
  <2>1. rec \in [Intents -> Nat]
    BY <1>2
  <2>2. \A i \in Intents : rec[i] <= 1
    BY <1>2 DEF BundlesInv, RecordedOncePerSubmission
  <2> HIDE DEF rec
  <2> QED
    BY <2>1, <2>2
<1>5. GroupSignedForEpoch'
  BY <1>1, <1>2 DEF BundlesInv, GroupSignedForEpoch
<1>6. CASE u.results = <<>>
  <2> DEFINE t == [phase |-> "done"]
  <2>1. subs' = [subs EXCEPT ![s] = t] /\ pending' = pending
    BY <1>6 DEF ClearReportsForIntent
  <2>2. t \in SubRecord
    BY DEF SubRecord
  <2>3. SubIsSound(t, rec)
    BY DEF SubIsSound
  <2>4. recorded' = [recorded EXCEPT ![s] = rec]
    BY <1>1, <1>2
  <2> HIDE DEF t
  <2> QED
    BY <1>1, <1>4, <1>5, <2>1, <2>2, <2>3, <2>4, SubGoesOn
<1>7. CASE u.results # <<>>
  <2> DEFINE t == [u EXCEPT !.results = Tail(u.results), !.keys = Tail(u.keys)]
  <2>1. /\ subs' = [subs EXCEPT ![s] = t]
        /\ pending' = {r \in pending : ~Clears(u, r)}
    BY <1>7 DEF ClearReportsForIntent
  <2>2. /\ Len(u.results) \in Nat \ {0} /\ u.keys # <<>> /\ 1 \in 1..Len(u.results)
    BY <1>3, <1>7, LenProperties, EmptySeq
  <2>3. /\ Tail(u.results) \in Seq(BOOLEAN) /\ Len(Tail(u.results)) = Len(u.results) - 1
        /\ \A k \in 1..Len(Tail(u.results)) : Tail(u.results)[k] = u.results[k + 1]
    BY <1>3, <1>7, HeadTailProperties
  <2>4. /\ Tail(u.keys) \in Seq(Intents) /\ Len(Tail(u.keys)) = Len(u.keys) - 1
        /\ \A k \in 1..Len(Tail(u.keys)) : Tail(u.keys)[k] = u.keys[k + 1]
    BY <1>3, <2>2, HeadTailProperties
  <2>5. t \in Busy /\ t.phase = "clear" /\ t.results = Tail(u.results) /\ t.keys = Tail(u.keys)
    BY <1>1, <1>2, <2>3, <2>4 DEF Busy
  <2>6. SubIsSound(t, rec)
    <3>1. ASSUME NEW k \in 1..Len(Tail(u.results)), Tail(u.results)[k]
          PROVE  rec[Tail(u.keys)[k]] > 0
      <4>1. k + 1 \in 1..Len(u.results) /\ k \in 1..Len(Tail(u.keys))
        BY <1>3, <2>2, <2>3, <2>4
      <4>2. u.results[k + 1] /\ Tail(u.keys)[k] = u.keys[k + 1]
        BY <2>3, <2>4, <3>1, <4>1
      <4> QED
        BY <1>3, <4>1, <4>2
    <3>2. Len(Tail(u.results)) = Len(Tail(u.keys))
      BY <1>3, <2>3, <2>4
    <3> HIDE DEF t
    <3> QED
      BY <2>5, <3>1, <3>2 DEF SubIsSound
  <2>7. BundleType'
    <3>1. t \in SubRecord
      BY <2>5 DEF SubRecord
    <3>2. subs' \in [Submissions -> SubRecord]
      BY <1>2, <2>1, <3>1
    <3>3. pending' \subseteq pending
      BY <2>1
    <3> QED
      BY <1>1, <1>2, <3>2, <3>3 DEF BundleType
  <2>8. \A v \in Submissions : SubIsSound(subs'[v], recorded'[v])
    <3>1. \A v \in Submissions : SubIsSound(subs[v], recorded[v])
      BY <1>1 DEF SoundBundles
    <3>2. subs'[s] = t /\ \A v \in Submissions : v # s => subs'[v] = subs[v]
      BY <1>2, <2>1
    <3> HIDE DEF t
    <3> QED
      BY <1>1, <2>6, <3>1, <3>2
  <2>9. ClearedIsRecorded'
    <3> SUFFICES ASSUME NEW r \in seen \ pending'
                 PROVE  \E v \in Submissions : recorded[v][IntentOf[r]] > 0
      BY <1>1 DEF ClearedIsRecorded
    <3>1. CASE r \notin pending
      BY <1>2, <3>1 DEF BundlesInv, ClearedIsRecorded
    <3>2. CASE r \in pending
      <4>1. u.results[1] /\ u.keys[1] = IntentOf[r]
        BY <2>1, <3>2 DEF Clears
      <4>2. rec[u.keys[1]] > 0
        BY <1>3, <2>2, <4>1
      <4> QED
        BY <4>1, <4>2
    <3> QED
      BY <3>1, <3>2
  <2>10. RecordedOncePerSubmission'
    BY <1>1, <1>2 DEF BundlesInv, RecordedOncePerSubmission
  <2> QED
    BY <1>5, <2>7, <2>8, <2>9, <2>10 DEF SoundBundles, BundlesInv
<1> QED
  BY <1>6, <1>7

\* A report is cleared only after a bundle for its intent was recorded, a batch has only
\* signatures for its epoch, and no submission has an intent recorded twice.
THEOREM BundlesInvHolds == ASSUME BundleBounds PROVE BundleSpec => []BundlesInv
<1>1. BundleInit => SoundBundles
  <2> SUFFICES ASSUME BundleInit PROVE SoundBundles
    OBVIOUS
  <2>1. BundleType
    BY DEF BundleInit, BundleType, BundleBounds, SubRecord
  <2>2. \A s \in Submissions : SubIsSound(subs[s], recorded[s])
    BY DEF BundleInit, SubIsSound, None
  <2>3. BundlesInv
    BY DEF BundleInit, BundlesInv, ClearedIsRecorded, GroupSignedForEpoch, RecordedOncePerSubmission
  <2> QED
    BY <2>1, <2>2, <2>3 DEF SoundBundles
<1>2. SoundBundles /\ [BundleNext]_bundleVars => SoundBundles'
  <2> SUFFICES ASSUME SoundBundles, [BundleNext]_bundleVars PROVE SoundBundles'
    OBVIOUS
  <2> QED
    BY SubsRest, StartSound, BuildSound, SubmitBatchSound, SubmitSingleSound, ClearSound DEF BundleNext
<1>3. SoundBundles => BundlesInv
  BY DEF SoundBundles
<1> QED
  BY <1>1, <1>2, <1>3, PTL DEF BundleSpec
=============================================================================
