-------------------------- MODULE ParticipantVerifier --------------------------
(***************************************************************************)
(* ParticipantVerifier (internal/blockchain/verifier.go and its SDK twin   *)
(* verifier_sdk.go): the least-recently-used cache of what the Subnet      *)
(* contract says of an agent, which the validator service and the matcher  *)
(* ask before they take a report or a bid.                                 *)
(*                                                                         *)
(* verify() holds the cache lock to look an address up and again to store  *)
(* the contract's answer, not across the call to the contract: lookups     *)
(* interleave there, and clock and contract move on.                       *)
(***************************************************************************)
EXTENDS Naturals, Sequences, SequencesExt

CONSTANTS
    Addresses,      \* addresses of agents
    Lookups,        \* goroutines inside verify()
    CacheTTL,       \* cacheTTL, in ticks
    CacheSize,      \* cacheSize
    MaxCall,        \* bound: ticks a call to the contract lasts (the caller's context)
    CacheTime       \* bound: ticks of a behaviour

VARIABLES
    cacheClock,     \* the clock
    registered,     \* contract: IsActiveParticipant
    lastActive,     \* history: when an address was last active (0 if never)
    order,          \* the cache: front is the most recently used entry
    lookup,         \* what a goroutine is doing: idle, or holding an answer
    stalest         \* history: greatest age of a positive verdict

verifierVars == <<cacheClock, registered, lastActive, order, lookup, stalest>>

NoLookup == [pc |-> "idle"]
Entry(a, active) == [addr |-> a, active |-> active, expires |-> cacheClock + CacheTTL]
Cached(a) == {i \in 1..Len(order) : order[i].addr = a}

VerifierInit ==
    /\ cacheClock = 0
    /\ registered \in [Addresses -> BOOLEAN]
    /\ lastActive = [a \in Addresses |-> 0]
    /\ order = <<>>
    /\ lookup = [l \in Lookups |-> NoLookup]
    /\ stalest = 0

\* A verdict returned now; a positive one is as old as the last time it was true.
Returned(a, active) ==
    stalest' = IF active /\ cacheClock - lastActive[a] > stalest
               THEN cacheClock - lastActive[a] ELSE stalest

\* Faulty: a hit prolongs the entry's life.
HitRenews(i) == <<[order[i] EXCEPT !.expires = cacheClock + CacheTTL]>> \o RemoveAt(order, i)

\* tryCache on a live entry: only its place changes.
Hit(i) == <<order[i]>> \o RemoveAt(order, i)

\* removeElement of the element that the cache's map has for an address, if it has one.
Without(a) == IF Cached(a) = {} THEN order ELSE RemoveAt(order, CHOOSE i \in Cached(a) : TRUE)

\* tryCache: a live entry answers; an expired one is dropped, and like a missing one
\* sends the goroutine to the contract.
TryCache(l, a) ==
    /\ lookup[l] = NoLookup
    /\ \/ \E i \in Cached(a) :
            /\ cacheClock <= order[i].expires
            /\ order' = Hit(i)
            /\ Returned(a, order[i].active)
            /\ UNCHANGED lookup
       \/ /\ \A i \in Cached(a) : cacheClock > order[i].expires
          /\ order' = Without(a)
          /\ lookup' = [lookup EXCEPT ![l] = [pc |-> "call", addr |-> a]]
          /\ UNCHANGED stalest
    /\ UNCHANGED <<cacheClock, registered, lastActive>>

\* The contract answers, or the call fails and nothing is cached (the caller gets an
\* error, or with enable_fallback a verdict of no authority).
CallContract(l) ==
    /\ lookup[l].pc = "call"
    /\ \/ lookup' = [lookup EXCEPT ![l] = [pc |-> "update", addr |-> @.addr, since |-> cacheClock,
                                           active |-> registered[lookup[l].addr]]]
       \/ lookup' = [lookup EXCEPT ![l] = NoLookup]
    /\ UNCHANGED <<cacheClock, registered, lastActive, order, stalest>>

\* Faulty: never evicts.
WithEntryUnbounded(e) == <<e>> \o Without(e.addr)

\* updateCache: to the front, in place of an entry another goroutine has stored
\* meanwhile; the oldest is evicted.
WithEntry(e) ==
    LET front == <<e>> \o Without(e.addr)
    IN  IF Len(front) > CacheSize THEN Front(front) ELSE front

UpdateCache(l) ==
    /\ lookup[l].pc = "update"
    /\ order' = WithEntry(Entry(lookup[l].addr, lookup[l].active))
    /\ Returned(lookup[l].addr, lookup[l].active)
    /\ lookup' = [lookup EXCEPT ![l] = NoLookup]
    /\ UNCHANGED <<cacheClock, registered, lastActive>>

\* The contract registers or deactivates an agent.
ChangeStatus(a) ==
    /\ registered' = [registered EXCEPT ![a] = ~@]
    /\ lastActive' = [lastActive EXCEPT ![a] = cacheClock]
    /\ UNCHANGED <<cacheClock, order, lookup, stalest>>

VerifierTick ==
    /\ cacheClock < CacheTime
    /\ \A l \in Lookups : lookup[l].pc = "update" => cacheClock < lookup[l].since + MaxCall
    /\ cacheClock' = cacheClock + 1
    /\ lastActive' = [a \in Addresses |-> IF registered[a] THEN cacheClock + 1 ELSE lastActive[a]]
    /\ UNCHANGED <<registered, order, lookup, stalest>>

VerifierNext ==
    \/ \E l \in Lookups : (\E a \in Addresses : TryCache(l, a)) \/ CallContract(l) \/ UpdateCache(l)
    \/ \E a \in Addresses : ChangeStatus(a)
    \/ VerifierTick

VerifierSpec == VerifierInit /\ [][VerifierNext]_verifierVars

-----------------------------------------------------------------------------
\* An agent the verifier lets pass was active on chain within the life of a cache
\* entry and the duration of one call, however lookups overlap, overwrite each
\* other's answer or keep an entry in use.
VerdictIsFresh == stalest <= CacheTTL + MaxCall

\* The cache never holds more than cacheSize entries, and never two for one address.
CacheIsBounded ==
    /\ Len(order) <= CacheSize
    /\ IsInjective([i \in 1..Len(order) |-> order[i].addr])

\* What the verifier answers, and what it keeps of the answers.
VerifierInv == VerdictIsFresh /\ CacheIsBounded
=============================================================================
