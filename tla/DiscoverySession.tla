-------------------------- MODULE DiscoverySession --------------------------
(***************************************************************************)
(* discover() of the Node bridge (src/src/peer/PeerDiscoverySession.ts over *)
(* DirectDiscoveryClient.ts): a fresh cache entry is returned as it is;     *)
(* otherwise the discovery service is asked, and when that fails the entry  *)
(* read before the request is returned, however old, while a timer retries  *)
(* in the background until the service answers or the entry is gone.        *)
(*                                                                          *)
(* Time is counted in ticks.  No tick passes a deadline or a timer of zero  *)
(* milliseconds that is due.  The membership the service lists changes at   *)
(* any time; a request is answered with the membership at the moment the    *)
(* service handles it, and answers overtake each other.                     *)
(***************************************************************************)
EXTENDS DiscoveryCache

CONSTANTS
  Queries,   \* calls of discover()
  TTL,       \* time to live of an entry
  Deadline,  \* config.timeouts.discovery
  Horizon,   \* bound: ticks of a behaviour
  MayFail    \* whether the service ever goes down

ASSUME SessionAssumption ==
  /\ TTL \in Nat /\ Deadline \in Nat /\ Horizon \in Nat
  /\ MayFail \in BOOLEAN

VARIABLES
  now,
  expiresAt,  \* expiresAt[ch]: the last tick at which ch's entry is fresh
  up,         \* the service answers
  members,    \* members[ch]: what the service would list now
  lastListed, \* lastListed[ch][r]: the last tick at which r was members[ch],
              \* or Never (history)
  stage,      \* where a query is
  of,         \* the channel of a query
  held,       \* the entry a query read before its request
  askedAt,    \* when its request was sent
  listed,     \* what the service answered it
  outcome,    \* what the call returned
  result,     \* the listing it returned
  age         \* how long ago the service last listed that (history)

serviceVars == <<now, up, members, lastListed>>
queryVars == <<stage, of, held, askedAt, listed, outcome, result, age>>
sessionVars == <<cacheVars, expiresAt, serviceVars, queryVars>>

Never == -1

Stages == {"idle", "asking", "listed", "timer", "done"}

Outcomes == {"pending", "listing", "old listing", "DiscoveryError"}

SessionTypeOK ==
  /\ CacheTypeOK
  /\ now \in 0..Horizon
  /\ expiresAt \in [Channels -> 0..(Horizon + TTL)]
  /\ up \in BOOLEAN
  /\ members \in [Channels -> DiscoveryResults]
  /\ lastListed \in [Channels -> [DiscoveryResults -> Never..Horizon]]
  /\ stage \in [Queries -> Stages]
  /\ of \in [Queries -> Channels]
  /\ held \in [Queries -> DiscoveryResults \cup {NoResult}]
  /\ askedAt \in [Queries -> 0..Horizon]
  /\ listed \in [Queries -> DiscoveryResults \cup {NoResult}]
  /\ outcome \in [Queries -> Outcomes]
  /\ result \in [Queries -> DiscoveryResults \cup {NoResult}]
  /\ age \in [Queries -> 0..Horizon]

SessionInit ==
  /\ CacheInit
  /\ now = 0
  /\ expiresAt = [ch \in Channels |-> 0]
  /\ up = TRUE
  /\ members \in [Channels -> DiscoveryResults]
  /\ lastListed = [ch \in Channels |->
                     [r \in DiscoveryResults |-> IF r = members[ch] THEN 0 ELSE Never]]
  /\ stage = [q \in Queries |-> "idle"]
  /\ of \in [Queries -> Channels]
  /\ held = [q \in Queries |-> NoResult]
  /\ askedAt = [q \in Queries |-> 0]
  /\ listed = [q \in Queries |-> NoResult]
  /\ outcome = [q \in Queries |-> "pending"]
  /\ result = [q \in Queries |-> NoResult]
  /\ age = [q \in Queries |-> 0]

-----------------------------------------------------------------------------
Goto(q, s) == stage' = [stage EXCEPT ![q] = s]

Ask(q) ==
  /\ Goto(q, "asking")
  /\ held' = [held EXCEPT ![q] = CacheGet(of[q])]
  /\ askedAt' = [askedAt EXCEPT ![q] = now]
  /\ UNCHANGED <<listed, outcome, result, age>>

\* mutant: the retry is an interval that nobody clears
FinishInterval(q) ==
  /\ Goto(q, IF outcome[q] = "old listing" THEN "timer" ELSE "done")
  /\ held' = [held EXCEPT ![q] = NoResult]
  /\ listed' = [listed EXCEPT ![q] = NoResult]
  /\ askedAt' = [askedAt EXCEPT ![q] = 0]

Finish(q) ==
  /\ Goto(q, "done")
  /\ held' = [held EXCEPT ![q] = NoResult]
  /\ listed' = [listed EXCEPT ![q] = NoResult]
  /\ askedAt' = [askedAt EXCEPT ![q] = 0]

(* The call returns once; a background retry returns to nobody.             *)
Return(q, what, r) ==
  IF outcome[q] = "pending"
    THEN /\ outcome' = [outcome EXCEPT ![q] = what]
         /\ result' = [result EXCEPT ![q] = r]
         /\ age' = [age EXCEPT ![q] = IF r = NoResult THEN 0 ELSE now - lastListed[of[q]][r]]
    ELSE UNCHANGED <<outcome, result, age>>

\* mutant: a cached entry of any age will do
BeginAnyAge(q) ==
  /\ \/ CacheGet(of[q]) = NoResult /\ Ask(q)
     \/ CacheGet(of[q]) # NoResult /\ Return(q, "listing", CacheGet(of[q])) /\ Finish(q)
  /\ UNCHANGED <<cacheVars, expiresAt, serviceVars, of>>

(* The beginning of discover(), by the application or by the retry timer.   *)
Begin(q) ==
  /\ \/ IsStale(of[q]) /\ Ask(q)
     \/ ~IsStale(of[q]) /\ Return(q, "listing", CacheGet(of[q])) /\ Finish(q)
  /\ UNCHANGED <<cacheVars, expiresAt, serviceVars, of>>

Discover(q) == stage[q] = "idle" /\ Begin(q)

Retry(q) == stage[q] = "timer" /\ Begin(q)

(* The service handles the request; its answer is on the way.               *)
ServiceLists(q) ==
  /\ stage[q] = "asking"
  /\ up
  /\ listed' = [listed EXCEPT ![q] = members[of[q]]]
  /\ Goto(q, "listed")
  /\ UNCHANGED <<cacheVars, expiresAt, serviceVars, of, held, askedAt, outcome, result, age>>

SetEntry(ch, r) ==
  /\ CacheSet(ch, r)
  /\ expiresAt' = [expiresAt EXCEPT ![ch] = now + TTL]

Answered(q) ==
  /\ stage[q] = "listed"
  /\ SetEntry(of[q], listed[q])
  /\ Return(q, "listing", listed[q])
  /\ Finish(q)
  /\ UNCHANGED <<serviceVars, of>>

(* An error of the service, of the signer, of the connection or of the      *)
(* answer's contents, or the deadline.                                      *)
Failed(q) ==
  /\ stage[q] \in {"asking", "listed"}
  /\ ~up
  /\ \/ /\ held[q] # NoResult
        /\ Return(q, "old listing", held[q])
        /\ Goto(q, "timer")
        /\ UNCHANGED <<held, askedAt, listed>>
     \/ /\ held[q] = NoResult
        /\ Return(q, "DiscoveryError", NoResult)
        /\ Finish(q)
  /\ UNCHANGED <<cacheVars, expiresAt, serviceVars, of>>

-----------------------------------------------------------------------------
UpOrDown ==
  /\ MayFail
  /\ up' = ~up
  /\ UNCHANGED <<cacheVars, expiresAt, now, members, lastListed, queryVars>>

MembershipChanges(ch, r) ==
  /\ r # members[ch]
  /\ members' = [members EXCEPT ![ch] = r]
  /\ lastListed' = [lastListed EXCEPT ![ch][r] = now]
  /\ UNCHANGED <<cacheVars, expiresAt, now, up, queryVars>>

Waiting(q) == stage[q] \in {"asking", "listed"}

Tick ==
  /\ now < Horizon
  /\ \A q \in Queries : stage[q] # "timer" /\ (Waiting(q) => now < askedAt[q] + Deadline)
  /\ now' = now + 1
  /\ fresh' = {ch \in fresh : now' <= expiresAt[ch]}
  /\ lastListed' = [ch \in Channels |-> [lastListed[ch] EXCEPT ![members[ch]] = now']]
  /\ UNCHANGED <<cache, counters, expiresAt, up, members, queryVars>>

(* FabricBridge.disconnect clears the cache under the queries in flight.    *)
Disconnect ==
  /\ CacheClear
  /\ UNCHANGED <<expiresAt, serviceVars, queryVars>>

QueryStep(q) == Retry(q) \/ ServiceLists(q) \/ Answered(q) \/ Failed(q)

World ==
  \/ UpOrDown \/ Tick \/ Disconnect
  \/ \E ch \in Channels, r \in DiscoveryResults : MembershipChanges(ch, r)

SessionNext == World \/ \E q \in Queries : Discover(q) \/ QueryStep(q)

SessionSpec == SessionInit /\ [][SessionNext]_sessionVars

(* Timers and deadlines fire, and a service that is up answers.             *)
SessionFairSpec == SessionSpec /\ \A q \in Queries : WF_sessionVars(QueryStep(q))

-----------------------------------------------------------------------------
(* Properties                                                               *)

MaxAge == TTL + Deadline

(* A listing discover() returns without falling back was the channel's      *)
(* membership no longer ago than the time to live and the deadline of one   *)
(* request, whichever answers overtook each other and however the cache was *)
(* refilled around a disconnect.                                            *)
ListingsAreRecent ==
  \A q \in Queries : outcome[q] = "listing" => age[q] <= MaxAge

(* The retries a failure starts end once the service stays up: no chain of  *)
(* timers outlives the failure that started it.                             *)
RetriesEnd ==
  <>[]up => <>[](\A q \in Queries : stage[q] \in {"idle", "done"})

=============================================================================
