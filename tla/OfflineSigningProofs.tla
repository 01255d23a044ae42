------------------------ MODULE OfflineSigningProofs ------------------------
(***************************************************************************)
(* Proofs about DiscoverySession and about OfflineSigning, which composes   *)
(* it with the flows of offline signing, for every set of calls, channels,  *)
(* peers, discovery results, payloads and damages, and every time to live,  *)
(* deadline and horizon.                                                    *)
(*                                                                          *)
(* The session's invariant bounds by how much what is kept (an entry, an    *)
(* answer on its way) may be older than the clock.  The flows' invariant    *)
(* speaks of one operation at a time: an operation looks at another only    *)
(* once that one is over, and what it returned stays (Grows).               *)
(***************************************************************************)
EXTENDS OfflineSigning, PeerOrderProofs

(* What the service listed, when: the membership of this moment is listed   *)
(* now, and an entry is fresh for MaxAge after its listing at most.         *)
EntryOK(ch) ==
  /\ lastListed[ch][members[ch]] = now
  /\ \A r \in DiscoveryResults : lastListed[ch][r] <= now
  /\ ch \in fresh => now <= expiresAt[ch]
  /\ cache[ch] # NoResult =>
       /\ lastListed[ch][cache[ch]] >= 0
       /\ expiresAt[ch] <= lastListed[ch][cache[ch]] + MaxAge

ReturnedOK(q) ==
  /\ outcome[q] = "listing" => age[q] <= MaxAge
  /\ outcome[q] \in {"listing", "old listing"} => result[q] # NoResult

(* A request is out for one deadline at most, and its answer was listed     *)
(* since it was sent.                                                       *)
QueryOK(q) ==
  /\ stage[q] \in {"asking", "listed"} => askedAt[q] <= now /\ now <= askedAt[q] + Deadline
  /\ stage[q] = "listed" => listed[q] # NoResult /\ lastListed[of[q]][listed[q]] >= askedAt[q]
  /\ held[q] # NoResult => lastListed[of[q]][held[q]] >= 0
  /\ ReturnedOK(q)

SessionInv ==
  /\ SessionTypeOK
  /\ \A ch \in Channels : EntryOK(ch)
  /\ \A q \in Queries : QueryOK(q)

-----------------------------------------------------------------------------
(* The flows                                                                *)

(* A request is built once, when its operation ends.                        *)
RequestOK(k) == request[k] # None => request[k] \in SnapshotsOf(k) /\ step[k] = "done"

(* An operation has a message that was built by a request and perhaps       *)
(* damaged; only an accepted one gets on, and it is sent to all the peers   *)
(* it names or to none.                                                     *)
MessageOK(o) ==
  /\ step[o] = "idle" <=> message[o] = None
  /\ message[o] # None =>
       /\ message[o].bytes \in Requests
       /\ request[message[o].bytes] # None
       /\ message[o] \in Received(message[o].bytes)
  /\ step[o] \in {"resumed", "discovering", "endorsing"} => Accepted(message[o])
  /\ \A p \in Peers : answers[o][p] # NotAsked =>
       /\ p \in message[o].peers
       /\ Accepted(message[o])
       /\ step[o] \in {"endorsing", "done"}
       /\ \A x \in message[o].peers : answers[o][x] # NotAsked

(* An endorsed transaction carries what every peer of its message answered. *)
TransactionOK(o) ==
  transaction[o] # None =>
    /\ step[o] = "done"
    /\ transaction[o].bytes = message[o].bytes
    /\ transaction[o].endorsers = message[o].peers
    /\ message[o].peers # {}
    /\ transaction[o].payload \in Payloads
    /\ \A p \in message[o].peers : answers[o][p] = transaction[o].payload

(* A submit broadcasts the one transaction it was given.                    *)
SubmitOK(s) ==
  /\ step[s] # "idle" => submitted[s] \in EndorseOps /\ transaction[submitted[s]] # None
  /\ step[s] = "broadcasting" => Envelope(s) \in envelopes
  /\ \A e \in envelopes : e[1] = s => e = Envelope(s) /\ step[s] \in {"broadcasting", "done"}
  /\ step[s] = "done" <=> verdict[s] # "none"
  /\ verdict[s] = "ok" => Envelope(s) \in ledger

FlowTypeOK ==
  /\ step \in [Queries -> Steps]
  /\ named \in [Requests -> SUBSET Peers]
  /\ request \in [Requests -> Snapshots \cup {None}]
  /\ message \in [ProposalOps -> SignedMessages \cup {None}]
  /\ answers \in [ProposalOps -> [Peers -> Payloads \cup {Awaited, Refused, NotAsked}]]
  /\ transaction \in [EndorseOps -> Transactions \cup {None}]
  /\ submitted \in [SubmitOps -> EndorseOps \cup {"none"}]
  /\ verdict \in [Queries -> Verdicts]
  /\ envelopes \subseteq (SubmitOps \X Transactions)
  /\ ledger \subseteq envelopes

FlowInv ==
  /\ FlowTypeOK
  /\ \A k \in Requests : RequestOK(k)
  /\ \A o \in ProposalOps : MessageOK(o)
  /\ \A o \in EndorseOps : TransactionOK(o)
  /\ \A s \in SubmitOps : SubmitOK(s)

-----------------------------------------------------------------------------
(* The session's steps                                                      *)

(* What the assumptions say of the clock and of listings.                   *)
LEMMA Times ==
  /\ TTL \in Nat /\ Deadline \in Nat /\ Horizon \in Nat /\ MaxAge = TTL + Deadline
  /\ NoResult \notin DiscoveryResults
BY SessionAssumption, DiscoveryAssumption DEF MaxAge

(* The invariant holds initially: the cache is empty, nobody asks.          *)
LEMMA InitSessionInv == SessionInit => SessionInv
<1> SUFFICES ASSUME SessionInit PROVE SessionInv
  OBVIOUS
<1>1. lastListed \in [Channels -> [DiscoveryResults -> Never..Horizon]]
  BY Times DEF SessionInit, Never
<1>2. SessionTypeOK
  BY <1>1, Times DEF SessionInit, CacheInit, SessionTypeOK, CacheTypeOK, Stages, Outcomes
<1>3. \A ch \in Channels : EntryOK(ch)
  BY <1>2, Times DEF SessionInit, CacheInit, EntryOK, Never, SessionTypeOK
<1>4. \A q \in Queries : QueryOK(q)
  BY Times DEF SessionInit, QueryOK, ReturnedOK
<1> QED
  BY <1>2, <1>3, <1>4 DEF SessionInv

(* What is known of the types of a query and its channel.                   *)
LEMMA SessionFacts ==
  ASSUME SessionTypeOK, NEW q \in Queries
  PROVE  /\ now \in 0..Horizon /\ now \in Int
         /\ of[q] \in Channels
         /\ stage[q] \in Stages /\ outcome[q] \in Outcomes
         /\ members[of[q]] \in DiscoveryResults
         /\ cache[of[q]] \in DiscoveryResults \cup {NoResult}
         /\ held[q] \in DiscoveryResults \cup {NoResult}
         /\ listed[q] \in DiscoveryResults \cup {NoResult}
         /\ \A r \in DiscoveryResults : lastListed[of[q]][r] \in Never..Horizon
         /\ \A r \in DiscoveryResults : lastListed[of[q]][r] \in Int
         /\ askedAt[q] \in 0..Horizon /\ age[q] \in 0..Horizon
BY Times DEF SessionTypeOK, CacheTypeOK, Never

(* The age of a listing is a time.                                          *)
LEMMA AgeIsInRange ==
  ASSUME SessionInv, NEW q \in Queries
  PROVE  /\ 0 \in 0..Horizon
         /\ \A r \in DiscoveryResults :
              lastListed[of[q]][r] >= 0 => now - lastListed[of[q]][r] \in 0..Horizon
<1>1. 0 \in 0..Horizon
  BY Times
<1>2. ASSUME NEW r \in DiscoveryResults, lastListed[of[q]][r] >= 0
      PROVE  now - lastListed[of[q]][r] \in 0..Horizon
  <2>1. PICK l : l = lastListed[of[q]][r]
    OBVIOUS
  <2>2. l \in Int /\ l <= now /\ l >= 0 /\ now \in 0..Horizon
    BY <1>2, <2>1, SessionFacts DEF SessionInv, EntryOK
  <2> QED
    BY <2>1, <2>2, Times
<1> QED
  BY <1>1, <1>2

(* A call returns a listing that was listed before, and as "listing" only   *)
(* one that is recent.                                                      *)
LEMMA ReturnKeeps ==
  ASSUME SessionInv, NEW q \in Queries, NEW what \in Outcomes,
         NEW r \in DiscoveryResults \cup {NoResult}, Return(q, what, r),
         r # NoResult => lastListed[of[q]][r] >= 0,
         what \in {"listing", "old listing"} => r # NoResult,
         what = "listing" => now - lastListed[of[q]][r] <= MaxAge
  PROVE  /\ outcome' \in [Queries -> Outcomes]
         /\ result' \in [Queries -> DiscoveryResults \cup {NoResult}]
         /\ age' \in [Queries -> 0..Horizon]
         /\ \A p \in Queries : ReturnedOK(p)'
<1>1. SessionTypeOK /\ \A p \in Queries : ReturnedOK(p)
  BY DEF SessionInv, QueryOK
<1>2. CASE outcome[q] # "pending"
  BY <1>1, <1>2 DEF Return, SessionTypeOK, ReturnedOK
<1>3. CASE outcome[q] = "pending"
  <2> DEFINE a == IF r = NoResult THEN 0 ELSE now - lastListed[of[q]][r]
  <2>1. a \in 0..Horizon /\ (what = "listing" => a <= MaxAge)
    <3>1. CASE r = NoResult
      <4>1. a = 0 /\ what # "listing"
        BY <3>1
      <4> QED
        BY <4>1, AgeIsInRange
    <3>2. CASE r # NoResult
      <4>1. a = now - lastListed[of[q]][r] /\ a \in 0..Horizon
        BY <3>2, AgeIsInRange
      <4> QED
        BY <4>1
    <3> QED
      BY <3>1, <3>2
  <2>2. /\ outcome' = [outcome EXCEPT ![q] = what]
        /\ result' = [result EXCEPT ![q] = r]
        /\ age' = [age EXCEPT ![q] = a]
    BY <1>3 DEF Return
  <2> HIDE DEF a
  <2> QED
    BY <1>1, <2>1, <2>2 DEF SessionTypeOK, ReturnedOK
<1> QED
  BY <1>2, <1>3

(* A query that returns keeps the types.                                    *)
LEMMA FinishKeepsTypes ==
  ASSUME SessionTypeOK, NEW q \in Queries,
         \/ Finish(q)
         \/ Goto(q, "timer") /\ UNCHANGED <<held, askedAt, listed>>
  PROVE  /\ stage' \in [Queries -> Stages]
         /\ held' \in [Queries -> DiscoveryResults \cup {NoResult}]
         /\ listed' \in [Queries -> DiscoveryResults \cup {NoResult}]
         /\ askedAt' \in [Queries -> 0..Horizon]
<1>1. 0 \in 0..Horizon
  BY Times
<1>2. askedAt' \in [Queries -> 0..Horizon]
  BY <1>1 DEF SessionTypeOK, Finish
<1>3. stage' \in [Queries -> Stages]
  BY DEF SessionTypeOK, Finish, Goto, Stages
<1>4. held' \in [Queries -> DiscoveryResults \cup {NoResult}]
      /\ listed' \in [Queries -> DiscoveryResults \cup {NoResult}]
  BY DEF SessionTypeOK, Finish
<1> QED
  BY <1>2, <1>3, <1>4

(* A query that returns keeps what is said of every query.                  *)
LEMMA FinishKeepsQueries ==
  ASSUME SessionInv, NEW q \in Queries, UNCHANGED <<serviceVars, of>>,
         \/ Finish(q)
         \/ Goto(q, "timer") /\ UNCHANGED <<held, askedAt, listed>>,
         \A p \in Queries : ReturnedOK(p)'
  PROVE  \A p \in Queries : QueryOK(p)'
<1> TAKE p \in Queries
<1>1. SessionTypeOK /\ QueryOK(p) /\ now' = now /\ lastListed' = lastListed /\ of' = of
  BY DEF SessionInv, serviceVars
<1>2. CASE p = q
  <2>1. stage'[p] \in {"done", "timer"} /\ (held'[p] = NoResult \/ held'[p] = held[p])
    BY <1>1, <1>2 DEF Finish, Goto, SessionTypeOK
  <2> QED
    BY <1>1, <2>1 DEF QueryOK
<1>3. CASE p # q
  <2>1. stage'[p] = stage[p] /\ held'[p] = held[p]
    BY <1>1, <1>3 DEF Finish, Goto, SessionTypeOK
  <2>2. listed'[p] = listed[p] /\ askedAt'[p] = askedAt[p]
    BY <1>1, <1>3 DEF Finish, SessionTypeOK
  <2> QED
    BY <1>1, <2>1, <2>2 DEF QueryOK
<1> QED
  BY <1>2, <1>3

(* A step of a query that leaves the clock, the service and its history     *)
(* alone, and the cache too.                                                *)
LEMMA BeginKeepsSession ==
  ASSUME SessionInv, NEW q \in Queries, Begin(q)
  PROVE  SessionInv'
<1>1. SessionTypeOK /\ QueryOK(q) /\ EntryOK(of[q])
  BY SessionFacts DEF SessionInv
<1>2. UNCHANGED <<cacheVars, expiresAt, serviceVars, of>>
  BY DEF Begin
<1>3. \A ch \in Channels : EntryOK(ch)'
  BY <1>2 DEF SessionInv, EntryOK, cacheVars, serviceVars
<1>4. CASE IsStale(of[q]) /\ Ask(q)
  <2>1. SessionTypeOK'
    BY <1>1, <1>2, <1>4, SessionFacts
       DEF SessionTypeOK, CacheTypeOK, Ask, Goto, CacheGet, Stages, cacheVars, serviceVars
  <2>2. ASSUME NEW p \in Queries, p # q PROVE QueryOK(p)'
    BY <1>1, <1>2, <1>4, <2>2
       DEF SessionInv, QueryOK, ReturnedOK, Ask, Goto, SessionTypeOK, serviceVars
  <2>3. /\ stage'[q] = "asking" /\ held'[q] = cache[of[q]] /\ askedAt'[q] = now
        /\ outcome' = outcome /\ age' = age
    BY <1>1, <1>4 DEF Ask, Goto, CacheGet, SessionTypeOK
  <2>4. QueryOK(q)'
    <3>1. ReturnedOK(q)'
      BY <1>1, <1>4, <2>3 DEF QueryOK, ReturnedOK, Ask
    <3> QED
      BY <1>1, <1>2, <2>3, <3>1, Times, SessionFacts DEF QueryOK, EntryOK, serviceVars
  <2> QED
    BY <1>3, <2>1, <2>2, <2>4 DEF SessionInv
<1>5. CASE ~IsStale(of[q]) /\ Return(q, "listing", CacheGet(of[q])) /\ Finish(q)
  <2>1. cache[of[q]] \in DiscoveryResults /\ of[q] \in fresh
    BY <1>1, <1>5, SessionFacts DEF IsStale
  <2>2. PICK l : l = lastListed[of[q]][cache[of[q]]]
    OBVIOUS
  <2>3. PICK x : x = expiresAt[of[q]]
    OBVIOUS
  <2>4. l >= 0 /\ l \in Int /\ x \in Int /\ x <= l + MaxAge /\ now <= x /\ now \in Int
    BY <1>1, <2>1, <2>2, <2>3, Times, SessionFacts DEF EntryOK, SessionTypeOK
  <2>5. now - l <= MaxAge
    BY <2>4, Times
  <2>6. /\ outcome' \in [Queries -> Outcomes]
        /\ result' \in [Queries -> DiscoveryResults \cup {NoResult}]
        /\ age' \in [Queries -> 0..Horizon]
        /\ \A p \in Queries : ReturnedOK(p)'
    <3>1. NoResult \notin DiscoveryResults /\ "listing" \in Outcomes
      BY Times DEF Outcomes
    <3> QED
      BY <1>5, <2>1, <2>2, <2>4, <2>5, <3>1, ReturnKeeps DEF CacheGet
  <2>7. SessionTypeOK'
    <3>1. UNCHANGED <<cache, fresh, counters, expiresAt, now, up, members, lastListed, of>>
      BY <1>2 DEF cacheVars, serviceVars
    <3> QED
      BY <1>1, <1>5, <2>6, <3>1, FinishKeepsTypes DEF SessionTypeOK, CacheTypeOK
  <2>8. \A p \in Queries : QueryOK(p)'
    BY <1>2, <1>5, <2>6, FinishKeepsQueries
  <2> QED
    BY <1>3, <2>7, <2>8 DEF SessionInv
<1> QED
  BY <1>4, <1>5 DEF Begin

(* The service lists its membership of this moment.                         *)
LEMMA ServiceListsKeepsSession ==
  ASSUME SessionInv, NEW q \in Queries, ServiceLists(q)
  PROVE  SessionInv'
<1>1. SessionTypeOK /\ QueryOK(q) /\ EntryOK(of[q])
  BY SessionFacts DEF SessionInv
<1>2. UNCHANGED <<cacheVars, expiresAt, serviceVars, of, held, askedAt, outcome, result, age>>
  BY DEF ServiceLists
<1>3. \A ch \in Channels : EntryOK(ch)'
  BY <1>2 DEF SessionInv, EntryOK, cacheVars, serviceVars
<1>4. SessionTypeOK'
  BY <1>1, <1>2, SessionFacts
     DEF SessionTypeOK, CacheTypeOK, ServiceLists, Goto, Stages, cacheVars, serviceVars
<1>5. ASSUME NEW p \in Queries, p # q PROVE QueryOK(p)'
  BY <1>1, <1>2, <1>5
     DEF SessionInv, QueryOK, ReturnedOK, ServiceLists, Goto, SessionTypeOK, serviceVars
<1>6. stage'[q] = "listed" /\ listed'[q] = members[of[q]] /\ stage[q] = "asking"
  BY <1>1 DEF ServiceLists, Goto, SessionTypeOK
<1>7. QueryOK(q)'
  BY <1>1, <1>2, <1>6, Times, SessionFacts DEF QueryOK, ReturnedOK, EntryOK, serviceVars
<1> QED
  BY <1>3, <1>4, <1>5, <1>7 DEF SessionInv

(* An answer becomes the entry: it is a deadline old at most.               *)
LEMMA AnsweredKeepsSession ==
  ASSUME SessionInv, NEW q \in Queries, Answered(q)
  PROVE  SessionInv'
<1>1. SessionTypeOK /\ QueryOK(q)
  BY DEF SessionInv
<1>2. UNCHANGED <<serviceVars, of, counters>>
  BY DEF Answered, SetEntry, CacheSet
<1>3. PICK r : r = listed[q]
  OBVIOUS
<1>4. PICK l : l = lastListed[of[q]][r]
  OBVIOUS
<1>5. r \in DiscoveryResults /\ l \in Int /\ l >= 0 /\ now \in Int /\ l <= now /\ now <= l + Deadline
  <2>1. r \in DiscoveryResults /\ l >= askedAt[q] /\ now <= askedAt[q] + Deadline
    BY <1>1, <1>3, <1>4, SessionFacts DEF Answered, QueryOK
  <2>2. l \in Int /\ askedAt[q] \in 0..Horizon /\ now \in Int /\ l <= now
    BY <1>1, <1>4, <2>1, SessionFacts DEF SessionInv, EntryOK
  <2> QED
    BY <2>1, <2>2, Times
<1>6. Return(q, "listing", r) /\ Finish(q)
  BY <1>3 DEF Answered
<1>7. /\ outcome' \in [Queries -> Outcomes]
      /\ result' \in [Queries -> DiscoveryResults \cup {NoResult}]
      /\ age' \in [Queries -> 0..Horizon]
      /\ \A p \in Queries : ReturnedOK(p)'
  <2>1. now - l <= MaxAge /\ r # NoResult /\ "listing" \in Outcomes
    BY <1>5, Times DEF Outcomes
  <2> QED
    BY <1>4, <1>5, <1>6, <2>1, ReturnKeeps
<1>8. /\ cache' = [cache EXCEPT ![of[q]] = r]
      /\ fresh' = fresh \cup {of[q]}
      /\ expiresAt' = [expiresAt EXCEPT ![of[q]] = now + TTL]
  BY <1>3 DEF Answered, SetEntry, CacheSet
<1>9. SessionTypeOK'
  <2>1. now + TTL \in 0..(Horizon + TTL) /\ of[q] \in Channels
    BY <1>1, Times, SessionFacts
  <2>2. CacheTypeOK' /\ expiresAt' \in [Channels -> 0..(Horizon + TTL)]
    BY <1>1, <1>2, <1>5, <1>8, <2>1 DEF SessionTypeOK, CacheTypeOK
  <2> QED
    BY <1>1, <1>2, <1>6, <1>7, <2>2, FinishKeepsTypes DEF SessionTypeOK, serviceVars
<1>10. ASSUME NEW ch \in Channels PROVE EntryOK(ch)'
  <2>1. EntryOK(ch)
    BY DEF SessionInv
  <2>2. CASE ch # of[q]
    BY <1>1, <1>2, <1>8, <2>1, <2>2 DEF EntryOK, SessionTypeOK, CacheTypeOK, serviceVars
  <2>3. CASE ch = of[q]
    <3>1. cache'[ch] = r /\ expiresAt'[ch] = now + TTL
      BY <1>1, <1>8, <2>3 DEF SessionTypeOK, CacheTypeOK
    <3>2. now + TTL <= l + MaxAge /\ now <= now + TTL
      BY <1>5, Times
    <3> QED
      BY <1>2, <1>4, <1>5, <2>1, <2>3, <3>1, <3>2 DEF EntryOK, serviceVars
  <2> QED
    BY <2>2, <2>3
<1>11. \A p \in Queries : QueryOK(p)'
  BY <1>2, <1>6, <1>7, FinishKeepsQueries
<1> QED
  BY <1>9, <1>10, <1>11 DEF SessionInv

(* A query that fails returns what it held, or an error.                    *)
LEMMA FailedKeepsSession ==
  ASSUME SessionInv, NEW q \in Queries, Failed(q)
  PROVE  SessionInv'
<1>1. SessionTypeOK /\ QueryOK(q)
  BY DEF SessionInv
<1>2. UNCHANGED <<cacheVars, expiresAt, serviceVars, of>>
  BY DEF Failed
<1>3. \A ch \in Channels : EntryOK(ch)'
  BY <1>2 DEF SessionInv, EntryOK, cacheVars, serviceVars
<1>4. PICK what \in {"old listing", "DiscoveryError"} :
        Return(q, what, held[q]) /\ (what = "old listing" => held[q] # NoResult)
  BY DEF Failed
<1>5. /\ outcome' \in [Queries -> Outcomes]
      /\ result' \in [Queries -> DiscoveryResults \cup {NoResult}]
      /\ age' \in [Queries -> 0..Horizon]
      /\ \A p \in Queries : ReturnedOK(p)'
  <2>1. what \in Outcomes /\ what # "listing"
    BY <1>4 DEF Outcomes
  <2>2. held[q] \in DiscoveryResults \cup {NoResult}
        /\ (held[q] # NoResult => lastListed[of[q]][held[q]] >= 0)
    BY <1>1, SessionFacts DEF QueryOK
  <2> QED
    BY <1>4, <2>1, <2>2, ReturnKeeps
<1>6. \/ Goto(q, "timer") /\ UNCHANGED <<held, askedAt, listed>>
      \/ Finish(q)
  BY DEF Failed
<1>7. SessionTypeOK'
  <2>1. UNCHANGED <<cache, fresh, counters, expiresAt, now, up, members, lastListed, of>>
    BY <1>2 DEF cacheVars, serviceVars
  <2> QED
    BY <1>1, <1>5, <1>6, <2>1, FinishKeepsTypes DEF SessionTypeOK, CacheTypeOK
<1>8. \A p \in Queries : QueryOK(p)'
  BY <1>2, <1>5, <1>6, FinishKeepsQueries
<1> QED
  BY <1>3, <1>7, <1>8 DEF SessionInv

(* A membership that changes was listed now.                                *)
LEMMA MembershipKeepsSession ==
  ASSUME SessionInv, NEW ch \in Channels, NEW r \in DiscoveryResults, MembershipChanges(ch, r)
  PROVE  SessionInv'
<1>1. SessionTypeOK /\ now \in 0..Horizon /\ now \in Int
  BY DEF SessionInv, SessionTypeOK
<1>2. UNCHANGED <<cache, fresh, counters, expiresAt, now, up, queryVars>>
  BY DEF MembershipChanges, cacheVars
<1>3. /\ members' = [members EXCEPT ![ch] = r]
      /\ lastListed' = [lastListed EXCEPT ![ch][r] = now]
  BY DEF MembershipChanges
<1>4. SessionTypeOK'
  <2>1. now \in Never..Horizon
    BY <1>1, Times DEF Never
  <2>2. lastListed' \in [Channels -> [DiscoveryResults -> Never..Horizon]]
    BY <1>1, <1>3, <2>1 DEF SessionTypeOK
  <2>3. members' \in [Channels -> DiscoveryResults]
    BY <1>1, <1>3 DEF SessionTypeOK
  <2> QED
    BY <1>1, <1>2, <2>2, <2>3 DEF SessionTypeOK, CacheTypeOK, queryVars
<1>5. \A c \in Channels, x \in DiscoveryResults :
        /\ lastListed'[c][x] = IF c = ch /\ x = r THEN now ELSE lastListed[c][x]
        /\ lastListed[c][x] \in Int
  BY <1>1, <1>3, Times DEF SessionTypeOK, Never
<1>6. \A c \in Channels : EntryOK(c)'
  <2> TAKE c \in Channels
  <2>1. /\ EntryOK(c) /\ cache[c] \in DiscoveryResults \cup {NoResult}
        /\ members[c] \in DiscoveryResults
        /\ members'[c] = IF c = ch THEN r ELSE members[c]
        /\ expiresAt[c] \in Int
    BY <1>1, <1>3, Times DEF SessionInv, SessionTypeOK, CacheTypeOK
  <2>2. \A x \in DiscoveryResults : lastListed'[c][x] >= lastListed[c][x] /\ lastListed'[c][x] \in Int
    BY <1>1, <1>5, <2>1 DEF EntryOK
  <2>3. cache[c] # NoResult => lastListed'[c][cache[c]] >= 0 /\ expiresAt[c] <= lastListed'[c][cache[c]] + MaxAge
    BY <1>5, <2>1, <2>2, Times DEF EntryOK
  <2>4. lastListed'[c][members'[c]] = now /\ \A x \in DiscoveryResults : lastListed'[c][x] <= now
    BY <1>1, <1>5, <2>1 DEF EntryOK
  <2> QED
    BY <1>2, <2>1, <2>3, <2>4 DEF EntryOK
<1>7. ASSUME NEW q \in Queries PROVE QueryOK(q)'
  <2>1. QueryOK(q) /\ of[q] \in Channels /\ EntryOK(of[q])
    BY <1>1, SessionFacts DEF SessionInv
  <2>2. \A x \in DiscoveryResults : lastListed'[of[q]][x] >= lastListed[of[q]][x] /\ lastListed'[of[q]][x] \in Int
    BY <1>1, <1>5, <2>1 DEF EntryOK
  <2> QED
    <3>1. ReturnedOK(q)'
      BY <1>2, <2>1 DEF QueryOK, ReturnedOK, queryVars
    <3> QED
      BY <1>1, <1>2, <1>5, <2>1, <2>2, <3>1, SessionFacts DEF QueryOK, queryVars
<1> QED
  BY <1>4, <1>6, <1>7 DEF SessionInv

(* No tick passes the deadline of a request that is out.                    *)
LEMMA TickKeepsSession ==
  ASSUME SessionInv, Tick
  PROVE  SessionInv'
<1>1. SessionTypeOK /\ now \in 0..Horizon /\ now \in Int /\ now' = now + 1 /\ now < Horizon
  BY DEF SessionInv, SessionTypeOK, Tick
<1>2. UNCHANGED <<cache, counters, expiresAt, up, members, queryVars>>
  BY DEF Tick
<1>3. now' \in 0..Horizon /\ now' \in Never..Horizon /\ now' \in Int
  BY <1>1, Times DEF Never
<1>4. \A c \in Channels, x \in DiscoveryResults :
        /\ lastListed'[c][x] = IF x = members[c] THEN now' ELSE lastListed[c][x]
        /\ lastListed[c][x] \in Int
  BY <1>1, Times DEF SessionTypeOK, Never, Tick
<1>5. SessionTypeOK'
  <2>1. lastListed' \in [Channels -> [DiscoveryResults -> Never..Horizon]]
    BY <1>1, <1>3 DEF SessionTypeOK, Tick
  <2>2. fresh' \in SUBSET Channels
    BY <1>1 DEF SessionTypeOK, CacheTypeOK, Tick
  <2> QED
    BY <1>1, <1>2, <1>3, <2>1, <2>2 DEF SessionTypeOK, CacheTypeOK, queryVars
<1>6. \A c \in Channels : EntryOK(c)'
  <2> TAKE c \in Channels
  <2>1. /\ EntryOK(c) /\ cache[c] \in DiscoveryResults \cup {NoResult}
        /\ members[c] \in DiscoveryResults
        /\ expiresAt[c] \in Int
    BY <1>1, Times DEF SessionInv, SessionTypeOK, CacheTypeOK
  <2>2. \A x \in DiscoveryResults : lastListed'[c][x] >= lastListed[c][x] /\ lastListed'[c][x] \in Int
    BY <1>1, <1>3, <1>4, <2>1 DEF EntryOK
  <2>3. cache[c] # NoResult => lastListed'[c][cache[c]] >= 0 /\ expiresAt[c] <= lastListed'[c][cache[c]] + MaxAge
    BY <1>4, <2>1, <2>2, Times DEF EntryOK
  <2>4. lastListed'[c][members[c]] = now' /\ \A x \in DiscoveryResults : lastListed'[c][x] <= now'
    BY <1>1, <1>3, <1>4, <2>1 DEF EntryOK
  <2>5. c \in fresh' => now' <= expiresAt[c]
    BY DEF Tick
  <2> QED
    BY <1>2, <2>3, <2>4, <2>5 DEF EntryOK
<1>7. ASSUME NEW q \in Queries PROVE QueryOK(q)'
  <2>1. QueryOK(q) /\ of[q] \in Channels /\ EntryOK(of[q])
    BY <1>1, SessionFacts DEF SessionInv
  <2>2. \A x \in DiscoveryResults : lastListed'[of[q]][x] >= lastListed[of[q]][x] /\ lastListed'[of[q]][x] \in Int
    BY <1>1, <1>3, <1>4, <2>1 DEF EntryOK
  <2>3. stage[q] \in {"asking", "listed"} => now < askedAt[q] + Deadline
    BY DEF Tick, Waiting
  <2>4. stage[q] \in {"asking", "listed"} => askedAt[q] <= now' /\ now' <= askedAt[q] + Deadline
    <3>1. askedAt[q] \in Int
      BY <1>1, SessionFacts, Times
    <3> QED
      BY <1>1, <2>1, <2>3, <3>1, Times DEF QueryOK
  <2> QED
    <3>1. ReturnedOK(q)'
      BY <1>2, <2>1 DEF QueryOK, ReturnedOK, queryVars
    <3> QED
      BY <1>1, <1>2, <1>4, <2>1, <2>2, <2>4, <3>1, SessionFacts DEF QueryOK, queryVars
<1> QED
  BY <1>5, <1>6, <1>7 DEF SessionInv

(* A disconnect forgets every entry; the service goes up or down.           *)
LEMMA CacheClearKeepsSession ==
  ASSUME SessionInv, Disconnect \/ UpOrDown
  PROVE  SessionInv'
<1>1. SessionTypeOK
  BY DEF SessionInv
<1>2. UNCHANGED <<expiresAt, now, members, lastListed, queryVars>>
  BY DEF Disconnect, UpOrDown, serviceVars
<1>3. SessionTypeOK'
  <2>1. CASE Disconnect
    BY <1>1, <1>2, <2>1
       DEF SessionTypeOK, CacheTypeOK, Disconnect, CacheClear, serviceVars, queryVars
  <2>2. CASE UpOrDown
    BY <1>1, <1>2, <2>2 DEF SessionTypeOK, CacheTypeOK, UpOrDown, cacheVars, queryVars
  <2> QED
    BY <2>1, <2>2
<1>4. ASSUME NEW ch \in Channels PROVE EntryOK(ch)'
  <2>1. EntryOK(ch)
    BY DEF SessionInv
  <2>2. CASE Disconnect
    BY <1>2, <2>1, <2>2 DEF EntryOK, Disconnect, CacheClear
  <2>3. CASE UpOrDown
    BY <1>2, <2>1, <2>3 DEF EntryOK, UpOrDown, cacheVars
  <2> QED
    BY <2>2, <2>3
<1>5. \A q \in Queries : QueryOK(q)'
  BY <1>2 DEF SessionInv, QueryOK, ReturnedOK, queryVars
<1> QED
  BY <1>3, <1>4, <1>5 DEF SessionInv

(* Every step of the session preserves its invariant.                       *)
LEMMA SessionStepKeeps == SessionInv /\ [SessionNext]_sessionVars => SessionInv'
<1> SUFFICES ASSUME SessionInv, [SessionNext]_sessionVars PROVE SessionInv'
  OBVIOUS
<1>1. ASSUME NEW q \in Queries, Discover(q) \/ QueryStep(q) PROVE SessionInv'
  BY <1>1, BeginKeepsSession, ServiceListsKeepsSession, AnsweredKeepsSession, FailedKeepsSession
     DEF Discover, QueryStep, Retry
<1>2. CASE World
  BY <1>2, MembershipKeepsSession, TickKeepsSession, CacheClearKeepsSession DEF World
<1>3. CASE UNCHANGED sessionVars
  BY <1>3 DEF SessionInv, SessionTypeOK, CacheTypeOK, EntryOK, QueryOK, ReturnedOK,
              sessionVars, cacheVars, serviceVars, queryVars
<1> QED
  BY <1>1, <1>2, <1>3 DEF SessionNext

(* The session's invariant, for every set of calls, every time to live and  *)
(* every deadline.                                                          *)
THEOREM SessionInvariance == SessionSpec => []SessionInv
BY InitSessionInv, SessionStepKeeps, PTL DEF SessionSpec

(* Every reachable state of a session is type correct.                      *)
THEOREM SessionTypeCorrect == SessionSpec => []SessionTypeOK
<1>1. SessionInv => SessionTypeOK
  BY DEF SessionInv
<1> QED
  BY <1>1, SessionInvariance, PTL

(* A listing that discover() does not mark as a fallback was the channel's  *)
(* membership no longer ago than the time to live and one deadline.         *)
THEOREM SessionListingsAreRecent == SessionSpec => []ListingsAreRecent
<1>1. SessionInv => ListingsAreRecent
  BY DEF SessionInv, QueryOK, ReturnedOK, ListingsAreRecent
<1> QED
  BY <1>1, SessionInvariance, PTL

-----------------------------------------------------------------------------
(* The flows: helpers                                                       *)

(* What the assumption on the constants says of one operation.              *)
LEMMA Kinds ==
  /\ Requests \subseteq Queries /\ ProposalOps \subseteq Queries /\ SubmitOps \subseteq Queries
  /\ EndorseOps \subseteq ProposalOps /\ EvaluateOps \subseteq ProposalOps
  /\ \A k \in Requests : k \notin ProposalOps /\ k \notin SubmitOps
  /\ \A o \in ProposalOps : o \notin SubmitOps /\ o \notin Requests
  /\ \A s \in SubmitOps : s \notin Requests /\ s \notin ProposalOps
  /\ \A o \in EndorseOps : o \notin EvaluateOps
BY OfflineAssumption DEF ProposalOps

(* A payload is none of the marks that stand for no answer.                 *)
LEMMA AnswersDiffer ==
  ASSUME NEW x \in Payloads
  PROVE  x # Awaited /\ x # Refused /\ x # NotAsked
BY OfflinePayloadsAssumption

(* The marks differ from each other.                                        *)
LEMMA AnswerKinds == Awaited # NotAsked /\ Refused # NotAsked /\ Refused # Awaited
BY DEF Awaited, Refused, NotAsked

(* Nothing is no snapshot, no message and no transaction.                   *)
LEMMA NoneIsNone ==
  /\ \A k \in Requests : \A m \in SnapshotsOf(k) : m # None
  /\ \A m \in SignedMessages : m # None
  /\ \A x \in Transactions : x # None
<1>1. "mode" \notin DOMAIN None /\ "payload" \notin DOMAIN None
  BY DEF None
<1>2. \A k \in Requests : \A m \in SnapshotsOf(k) : "mode" \in DOMAIN m
  BY DEF SnapshotsOf
<1>3. \A m \in SignedMessages : "mode" \in DOMAIN m
  BY DEF SignedMessages
<1>4. \A x \in Transactions : "payload" \in DOMAIN x
  BY DEF Transactions
<1> QED
  BY <1>1, <1>2, <1>3, <1>4

(* A damaged message names the request it was built by, and its mode.       *)
LEMMA DamagedMessages ==
  ASSUME NEW k \in Requests, NEW r \in SnapshotsOf(k), NEW d \in Damages
  PROVE  /\ Damaged(r, d) \in SignedMessages
         /\ Damaged(r, d).bytes = k
         /\ Damaged(r, d).mode = r.mode
<1>1. d \in {"other digest", "no peers", "second peer"}
  BY OfflineAssumption
<1>2. r \in [bytes: {k}, digest: {k}, mode: Modes, peers: SUBSET Peers]
  BY DEF SnapshotsOf
<1>3. CASE d = "other digest"
  BY <1>1, <1>2, <1>3 DEF Damaged, SignedMessages
<1>4. CASE d = "no peers"
  BY <1>1, <1>2, <1>4 DEF Damaged, SignedMessages
<1>5. CASE d = "second peer"
  BY <1>1, <1>2, <1>5 DEF Damaged, SignedMessages
<1> QED
  BY <1>1, <1>3, <1>4, <1>5

(* A step that goes on moves one operation.                                 *)
LEMMA GoFacts ==
  ASSUME FlowTypeOK, NEW o \in Queries, NEW where \in Steps, Go(o, where)
  PROVE  /\ step' \in [Queries -> Steps]
         /\ step'[o] = where
         /\ \A p \in Queries : p # o => step'[p] = step[p]
BY DEF FlowTypeOK, Go

(* A step that ends moves one operation.                                    *)
LEMMA EndFacts ==
  ASSUME FlowTypeOK, NEW o \in Queries, NEW r \in Verdicts \ {"none"}, End(o, r)
  PROVE  /\ step' \in [Queries -> Steps] /\ verdict' \in [Queries -> Verdicts]
         /\ step'[o] = "done" /\ verdict'[o] = r
         /\ \A p \in Queries : p # o => step'[p] = step[p] /\ verdict'[p] = verdict[p]
<1>1. "done" \in Steps
  BY DEF Steps
<1>2. Go(o, "done") /\ verdict' = [verdict EXCEPT ![o] = r]
  BY DEF End
<1> QED
  BY <1>1, <1>2, GoFacts DEF FlowTypeOK

(* An error of the code is a verdict that ends the operation.               *)
LEMMA RejectFacts ==
  ASSUME NEW o, NEW e \in {"DiscoveryError", "PeerNotFoundError", "EndorsementError"}, Reject(o, e)
  PROVE  \E r \in Verdicts \ {"none", "ok"} : End(o, r)
BY DEF Reject, Verdicts

-----------------------------------------------------------------------------
(* A step of one operation                                                  *)

Grows(o) ==
  /\ \A p \in Queries : p # o => step'[p] = step[p] /\ verdict'[p] = verdict[p]
  /\ \A k \in Requests : k # o \/ request[k] # None => request'[k] = request[k]
  /\ \A p \in ProposalOps : p # o => message'[p] = message[p] /\ answers'[p] = answers[p]
  /\ \A p \in EndorseOps : p # o \/ transaction[p] # None => transaction'[p] = transaction[p]
  /\ \A s \in SubmitOps : s # o => submitted'[s] = submitted[s]
  /\ \A e \in envelopes' : e \in envelopes \/ e[1] = o
  /\ envelopes \subseteq envelopes'
  /\ ledger' = ledger

(* A step of one operation keeps what is said of the others.                *)
LEMMA OthersStayOK ==
  ASSUME FlowInv, NEW o \in Queries, Grows(o)
  PROVE  /\ \A k \in Requests : k # o => RequestOK(k)'
         /\ \A p \in ProposalOps : p # o => MessageOK(p)'
         /\ \A p \in EndorseOps : p # o => TransactionOK(p)'
         /\ \A s \in SubmitOps : s # o => SubmitOK(s)'
<1>1. ASSUME NEW k \in Requests, k # o PROVE RequestOK(k)'
  BY <1>1, Kinds DEF FlowInv, RequestOK, Grows
<1>2. ASSUME NEW p \in ProposalOps, p # o PROVE MessageOK(p)'
  <2>1. MessageOK(p) /\ step'[p] = step[p] /\ message'[p] = message[p] /\ answers'[p] = answers[p]
    BY <1>2, Kinds DEF FlowInv, Grows
  <2>2. message[p] # None => request'[message[p].bytes] = request[message[p].bytes]
    BY <2>1 DEF MessageOK, Grows
  <2>3. message[p] # None => Received(message[p].bytes)' = Received(message[p].bytes)
    BY <2>1, <2>2 DEF Received, Damaged
  <2> QED
    BY <2>1, <2>2, <2>3 DEF MessageOK, Received, Accepted
<1>3. ASSUME NEW p \in EndorseOps, p # o PROVE TransactionOK(p)'
  BY <1>3, Kinds DEF FlowInv, TransactionOK, Grows
<1>4. ASSUME NEW s \in SubmitOps, s # o PROVE SubmitOK(s)'
  <2>1. SubmitOK(s) /\ step'[s] = step[s] /\ verdict'[s] = verdict[s] /\ submitted'[s] = submitted[s]
    BY <1>4, Kinds DEF FlowInv, Grows
  <2>2. step[s] # "idle" => transaction'[submitted[s]] = transaction[submitted[s]]
    BY <2>1 DEF SubmitOK, Grows
  <2>3. \A e : e[1] = s => (e \in envelopes' <=> e \in envelopes)
    BY <1>4 DEF Grows
  <2>4. step[s] # "idle" => Envelope(s)' = Envelope(s)
    BY <2>1, <2>2 DEF Envelope
  <2>5. Envelope(s)[1] = s
    BY DEF Envelope
  <2> QED
    BY <2>1, <2>2, <2>3, <2>4, <2>5 DEF SubmitOK, Grows
<1> QED
  BY <1>1, <1>2, <1>3, <1>4

(* A step of a request that keeps its own part keeps the invariant.         *)
LEMMA RequestStepKeeps ==
  ASSUME FlowInv, NEW k \in Requests, Grows(k), FlowTypeOK', RequestOK(k)'
  PROVE  FlowInv'
BY Kinds, OthersStayOK DEF FlowInv

(* The same of an endorsement or an evaluation.                             *)
LEMMA ProposalStepKeeps ==
  ASSUME FlowInv, NEW o \in ProposalOps, Grows(o), FlowTypeOK', MessageOK(o)',
         o \in EndorseOps => TransactionOK(o)'
  PROVE  FlowInv'
BY Kinds, OthersStayOK DEF FlowInv

(* The same of a submit.                                                    *)
LEMMA SubmitStepKeeps ==
  ASSUME FlowInv, NEW s \in SubmitOps, Grows(s), FlowTypeOK', SubmitOK(s)'
  PROVE  FlowInv'
BY Kinds, OthersStayOK DEF FlowInv

-----------------------------------------------------------------------------
(* NewUnsignedProposal                                                      *)

(* A snapshot taken of a listing names peers of the channel.                *)
LEMMA SnapshotFacts ==
  ASSUME FlowInv, SessionInv, NEW k \in Requests, NEW r \in DiscoveryResults, Snapshot(k, r)
  PROVE  /\ \/ End(k, "PeerNotFoundError") /\ UNCHANGED request
            \/ /\ End(k, "ok")
               /\ \E m \in SnapshotsOf(k) : request' = [request EXCEPT ![k] = m]
         /\ counters' \in [Keys -> Nat] /\ UNCHANGED <<cache, fresh>>
<1>1. r.peers \in Seq(Peers) /\ r.peers # <<>>
  BY DiscoveryAssumption
<1>2. counters \in [Keys -> Nat] /\ named[k] \subseteq Peers
  BY DEF SessionInv, SessionTypeOK, CacheTypeOK, FlowInv, FlowTypeOK
<1>3. Len(r.peers) \in Nat \ {0} /\ \A i \in 1..Len(r.peers) : r.peers[i] \in Peers
  BY <1>1
<1>4. RoundRobinKey(of[k], r.peers) \in Keys
  BY Kinds, SessionFacts DEF SessionInv, Keys, PeerLists
<1>5. PICK size : size = Len(r.peers)
  OBVIOUS
<1>6. PICK key \in Keys : key = RoundRobinKey(of[k], r.peers)
  BY <1>4
<1>7. PICK selected : selected = RotateFrom(r.peers, RoundRobinIndex(key, size))[1]
  OBVIOUS
<1>8. selected \in Peers
  <2>1. PICK start : start = RoundRobinIndex(key, size)
    OBVIOUS
  <2>2. start \in 0..(size - 1)
    BY <1>2, <1>3, <1>5, <2>1, RemainderIsIndex DEF RoundRobinIndex
  <2> QED
    BY <1>3, <1>5, <1>7, <2>1, <2>2 DEF RotateFrom
<1>9. CASE named[k] = {} /\ AdvanceRoundRobin(key, size) /\ RequestFor(k, "single-peer", {selected}) /\ End(k, "ok")
  <2>1. counters' \in [Keys -> Nat] /\ UNCHANGED <<cache, fresh>>
    <3>1. PICK c \in Nat : c = counters[key] + 1
      BY <1>2
    <3>2. PICK n : n = c % size
      OBVIOUS
    <3>3. n \in Nat
      <4>1. size \in Nat \ {0}
        BY <1>3, <1>5
      <4>2. c % size \in 0..(size - 1)
        BY <3>1, <4>1, RemainderIsIndex
      <4> QED
        BY <3>2, <4>1, <4>2
    <3> QED
      BY <1>2, <1>9, <3>1, <3>2, <3>3 DEF AdvanceRoundRobin
  <2>2. [bytes |-> k, digest |-> k, mode |-> "single-peer", peers |-> {selected}] \in SnapshotsOf(k)
    BY <1>8 DEF SnapshotsOf, Modes
  <2> QED
    BY <1>9, <2>1, <2>2 DEF RequestFor
<1>10. CASE named[k] # {} /\ UNCHANGED cacheVars /\
            IF named[k] \subseteq PeersOf(r.peers)
              THEN RequestFor(k, "endorsing-peers", named[k]) /\ End(k, "ok")
              ELSE End(k, "PeerNotFoundError") /\ UNCHANGED request
  <2>1. [bytes |-> k, digest |-> k, mode |-> "endorsing-peers", peers |-> named[k]] \in SnapshotsOf(k)
    BY <1>2 DEF SnapshotsOf, Modes
  <2> QED
    BY <1>2, <1>10, <2>1 DEF RequestFor, cacheVars
<1> QED
  BY <1>5, <1>6, <1>7, <1>9, <1>10 DEF Snapshot

(* Drawing a turn is nothing to the session.                                *)
LEMMA CountersKeepSession ==
  ASSUME SessionInv, counters' \in [Keys -> Nat], UNCHANGED <<cache, fresh, timeVars>>
  PROVE  SessionInv'
<1>1. UNCHANGED <<cache, fresh, expiresAt, serviceVars, queryVars>>
  BY DEF timeVars
<1> QED
  BY <1>1
     DEF SessionInv, SessionTypeOK, CacheTypeOK, EntryOK, QueryOK, ReturnedOK, serviceVars,
         queryVars

(* A request is built from an entry or from a discovery.                    *)
LEMMA BuildKeeps ==
  ASSUME FlowInv, SessionInv, NEW k \in Requests, Build(k)
  PROVE  FlowInv' /\ SessionInv'
<1>1. FlowTypeOK /\ RequestOK(k) /\ k \in Queries /\ k \notin ProposalOps /\ k \notin SubmitOps
  BY Kinds DEF FlowInv
<1>2. step[k] # "done" /\ request[k] = None
  BY <1>1 DEF Build, BuildFromCache, BuildDiscovers, BuildFromDiscovery, At, Discovered, RequestOK
<1>3. UNCHANGED <<flowVarsOfOps, netVars>>
  BY DEF Build, BuildFromCache, BuildDiscovers, BuildFromDiscovery
<1>4. ASSUME NEW r \in DiscoveryResults, Snapshot(k, r), UNCHANGED timeVars
      PROVE  FlowInv' /\ SessionInv'
  <2>1. /\ \/ End(k, "PeerNotFoundError") /\ UNCHANGED request
           \/ /\ End(k, "ok")
              /\ \E m \in SnapshotsOf(k) : request' = [request EXCEPT ![k] = m]
        /\ counters' \in [Keys -> Nat] /\ UNCHANGED <<cache, fresh>>
    BY <1>4, SnapshotFacts
  <2>2. SessionInv'
    BY <1>4, <2>1, CountersKeepSession
  <2>3. PICK e \in Verdicts \ {"none"} : End(k, e)
    BY <2>1 DEF Verdicts
  <2>4. /\ step' \in [Queries -> Steps] /\ verdict' \in [Queries -> Verdicts]
        /\ step'[k] = "done"
        /\ \A p \in Queries : p # k => step'[p] = step[p] /\ verdict'[p] = verdict[p]
    BY <1>1, <2>3, EndFacts
  <2>5. /\ request' \in [Requests -> Snapshots \cup {None}]
        /\ request'[k] \in SnapshotsOf(k) \cup {None}
        /\ \A x \in Requests : x # k => request'[x] = request[x]
    <3>1. CASE UNCHANGED request
      BY <1>1, <1>2, <3>1 DEF FlowTypeOK
    <3>2. ASSUME NEW m \in SnapshotsOf(k), request' = [request EXCEPT ![k] = m]
          PROVE  /\ request' \in [Requests -> Snapshots \cup {None}]
                 /\ request'[k] \in SnapshotsOf(k) \cup {None}
                 /\ \A x \in Requests : x # k => request'[x] = request[x]
      <4>1. m \in Snapshots
        BY DEF Snapshots
      <4> QED
        BY <1>1, <3>2, <4>1 DEF FlowTypeOK
    <3> QED
      BY <2>1, <3>1, <3>2
  <2>6. FlowTypeOK'
    BY <1>1, <1>3, <2>4, <2>5 DEF FlowTypeOK, flowVarsOfOps, netVars
  <2>7. Grows(k)
    BY <1>1, <1>2, <1>3, <2>4, <2>5 DEF Grows, flowVarsOfOps, netVars
  <2>8. RequestOK(k)'
    BY <2>4, <2>5 DEF RequestOK
  <2> QED
    BY <2>2, <2>6, <2>7, <2>8, RequestStepKeeps
<1>5. CASE BuildFromCache(k)
  <2>1. CacheGet(of[k]) \in DiscoveryResults
    BY <1>1, <1>5, SessionFacts DEF BuildFromCache, CacheGet, SessionInv
  <2> QED
    BY <1>4, <1>5, <2>1 DEF BuildFromCache
<1>6. CASE BuildDiscovers(k)
  <2>1. "discovering" \in Steps
    BY DEF Steps
  <2>2. Discover(k) /\ Go(k, "discovering") /\ UNCHANGED <<request, verdict>>
    BY <1>6 DEF BuildDiscovers, DiscoverFor
  <2>3. SessionInv'
    BY <1>1, <2>2, BeginKeepsSession DEF Discover
  <2>4. /\ step' \in [Queries -> Steps]
        /\ \A p \in Queries : p # k => step'[p] = step[p]
    BY <1>1, <2>1, <2>2, GoFacts
  <2>5. FlowTypeOK'
    BY <1>1, <1>3, <2>2, <2>4 DEF FlowTypeOK, flowVarsOfOps, netVars
  <2>6. Grows(k)
    BY <1>1, <1>3, <2>2, <2>4 DEF Grows, flowVarsOfOps, netVars
  <2>7. RequestOK(k)'
    BY <1>2, <2>2 DEF RequestOK
  <2> QED
    BY <2>3, <2>5, <2>6, <2>7, RequestStepKeeps
<1>7. CASE BuildFromDiscovery(k)
  <2>1. CASE outcome[k] = "DiscoveryError" /\ End(k, "DiscoveryError") /\ UNCHANGED <<cacheVars,
                                                                                      request>>
    <3>1. "DiscoveryError" \in Verdicts \ {"none"}
      BY DEF Verdicts
    <3>2. /\ step' \in [Queries -> Steps] /\ verdict' \in [Queries -> Verdicts]
          /\ \A p \in Queries : p # k => step'[p] = step[p] /\ verdict'[p] = verdict[p]
      BY <1>1, <2>1, <3>1, EndFacts
    <3>3. FlowTypeOK'
      BY <1>1, <1>3, <2>1, <3>2 DEF FlowTypeOK, flowVarsOfOps, netVars
    <3>4. Grows(k)
      BY <1>1, <1>3, <2>1, <3>2 DEF Grows, flowVarsOfOps, netVars
    <3>5. RequestOK(k)'
      BY <1>2, <2>1 DEF RequestOK
    <3>6. SessionInv'
      BY <1>7, <2>1, CountersKeepSession
         DEF BuildFromDiscovery, cacheVars, SessionInv, SessionTypeOK, CacheTypeOK
    <3> QED
      BY <3>3, <3>4, <3>5, <3>6, RequestStepKeeps
  <2>2. CASE outcome[k] # "DiscoveryError" /\ Snapshot(k, result[k])
    <3>1. outcome[k] \in {"listing", "old listing"}
      BY <1>1, <1>7, <2>2, SessionFacts DEF BuildFromDiscovery, Discovered, SessionInv, Outcomes
    <3>2. result[k] \in DiscoveryResults
      BY <1>1, <3>1 DEF SessionInv, SessionTypeOK, QueryOK, ReturnedOK
    <3> QED
      BY <1>4, <1>7, <2>2, <3>2 DEF BuildFromDiscovery
  <2> QED
    BY <1>7, <2>1, <2>2 DEF BuildFromDiscovery
<1> QED
  BY <1>5, <1>6, <1>7 DEF Build

-----------------------------------------------------------------------------
(* NewSignedProposal, Endorse and Evaluate                                  *)

(* A message received names the request it was built by.                    *)
LEMMA ReceivedFacts ==
  ASSUME FlowInv, NEW k \in Requests, request[k] # None, NEW m \in Received(k)
  PROVE  m \in SignedMessages /\ m # None /\ m.bytes = k /\ m.mode = request[k].mode
<1>1. request[k] \in SnapshotsOf(k)
  BY DEF FlowInv, RequestOK
<1>2. request[k] \in SignedMessages /\ request[k].bytes = k
  BY <1>1 DEF SnapshotsOf, SignedMessages
<1>3. m \in SignedMessages /\ m.bytes = k /\ m.mode = request[k].mode
  <2>1. CASE m = request[k]
    BY <1>2, <2>1
  <2>2. ASSUME NEW d \in Damages, m = Damaged(request[k], d)
        PROVE  m \in SignedMessages /\ m.bytes = k /\ m.mode = request[k].mode
    <3>1. PICK r \in SnapshotsOf(k) : r = request[k]
      BY <1>1
    <3>2. r \in SnapshotsOf(k) /\ d \in Damages
      BY <2>2, <3>1
    <3>3. Damaged(r, d) \in SignedMessages
      BY <3>2, DamagedMessages
    <3>4. Damaged(r, d).bytes = k
      BY <3>2, DamagedMessages
    <3>5. Damaged(r, d).mode = r.mode
      BY <3>2, DamagedMessages
    <3> QED
      BY <2>2, <3>1, <3>3, <3>4, <3>5
  <2> QED
    BY <2>1, <2>2 DEF Received
<1> QED
  BY <1>3, NoneIsNone

(* A message is accepted as it was signed, or refused.                      *)
LEMMA ResumeKeeps ==
  ASSUME FlowInv, SessionInv, NEW o \in ProposalOps, NEW k \in Requests, Resume(o, k)
  PROVE  FlowInv' /\ SessionInv'
<1>1. FlowTypeOK /\ MessageOK(o) /\ o \in Queries /\ o \notin Requests /\ o \notin SubmitOps
  BY Kinds DEF FlowInv
<1>2. /\ UNCHANGED <<sessionVars, named, request, answers, transaction, submitted, netVars>>
      /\ step[o] = "idle" /\ request[k] # None
  BY DEF Resume, At
<1>3. SessionInv'
  BY <1>2, SessionStepKeeps
<1>4. PICK m \in Received(k) :
        /\ message' = [message EXCEPT ![o] = m]
        /\ \/ Accepted(m) /\ Go(o, "resumed") /\ UNCHANGED verdict
           \/ End(o, "OfflineSigningError")
  BY DEF Resume
<1>5. m \in SignedMessages /\ m # None /\ m.bytes = k
  BY <1>2, ReceivedFacts
<1>6. message' \in [ProposalOps -> SignedMessages \cup {None}] /\ message'[o] = m
      /\ \A p \in ProposalOps : p # o => message'[p] = message[p]
  BY <1>1, <1>4, <1>5 DEF FlowTypeOK
<1>7. /\ step' \in [Queries -> Steps] /\ verdict' \in [Queries -> Verdicts]
      /\ step'[o] \in {"resumed", "done"} /\ (step'[o] = "resumed" => Accepted(m))
      /\ \A p \in Queries : p # o => step'[p] = step[p] /\ verdict'[p] = verdict[p]
  <2>1. CASE Accepted(m) /\ Go(o, "resumed") /\ UNCHANGED verdict
    <3>1. "resumed" \in Steps
      BY DEF Steps
    <3> QED
      BY <1>1, <2>1, <3>1, GoFacts DEF FlowTypeOK
  <2>2. CASE End(o, "OfflineSigningError")
    <3>1. "OfflineSigningError" \in Verdicts \ {"none"}
      BY DEF Verdicts
    <3> QED
      BY <1>1, <2>2, <3>1, EndFacts
  <2> QED
    BY <1>4, <2>1, <2>2
<1>8. FlowTypeOK'
  BY <1>1, <1>2, <1>6, <1>7 DEF FlowTypeOK, netVars
<1>9. Grows(o)
  BY <1>1, <1>2, <1>6, <1>7 DEF Grows, netVars
<1>10. \A p \in Peers : answers[o][p] = NotAsked
  BY <1>1, <1>2 DEF MessageOK
<1>11. MessageOK(o)'
  <2>1. m \in Received(k)'
    BY <1>2 DEF Received, Damaged
  <2> QED
    BY <1>2, <1>5, <1>6, <1>7, <1>10, <2>1 DEF MessageOK, Accepted
<1>12. o \in EndorseOps => TransactionOK(o)'
  BY <1>2 DEF FlowInv, TransactionOK
<1> QED
  BY <1>3, <1>8, <1>9, <1>11, <1>12, ProposalStepKeeps

(* A step of an operation that changes where it is or what was answered.    *)
LEMMA AnswersKeep ==
  ASSUME FlowInv, NEW o \in ProposalOps,
         UNCHANGED <<named, request, message, submitted, netVars>>,
         step' \in [Queries -> Steps], verdict' \in [Queries -> Verdicts],
         \A p \in Queries : p # o => step'[p] = step[p] /\ verdict'[p] = verdict[p],
         answers' \in [ProposalOps -> [Peers -> Payloads \cup {Awaited, Refused, NotAsked}]],
         \A p \in ProposalOps : p # o => answers'[p] = answers[p],
         UNCHANGED transaction, TransactionOK(o)' \/ o \notin EndorseOps,
         step[o] # "idle", step'[o] # "idle",
         step'[o] \in {"resumed", "discovering", "endorsing"} => Accepted(message[o]),
         \A p \in Peers : answers'[o][p] # NotAsked =>
           /\ p \in message[o].peers
           /\ Accepted(message[o])
           /\ step'[o] \in {"endorsing", "done"}
           /\ \A x \in message[o].peers : answers'[o][x] # NotAsked
  PROVE  FlowInv'
<1>1. FlowTypeOK /\ MessageOK(o) /\ o \in Queries /\ o \notin Requests /\ o \notin SubmitOps
  BY Kinds DEF FlowInv
<1>2. FlowTypeOK'
  BY <1>1 DEF FlowTypeOK, netVars
<1>3. Grows(o)
  BY <1>1 DEF Grows, netVars
<1>4. MessageOK(o)'
  <2>1. message'[o] = message[o] /\ request' = request /\ message[o] # None
    BY <1>1 DEF MessageOK
  <2>2. Received(message[o].bytes)' = Received(message[o].bytes)
    BY <2>1 DEF Received, Damaged
  <2>3. Accepted(message[o])' <=> Accepted(message[o])
    BY <2>1 DEF Accepted
  <2> QED
    BY <1>1, <2>1, <2>2, <2>3 DEF MessageOK
<1> QED
  BY <1>2, <1>3, <1>4, ProposalStepKeeps

(* An operation that is not over has no transaction yet.                    *)
LEMMA NoTransactionYet ==
  ASSUME FlowInv, NEW o \in ProposalOps, UNCHANGED transaction, step[o] # "done"
  PROVE  TransactionOK(o)' \/ o \notin EndorseOps
BY DEF FlowInv, TransactionOK

(* An operation asks for the peers its snapshot is checked against.         *)
LEMMA RevalidateKeeps ==
  ASSUME FlowInv, SessionInv, NEW o \in ProposalOps, Revalidate(o)
  PROVE  FlowInv' /\ SessionInv'
<1>1. FlowTypeOK /\ MessageOK(o) /\ o \in Queries
  BY Kinds DEF FlowInv
<1>2. Discover(o) /\ Go(o, "discovering") /\ step[o] = "resumed"
      /\ UNCHANGED <<flowVarsOfOps, request, verdict, netVars>>
  BY DEF Revalidate, DiscoverFor, At
<1>3. SessionInv'
  BY <1>1, <1>2, BeginKeepsSession DEF Discover
<1>4. "discovering" \in Steps
  BY DEF Steps
<1>5. step' \in [Queries -> Steps] /\ step'[o] = "discovering"
      /\ \A p \in Queries : p # o => step'[p] = step[p]
  BY <1>1, <1>2, <1>4, GoFacts
<1>6. \A p \in Peers : answers[o][p] = NotAsked
  BY <1>1, <1>2 DEF MessageOK
<1>7. UNCHANGED <<named, request, message, submitted, netVars, transaction, answers, verdict>>
  BY <1>2 DEF flowVarsOfOps
<1>8. Accepted(message[o]) /\ (TransactionOK(o)' \/ o \notin EndorseOps)
  BY <1>1, <1>2, <1>7, NoTransactionYet DEF MessageOK
<1>9. FlowInv'
  BY <1>1, <1>2, <1>5, <1>6, <1>7, <1>8, AnswersKeep DEF FlowTypeOK
<1> QED
  BY <1>3, <1>9

(* The proposal goes to every peer of its message at once.                  *)
LEMMA SendProposalKeeps ==
  ASSUME FlowInv, SessionInv, NEW o \in ProposalOps, SendProposal(o)
  PROVE  FlowInv' /\ SessionInv'
<1>1. FlowTypeOK /\ MessageOK(o) /\ o \in Queries
  BY Kinds DEF FlowInv
<1>2. /\ UNCHANGED <<sessionVars, named, request, message, transaction, submitted, netVars>>
      /\ step[o] = "discovering"
  BY DEF SendProposal, Discovered, At
<1>3. SessionInv'
  BY <1>2, SessionStepKeeps
<1>4. \A p \in Peers : answers[o][p] = NotAsked
  BY <1>1, <1>2 DEF MessageOK
<1>5. Accepted(message[o]) /\ (TransactionOK(o)' \/ o \notin EndorseOps)
  BY <1>1, <1>2, NoTransactionYet DEF MessageOK
<1>6. CASE (Reject(o, "DiscoveryError") \/ Reject(o, "PeerNotFoundError")) /\ UNCHANGED answers
  <2>1. PICK r \in Verdicts \ {"none", "ok"} : End(o, r)
    BY <1>6, RejectFacts
  <2>2. /\ step' \in [Queries -> Steps] /\ verdict' \in [Queries -> Verdicts]
        /\ step'[o] = "done"
        /\ \A p \in Queries : p # o => step'[p] = step[p] /\ verdict'[p] = verdict[p]
    BY <1>1, <2>1, EndFacts
  <2>3. FlowInv'
    BY <1>1, <1>2, <1>4, <1>5, <1>6, <2>2, AnswersKeep DEF FlowTypeOK
  <2> QED
    BY <1>3, <2>3
<1>7. CASE /\ answers' = [answers EXCEPT ![o] =
                            [p \in Peers |-> IF p \in message[o].peers THEN Awaited ELSE NotAsked]]
           /\ Go(o, "endorsing") /\ UNCHANGED verdict
  <2>1. "endorsing" \in Steps
    BY DEF Steps
  <2>2. step' \in [Queries -> Steps] /\ step'[o] = "endorsing"
        /\ \A p \in Queries : p # o => step'[p] = step[p]
    BY <1>1, <1>7, <2>1, GoFacts
  <2>3. answers' \in [ProposalOps -> [Peers -> Payloads \cup {Awaited, Refused, NotAsked}]]
        /\ \A p \in ProposalOps : p # o => answers'[p] = answers[p]
    BY <1>1, <1>7 DEF FlowTypeOK
  <2>4. \A p \in Peers : answers'[o][p] = IF p \in message[o].peers THEN Awaited ELSE NotAsked
    BY <1>1, <1>7 DEF FlowTypeOK
  <2>5. message[o].peers \subseteq Peers
    BY <1>1, <1>2 DEF FlowTypeOK, MessageOK, SignedMessages
  <2>6. FlowInv'
    BY <1>1, <1>2, <1>5, <1>7, <2>2, <2>3, <2>4, <2>5, AnswerKinds, AnswersKeep DEF FlowTypeOK
  <2> QED
    BY <1>3, <2>6
<1> QED
  BY <1>6, <1>7 DEF SendProposal

(* A peer refuses: the operation ends, if it has not.                       *)
LEMMA PeerFailsKeeps ==
  ASSUME FlowInv, SessionInv, NEW o \in ProposalOps, NEW p \in Peers, PeerFails(o, p)
  PROVE  FlowInv' /\ SessionInv'
<1>1. FlowTypeOK /\ MessageOK(o) /\ o \in Queries
  BY Kinds DEF FlowInv
<1>2. /\ UNCHANGED <<sessionVars, named, request, message, transaction, submitted, netVars>>
      /\ answers[o][p] = Awaited /\ answers' = [answers EXCEPT ![o][p] = Refused]
  BY DEF PeerFails
<1>3. SessionInv'
  BY <1>2, SessionStepKeeps
<1>4. p \in message[o].peers /\ step[o] \in {"endorsing", "done"} /\ Accepted(message[o])
  BY <1>1, <1>2, AnswerKinds DEF MessageOK
<1>5. /\ step' \in [Queries -> Steps] /\ verdict' \in [Queries -> Verdicts]
      /\ step'[o] = "done"
      /\ \A q \in Queries : q # o => step'[q] = step[q] /\ verdict'[q] = verdict[q]
  <2>1. CASE Reject(o, "EndorsementError")
    <3>1. PICK r \in Verdicts \ {"none", "ok"} : End(o, r)
      BY <2>1, RejectFacts
    <3> QED
      BY <1>1, <3>1, EndFacts
  <2>2. CASE ~At(o, "endorsing") /\ UNCHANGED <<step, verdict>>
    BY <1>1, <1>4, <2>2 DEF FlowTypeOK, At
  <2> QED
    BY <2>1, <2>2 DEF PeerFails
<1>6. answers' \in [ProposalOps -> [Peers -> Payloads \cup {Awaited, Refused, NotAsked}]]
      /\ (\A q \in ProposalOps : q # o => answers'[q] = answers[q])
      /\ \A x \in Peers : answers'[o][x] = IF x = p THEN Refused ELSE answers[o][x]
  BY <1>1, <1>2 DEF FlowTypeOK
<1>7. message[o].peers \subseteq Peers
  BY <1>1, <1>4 DEF FlowTypeOK, MessageOK, SignedMessages
<1>8. TransactionOK(o)' \/ o \notin EndorseOps
  <2>1. ASSUME o \in EndorseOps PROVE transaction[o] = None
    BY <1>2, <1>4, <2>1, AnswersDiffer DEF FlowInv, TransactionOK
  <2> QED
    BY <1>2, <2>1 DEF TransactionOK
<1>9. \A x \in Peers : answers'[o][x] # NotAsked =>
        x \in message[o].peers /\ \A y \in message[o].peers : answers'[o][y] # NotAsked
  BY <1>1, <1>2, <1>4, <1>6, <1>7, AnswerKinds DEF MessageOK
<1>10. FlowInv'
  BY <1>1, <1>2, <1>4, <1>5, <1>6, <1>8, <1>9, AnswersKeep
<1> QED
  BY <1>3, <1>10

(* A peer answers.                                                          *)
LEMMA PeerEndorsesKeeps ==
  ASSUME FlowInv, SessionInv, NEW o \in ProposalOps, NEW p \in Peers, NEW v \in Payloads,
         PeerEndorses(o, p, v)
  PROVE  FlowInv' /\ SessionInv'
<1>1. FlowTypeOK /\ MessageOK(o) /\ o \in Queries
  BY Kinds DEF FlowInv
<1>2. /\ UNCHANGED <<sessionVars, step, verdict, named, request, message, transaction, submitted,
                     netVars>>
      /\ answers[o][p] = Awaited /\ answers' = [answers EXCEPT ![o][p] = v]
  BY DEF PeerEndorses
<1>3. SessionInv'
  BY <1>2, SessionStepKeeps
<1>4. p \in message[o].peers /\ step[o] \in {"endorsing", "done"} /\ Accepted(message[o])
  BY <1>1, <1>2, AnswerKinds DEF MessageOK
<1>5. answers' \in [ProposalOps -> [Peers -> Payloads \cup {Awaited, Refused, NotAsked}]]
      /\ (\A q \in ProposalOps : q # o => answers'[q] = answers[q])
      /\ \A x \in Peers : answers'[o][x] = IF x = p THEN v ELSE answers[o][x]
  BY <1>1, <1>2 DEF FlowTypeOK
<1>6. message[o].peers \subseteq Peers
  BY <1>1, <1>4 DEF FlowTypeOK, MessageOK, SignedMessages
<1>7. TransactionOK(o)' \/ o \notin EndorseOps
  <2>1. ASSUME o \in EndorseOps PROVE transaction[o] = None
    BY <1>2, <1>4, <2>1, AnswersDiffer DEF FlowInv, TransactionOK
  <2> QED
    BY <1>2, <2>1 DEF TransactionOK
<1>8. \A x \in Peers : answers'[o][x] # NotAsked =>
        x \in message[o].peers /\ \A y \in message[o].peers : answers'[o][y] # NotAsked
  BY <1>1, <1>2, <1>4, <1>5, <1>6, AnswerKinds, AnswersDiffer DEF MessageOK
<1>9. FlowInv'
  BY <1>1, <1>2, <1>4, <1>5, <1>7, <1>8, AnswersKeep DEF FlowTypeOK
<1> QED
  BY <1>3, <1>9

(* All peers answered: a transaction, if they all say the same.             *)
LEMMA ConcludeKeeps ==
  ASSUME FlowInv, SessionInv, NEW o \in ProposalOps, Conclude(o)
  PROVE  FlowInv' /\ SessionInv'
<1>1. FlowTypeOK /\ MessageOK(o) /\ o \in Queries /\ o \notin Requests /\ o \notin SubmitOps
  BY Kinds DEF FlowInv
<1>2. /\ UNCHANGED <<sessionVars, named, request, message, answers, submitted, netVars>>
      /\ step[o] = "endorsing"
  BY DEF Conclude, At
<1>3. SessionInv'
  BY <1>2, SessionStepKeeps
<1>4. Accepted(message[o]) /\ message[o] \in SignedMessages /\ message[o] # None
  BY <1>1, <1>2 DEF FlowTypeOK, MessageOK
<1>5. ASSUME NEW r \in Verdicts \ {"none"}, End(o, r)
      PROVE  /\ step' \in [Queries -> Steps] /\ verdict' \in [Queries -> Verdicts]
             /\ step'[o] = "done"
             /\ \A q \in Queries : q # o => step'[q] = step[q] /\ verdict'[q] = verdict[q]
  BY <1>1, <1>5, EndFacts
<1>6. CASE Reject(o, "EndorsementError") /\ UNCHANGED transaction
  <2>1. PICK r \in Verdicts \ {"none", "ok"} : End(o, r)
    BY <1>6, RejectFacts
  <2>2. TransactionOK(o)' \/ o \notin EndorseOps
    BY <1>2, <1>6, NoTransactionYet
  <2>3. FlowInv'
    BY <1>1, <1>2, <1>4, <1>5, <1>6, <2>1, <2>2, AnswersKeep DEF FlowTypeOK, MessageOK
  <2> QED
    BY <1>3, <2>3
<1>7. ASSUME NEW x \in Payloads, AgreedOn(o, x), End(o, "ok"),
             transaction' = IF o \in EvaluateOps THEN transaction ELSE
               [transaction EXCEPT ![o] =
                  [bytes |-> message[o].bytes, payload |-> x, endorsers |-> message[o].peers]]
      PROVE  FlowInv' /\ SessionInv'
  <2> DEFINE new == [bytes |-> message[o].bytes, payload |-> x, endorsers |-> message[o].peers]
  <2>1. "ok" \in Verdicts \ {"none"}
    BY DEF Verdicts
  <2>2. /\ step' \in [Queries -> Steps] /\ verdict' \in [Queries -> Verdicts]
        /\ step'[o] = "done"
        /\ \A q \in Queries : q # o => step'[q] = step[q] /\ verdict'[q] = verdict[q]
    BY <1>5, <1>7, <2>1
  <2>3. new \in Transactions
    BY <1>4 DEF SignedMessages, Transactions
  <2>4. CASE o \in EvaluateOps
    <3>1. UNCHANGED transaction /\ o \notin EndorseOps
      BY <1>7, <2>4, Kinds
    <3>2. FlowInv'
      BY <1>1, <1>2, <1>4, <2>2, <3>1, AnswersKeep DEF FlowTypeOK, MessageOK
    <3> QED
      BY <1>3, <3>2
  <2>5. CASE o \notin EvaluateOps
    <3>1. transaction' = [transaction EXCEPT ![o] = new] /\ o \in EndorseOps
      BY <1>7, <2>5 DEF ProposalOps
    <3>2. transaction[o] = None
      BY <1>2, <3>1 DEF FlowInv, TransactionOK
    <3> HIDE DEF new
    <3>3. transaction' \in [EndorseOps -> Transactions \cup {None}] /\ transaction'[o] = new
          /\ \A p \in EndorseOps : p # o => transaction'[p] = transaction[p]
      BY <1>1, <2>3, <3>1 DEF FlowTypeOK
    <3>4. FlowTypeOK'
      BY <1>1, <1>2, <2>2, <3>3 DEF FlowTypeOK, netVars
    <3>5. Grows(o)
      BY <1>1, <1>2, <2>2, <3>2, <3>3 DEF Grows, netVars
    <3>6. MessageOK(o)'
      <4>1. message'[o] = message[o] /\ Received(message[o].bytes)' = Received(message[o].bytes)
        BY <1>2 DEF Received, Damaged
      <4> QED
        BY <1>1, <1>2, <1>4, <2>2, <4>1 DEF MessageOK, Accepted
    <3>7. TransactionOK(o)'
      <4>1. new.bytes = message[o].bytes /\ new.payload = x /\ new.endorsers = message[o].peers
        BY DEF new
      <4> QED
        BY <1>2, <1>7, <2>2, <3>3, <4>1 DEF TransactionOK, AgreedOn
    <3> QED
      BY <1>3, <3>1, <3>4, <3>5, <3>6, <3>7, ProposalStepKeeps
  <2> QED
    BY <2>4, <2>5
<1> QED
  BY <1>6, <1>7 DEF Conclude

-----------------------------------------------------------------------------
(* SubmitAsync                                                              *)

(* A submit is given an endorsed transaction.                               *)
LEMMA StartSubmitKeeps ==
  ASSUME FlowInv, SessionInv, NEW s \in SubmitOps, NEW o \in EndorseOps, StartSubmit(s, o)
  PROVE  FlowInv' /\ SessionInv'
<1>1. FlowTypeOK /\ SubmitOK(s) /\ s \in Queries /\ s \notin Requests /\ s \notin ProposalOps
      /\ s \notin EndorseOps
  BY Kinds DEF FlowInv
<1>2. /\ UNCHANGED <<sessionVars, opVars, verdict, netVars>>
      /\ step[s] = "idle" /\ transaction[o] # None
      /\ submitted' = [submitted EXCEPT ![s] = o] /\ Go(s, "signing")
  BY DEF StartSubmit, At
<1>3. SessionInv'
  BY <1>2, SessionStepKeeps
<1>4. "signing" \in Steps
  BY DEF Steps
<1>5. step' \in [Queries -> Steps] /\ step'[s] = "signing"
      /\ \A p \in Queries : p # s => step'[p] = step[p]
  BY <1>1, <1>2, <1>4, GoFacts
<1>6. submitted' \in [SubmitOps -> EndorseOps \cup {"none"}] /\ submitted'[s] = o
      /\ \A p \in SubmitOps : p # s => submitted'[p] = submitted[p]
  BY <1>1, <1>2 DEF FlowTypeOK
<1>7. FlowTypeOK'
  BY <1>1, <1>2, <1>5, <1>6 DEF FlowTypeOK, opVars, netVars
<1>8. Grows(s)
  BY <1>1, <1>2, <1>5, <1>6 DEF Grows, opVars, netVars
<1>9. SubmitOK(s)'
  BY <1>1, <1>2, <1>5, <1>6 DEF SubmitOK, opVars, netVars
<1> QED
  BY <1>3, <1>7, <1>8, <1>9, SubmitStepKeeps

(* The three ways a submit under way moves: it asks discovery for an        *)
(* orderer, it broadcasts its transaction, or it is over.                   *)
LEMMA SubmitMoves ==
  ASSUME FlowInv, NEW s \in SubmitOps, UNCHANGED <<opVars, submitted>>,
         step[s] \in {"signing", "discovering", "broadcasting"},
         \/ step[s] # "broadcasting" /\ Go(s, "discovering") /\ UNCHANGED <<verdict, netVars>>
         \/ step[s] # "broadcasting" /\ Broadcast(s)
         \/ Envelope(s) \in ledger /\ End(s, "ok") /\ UNCHANGED netVars
         \/ SubmitFails(s)
  PROVE  FlowInv'
<1>1. FlowTypeOK /\ SubmitOK(s) /\ s \in Queries
  BY Kinds DEF FlowInv
<1>2. /\ submitted[s] \in EndorseOps /\ transaction[submitted[s]] # None
      /\ Envelope(s)' = Envelope(s) /\ Envelope(s) \in SubmitOps \X Transactions
      /\ Envelope(s)[1] = s
  BY <1>1 DEF SubmitOK, FlowTypeOK, Envelope, opVars
<1>3. UNCHANGED <<named, request, message, answers, transaction, submitted>>
  BY DEF opVars
<1>4. CASE step[s] # "broadcasting" /\ Go(s, "discovering") /\ UNCHANGED <<verdict, netVars>>
  <2>1. "discovering" \in Steps
    BY DEF Steps
  <2>2. step' \in [Queries -> Steps] /\ step'[s] = "discovering"
        /\ \A p \in Queries : p # s => step'[p] = step[p]
    BY <1>1, <1>4, <2>1, GoFacts
  <2>3. FlowTypeOK'
    BY <1>1, <1>3, <1>4, <2>2 DEF FlowTypeOK, netVars
  <2>4. Grows(s)
    BY <1>3, <1>4, <2>2 DEF Grows, netVars
  <2>5. SubmitOK(s)'
    BY <1>1, <1>2, <1>3, <1>4, <2>2 DEF SubmitOK, netVars
  <2> QED
    BY <2>3, <2>4, <2>5, SubmitStepKeeps
<1>5. CASE step[s] # "broadcasting" /\ Broadcast(s)
  <2>1. "broadcasting" \in Steps
    BY DEF Steps
  <2>2. /\ envelopes' = envelopes \cup {Envelope(s)} /\ UNCHANGED <<verdict, ledger>>
        /\ Go(s, "broadcasting")
    BY <1>5 DEF Broadcast
  <2>3. step' \in [Queries -> Steps] /\ step'[s] = "broadcasting"
        /\ \A p \in Queries : p # s => step'[p] = step[p]
    BY <1>1, <2>1, <2>2, GoFacts
  <2>4. FlowTypeOK'
    BY <1>1, <1>2, <1>3, <2>2, <2>3 DEF FlowTypeOK
  <2>5. Grows(s)
    BY <1>2, <1>3, <2>2, <2>3 DEF Grows
  <2>6. SubmitOK(s)'
    BY <1>1, <1>2, <1>3, <2>2, <2>3 DEF SubmitOK
  <2> QED
    BY <2>4, <2>5, <2>6, SubmitStepKeeps
<1>6. ASSUME NEW r \in Verdicts \ {"none"}, End(s, r), UNCHANGED netVars,
             r = "ok" => Envelope(s) \in ledger
      PROVE  FlowInv'
  <2>1. /\ step' \in [Queries -> Steps] /\ verdict' \in [Queries -> Verdicts]
        /\ step'[s] = "done" /\ verdict'[s] = r
        /\ \A p \in Queries : p # s => step'[p] = step[p] /\ verdict'[p] = verdict[p]
    BY <1>1, <1>6, EndFacts
  <2>2. FlowTypeOK'
    BY <1>1, <1>3, <1>6, <2>1 DEF FlowTypeOK, netVars
  <2>3. Grows(s)
    BY <1>3, <1>6, <2>1 DEF Grows, netVars
  <2>4. SubmitOK(s)'
    BY <1>1, <1>2, <1>3, <1>6, <2>1 DEF SubmitOK, netVars
  <2> QED
    BY <2>2, <2>3, <2>4, SubmitStepKeeps
<1>7. "ok" \in Verdicts \ {"none"} /\ "SubmitError" \in Verdicts \ {"none"}
  BY DEF Verdicts
<1> QED
  BY <1>4, <1>5, <1>6, <1>7 DEF SubmitFails

(* A submit signs, finds the orderer, broadcasts and ends.                  *)
LEMMA SubmitKeeps ==
  ASSUME FlowInv, SessionInv, NEW s \in SubmitOps, Signed(s) \/ OrdererFound(s) \/ BroadcastEnds(s)
  PROVE  FlowInv' /\ SessionInv'
<1>1. UNCHANGED <<opVars, submitted>> /\ step[s] \in {"signing", "discovering", "broadcasting"}
  BY DEF Signed, OrdererFound, BroadcastEnds, At
<1>2. FlowInv'
  BY <1>1, SubmitMoves DEF Signed, OrdererFound, BroadcastEnds, At, DiscoverFor
<1>3. CASE UNCHANGED sessionVars
  BY <1>2, <1>3, SessionStepKeeps
<1>4. CASE DiscoverFor(s)
  BY <1>2, <1>4, Kinds, BeginKeepsSession DEF DiscoverFor, Discover
<1> QED
  BY <1>2, <1>3, <1>4 DEF Signed, OrdererFound, BroadcastEnds

-----------------------------------------------------------------------------
(* The theorems about the flows                                             *)

IInv == SessionInv /\ FlowInv

(* The invariant holds initially: nothing was built or sent.                *)
LEMMA InitIInv == Init => IInv
<1> SUFFICES ASSUME Init PROVE IInv
  OBVIOUS
<1>1. SessionInv
  BY InitSessionInv DEF Init
<1>2. FlowTypeOK
  BY DEF Init, FlowTypeOK, Steps, Verdicts
<1>3. \A k \in Requests : RequestOK(k)
  BY DEF Init, RequestOK
<1>4. \A o \in ProposalOps : MessageOK(o)
  BY Kinds DEF Init, MessageOK
<1>5. \A o \in EndorseOps : TransactionOK(o)
  BY DEF Init, TransactionOK
<1>6. \A s \in SubmitOps : SubmitOK(s)
  BY Kinds DEF Init, SubmitOK
<1> QED
  BY <1>1, <1>2, <1>3, <1>4, <1>5, <1>6 DEF IInv, FlowInv

(* What is ordered was broadcast.                                           *)
LEMMA LedgerKeeps ==
  ASSUME IInv,
         \/ UNCHANGED <<flowVars, netVars>> /\ SessionInv'
         \/ \E e \in envelopes : OrdererAccepts(e)
  PROVE  IInv'
<1>1. UNCHANGED <<flowVars,
                  envelopes>> /\ ledger \subseteq ledger' /\ ledger' \subseteq envelopes /\ SessionInv'
  <2>1. CASE UNCHANGED <<flowVars, netVars>> /\ SessionInv'
    BY <2>1 DEF IInv, FlowInv, FlowTypeOK, netVars
  <2>2. ASSUME NEW e \in envelopes, OrdererAccepts(e)
        PROVE  UNCHANGED <<flowVars,
                           envelopes>> /\ ledger \subseteq ledger' /\ ledger' \subseteq envelopes
               /\ SessionInv'
    BY <2>2, SessionStepKeeps DEF IInv, FlowInv, FlowTypeOK, OrdererAccepts
  <2> QED
    BY <2>1, <2>2
<1>2. UNCHANGED <<step, named, request, message, answers, transaction, submitted, verdict>>
  BY <1>1 DEF flowVars
<1>3. FlowTypeOK'
  BY <1>1, <1>2 DEF IInv, FlowInv, FlowTypeOK
<1>4. \A k \in Requests : RequestOK(k)'
  BY <1>2 DEF IInv, FlowInv, RequestOK
<1>5. ASSUME NEW o \in ProposalOps PROVE MessageOK(o)'
  <2>1. \A k \in Requests : Received(k)' = Received(k)
    BY <1>2 DEF Received, Damaged
  <2>2. MessageOK(o)
    BY DEF IInv, FlowInv
  <2> QED
    BY <1>2, <2>1, <2>2 DEF MessageOK, Accepted
<1>6. \A o \in EndorseOps : TransactionOK(o)'
  BY <1>2 DEF IInv, FlowInv, TransactionOK
<1>7. \A s \in SubmitOps : SubmitOK(s)'
  BY <1>1, <1>2 DEF IInv, FlowInv, SubmitOK, Envelope
<1> QED
  BY <1>1, <1>3, <1>4, <1>5, <1>6, <1>7 DEF IInv, FlowInv

(* Every step preserves the invariant.                                      *)
LEMMA NextIInv == IInv /\ [Next]_vars => IInv'
<1> SUFFICES ASSUME IInv, [Next]_vars PROVE IInv'
  OBVIOUS
<1> USE DEF IInv
<1>1. CASE SessionStep
  <2>1. [SessionNext]_sessionVars /\ UNCHANGED <<flowVars, netVars>>
    BY <1>1 DEF SessionStep, SessionNext, World
  <2> QED
    BY <2>1, SessionStepKeeps, LedgerKeeps
<1>2. ASSUME NEW o \in Queries, OpStep(o) PROVE IInv'
  BY <1>2, BuildKeeps, RevalidateKeeps, SendProposalKeeps, ConcludeKeeps, PeerFailsKeeps,
     SubmitKeeps
     DEF OpStep
<1>3. ASSUME NEW o \in ProposalOps, NEW k \in Requests, Resume(o, k) PROVE IInv'
  BY <1>3, ResumeKeeps
<1>4. ASSUME NEW o \in ProposalOps, NEW p \in Peers, NEW x \in Payloads, PeerEndorses(o, p, x)
      PROVE  IInv'
  BY <1>4, PeerEndorsesKeeps
<1>5. ASSUME NEW s \in SubmitOps, NEW o \in EndorseOps, StartSubmit(s, o) PROVE IInv'
  BY <1>5, StartSubmitKeeps
<1>6. ASSUME NEW e \in envelopes, OrdererAccepts(e) PROVE IInv'
  BY <1>6, LedgerKeeps
<1>7. CASE UNCHANGED vars
  <2>1. [SessionNext]_sessionVars /\ UNCHANGED <<flowVars, netVars>>
    BY <1>7 DEF vars
  <2> QED
    BY <2>1, SessionStepKeeps, LedgerKeeps
<1> QED
  BY <1>1, <1>2, <1>3, <1>4, <1>5, <1>6, <1>7 DEF Next

(* The invariant of the session and the flows holds throughout.             *)
THEOREM Invariance == Spec => []IInv
BY InitIInv, NextIInv, PTL DEF Spec

(* Every variable keeps its type.                                           *)
THEOREM TypeCorrect == Spec => []OfflineTypeOK
<1>1. IInv => OfflineTypeOK
  BY DEF IInv, SessionInv, FlowInv, FlowTypeOK, OfflineTypeOK
<1> QED
  BY <1>1, Invariance, PTL

(* What a query returned stays, whoever moves: a background retry returns   *)
(* to nobody.                                                               *)
LEMMA ReturnedStays ==
  ASSUME SessionTypeOK, [Next]_vars, NEW q \in Queries, outcome[q] # "pending"
  PROVE  outcome'[q] = outcome[q] /\ result'[q] = result[q]
<1>1. ASSUME NEW p \in Queries, NEW what, NEW r, Return(p, what, r)
      PROVE  outcome'[q] = outcome[q] /\ result'[q] = result[q]
  BY <1>1 DEF Return, SessionTypeOK
<1>2. ASSUME NEW p \in Queries, Begin(p)
      PROVE  outcome'[q] = outcome[q] /\ result'[q] = result[q]
  BY <1>1, <1>2 DEF Begin, Ask
<1>3. ASSUME NEW p \in Queries, QueryStep(p)
      PROVE  outcome'[q] = outcome[q] /\ result'[q] = result[q]
  BY <1>1, <1>2, <1>3 DEF QueryStep, Retry, ServiceLists, Answered, Failed
<1>4. CASE UNCHANGED queryVars
  BY <1>4 DEF queryVars
<1>5. CASE SessionStep
  BY <1>3, <1>4, <1>5 DEF SessionStep, UpOrDown, Tick, Disconnect, MembershipChanges
<1>6. ASSUME NEW o \in Queries, OpStep(o)
      PROVE  outcome'[q] = outcome[q] /\ result'[q] = result[q]
  <2>1. CASE o \in Requests /\ Build(o)
    BY <1>2, <1>4, <1>6, <2>1
       DEF Build, BuildFromCache, BuildDiscovers, BuildFromDiscovery, DiscoverFor, Discover, timeVars
  <2>2. CASE o \in ProposalOps /\ (Revalidate(o) \/ SendProposal(o) \/ Conclude(o)
                                     \/ \E p \in Peers : PeerFails(o, p))
    BY <1>2, <1>4, <1>6, <2>2
       DEF Revalidate, SendProposal, Conclude, PeerFails, DiscoverFor, Discover, sessionVars
  <2>3. CASE o \in SubmitOps /\ (Signed(o) \/ OrdererFound(o) \/ BroadcastEnds(o))
    BY <1>2, <1>4, <1>6, <2>3
       DEF Signed, OrdererFound, BroadcastEnds, DiscoverFor, Discover, sessionVars
  <2> QED
    BY <1>6, <2>1, <2>2, <2>3 DEF OpStep
<1>7. CASE UNCHANGED sessionVars
  BY <1>4, <1>7 DEF sessionVars
<1> QED
  BY <1>5, <1>6, <1>7 DEF Next, vars, Resume, PeerEndorses, StartSubmit, OrdererAccepts

(* discover() has returned to the operation, and every peer of its message  *)
(* is in the listing it returned.                                           *)
Listed(o) == outcome[o] # "pending" /\ message[o].peers \subseteq PeersOf(result[o].peers)

(* The peers an operation has asked were in the listing it was given.  It   *)
(* needs IInv: who answers, or fails, had been asked, and a message is      *)
(* resumed before anybody is.                                               *)
ListedInv == \A o \in ProposalOps : Asked(o) # {} => Listed(o)

(* An operation that has asked somebody had asked before or was just given  *)
(* its listing, and its message is the one it was resumed with.             *)
LEMMA AskedIsListed ==
  ASSUME IInv, [Next]_vars, NEW o \in ProposalOps, Asked(o)' # {}
  PROVE  message'[o] = message[o] /\ (Asked(o) # {} \/ Listed(o))
<1>1. FlowTypeOK /\ MessageOK(o)
  BY DEF IInv, FlowInv
<1>2. PICK p \in Peers : answers'[o][p] # NotAsked
  BY DEF Asked
<1>3. CASE UNCHANGED <<message, answers>>
  BY <1>2, <1>3 DEF Asked
<1>4. ASSUME NEW x \in ProposalOps, SendProposal(x)
      PROVE  message'[o] = message[o] /\ (Asked(o) # {} \/ Listed(o))
  <2>1. UNCHANGED message
    BY <1>4 DEF SendProposal
  <2>2. CASE UNCHANGED answers \/ x # o
    BY <1>1, <1>2, <1>4, <2>1, <2>2 DEF SendProposal, FlowTypeOK, Asked
  <2>3. CASE x = o /\ ~UNCHANGED answers
    BY <1>4, <2>1, <2>3 DEF SendProposal, Discovered, Listed
  <2> QED
    BY <2>2, <2>3
<1>5. ASSUME NEW x \in ProposalOps, NEW y \in Peers, NEW z,
             answers[x][y] = Awaited, answers' = [answers EXCEPT ![x][y] = z]
      PROVE  Asked(o) # {}
  <2>1. answers[o][p] # NotAsked \/ (x = o /\ y = p)
    BY <1>1, <1>2, <1>5 DEF FlowTypeOK
  <2> QED
    BY <1>5, <2>1, AnswerKinds DEF Asked
<1>6. ASSUME NEW x \in ProposalOps, NEW y \in Peers,
             PeerFails(x, y) \/ \E z \in Payloads : PeerEndorses(x, y, z)
      PROVE  message'[o] = message[o] /\ Asked(o) # {}
  BY <1>5, <1>6 DEF PeerFails, PeerEndorses
<1>7. ASSUME NEW x \in ProposalOps, NEW k \in Requests, Resume(x, k)
      PROVE  message'[o] = message[o] /\ Asked(o) # {}
  <2>1. PICK m : step[x] = "idle" /\ message' = [message EXCEPT ![x] = m] /\ UNCHANGED answers
    BY <1>7 DEF Resume, At
  <2>2. answers[o][p] # NotAsked /\ step[o] # "idle"
    BY <1>1, <1>2, <2>1 DEF MessageOK
  <2> QED
    BY <1>1, <2>1, <2>2 DEF FlowTypeOK, Asked
<1>8. ASSUME NEW x \in Queries, OpStep(x)
      PROVE  message'[o] = message[o] /\ (Asked(o) # {} \/ Listed(o))
  <2>1. CASE x \in Requests /\ Build(x)
    BY <1>3, <2>1
       DEF Build, BuildFromCache, BuildDiscovers, BuildFromDiscovery, flowVarsOfOps
  <2>2. CASE x \in ProposalOps /\ (Revalidate(x) \/ Conclude(x))
    BY <1>3, <2>2 DEF Revalidate, Conclude, flowVarsOfOps
  <2>3. CASE x \in SubmitOps /\ (Signed(x) \/ OrdererFound(x) \/ BroadcastEnds(x))
    BY <1>3, <2>3 DEF Signed, OrdererFound, BroadcastEnds, opVars
  <2> QED
    BY <1>4, <1>6, <1>8, <2>1, <2>2, <2>3 DEF OpStep
<1>9. CASE SessionStep \/ UNCHANGED vars
  BY <1>3, <1>9 DEF SessionStep, vars, flowVars
<1>10. ASSUME NEW s \in SubmitOps, NEW e \in EndorseOps, StartSubmit(s, e)
       PROVE  UNCHANGED <<message, answers>>
  BY <1>10 DEF StartSubmit, opVars
<1>11. ASSUME NEW e \in envelopes, OrdererAccepts(e) PROVE UNCHANGED <<message, answers>>
  BY <1>11 DEF OrdererAccepts, flowVars
<1> QED
  BY <1>3, <1>6, <1>7, <1>8, <1>9, <1>10, <1>11 DEF Next

(* Nobody is asked who was not listed, throughout.                          *)
THEOREM ListedInvariance == Spec => []ListedInv
<1>1. Init => ListedInv
  BY DEF Init, ListedInv, Asked
<1>2. IInv /\ ListedInv /\ [Next]_vars => ListedInv'
  <2> SUFFICES ASSUME IInv, ListedInv, [Next]_vars, NEW o \in ProposalOps, Asked(o)' # {}
               PROVE  Listed(o)'
    BY DEF ListedInv
  <2>1. message'[o] = message[o] /\ Listed(o)
    BY AskedIsListed DEF ListedInv
  <2>2. outcome'[o] = outcome[o] /\ result'[o] = result[o]
    BY <2>1, ReturnedStays, Kinds DEF IInv, SessionInv, Listed
  <2> QED
    BY <2>1, <2>2 DEF Listed, PeersOf
<1> QED
  BY <1>1, <1>2, Invariance, PTL DEF Spec

(* A proposal goes to every peer its message names, all of them in the      *)
(* listing its resume was given, or to nobody, and to one peer when its     *)
(* request was built for one, whatever the message names when it comes back. *)
THEOREM SnapshotsAreKept == Spec => []SnapshotIsExact
<1>1. IInv /\ ListedInv => SnapshotIsExact
  <2> SUFFICES ASSUME IInv, ListedInv, NEW o \in ProposalOps, Asked(o) # {}
               PROVE  /\ Asked(o) = message[o].peers
                      /\ Asked(o) \subseteq PeersOf(result[o].peers)
                      /\ request[message[o].bytes].mode = "single-peer" => Cardinality(Asked(o)) = 1
    BY DEF SnapshotIsExact
  <2>1. PICK p \in Peers : answers[o][p] # NotAsked
    BY DEF Asked
  <2>2. /\ MessageOK(o) /\ Accepted(message[o]) /\ message[o] # None
        /\ p \in message[o].peers
        /\ \A x \in message[o].peers : answers[o][x] # NotAsked
    BY <2>1 DEF IInv, FlowInv, MessageOK
  <2>3. PICK k \in Requests : k = message[o].bytes
    BY <2>2 DEF MessageOK
  <2>4. PICK m \in Received(k) : m = message[o]
    BY <2>2, <2>3 DEF MessageOK
  <2>5. request[k] # None /\ request[k] \in SnapshotsOf(k)
    BY <2>2, <2>3 DEF MessageOK, IInv, FlowInv, RequestOK
  <2>6. m \in SignedMessages /\ m.mode = request[k].mode
    BY <2>5, ReceivedFacts DEF IInv
  <2>7. Asked(o) = m.peers
    BY <2>2, <2>4, <2>6 DEF Asked, MessageOK, IInv, FlowInv, SignedMessages
  <2>8. request[k].mode = "single-peer" => Cardinality(m.peers) = 1
    BY <2>2, <2>4, <2>6 DEF Accepted
  <2>9. m.peers \subseteq PeersOf(result[o].peers)
    BY <2>4 DEF ListedInv, Listed
  <2> QED
    BY <2>3, <2>4, <2>7, <2>8, <2>9
<1> QED
  BY <1>1, Invariance, ListedInvariance, PTL

(* A transaction that reaches the orderer carries one payload, which every  *)
(* peer of its message returned for it.                                     *)
THEOREM BroadcastsAreUnanimous == Spec => []EnvelopesAreUnanimous
<1>1. IInv => EnvelopesAreUnanimous
  <2> SUFFICES ASSUME IInv, NEW e \in envelopes
               PROVE  LET o == submitted[e[1]]
                      IN /\ e[2].endorsers = message[o].peers
                         /\ e[2].endorsers # {}
                         /\ \A p \in e[2].endorsers : answers[o][p] = e[2].payload
    BY DEF EnvelopesAreUnanimous
  <2>1. PICK s \in SubmitOps : e[1] = s
    BY DEF IInv, FlowInv, FlowTypeOK
  <2>2. e = Envelope(s) /\ step[s] # "idle"
    BY <2>1 DEF IInv, FlowInv, SubmitOK
  <2>3. submitted[s] \in EndorseOps /\ transaction[submitted[s]] # None /\ e[2] = transaction[submitted[s]]
    BY <2>2 DEF IInv, FlowInv, SubmitOK, Envelope
  <2>4. TransactionOK(submitted[s])
    BY <2>3 DEF IInv, FlowInv
  <2> QED
    BY <2>1, <2>3, <2>4 DEF TransactionOK
<1> QED
  BY <1>1, Invariance, PTL

(* What discover() returned to an operation of offline signing, and did not *)
(* mark as a fallback, is as recent as it is to any other caller.           *)
THEOREM OfflineListingsAreRecent == Spec => []ListingsAreRecent
<1>1. IInv => ListingsAreRecent
  BY DEF IInv, SessionInv, QueryOK, ReturnedOK, ListingsAreRecent
<1> QED
  BY <1>1, Invariance, PTL

-----------------------------------------------------------------------------
(* Submitting implements SubmitOnce                                         *)

Told == [s \in SubmitOps |-> SubmitVerdict(s)]

Ordered == {<<e[1], e[2].bytes>> : e \in ledger}

(* What was ordered for a submit is its own envelope.                       *)
LEMMA OrderedIsAccepted ==
  ASSUME IInv, NEW s \in SubmitOps
  PROVE  Once!Ordered(s) <=> Envelope(s) \in ledger
<1>1. /\ ledger \subseteq envelopes /\ envelopes \subseteq SubmitOps \X Transactions
      /\ \A e \in envelopes : e[1] = s => e = Envelope(s)
  BY DEF IInv, FlowInv, FlowTypeOK, SubmitOK
<1>2. ASSUME Once!Ordered(s) PROVE Envelope(s) \in ledger
  <2>1. PICK x \in Requests : <<s, x>> \in Ordered
    BY <1>2 DEF Once!Ordered, Ordered
  <2>2. PICK e \in ledger : <<s, x>> = <<e[1], e[2].bytes>>
    BY <2>1 DEF Ordered
  <2> QED
    BY <1>1, <2>2
<1>3. ASSUME Envelope(s) \in ledger PROVE Once!Ordered(s)
  <2>1. PICK e \in ledger : e = Envelope(s)
    BY <1>3
  <2>2. e[1] = s /\ e[2] \in Transactions
    BY <1>1, <2>1 DEF Envelope
  <2>3. e[2].bytes \in Requests /\ <<s, e[2].bytes>> \in Ordered
    BY <2>1, <2>2 DEF Transactions, Ordered
  <2> QED
    BY <2>3 DEF Once!Ordered, Ordered
<1> QED
  BY <1>2, <1>3

(* Initially no submit has a verdict and the ledger is empty.               *)
LEMMA InitMapsToOnce == Init => Once!Init
<1> SUFFICES ASSUME Init PROVE Once!Init
  OBVIOUS
<1>1. \A s \in SubmitOps : SubmitVerdict(s) = "none"
  BY Kinds DEF Init, SubmitVerdict, At
<1>2. {<<e[1], e[2].bytes>> : e \in ledger} = {}
  BY DEF Init
<1> QED
  BY <1>1, <1>2 DEF Once!Init

(* A step of one operation leaves the verdicts on the other submits; its    *)
(* own follows from the invariant before and after.                         *)
LEMMA OpStepMapsToOnce ==
  ASSUME IInv, IInv', NEW o \in Queries, UNCHANGED ledger,
         \A p \in Queries : p # o => step'[p] = step[p] /\ verdict'[p] = verdict[p],
         o \in SubmitOps =>
           /\ step[o] # "done" /\ step'[o] # "idle"
           /\ step[o] = "idle" => step'[o] # "done"
           /\ step'[o] = "done" => Envelope(o)' = Envelope(o)
  PROVE  [Once!Next]_Once!vars
<1>1. \A s \in SubmitOps : s # o => SubmitVerdict(s)' = SubmitVerdict(s)
  BY Kinds DEF SubmitVerdict, At
<1>2. Ordered' = Ordered
  BY DEF Ordered
<1>3. CASE o \notin SubmitOps
  <2>1. Told' = Told
    BY <1>1, <1>3 DEF Told
  <2> QED
    BY <1>2, <2>1 DEF Told, Ordered, Once!vars
<1>4. CASE o \in SubmitOps
  <2>1. Told' = [Told EXCEPT ![o] = SubmitVerdict(o)'] /\ Told[o] = SubmitVerdict(o)
    BY <1>1, <1>4 DEF Told
  <2>2. ASSUME NEW v, SubmitVerdict(o)' = v PROVE Once!Tell(o, v)
    BY <2>1, <2>2 DEF Told, Once!Tell
  <2>3. CASE step[o] = "idle"
    <3>1. SubmitVerdict(o) = "none" /\ SubmitVerdict(o)' = "pending"
      BY <1>4, <2>3 DEF SubmitVerdict, At
    <3>2. Once!Call(o)
      BY <1>2, <2>1, <2>2, <3>1 DEF Once!Call, Told, Ordered
    <3> QED
      BY <1>4, <3>2 DEF Once!Next
  <2>4. CASE step[o] # "idle" /\ step'[o] # "done"
    <3>1. SubmitVerdict(o) = "pending" /\ SubmitVerdict(o)' = "pending"
      BY <1>4, <2>4 DEF SubmitVerdict, At
    <3>2. Told' = Told
      BY <1>1, <3>1 DEF Told
    <3> QED
      BY <1>2, <3>2 DEF Told, Ordered, Once!vars
  <2>5. CASE step[o] # "idle" /\ step'[o] = "done"
    <3>1. SubmitVerdict(o) = "pending"
      BY <1>4, <2>5 DEF SubmitVerdict, At
    <3>2. CASE verdict'[o] = "ok"
      <4>1. SubmitVerdict(o)' = "ok"
        BY <2>5, <3>2 DEF SubmitVerdict, At
      <4>2. Envelope(o) \in ledger
        BY <1>4, <2>5, <3>2 DEF IInv, FlowInv, SubmitOK
      <4>3. Once!Ordered(o)
        BY <1>4, <4>2, OrderedIsAccepted
      <4>4. Once!Succeed(o)
        BY <1>2, <2>1, <2>2, <3>1, <4>1, <4>3 DEF Once!Succeed, Told, Ordered
      <4> QED
        BY <1>4, <4>4 DEF Once!Next
    <3>3. CASE verdict'[o] # "ok"
      <4>1. SubmitVerdict(o)' = "unsure"
        BY <2>5, <3>3 DEF SubmitVerdict, At
      <4>2. Once!FailUnsure(o)
        BY <1>2, <2>1, <2>2, <3>1, <4>1 DEF Once!FailUnsure, Told, Ordered
      <4> QED
        BY <1>4, <4>2 DEF Once!Next
    <3> QED
      BY <3>2, <3>3
  <2> QED
    BY <2>3, <2>4, <2>5
<1> QED
  BY <1>3, <1>4

(* The orderer accepts at most one transaction of a submit.                 *)
LEMMA OrdererMapsToOnce ==
  ASSUME IInv, NEW e \in envelopes, OrdererAccepts(e)
  PROVE  Once!Next
<1>1. PICK s \in SubmitOps, x \in Transactions : e = <<s, x>>
  BY DEF IInv, FlowInv, FlowTypeOK
<1>2. SubmitOK(s) /\ s \in Queries
  BY Kinds DEF IInv, FlowInv
<1>3. e = Envelope(s) /\ step[s] \in {"broadcasting", "done"} /\ verdict[s] # "ok"
  BY <1>1, <1>2 DEF SubmitOK, OrdererAccepts
<1>4. SubmitVerdict(s) \in {"pending", "unsure"}
  BY <1>3 DEF SubmitVerdict, At
<1>5. Told' = Told
  BY DEF Told, SubmitVerdict, At, OrdererAccepts, flowVars
<1>6. ~Once!Ordered(s)
  BY <1>3, OrderedIsAccepted DEF OrdererAccepts
<1>7. x.bytes \in Requests /\ e[1] = s /\ e[2] = x
  BY <1>1 DEF Transactions
<1>8. Ordered' = Ordered \cup {<<s, x.bytes>>}
  <2>1. ledger' = ledger \cup {e}
    BY DEF OrdererAccepts
  <2> QED
    BY <1>7, <2>1 DEF Ordered
<1>9. Once!Order(s, x.bytes)
  BY <1>4, <1>5, <1>6, <1>8 DEF Once!Order, Told, Ordered
<1> QED
  BY <1>7, <1>9 DEF Once!Next

(* Every step is one of SubmitOnce or a stutter of it.                      *)
LEMMA NextMapsToOnce == IInv /\ IInv' /\ [Next]_vars => [Once!Next]_Once!vars
<1> SUFFICES ASSUME IInv, IInv', [Next]_vars PROVE [Once!Next]_Once!vars
  OBVIOUS
<1>0. FlowTypeOK
  BY DEF IInv, FlowInv
<1>1. ASSUME NEW o \in Queries, NEW where \in Steps, Go(o, where), UNCHANGED verdict
      PROVE  step'[o] = where
             /\ \A p \in Queries : p # o => step'[p] = step[p] /\ verdict'[p] = verdict[p]
  BY <1>0, <1>1, GoFacts
<1>2. ASSUME NEW o \in Queries, NEW r, End(o, r)
      PROVE  step'[o] = "done"
             /\ \A p \in Queries : p # o => step'[p] = step[p] /\ verdict'[p] = verdict[p]
  BY <1>0, <1>2 DEF FlowTypeOK, End, Go
<1>3. {"idle", "resumed", "discovering", "endorsing", "signing", "broadcasting"} \subseteq Steps
  BY DEF Steps
<1>4. ASSUME NEW o \in Queries, o \notin SubmitOps, UNCHANGED ledger,
             \/ \E r : End(o, r)
             \/ \E where \in Steps : Go(o, where) /\ UNCHANGED verdict
      PROVE  [Once!Next]_Once!vars
  BY <1>1, <1>2, <1>4, OpStepMapsToOnce
<1>5. CASE UNCHANGED <<step, verdict, ledger>>
  BY <1>5 DEF SubmitVerdict, At, Once!vars
<1>6. ASSUME NEW k \in Requests, Build(k) PROVE [Once!Next]_Once!vars
  <2>1. UNCHANGED ledger
    BY <1>6 DEF Build, BuildFromCache, BuildDiscovers, BuildFromDiscovery, netVars
  <2>2. \/ \E r : End(k, r)
        \/ \E where \in Steps : Go(k, where) /\ UNCHANGED verdict
    BY <1>3, <1>6
       DEF Build, BuildFromCache, BuildDiscovers, BuildFromDiscovery, Snapshot, DiscoverFor
  <2> QED
    BY <1>4, <2>1, <2>2, Kinds
<1>7. ASSUME NEW o \in ProposalOps,
             \/ Revalidate(o) \/ SendProposal(o) \/ Conclude(o)
             \/ \E p \in Peers : PeerFails(o, p) \/ \E x \in Payloads : PeerEndorses(o, p, x)
             \/ \E k \in Requests : Resume(o, k)
      PROVE  [Once!Next]_Once!vars
  <2>1. UNCHANGED ledger
    BY <1>7 DEF Revalidate, SendProposal, Conclude, PeerFails, PeerEndorses, Resume, netVars
  <2>2. \/ \E r : End(o, r)
        \/ \E where \in Steps : Go(o, where) /\ UNCHANGED verdict
        \/ UNCHANGED <<step, verdict>>
    BY <1>3, <1>7
       DEF Revalidate, DiscoverFor, SendProposal, Conclude, PeerFails, PeerEndorses, Resume, Reject
  <2> QED
    BY <1>4, <1>5, <2>1, <2>2, Kinds
<1>8. ASSUME NEW s \in SubmitOps,
             \/ Signed(s) \/ OrdererFound(s) \/ BroadcastEnds(s)
             \/ \E o \in EndorseOps : StartSubmit(s, o)
      PROVE  [Once!Next]_Once!vars
  <2>1. UNCHANGED ledger /\ step[s] # "done"
    BY <1>8
       DEF Signed, OrdererFound, BroadcastEnds, StartSubmit, Broadcast, SubmitFails, At, netVars
  <2>2. \/ step[s] # "idle" /\ (\E r : End(s, r)) /\ UNCHANGED <<transaction, submitted>>
        \/ \E where \in {"discovering", "broadcasting", "signing"} : Go(s, where) /\ UNCHANGED verdict
    BY <1>8 DEF Signed, OrdererFound, BroadcastEnds, StartSubmit, Broadcast, SubmitFails, At,
                DiscoverFor, opVars
  <2>3. CASE step[s] # "idle" /\ (\E r : End(s, r)) /\ UNCHANGED <<transaction, submitted>>
    <3>1. Envelope(s)' = Envelope(s)
      BY <2>3 DEF Envelope
    <3> QED
      BY <1>2, <2>1, <2>3, <3>1, Kinds, OpStepMapsToOnce
  <2>4. CASE \E where \in {"discovering", "broadcasting", "signing"} : Go(s, where) /\ UNCHANGED verdict
    BY <1>1, <1>3, <2>1, <2>4, Kinds, OpStepMapsToOnce
  <2> QED
    BY <2>2, <2>3, <2>4
<1>9. ASSUME NEW e \in envelopes, OrdererAccepts(e) PROVE [Once!Next]_Once!vars
  BY <1>9, OrdererMapsToOnce DEF IInv
<1>10. SessionStep \/ UNCHANGED vars => UNCHANGED <<step, verdict, ledger>>
  BY DEF SessionStep, vars, flowVars, netVars
<1> QED
  BY <1>5, <1>6, <1>7, <1>8, <1>9, <1>10 DEF Next, OpStep

(* For every instance each SubmitAsync of an endorsed transaction keeps     *)
(* what SubmitOnce promises: it orders that transaction at most once, and   *)
(* "ok" is said of an ordered one only.                                     *)
THEOREM OfflineSigningImplementsSubmitOnce == Spec => ImplementsSubmitOnce
BY InitMapsToOnce, NextMapsToOnce, Invariance, PTL
   DEF Spec, ImplementsSubmitOnce, Once!Spec

=============================================================================
