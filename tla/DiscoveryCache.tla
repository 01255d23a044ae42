--------------------------- MODULE DiscoveryCache ---------------------------
(***************************************************************************)
(* The discovery cache of one SDK instance (src/src/cache/DiscoveryCache.ts *)
(* of the Node bridge): the last discovery result of every channel, whether *)
(* its time to live has passed, and the round-robin counters of the         *)
(* single-peer path.  One cache is shared by every contract, every network  *)
(* and every call in flight of the bridge that owns it.                     *)
(*                                                                          *)
(* A discovery result is kept as the list of its peers, in the order the    *)
(* single-peer path sorts them in, and whether it names an orderer.  Time   *)
(* is kept as "the entry is still fresh": Expire is the moment Date.now()   *)
(* passes expiresAt.                                                        *)
(***************************************************************************)
EXTENDS PeerOrder

CONSTANTS
  Channels,          \* channels the bridge is used on
  Peers,             \* peer endpoints
  DiscoveryResults,  \* what a discovery request may return
  NoResult           \* no cache entry

(* A successful discovery names at least one peer, and no endpoint twice.   *)
ASSUME DiscoveryAssumption ==
  /\ NoResult \notin DiscoveryResults
  /\ \A r \in DiscoveryResults :
       /\ r \in [peers: Seq(Peers), orderer: BOOLEAN]
       /\ r.peers # <<>>
       /\ NoRepeats(r.peers)

VARIABLES
  cache,     \* cache[ch]: the discovery result kept for channel ch
  fresh,     \* the channels whose entry is within its time to live
  counters   \* counters[key]: the next round-robin start of a peer set

cacheVars == <<cache, fresh, counters>>

-----------------------------------------------------------------------------

(* The string `${channelName}:${endpoints.join("|")}` as a pair.            *)
RoundRobinKey(ch, peers) == <<ch, peers>>

PeerLists == {r.peers : r \in DiscoveryResults}
Keys == {RoundRobinKey(ch, s) : ch \in Channels, s \in PeerLists}

CacheTypeOK ==
  /\ cache \in [Channels -> DiscoveryResults \cup {NoResult}]
  /\ fresh \in SUBSET Channels
  /\ counters \in [Keys -> Nat]

CacheInit ==
  /\ cache = [ch \in Channels |-> NoResult]
  /\ fresh = {}
  /\ counters = [k \in Keys |-> 0]

(* get() hands out the entry whether or not it has expired.                 *)
CacheGet(ch) == cache[ch]

IsStale(ch) == cache[ch] = NoResult \/ ch \notin fresh

\* mutant: the rotation begins anew with every new listing
CacheSetAnew(ch, r) ==
  /\ cache' = [cache EXCEPT ![ch] = r]
  /\ fresh' = fresh \cup {ch}
  /\ counters' = [k \in Keys |-> 0]

CacheSet(ch, r) ==
  /\ cache' = [cache EXCEPT ![ch] = r]
  /\ fresh' = fresh \cup {ch}
  /\ UNCHANGED counters

(* clear() without a channel name; a counter that is absent reads as zero.  *)
CacheClear ==
  /\ cache' = [ch \in Channels |-> NoResult]
  /\ fresh' = {}
  /\ counters' = [k \in Keys |-> 0]

RoundRobinIndex(k, size) == counters[k] % size

AdvanceRoundRobin(k, size) ==
  /\ counters' = [counters EXCEPT ![k] = (@ + 1) % size]
  /\ UNCHANGED <<cache, fresh>>

Expire(ch) ==
  /\ ch \in fresh
  /\ fresh' = fresh \ {ch}
  /\ UNCHANGED <<cache, counters>>

=============================================================================
