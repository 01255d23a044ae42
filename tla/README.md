# A TLA+ model of fabric-bridge-sdk

The SDK lets an application talk to Hyperledger Fabric either through a Fabric
Gateway or, where there is none, directly to the peers and the orderer. It is
written twice, in TypeScript for Node (`src/`) and in Go
(`go/fabricbridge/`), and the two share their documents (`CONTEXT.md`,
`docs/adr/`). Paths below are relative to the repository.

The direct path is where the SDK does what the Gateway would do: it discovers
peers, picks one, fails over to another, collects endorsements, assembles a
transaction and broadcasts it. That is its core logic and where its hard
behaviour lives, so it is what the models begin with. The question behind them
all is the one an application has after an error: *is my transaction ordered,
may it still be, may I send it again?* Around that core are the flows that sign
offline, the Gateway path, the waits for commits, and the objects that own the
connections, whose calls overlap in ways no test orders.

## 1. Inventory

| Component | Code | State | Operations | Hard behaviour | What makes it correct |
|---|---|---|---|---|---|
| Discovery cache and round-robin counters (Node) | `src/cache/DiscoveryCache.ts` | entry and expiry per channel, counter per peer list | get, set, isStale, clear, nextRoundRobinIndex | shared by every call of the instance, cleared under calls in flight, `get` ignores expiry | fair turns, no call breaks on an entry that changed |
| Discovery session (Node) | `src/peer/PeerDiscoverySession.ts` | none of its own | discover, background retry | answers out of order, failure falls back to an old entry, retry without delay | what is no fallback is recent, whatever answers overtake; retries end |
| Single-peer submit and evaluate (Node) | `src/peer/PeerContract.ts:345-676`, `DirectPeerRuntime.ts`, `failoverEligibility.ts`, `peerSelection.ts` | plan, attempt, failures of a call | SubmitAsync, Evaluate | interleaved calls, failover, deadlines, late answers, lost broadcast answers | at most one transaction ordered per call, honest verdicts, every peer at most once |
| Single-peer submit and evaluate (Go) | `network.go:511-653`, `singlepeer.go`, `failover.go`, `orderer_submit.go` | as above; counters behind a mutex | SubmitAsync, Evaluate | goroutines, contexts, refusals that are plain errors | as above |
| Explicit endorsement (Node; a twin in Go) | `PeerContract.ts:672-750,1228-1318`, `explicit_endorsement.go` | answers of the peers of a call | submit and evaluate on chosen peers | fan-out, one of several fails, payloads disagree | only equal, complete endorsements become a transaction |
| Offline signing (Node; a twin in Go) | `src/offlineSigning.ts`, `PeerContract.ts:925-1187`, `offline.go` | serialized signing requests with a peer snapshot | build, sign, resume, endorse, submit | resume in another process and another membership, a broadcast whose answer is lost | all the peers of the message or none, one payload per transaction |
| Bridge and Gateway connection (Node) | `src/FabricBridge.ts`, `src/gateway/GatewayConnection.ts` | connection, `isConnected` | connect, disconnect, getNetwork, commit status | connect during connect, disconnect during a wait, two timers | flag and connection agree, a commit result belongs to its transaction |
| Commit waits of direct submits (Node) | `DirectPeerRuntime.ts:96-112`, `FabricBridge.ts:375-400`, `PeerContract.ts:1189-1226` | a promise per transaction, a connection per wait | WaitForCommit | several callers of one promise, a connection that fails to open | all are told the same, every connection is closed |
| Gateway path (Node) | `src/gateway/GatewayContract.ts` | signed messages, submitted transactions | Submit, Evaluate, offline signing, WaitForCommit | damaged messages, errors classified by type and text, statuses that never come | at most one transaction ordered per submit, a damaged message never reaches the Gateway |
| Transaction targeting | `src/transactionTargeting.ts`, `FabricBridge.ts:291-492` | targeting mode of a transaction object | UseSinglePeer, UseEndorsingPeers | read after an await | last call wins, a running call keeps its targeting |
| Bridge lock and connection (Go) | `bridge.go` | connection behind an RWMutex | Connect, Disconnect, Network, IsConnected, commit status | lock held over remote calls, flag read without it | Disconnect ends, no use of a closed connection |
| Proposal creator (Go) | `explicit_endorsement.go:15-50` | one field of a transaction, swapped during a call | build a peer proposal | two calls on one transaction | a call signs as the identity it was given |
| Failover classification, endpoint identity | `failoverEligibility.ts`, `endpointIdentity.ts`, `failover.go`, `peer_endpoint_identity.go` | none | classify, normalize, dedupe | errors known by their text only | the documented classes; one identity per endpoint |
| Orderer broadcast stream (Node) | `DirectPeerRuntime.ts:174-222` | one settled flag | broadcast | data, error, end and deadline in any order | settled once, by the first event |
| Chaincode event stream (Go) | `events.go` | a buffer of received events | open, Recv | responses of several events, an end or a disconnect while some are buffered | in order, each once, the end after the last |
| Signing, protobuf encoding, configuration, logging | `signers.ts`, `PeerProposalBuilder.ts`, `config.go`, ... | none | conversions | none | data, not control |

How they interact: a `FabricBridge` owns one `DiscoveryCache` and hands it to
every network, contract and transaction it makes. A single-peer call reads the
cache (it asks the discovery service only when there is no entry), draws a
start from the shared counters, and runs its attempts; for a submit it
then reads the cache *again* to find the orderer, unless one is configured.
`disconnect()` clears the cache and the counters under whatever is in flight.
Explicit and offline calls use the same cache, peers and orderer. In Go nothing
is cached: every call discovers, and only the round-robin counters and the
bridge's mode are shared, behind mutexes.

`PROJECT.json` lists the hazards of this code, each at its line, with the
properties that would catch it or the reason why none does.

## 2. Plan

Most important behaviour first; every module is written to be proved about, so
recursion is by recursive functions and there is no RECURSIVE operator.

| # | Module | Models | Composes / refines | State |
|---|---|---|---|---|
| 1 | `SinglePeerSubmit` | Node single-peer calls | extends `DiscoveryCache`, `PeerOrder`; refines `SubmitOnce` | modelled; types, safety, fair turns and refinement proved |
| 2 | `GoSinglePeerSubmit` | Go single-peer calls | extends `PeerOrder`; refines `SubmitOnce` | modelled; types, safety, fair turns and refinement proved |
| 3 | `ExplicitEndorsement` | fan-out to chosen peers | extends `DiscoveryCache`; refines `SubmitOnce` | modelled; types, safety and refinement proved |
| 4 | `DiscoverySession` | discover with time to live, stale fallback, background retry | extends `DiscoveryCache` | modelled; types and recent listings proved |
| 5 | `OfflineSigning` | signing request, resume, endorse, evaluate, submit | extends `DiscoverySession`; refines `SubmitOnce` | modelled; types, safety and refinement proved |
| 6 | `GatewayConnection`, `BridgeConnection` | connections; the bridge that owns them | one extends the other | modelled; safety proved |
| 7 | `DirectCommitWait` | commit waits of direct submits | extends `GatewayConnection` | modelled; safety proved |
| 8 | `EndpointIdentity`, `TransactionTargeting` | peer names; the transaction builder | one extends the other | modelled; paths, settings and names proved |
| 9 | `GatewayPath` | transactions through the Gateway | refines `SubmitOnce` | modelled; types, safety and refinement proved |
| 10 | `GoBridge` | the Go bridge's lock, commit waits and event streams | on its own | modelled; types and safety proved |

Every safety property the runs check is a theorem (section 6). What may follow
are the promises of `SubmitOnce` as a theorem of its own, action properties (a
verdict once told stays, a settled wait never reopens) and an abstract
specification of the commit waits. What is left out of the models is in section 7.

## 3. Modules

| Module | What it is |
|---|---|
| `PeerOrder` | lists without repeats, and `RotateFrom`, the rotation both bridges use |
| `DiscoveryCache` | the Node cache: `cache`, `fresh`, `counters` and one operator per method |
| `SinglePeerSubmit` | the Node single-peer path on one bridge instance |
| `GoSinglePeerSubmit` | the Go single-peer path on one bridge instance |
| `SubmitOnce` | abstract specification: what a submit promises its caller |
| `ExplicitEndorsement` | the Node explicit endorsement path on one bridge instance |
| `DiscoverySession` | `discover()` over time and a service that fails |
| `OfflineSigning` | offline signing on the direct path, over `DiscoverySession` |
| `GatewayConnection` | the connection objects of the Node bridge |
| `BridgeConnection` | the bridge that makes, replaces and closes them |
| `DirectCommitWait` | the commit waits of direct submits, each with a connection |
| `EndpointIdentity` | pure: what a peer name becomes, and what is expected of a list of them |
| `TransactionTargeting` | the builder of a transaction and the calls on it |
| `GatewayPath` | transactions through the Gateway, online and signed offline |
| `GoBridge` | a connected Go bridge shared by goroutines |
| `MC...` | an instance of the module for TLC: peers, listings, names |
| `PeerOrderProofs` | rotations and round-robin laps |
| `SinglePeerSubmitProofs`, `GoSinglePeerSubmitProofs`, `ExplicitEndorsementProofs`, `GatewayPathProofs`, `GoBridgeProofs` | theorems about the module of that name |
| `OfflineSigningProofs` | theorems about `DiscoverySession` and `OfflineSigning` |
| `FabricBridgeProofs` | theorems about `BridgeConnection`, `DirectCommitWait`, `TransactionTargeting` and `EndpointIdentity` |

### SubmitOnce

A call has a *verdict* (`none`, `pending`, `ok`, `safe`, `unsure`) and the
orderer a *ledger* of pairs of a call and a transaction. At most one
transaction per call enters the ledger; `ok` needs one there; `safe` may be
told only when none is there, and none can enter afterwards; after `unsure`
one may still enter.

### SinglePeerSubmit (Node)

An action is what JavaScript runs between two awaits, so interleaving is
exactly that of the event loop. `pc` says which await a call is at:

| `pc` | awaiting | leaves by |
|---|---|---|
| `idle` | the application | `StartFromCache`, `StartDiscovery` |
| `discovering` | discovery service | `DiscoveryAnswers`, `DiscoveryFails` |
| `selecting` | (ensureDiscovery's continuation) | `Select`: sort, draw the counter, rotate |
| `signing` | signer of the proposal | `SendProposal`, `SigningFails` |
| `endorsing` | peer | `PeerEndorses`, `PeerFails`, `ProposalDeadline` |
| `endorsed` | signer of the transaction | `SignTransaction`, `SigningFails` |
| `resolving` | (continuation of the signing) | `Broadcast`, `NoOrderer`, `OrdererSetupFails`, `Rediscover` |
| `rediscovering` | discovery service | `RediscoveryAnswers`, `RediscoveryFails` |
| `broadcasting` | orderer's stream | `BroadcastSucceeds`, `BroadcastFails` |

`CatchFailure` is the catch block of `executeSinglePeer`: classify, record,
then return the mapped error, or the exhausted failover, or go on. Errors are
the names the code gives them; what has no such name (a gRPC status, an error
of the signer) is `unreachable` or `unknown`, which is all the loop makes of
its code and text. A discovery result is the list of its peers and whether it
names an orderer. A transaction is `<<call, attempt>>`, since every attempt
builds a proposal with a new nonce. Time is "the entry is still fresh" and
"the deadline passes"; an answer after its deadline is dropped, as in the code.
The orderer accepts an envelope at any time after it was written, whether or
not its sender still waits. `Disconnect` and another flow's discovery change
the cache between any two steps.

### GoSinglePeerSubmit

An action ends where a goroutine blocks. What differs from Node is modelled as
it is: discovery per call; one signed proposal for all attempts of a submit, so
one transaction; validation and submission outside the loop for a submit and
inside it for an evaluation; the caller's context, which expires or is
cancelled, as the only bound on an endorsement; `SortedByURL` as the key of the
counters. `ctx` is the caller's context; `refused` remembers which peers
refused a call.

### ExplicitEndorsement (Node)

`named` are the peers of `UseEndorsingPeers`, as a set, since `resolvePeerInfos`
drops duplicates; `answers[c][p]` is the promise of peer `p` in the array given
to `Promise.all`. `pc` goes `idle`, (`discovering`,) `targeting`, `signing`,
`endorsing`, and for a submit on through `endorsed`, `resolving` and
`broadcasting` as above. `Target` looks all peers up before anything is sent;
`SendProposals` starts every promise at once. The first `PeerFails` while the
call is `endorsing` ends it; answers and failures that come later settle their
promise and change nothing else, though the peer has signed by then, which
`signed` remembers. `Assemble` is all answers having the same payload; a payload
is a token. An evaluation ends there, a submit builds the `Envelope`. There is
no failover, so any error ends the call through `MapSubmitError` or
`MapEvaluateError`; the text of an unnamed error matters only if it speaks of a
timeout. `discovered` is history: the peers any discovery named for a channel.

### DiscoverySession and OfflineSigning (Node)

`DiscoverySession` is `discover()`: `Begin` returns a fresh entry or asks;
`ServiceLists` is the moment the service reads its membership, `Answered` the
moment the bridge gets the listing and caches it, and other answers, changes of
membership and a disconnect may come between. `Failed` returns the entry the
query read *before* it asked, of any age, and starts the timer that tries
again. Time is counted in ticks up to `Horizon`; no tick passes a due deadline.
`lastListed` and `age` are history.

`OfflineSigning` adds the flows: `Build` is `NewUnsignedProposal` (which takes a
cached entry of any age), `Resume` is `NewSignedProposal` on a message that may
be damaged in one of `Damages`, `Revalidate` and `SendProposal` are the check of
the message's peers against a discovery and the sending, `Conclude` is the
validation,
and `Signed`, `OrdererFound` and `BroadcastEnds` submit what was endorsed, as
often as there are `SubmitOps`. An operation and the query it makes have one
name, so `Discovered(o)` is the return of its `discover()`. Nothing binds the
peers of a message to its request but the number of one peer that a request for
a single peer has (`Accepted`), so `SnapshotIsExact` speaks of the peers the
*message* names: all of them are asked, all of them are in the listing the
resume was given, and they are one if the request was for one. That the message
names the peers of its request is up to whoever carries it (the damage
`second peer` changes them).

### GatewayConnection, BridgeConnection and DirectCommitWait (Node)

`GatewayConnection` has what one object does between two awaits: `connect()`
creates the client, waits for it to be ready against two timers of one delay,
then makes the Gateway; `getCommitStatus()` checks the client, awaits the
signer, and uses the client again, when it may be gone. `BridgeConnection` owns
the objects: `current` is replaced before the new one is ready, `isConnected` is
set by the continuation of `connect()` and cleared by the one of `disconnect()`,
after `setImmediate`, which runs after the continuations that are due. An
application is taken to disconnect before it connects again; its calls overlap
in every other way.

In `DirectCommitWait` a wait, its connection and its status call have one name
(`WaitsAreConnections`; the instance for TLC assumes it, so TLC evaluates it).
The callers of an online transaction share one promise, which begins when the
submit returns; each caller of an offline transaction begins its own. When
`connect()` fails, `waitForCommit` returns before its `try`
(`DirectPeerRuntime.ts:101-104`) and leaves the client open, so
`ConnectionsAreClosed` speaks of the waits that were connected.

### EndpointIdentity and TransactionTargeting (Node)

An endpoint is a record of its scheme, host, case, port and path; `Normalize`
is the two branches of `normalizePeerEndpointIdentity` with what the URL parser
does to ports. `Dedupe` is the loop over the names, `DedupedTo[n]` what it has
after `n` of them. `InOrderOfNaming` says without a loop what is expected: the
identities of the names and no others, each where it was first named.
`TransactionTargeting` is the builder with its setters, and calls that choose
the Gateway or the peers when they begin and read everything else after an
await. `MaxSetters` bounds the setters.

### GatewayPath (Node)

The client library is external: it endorses, signs and submits, and fails with
an `EndorseError`, a `SubmitError` or another error, whose text may speak of a
timeout. What the bridge makes of it (`MapSubmitError`, `Read` for signed
messages, the mapping of evaluations) is the code's. `Tx(s)` is the transaction
a submit is about; a resumed one may be submitted several times under one
identity. A wait here is a status call with a deadline; the bridge gives none to
`endorse`, `submit` and `evaluate`.

### GoBridge (Go)

`modeMu` is modelled as a `sync.RWMutex`: a `Disconnect` that waits (`writer`)
keeps new readers out and waits for those inside. A commit wait (`Waits`)
calls the Gateway inside the lock, and so do `evaluate` and `submitAsync` of a
contract (`Transactions`, `network.go:69,112`); the three are bounded by the
caller's context alone. They differ in that a wait looks at `connected` first,
and a contract, which a caller may keep beyond a `Disconnect`, does not: its call
on a closed connection fails. `WaitForCommit` of a submitted transaction
(`waitForGatewayCommit`) takes no lock, and `NewSignedProposal` takes it as
`Network` does. A stream is opened inside the lock and read outside. A response
carries none, one or several events; `pending` is the buffer of `Recv`.
`MaxEvents` bounds the events of a stream, and one response is on the wire at a
time.

## 4. What the runs show

`PROJECT.json` names the properties of each run. All state spaces are finite
without a state constraint: a call makes at most one attempt per peer, every
set of calls is finite, and `Horizon`, `MaxSetters` and `MaxEvents` bound time,
setters and events. `turns` is bounded because each call selects once. A retry
chain goes round without a counter.

| Run | Instance | Shows |
|---|---|---|
| `single_peer` | 1 submit, 1 evaluation, listings of 3 peers with an orderer and 1 without | failover is complete, never repeats a peer and stops at a refusal, turns are fair, `SubmitOnce` is implemented and every call returns, while the cache changes under the calls |
| `go_single_peer` | 1 submit with a deadline, 2 evaluations, listings of 2 peers and of 1 | the same of Go, with contexts that end; the bounded call returns |
| `go_silent_peer` | 1 submit without a deadline | *violation*: see below |
| `explicit` | 1 submit, 1 evaluation, 2 peers, 2 payloads, all choices of names | only unanimous endorsements are returned or broadcast; no peer is asked that was not discovered; `SubmitOnce` is implemented; every call returns |
| `discovery` | 3 queries, 2 memberships, time to live and deadline of 1, 3 ticks | a listing that is no fallback is recent; every retry chain ends once the service stays up |
| `offline` | 1 request, 1 endorsement, 1 evaluation, 1 submit, 3 kinds of damage | a proposal goes to all the peers of its message, which are listed, or to nobody; envelopes are unanimous; `SubmitOnce` is implemented; every operation returns |
| `offline_outage` | 1 request, 1 endorsement, a service that fails | *violation*: see below |
| `bridge` | 2 connects, 2 disconnects, 1 wait, 1 use of a network | a bridge that says it is connected can be used; nothing is sent over a connection that was closed or replaced; every call returns |
| `commit` | 2 callers, 1 online and 1 offline transaction, a signer that fails | waiters of one promise agree; connections are closed; every wait returns |
| `targeting` | 2 calls, 3 setters, 6 lists of names | a call keeps its path and runs with the settings of one moment; names are deduplicated |
| `gateway` | 1 submit, 1 evaluation, 1 request resumed twice, 1 submit of it, 2 waits, 5 kinds of damage | statuses are true; damaged messages never reach the Gateway; `SubmitOnce` is implemented; every wait returns |
| `go_bridge` | 1 lookup, 1 wait with a deadline, 1 call of a contract without one, 1 stream of 2 events, 2 disconnects | no call uses a closed connection; events arrive in order; only a call to the Gateway without a deadline can block |

Why the bounds are enough. Calls do not communicate but through the cache, the
counters and the ledger, and `OtherFlowDiscovers` and `Disconnect` already set
the cache arbitrarily, as any number of other calls would; two calls show every
way one can disturb another between two of its steps. Three peers have a first,
a middle and a last attempt; a shorter listing makes a plan differ from the
listing that is current when the call goes on, and one with and one without an
orderer reach each branch of the orderer's resolution. Explicit and offline
calls compare the answers of a call pairwise: two peers and two payloads
already disagree, fail one after the other, or leave one answer behind. Two
queries overtake each other while a third, which failed, retries, and three
ticks let an entry be fetched, expire and be returned after it has expired.
Turns become unfair over two peers with three calls, which `go_single_peer`
has; for Node they are proved. A second `connect()` and a second
`disconnect()` are what it takes to close a connection that is not the one the
flag speaks of. Three setters are one of each kind between two calls.
`Offline.cfg` stops the clock, since no property of that run speaks of age, and
`offline_outage` runs it; it configures no orderer, so that a submit discovers
one. It has one submit, since submits share nothing but the transaction they
were given (two of them pass too, with an orderer configured). In `go_bridge` a wait and a
call of a contract are alike to the lock, so that one of each, one of them with a
deadline, is a call that must end behind one that need not; the run passes with
the deadline on the other one too. Deadlock is not checked in these runs: when all
calls have returned and the network has delivered what was sent, the system
stops.

### Divergences the runs show

- `go_silent_peer`: the direct Go endorsement has no deadline of its own, so a
  peer that accepts the call and never answers holds it, and failover, until
  the caller's context ends; the configured timeouts bound the Gateway only.
- `offline_outage`: `docs/adr/0004` has a resume fail when a recorded peer is
  absent from current discovery; with the service down the check is made
  against an entry of any age.

### Statements the code refutes, without a run of their own

Each is a definition with the line it quotes; as a property of an instance with
the constants given, TLC refutes it.

- `RoundRobinIsScopedToPeerSet` (`MCSinglePeerSubmit`, evaluations only,
  `DiscoveryResults <- SameHostResults`): round-robin is documented per
  effective peer set (`docs/adr/0001:32`), but the Node key joins the peers in
  the order of a sort by *host name*; peers of one host keep discovery's order,
  so one set may own several counters. The Go bridge sorts by URL.
- `AllRefusalsAreFinal` (`MCGoSinglePeerSubmit`): a Go evaluation that a
  chaincode refuses is classified by a text which quotes the chaincode; a
  message that speaks of a timeout sends it to the next peer
  (`CONTEXT.md:255`).
- `MalformedFailLocally` (`MCOfflineSigning`, all `Damages`): a message whose
  snapshot names no peer is resumed, and fails only after the network was asked
  for the channel's peers (`CONTEXT.md:208`).
- `DamagedAreOfflineSigningErrors` (`MCGatewayPath`, `Damages = {"bytes"}`):
  bytes that hold no proposal are a `SubmitError` (`CONTEXT.md:208`).
- `NothingIsThrown` (`MCBridgeConnection`): a contract used after a disconnect
  throws, and so does a status call whose signer fails (`CONTEXT.md:240`).
- `InvalidNamesAreConfigurationFailures` and `NothingIsRejected`
  (`MCTransactionTargeting`, `NamesWithURL` and `NamesWithBigPort`): a name with
  a scheme and no valid port throws in the setter, and a port above 65535 is
  accepted by it and throws in the call (`CONTEXT.md:192`, `:240`).

## 5. Fairness

Liveness is checked under weak fairness of what a call does by itself or when a
deadline of the code passes. Of the network nothing else is assumed: no peer,
Gateway or orderer need ever answer, no transaction need be committed.

- Node single-peer and explicit calls: `ClientStep(c)`. The event loop resumes a
  continuation that is ready, and discovery, endorsement and broadcast each
  pass a deadline to gRPC (`DirectDiscoveryClient.ts`,
  `DirectPeerRuntime.ts:46-58,61-94`). The signer carries no deadline; it is
  assumed to answer, which is an assumption on the application's code.
- Go single-peer calls: goroutines are scheduled; discovery and submit run under
  `context.WithTimeout`; a context with a deadline expires
  (`WF(ContextEnds(c, "expired"))` for `BoundedCalls`). The endorsement has only
  the caller's context, so `BoundedCallsReturn` speaks of `BoundedCalls` alone and
  `EveryCallReturns` fails.
- `DiscoverySession`: `QueryStep`, which has the deadline, the retry timer and
  the answer of a service that is up; `RetriesEnd` assumes `<>[]up` besides.
  `OfflineSigning`: `OpStep` of an operation that is `UnderWay`, and `QueryStep`;
  with the service down a query fails at its deadline.
- `BridgeConnection`, `DirectCommitWait`: continuations, the two timers of
  `connect()` (`GatewayConnection.ts:96-110`), `setImmediate`, and the deadline
  of a status call; the signer answers or fails.
- `GatewayPath`: only that a wait ends, by its deadline. `endorse`, `submit` and
  `evaluate` are given none, so no property says that they return.
- `GoBridge`: the scheduler runs each goroutine that can go on, the contexts of
  `DeadlineCalls` end, and a closed connection fails its streams and the calls
  made on it.

The application may never call: starting a call is not fair in any module, nor is
going on with a proposal it has resumed.

## 6. What is proved

TLAPS checks these for every set of calls, channels, peers, payloads, messages
and connections, every time to live and deadline, and every set of discovery
results that satisfies the assumptions:

| Module | Theorem | Property |
|---|---|---|
| `SinglePeerSubmitProofs` | `TypeCorrect` | `TypeOK` |
| | `OneEnvelopePerCall` | `AtMostOneEnvelope` |
| | `BroadcastsAreEndorsed` | `EnvelopesAreEndorsed` |
| | `OtherErrorsAreSafe` | `OnlySubmitErrorIsUnsure` |
| | `NoPeerIsAskedTwice` | `AttemptsVisitDistinctPeers` |
| | `ExhaustedCallsTriedAll` | `ExhaustionIsComplete` |
| | `RefusalEndsTheCall` | `NoFailoverAfterRefusal` |
| | `TurnsAreFair` | `RoundRobinIsFair` |
| | `SinglePeerImplementsSubmitOnce` | `ImplementsSubmitOnce` |
| `GoSinglePeerSubmitProofs` | `TypeCorrect` | `TypeOK` |
| | `SubmitsAreEndorsed` | `EnvelopesAreEndorsed` |
| | `SubmitRefusalsEndTheCall` | `SubmitRefusalsAreFinal` |
| | `ExhaustedCallsTriedAll` | `ExhaustionIsComplete` |
| | `TurnsAreFair` | `RoundRobinIsFair` |
| | `GoSinglePeerImplementsSubmitOnce` | `ImplementsSubmitOnce` |
| `ExplicitEndorsementProofs` | `TypeCorrect` | `TypeOK` |
| | `BroadcastsAreUnanimous` | `EnvelopesAreUnanimous` |
| | `ReturnedResultsAreUnanimous` | `ResultsAreUnanimous` |
| | `TargetsAreDiscovered` | `OnlyDiscoveredPeersAreAsked` |
| | `ExplicitImplementsSubmitOnce` | `ImplementsSubmitOnce` |
| `OfflineSigningProofs` | `SessionTypeCorrect` | `SessionTypeOK`, of the session alone |
| | `SessionListingsAreRecent` | `ListingsAreRecent`, of the session alone |
| | `OfflineListingsAreRecent` | `ListingsAreRecent`, under the flows of offline signing |
| | `TypeCorrect` | `OfflineTypeOK` |
| | `SnapshotsAreKept` | `SnapshotIsExact` |
| | `BroadcastsAreUnanimous` | `EnvelopesAreUnanimous` |
| | `OfflineSigningImplementsSubmitOnce` | `ImplementsSubmitOnce` |
| `FabricBridgeProofs` | `ConnectedBridgesAreUsable` | `ConnectedIsUsable` of `BridgeConnection` |
| | `CallsGoOutOnOpenConnections` | `CallsUseOpenConnection` of `BridgeConnection`, an action property |
| | `WaitersAgree` | `AllWaitersAgree` of `DirectCommitWait` |
| | `WaitStatusesAreTrue` | `StatusesAreTrue` of `DirectCommitWait` |
| | `WaitsCloseTheirConnections` | `ConnectionsAreClosed` of `DirectCommitWait` |
| | `PathsAreKept` | `PathIsKept` of `TransactionTargeting` |
| | `SettingsAreNotMixed` | `PreparedAtOneMoment`, of the settings as they are |
| | `SettingsOfOneMoment` | `SettingsAreOfOneMoment`, of the settings read canonically |
| | `NamesOfBuilder` | `NamesAreDeduplicated` |
| | `FailedSettersKeepTheBuilder` | `FailedSetterKeeps`, an action property |
| | `BridgeTypeCorrect`, `WaitTypeCorrect`, `BuilderTypeCorrect` | `TypeOK`, `WaitTypeOK`, `BuilderTypeOK` |
| | `DedupeIsInOrder` | for every list of endpoints, what `Dedupe` returns is `InOrderOfNaming` |
| | `DedupeTwice` | for every list of identities, what `Dedupe` returns it returns again |
| `GatewayPathProofs` | `TypeCorrect` | `TypeOK` |
| | `StatusesMatchTheLedger` | `StatusesAreTrue` |
| | `DamagedNeverReachTheGateway` | `DamagedAreRefused` |
| | `GatewayPathImplementsSubmitOnce` | `ImplementsSubmitOnce` |
| `GoBridgeProofs` | `TypeCorrect` | `TypeOK` |
| | `ReadersKeepTheConnection` | `CheckedConnectionIsOpen` |
| | `EventsInOrder` | `EventsArriveInOrder` |

So each of the five ways to submit is proved to implement `SubmitOnce`.

So is every safety property that a run checks.

`FabricBridgeProofs` has three specifications side by side. `BridgeConnection`
and `DirectCommitWait` both extend `GatewayConnection` and use its variables,
each for its own connections; the formulas are `Spec`, `WaitSpec` and
`BuilderSpec`.

### Assumptions

TLC evaluates each on every run of its module.

- `DiscoveryAssumption`, `GoDiscoveryAssumption`: a discovery that succeeds names
  at least one peer and none twice, as `DirectDiscoveryClient.ts:113-239` and
  `direct_discovery.go:149-226` see to; in Go, sorting a set of peers gives a list
  of exactly that set.
- `CallsAssumption`, `GoCallsAssumption`, `ExplicitCallsAssumption`: a call is a
  submit or an evaluation. `OfflineAssumption`, `PathAssumption`: an operation is
  of one kind, since each is a method called on an object of its own.
- `PayloadsAssumption`, `OfflinePayloadsAssumption`: a payload is not one of the
  marks for an answer that is awaited, refused or never asked for, which are not
  payloads in the code either.
- `SessionAssumption`: time to live, deadline and horizon are numbers; nothing
  relates them.
- `ConnectionAssumption`, `NobodyIsNoCall`: the mark for no connection, or no
  call, is none. `DeadlinesAreOfGatewayCalls`, `WaitsAreNoTransactions`,
  `EventsAreCounted`: what the names say.
- `WaitAssumption`: a transaction is submitted online or offline, not both.
- `WaitsAreConnections`, a hypothesis of the theorems about `WaitSpec` since the
  bridge's own connections need no such thing: `waitForCommit` makes one
  connection and one status call, so one name does for the three.
- `TargetingAssumption`: the setters are called with lists of endpoints, and the
  mark for no data or no creator is neither.

### The argument, module by module

An invariant that a run checks is seldom inductive. Each proof has a stronger
one, which TLC was given as an invariant of the run's instance before it was
proved; each is shown to hold initially and to be kept by every action, in a
lemma per action or per kind of action, and the theorems follow from it.

*SinglePeerSubmit.* `TypeOK` is not inductive: drawing a turn takes the counter
modulo the length of the plan, so a call that selects must have a plan. The
inductive invariant `IInv` is `TypeOK` with

- `PlanInv`: while a call selects, its plan is one of the listings, so that its
  key has a counter; from its first attempt on, the plan names no peer twice,
  is as long as some listing, and `attempt` indexes it;
- `ProposalInv`: a proposal of a call has an attempt number at most the current
  one and went to the peer the plan has there;
- `StageInv`: what each stage has already done: from `endorsed` on the call is a
  submit and its current proposal is endorsed; while `endorsing` that proposal
  was sent; while `broadcasting` its envelope was written; a call has an outcome
  exactly when it is done, and `ok` only with its transaction in the ledger;
- `EnvelopeInv`: an envelope belongs to a submit's *current* attempt, the call
  is broadcasting or done, and if done its outcome is `ok` or `SubmitError`.

`EnvelopeInv` is the heart: it is preserved because the only failure of a
broadcast is `SubmitError`, which is not eligible, so a call that broadcast never
begins another attempt. Distinct peers follow from `PlanInv`, whose step at
`Select` is the lemma `RotationIsInjective` of `PeerOrderProofs`.

Exhaustion and refusals need `FailureInv`: the errors a call has collected are
those of its attempts so far, one per peer in the order of its plan, and only the
last may be one that is not eligible, which ends the call. An exhausted call has
as many errors as its plan has peers, so it tried them all.

Fair turns need `TurnInv`, which says of each peer list that its counter and its
turns are in a lap (`InLap` of `PeerOrderProofs`): a counter that stands at `k`
means that the first `k` peers have begun one call more than the rest. The step
at `Select` gives the turn to peer `k + 1` and moves the counter on, or back to
zero when the lap is complete (`NextTurnIsInLap`); a disconnect starts both anew.

The refinement maps a call to its verdict and the ledger to itself. By
`EnvelopeInv` what is ordered of a call is its current transaction, so a safe
error, which no call that is broadcasting can end with, finds nothing ordered,
and the orderer accepts at most one. A step of a call is a `Call`, a verdict, or
a stutter; the orderer's step is `Order`.

*GoSinglePeerSubmit.* `CallOK` says the same of one call: what its stage has
behind it, what it may have sent, that a refusal of a submit is of the last peer
and final, and that its errors follow its plan. A step of one call leaves what
is said of the others alone (`OtherCallsStayOK`), so each action is looked at for
its own call only. A counter's key is the sorted peer set, so two sets share a
counter only if sorting them gives one list, and then they are one set
(`SortingIsInjective`); the lemmas about laps are the same as Node's.

*ExplicitEndorsement.* `CallOK` says of each call what it has in hand
(`StageOK`), which peers it has asked and may ask (`TargetOK`) and that every
answer is what its peer signed (`AnswersOK`); `EnvelopeOK` ties an envelope to
the call that broadcast it; `CacheInv` says that the cache of a channel names
only peers discovered for it, which `Target` needs. `StepKeepsCallInv` reduces a
step to the call that takes it. The late failure of a peer changes one answer of
a call that is elsewhere, which is why `AnswersOK` and `EnvelopeOK` do not
mention `pc` and `answers` together.

*DiscoverySession.* `SessionInv` bounds how much older than the clock anything
kept can be. A request is out for one deadline at most (`Tick` may not pass it),
and its answer was listed since it was sent; so an entry, which expires a time
to live after it was *answered*, expires at most `TTL + Deadline` after it was
*listed*. What an overtaken answer overwrites does not matter, since each entry
carries its own bound.

*OfflineSigning.* `FlowInv` speaks of one operation: a request is built once; a
message was built by a request and perhaps damaged, gets on only if accepted,
and is sent to all the peers it names or none; a transaction carries what every
peer of its message answered; a submit broadcasts the transaction it was given.
An operation looks at another only when that one is over, and what it returned
stays (`Grows`), so again a step is looked at for its own operation. The
session's invariant is kept because every step of a flow is a step of the
session, a draw of a counter, or nothing to it. `ListedInv` relates the two: who
was asked is in the listing that was returned, which stays (`ReturnedStays`),
because a background retry returns to nobody, and a message is resumed before
anybody is asked (`AskedIsListed`).

*GatewayPath.* `OpOK` and `WaitOK` follow the same plan: only an undamaged
message gets as far as the Gateway, a submit sends its own transaction, once, a
wait is called on a submission that succeeded. A submit of an endorsed
transaction reads the transaction from the `Endorse` it continues, which is
over and stays (`OverIsOver`, `TransactionsStay`).

*BridgeConnection.* `BridgeInv` has two parts that carry the rest. Only the
current connection can be open. And whoever will set the flag, a `connect()` that
succeeded and has not returned, or has set it, has a usable connection unless a
`disconnect()` is under way that took it away and will clear the flag: that
`disconnect()` returns from `setImmediate` only after the continuations that are
due (`Pending`), so it cannot clear the flag before a `connect()` sets it. The
property was first stated of moments when no continuation is due; the proof
showed that this premise is not needed, and it is gone. Calls go out on open
connections since both look at the connection they were made with (`OwnersInv`)
when they use it, and by the first part an open one is the bridge's.

*DirectCommitWait.* `OwnOK` says how far a wait has come, and that it settles
with what its status call was told, after it closed what its `connect()` opened;
`CallerOK` says that a caller awaits a wait for its own transaction, the shared one
if it is online, and was told what that wait settled with. Agreement follows:
the promise of a transaction, once made, is never replaced.

*TransactionTargeting.* `BuilderInv` says that the path of a call was chosen by
the targeting it began with, that no setter takes the builder back to the Gateway
(there is none), and that a call which waits has seen the settings the builder
holds now; so what it continues with is one of those. `HistoryInv` adds what was
ever in the builder: its names are what `Dedupe` made of those last named, and
all settings a call began with or has seen hold lists of identities, which
`SettingsAreOfOneMoment` needs: it compares settings that were read twice with
settings that were read once.

*EndpointIdentity.* These are inductions over a list. An induction theorem takes
a predicate as its parameter, which the provers cannot instantiate, so each proof
looks at the least counterexample instead (`LeastNumber`, from the library's
`NatLessThanWellFounded` and `WFMin`). `DedupedToIsDefined` shows in this way that
the recursive function of the loop exists and has the values of its equation;
`DedupedToIsInOrder` that after `n` inputs it has the first `n` identities in the
order of naming (`FirstOf`), one step of which is `FirstOfGrows`; `DedupeKeeps`
that a list which is read as itself and names nothing twice is returned as it is.
Reading is not idempotent: `h:07051` becomes `grpcs://h:07051`, and that
`grpcs://h:7051`. But what was read *as an identity* is stable
(`IdentityIsStable`), and what the builder holds was read once already, so what
a call uses is stable (`DedupeTwice`).

*GoBridge.* `LockInv` says what `modeMu` protects: at most one `Disconnect` drains
or holds it, closes the connection only when no reader is inside, and nobody
enters between closing and clearing `connected`; it says nothing of the
connection under a call of a contract, which does not look at it. `StreamInv` accounts for every
event: those delivered, then those pending, then those of the response on the
wire are `1, 2, ...` up to the number sent.

### What is not proved

Liveness, which with `ENABLED` is beyond the prover: `EveryCallReturns`,
`BoundedCallsReturn`, `EveryOperationReturns`, `EveryWaitReturns`, `RetriesEnd`
and `OnlyEndlessCallsBlock` are checked by TLC on the instances of the runs.

`AtMostOneEnvelope`, `OnlySubmitErrorIsUnsure`, `EnvelopesAreEndorsed` of the Go
calls, `StatusesAreTrue` of the commit waits, `FailedSetterKeeps` and all type
invariants but the one of `SinglePeerSubmit` are proved and belong to no run; the
first two are part of what the refinement says of a run.

## 7. Not modelled

- Signatures, protobuf and certificates are data without control: a transaction
  is a token and its signing a step that may fail. Log lines and the wording of
  errors are left out, but for what the code reads from them.
- `DiscoveryCache.clear(channelName)` has no caller.
- Go explicit endorsement is the fan-out of `ExplicitEndorsement` with a
  `WaitGroup` in place of `Promise.all`: it waits for every answer, and then
  validates and submits alike. Go offline signing is the flow of
  `OfflineSigning`. A model of either would repeat the Node one.
- The proposal creator of a Go transaction is a field that a call swaps and
  restores; only overlapping calls on one `Transaction` disturb it, and nothing
  documents that they may.
- That an orderer's stream settles its promise by its first event holds by what
  a promise is; what the event may be and when the envelope is on its way is in
  the models.
- Tests, examples and the built bundle are not part of the running SDK.
