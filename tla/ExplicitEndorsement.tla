------------------------ MODULE ExplicitEndorsement ------------------------
(***************************************************************************)
(* The explicit endorsement path of the Node bridge: SubmitAsync and        *)
(* Evaluate of a PeerTransaction after UseEndorsingPeers                    *)
(* (src/src/peer/PeerContract.ts).  One proposal goes to every named peer   *)
(* at once; there is no failover, and the first failure fails the call      *)
(* while the other peers may still be working on its proposal.              *)
(*                                                                          *)
(* Several calls run interleaved on one SDK instance and share its          *)
(* discovery cache; an action is what JavaScript runs between two awaits.   *)
(* Nothing here reads an entry's age or a round-robin counter.              *)
(***************************************************************************)
EXTENDS DiscoveryCache

CONSTANTS
  SubmitCalls,       \* SubmitAsync calls
  EvaluateCalls,     \* Evaluate calls
  Payloads,          \* what a peer may answer to one proposal
  OrdererConfigured  \* config.ordererEndpoint is set

Calls == SubmitCalls \cup EvaluateCalls

ASSUME ExplicitCallsAssumption ==
  /\ SubmitCalls \cap EvaluateCalls = {}
  /\ OrdererConfigured \in BOOLEAN

VARIABLES
  pc,         \* where a call awaits
  channel,    \* the channel of the call's contract
  named,      \* the peers named to UseEndorsingPeers, without duplicates
  listing,    \* the discovery result the named peers are looked up in
  answers,    \* answers[c][p]: what the call's promise for peer p holds
  assembled,  \* the payload of the transaction, once it is built
  outcome,    \* what the call returned
  signed,     \* <<call, peer, payload>>: endorsements peers have signed
  envelopes,  \* [call, payload, endorsers]: transactions broadcast
  ledger,     \* the transactions the orderer accepted
  discovered  \* discovered[ch]: peers any discovery named for ch (history)

callVars == <<pc, channel, named, listing, answers, assembled, outcome>>
netVars == <<signed, envelopes, ledger>>
vars == <<cacheVars, callVars, netVars, discovered>>

-----------------------------------------------------------------------------
(* An error without one of the bridge's names; its text may speak of a      *)
(* timeout, which is all that is made of it.                                *)
Untagged == {"untagged", "untagged about a timeout"}

Named == {"EndorsementError", "SubmitError", "PeerNotFoundError", "DiscoveryError",
          "ConfigurationError"}

Errors == Untagged \cup Named

MapSubmitError(e) ==
  IF e \in Named THEN e
  ELSE IF e = "untagged about a timeout" THEN "TimeoutError" ELSE "SubmitError"

MapEvaluateError(e) ==
  IF e \in {"PeerNotFoundError", "DiscoveryError"} THEN e ELSE "EvaluationError"

MapError(c, e) ==
  IF c \in SubmitCalls THEN MapSubmitError(e) ELSE MapEvaluateError(e)

Outcomes == {"none", "ok", "TimeoutError", "EvaluationError"} \cup Named

Stages == {"idle", "discovering", "targeting", "signing", "endorsing", "endorsed",
           "resolving", "rediscovering", "broadcasting", "done"}

Pending == "pending"
Failed == "failed"
NotAsked == "not asked"
Unbuilt == "unbuilt"

Answers == Payloads \cup {Pending, Failed, NotAsked}

(* A payload is none of the marks for an answer that is not there.          *)
ASSUME PayloadsAssumption == Payloads \cap {Pending, Failed, NotAsked} = {}

Envelope(c) == [call |-> c, payload |-> assembled[c], endorsers |-> named[c]]

CallTypeOK ==
  /\ pc \in [Calls -> Stages]
  /\ channel \in [Calls -> Channels]
  /\ named \in [Calls -> SUBSET Peers \ {{}}]
  /\ listing \in [Calls -> DiscoveryResults \cup {NoResult}]
  /\ answers \in [Calls -> [Peers -> Answers]]
  /\ assembled \in [Calls -> Payloads \cup {Unbuilt}]
  /\ outcome \in [Calls -> Outcomes]

NetTypeOK ==
  /\ signed \subseteq (Calls \X Peers \X Payloads)
  /\ envelopes \subseteq [call: Calls, payload: Payloads, endorsers: SUBSET Peers]
  /\ ledger \subseteq envelopes

TypeOK ==
  /\ CacheTypeOK
  /\ CallTypeOK
  /\ NetTypeOK
  /\ discovered \in [Channels -> SUBSET Peers]

Init ==
  /\ CacheInit
  /\ pc = [c \in Calls |-> "idle"]
  /\ channel \in [Calls -> Channels]
  /\ named \in [Calls -> SUBSET Peers \ {{}}]
  /\ listing = [c \in Calls |-> NoResult]
  /\ answers = [c \in Calls |-> [p \in Peers |-> NotAsked]]
  /\ assembled = [c \in Calls |-> Unbuilt]
  /\ outcome = [c \in Calls |-> "none"]
  /\ signed = {}
  /\ envelopes = {}
  /\ ledger = {}
  /\ discovered = [ch \in Channels |-> {}]

Goto(c, stage) == pc' = [pc EXCEPT ![c] = stage]

Finish(c, result) ==
  /\ Goto(c, "done")
  /\ outcome' = [outcome EXCEPT ![c] = result]

Throw(c, e) ==
  /\ Finish(c, MapError(c, e))
  /\ UNCHANGED <<channel, named, listing, assembled>>

Learn(ch, r) ==
  /\ CacheSet(ch, r)
  /\ discovered' = [discovered EXCEPT ![ch] = @ \cup PeersOf(r.peers)]

-----------------------------------------------------------------------------
(* Discovery and the named peers: resolveEndorsingPeerTargets.              *)

StartFromCache(c) ==
  /\ pc[c] = "idle"
  /\ CacheGet(channel[c]) # NoResult
  /\ listing' = [listing EXCEPT ![c] = CacheGet(channel[c])]
  /\ Goto(c, "targeting")
  /\ UNCHANGED <<cacheVars, channel, named, answers, assembled, outcome, netVars, discovered>>

StartDiscovery(c) ==
  /\ pc[c] = "idle"
  /\ CacheGet(channel[c]) = NoResult
  /\ Goto(c, "discovering")
  /\ UNCHANGED <<cacheVars, channel, named, listing, answers, assembled, outcome, netVars, discovered>>

DiscoveryAnswers(c, r) ==
  /\ pc[c] = "discovering"
  /\ Learn(channel[c], r)
  /\ listing' = [listing EXCEPT ![c] = r]
  /\ Goto(c, "targeting")
  /\ UNCHANGED <<channel, named, answers, assembled, outcome, netVars>>

DiscoveryFails(c) ==
  /\ pc[c] = "discovering"
  /\ Throw(c, "DiscoveryError")
  /\ UNCHANGED <<cacheVars, answers, netVars, discovered>>

\* mutant: a call fails only when none of its peers is found
SomeFound(c) == named[c] \cap PeersOf(listing[c].peers) # {}

(* resolvePeerInfos: one missing peer fails the whole operation.            *)
AllFound(c) == named[c] \subseteq PeersOf(listing[c].peers)

Target(c) ==
  /\ pc[c] = "targeting"
  /\ \/ AllFound(c) /\ Goto(c, "signing") /\ UNCHANGED outcome
     \/ ~AllFound(c) /\ Finish(c, "PeerNotFoundError")
  /\ listing' = [listing EXCEPT ![c] = NoResult]
  /\ UNCHANGED <<cacheVars, channel, named, answers, assembled, netVars, discovered>>

-----------------------------------------------------------------------------
(* The proposal at every named peer: sendDirectExplicitProposal.            *)

SendProposals(c) ==
  /\ pc[c] = "signing"
  /\ answers' = [answers EXCEPT ![c] = [p \in Peers |-> IF p \in named[c] THEN Pending ELSE NotAsked]]
  /\ Goto(c, "endorsing")
  /\ UNCHANGED <<cacheVars, channel, named, listing, assembled, outcome, netVars, discovered>>

SigningFails(c, e) ==
  /\ pc[c] \in {"signing", "endorsed"}
  /\ e \in Untagged
  /\ Throw(c, e)
  /\ UNCHANGED <<cacheVars, answers, netVars, discovered>>

Settle(c, p, answer) == answers' = [answers EXCEPT ![c][p] = answer]

(* A peer signs what its chaincode computed; the answer may come after the  *)
(* call has failed for another peer.                                        *)
PeerEndorses(c, p, x) ==
  /\ answers[c][p] = Pending
  /\ signed' = signed \cup {<<c, p, x>>}
  /\ Settle(c, p, x)
  /\ UNCHANGED <<cacheVars, pc, channel, named, listing, assembled, outcome, envelopes, ledger, discovered>>

\* mutant: the status of an answer is not checked, so a refusal counts as an answer
RefusalUnchecked(c, p, e) ==
  /\ answers[c][p] = Pending
  /\ e = "EndorsementError"
  /\ \E x \in Payloads : Settle(c, p, x)
  /\ UNCHANGED <<cacheVars, pc, channel, named, listing, assembled, outcome, netVars, discovered>>

(* Promise.all: the first rejection, a bad status, a missing endorsement or *)
(* a gRPC error, ends the call; later ones fall on deaf ears.               *)
PeerFails(c, p, e) ==
  /\ answers[c][p] = Pending
  /\ e \in Untagged \cup {"EndorsementError"}
  /\ Settle(c, p, Failed)
  /\ \/ pc[c] = "endorsing" /\ Throw(c, e)
     \/ pc[c] # "endorsing" /\ UNCHANGED <<pc, channel, named, listing, assembled, outcome>>
  /\ UNCHANGED <<cacheVars, netVars, discovered>>

\* mutant: the proposals are sent without a deadline
NoProposalDeadline(c, p) == FALSE /\ answers[c][p] = Pending

ProposalDeadline(c, p) == PeerFails(c, p, "untagged")

AllAnswered(c) == \A p \in named[c] : answers[c][p] \in Payloads

\* mutant: payloads are not compared
TrustedPayloads(c, x) == \E p \in named[c] : answers[c][p] = x

(* validateExplicitProposalResponses                                        *)
SamePayload(c, x) == \A p \in named[c] : answers[c][p] = x

Assemble(c, x) ==
  /\ pc[c] = "endorsing"
  /\ AllAnswered(c)
  /\ SamePayload(c, x)
  /\ assembled' = [assembled EXCEPT ![c] = x]
  /\ IF c \in SubmitCalls
       THEN Goto(c, "endorsed") /\ UNCHANGED outcome
       ELSE Finish(c, "ok")
  /\ UNCHANGED <<cacheVars, channel, named, listing, answers, netVars, discovered>>

PayloadsDiffer(c) ==
  /\ pc[c] = "endorsing"
  /\ AllAnswered(c)
  /\ ~\E x \in Payloads : SamePayload(c, x)
  /\ Throw(c, "EndorsementError")
  /\ UNCHANGED <<cacheVars, answers, netVars, discovered>>

-----------------------------------------------------------------------------
(* Submit of the endorsed transaction: the rest of submitAsyncToEndorsers.  *)

SignTransaction(c) ==
  /\ pc[c] = "endorsed"
  /\ Goto(c, "resolving")
  /\ UNCHANGED <<cacheVars, channel, named, listing, answers, assembled, outcome, netVars, discovered>>

WriteEnvelope(c) ==
  /\ envelopes' = envelopes \cup {Envelope(c)}
  /\ Goto(c, "broadcasting")
  /\ UNCHANGED <<channel, named, listing, assembled, outcome, signed, ledger>>

CachedOrderer(c) ==
  CacheGet(channel[c]) # NoResult /\ CacheGet(channel[c]).orderer

Broadcast(c) ==
  /\ pc[c] = "resolving"
  /\ OrdererConfigured \/ CachedOrderer(c)
  /\ WriteEnvelope(c)
  /\ UNCHANGED <<cacheVars, answers, discovered>>

NoOrderer(c) ==
  /\ pc[c] = "resolving"
  /\ ~OrdererConfigured
  /\ CacheGet(channel[c]) # NoResult
  /\ ~CacheGet(channel[c]).orderer
  /\ Throw(c, "ConfigurationError")
  /\ UNCHANGED <<cacheVars, answers, netVars, discovered>>

(* The connection to the orderer cannot be set up: nothing is written.      *)
OrdererSetupFails(c, e) ==
  /\ pc[c] = "resolving"
  /\ OrdererConfigured \/ CachedOrderer(c)
  /\ e \in Untagged
  /\ Throw(c, e)
  /\ UNCHANGED <<cacheVars, answers, netVars, discovered>>

Rediscover(c) ==
  /\ pc[c] = "resolving"
  /\ ~OrdererConfigured
  /\ CacheGet(channel[c]) = NoResult
  /\ Goto(c, "rediscovering")
  /\ UNCHANGED <<cacheVars, channel, named, listing, answers, assembled, outcome, netVars, discovered>>

RediscoveryAnswers(c, r) ==
  /\ pc[c] = "rediscovering"
  /\ Learn(channel[c], r)
  /\ \/ r.orderer /\ WriteEnvelope(c)
     \/ ~r.orderer /\ Throw(c, "ConfigurationError") /\ UNCHANGED netVars
  /\ UNCHANGED answers

RediscoveryFails(c) ==
  /\ pc[c] = "rediscovering"
  /\ Throw(c, "DiscoveryError")
  /\ UNCHANGED <<cacheVars, answers, netVars, discovered>>

BroadcastSucceeds(c) ==
  /\ pc[c] = "broadcasting"
  /\ Envelope(c) \in ledger
  /\ Finish(c, "ok")
  /\ UNCHANGED <<cacheVars, channel, named, listing, answers, assembled, netVars, discovered>>

\* mutant: stream errors are rejected as they are, not as a SubmitError
BroadcastFailsUnwrapped(c) ==
  /\ pc[c] = "broadcasting"
  /\ Throw(c, "untagged about a timeout")
  /\ UNCHANGED <<cacheVars, answers, netVars, discovered>>

(* A status other than SUCCESS, a stream error, an early end of the stream  *)
(* or the deadline.                                                         *)
BroadcastFails(c) ==
  /\ pc[c] = "broadcasting"
  /\ Throw(c, "SubmitError")
  /\ UNCHANGED <<cacheVars, answers, netVars, discovered>>

-----------------------------------------------------------------------------
(* The world around the calls.                                              *)

OrdererAccepts(e) ==
  /\ e \in envelopes \ ledger
  /\ ledger' = ledger \cup {e}
  /\ UNCHANGED <<cacheVars, callVars, signed, envelopes, discovered>>

(* FabricBridge.disconnect clears the cache under the calls in flight.      *)
Disconnect ==
  /\ CacheClear
  /\ UNCHANGED <<callVars, netVars, discovered>>

OtherFlowDiscovers(ch, r) ==
  /\ Learn(ch, r)
  /\ UNCHANGED <<callVars, netVars>>

-----------------------------------------------------------------------------
Start(c) == StartFromCache(c) \/ StartDiscovery(c)

(* What the call does by itself or when a deadline of the code runs out.    *)
ClientStep(c) ==
  \/ DiscoveryFails(c) \/ Target(c) \/ SendProposals(c)
  \/ \E p \in Peers : ProposalDeadline(c, p)
  \/ \E x \in Payloads : Assemble(c, x)
  \/ PayloadsDiffer(c)
  \/ SignTransaction(c) \/ Broadcast(c) \/ NoOrderer(c) \/ Rediscover(c)
  \/ RediscoveryFails(c) \/ BroadcastFails(c)

(* What a peer, the discovery service, the orderer or the signer decides.   *)
RemoteStep(c) ==
  \/ \E r \in DiscoveryResults : DiscoveryAnswers(c, r) \/ RediscoveryAnswers(c, r)
  \/ \E p \in Peers, x \in Payloads : PeerEndorses(c, p, x)
  \/ \E p \in Peers, e \in Errors : PeerFails(c, p, e)
  \/ \E e \in Errors : SigningFails(c, e) \/ OrdererSetupFails(c, e)
  \/ BroadcastSucceeds(c)

Environment ==
  \/ \E e \in envelopes : OrdererAccepts(e)
  \/ Disconnect
  \/ \E ch \in Channels, r \in DiscoveryResults : OtherFlowDiscovers(ch, r)

Next ==
  \/ \E c \in Calls : Start(c) \/ ClientStep(c) \/ RemoteStep(c)
  \/ Environment

Spec == Init /\ [][Next]_vars

(* As for the single-peer path: the event loop resumes what is ready, every *)
(* remote call carries a deadline, and the signer answers.                  *)
FairSpec == Spec /\ \A c \in Calls : WF_vars(ClientStep(c))

-----------------------------------------------------------------------------
(* Properties                                                               *)

(* What is broadcast carries one payload that every named peer, and no      *)
(* other, has signed for this very call, however answers, failures and late *)
(* answers mix.  Fabric's endorsement policy is met by those the            *)
(* application named or not at all.                                         *)
EnvelopesAreUnanimous ==
  \A e \in envelopes :
    /\ e.call \in SubmitCalls
    /\ e.endorsers = named[e.call]
    /\ \A p \in e.endorsers : <<e.call, p, e.payload>> \in signed

(* A result that is returned is one all named peers agreed on: one failure  *)
(* from any of them fails the call, as ADR-0010 demands.                    *)
ResultsAreUnanimous ==
  \A c \in Calls :
    outcome[c] = "ok" =>
      \A p \in named[c] : <<c, p, assembled[c]>> \in signed

Asked(c) == {p \in Peers : answers[c][p] # NotAsked}

(* A proposal goes to all named peers or, when one of them was never        *)
(* discovered for the channel, to none: a missing peer is found before      *)
(* anything is sent, however the cache changes meanwhile.                   *)
OnlyDiscoveredPeersAreAsked ==
  \A c \in Calls :
    Asked(c) # {} => Asked(c) = named[c] /\ named[c] \subseteq discovered[channel[c]]

(* A call whose peers never all answer still returns.                       *)
EveryCallReturns ==
  \A c \in Calls : pc[c] # "idle" ~> pc[c] = "done"

-----------------------------------------------------------------------------
(* The path implements SubmitOnce; a call has one transaction to offer.     *)

Verdict(c) ==
  CASE pc[c] = "idle" -> "none"
    [] pc[c] \notin {"idle", "done"} -> "pending"
    [] pc[c] = "done" /\ outcome[c] = "ok" -> "ok"
    [] pc[c] = "done" /\ outcome[c] = "SubmitError" -> "unsure"
    [] OTHER -> "safe"

ProposalTx == "the proposal's"

OrderedTransactions == {<<e.call, ProposalTx>> : e \in ledger}

Once == INSTANCE SubmitOnce
  WITH Calls <- SubmitCalls,
       TxIds <- {ProposalTx},
       verdict <- [c \in SubmitCalls |-> Verdict(c)],
       ledger <- OrderedTransactions

(* Every error but SubmitError means that nothing is ordered or will be.    *)
ImplementsSubmitOnce == Once!Spec

=============================================================================
