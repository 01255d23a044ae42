-------------------------- MODULE SinglePeerSubmit --------------------------
(***************************************************************************)
(* The single-peer path of the Node bridge: PeerTransaction.SubmitAsync and *)
(* Evaluate after UseSinglePeer (src/src/peer/PeerContract.ts), with peer   *)
(* selection, failover and the orderer broadcast.                           *)
(*                                                                          *)
(* Several calls run interleaved on one SDK instance: JavaScript is single- *)
(* threaded, so an action is what runs between two awaits.  They share the  *)
(* discovery cache and its round-robin counters.  Peers, discovery service, *)
(* orderer and the bridge signer answer, refuse, or stay silent until the   *)
(* deadline the code sets; an answer after the deadline is ignored.         *)
(***************************************************************************)
EXTENDS DiscoveryCache

CONSTANTS
  SubmitCalls,       \* SubmitAsync calls
  EvaluateCalls,     \* Evaluate calls
  OrdererConfigured  \* config.ordererEndpoint is set

Calls == SubmitCalls \cup EvaluateCalls

ASSUME CallsAssumption ==
  /\ SubmitCalls \cap EvaluateCalls = {}
  /\ OrdererConfigured \in BOOLEAN

VARIABLES
  pc,         \* where a call awaits
  channel,    \* the channel of the call's contract
  plan,       \* the peers to try, in order
  attempt,    \* the attempt under way, an index of plan
  failures,   \* failed attempts, as SinglePeerExecutionError reports them
  outcome,    \* what the call returned
  proposals,  \* <<call, attempt, peer>>: proposals sent
  endorsed,   \* the proposals a peer endorsed
  envelopes,  \* <<call, attempt>>: transactions broadcast
  ledger,     \* the transactions the orderer accepted
  turns       \* turns[<<ch, s>>][p]: selections from peer list s that began
              \* with p, since the last disconnect (history)

callVars == <<pc, channel, plan, attempt, failures, outcome>>
netVars == <<proposals, endorsed, envelopes, ledger>>
vars == <<cacheVars, callVars, netVars, turns>>

-----------------------------------------------------------------------------
(* Errors, and what the failover loop makes of them.                        *)

(* An error without one of the bridge's error names is a gRPC status or an  *)
(* error of the signer or the TLS setup.  Its code and message tell whether *)
(* the loop takes it for a timeout, an unavailable peer or a transport      *)
(* failure ("unreachable") or not ("unknown").                              *)
Untagged == {"unreachable", "unknown"}

KnownNonRetryable == {"EndorsementError", "SubmitError", "DiscoveryError"}

Errors == Untagged \cup KnownNonRetryable \cup {"ConfigurationError"}

Categories == Untagged \cup {"non-retryable"}

\* mutant: the broadcast's error is not listed, its message says "deadline exceeded"
ClassifyFailoverByMessage(e) ==
  IF e \in KnownNonRetryable \ {"SubmitError"} THEN "non-retryable"
  ELSE IF e \in {"unreachable", "SubmitError"} THEN "unreachable"
  ELSE "unknown"

ClassifyFailover(e) ==
  IF e \in KnownNonRetryable THEN "non-retryable"
  ELSE IF e = "unreachable" THEN e
  ELSE "unknown"

\* mutant: whatever is not known to be final is tried elsewhere
EligibleUnlessKnown(category) == category # "non-retryable"

Eligible(category) == category = "unreachable"

\* mutant: errors are returned as they come
MapSubmitErrorRaw(e) == e

MapSubmitError(e) ==
  IF e \in KnownNonRetryable \cup {"ConfigurationError"} THEN e ELSE "SubmitError"

MapEvaluateError(e) ==
  IF e = "DiscoveryError" THEN e ELSE "EvaluationError"

MapError(c, e) ==
  IF c \in SubmitCalls THEN MapSubmitError(e) ELSE MapEvaluateError(e)

Outcomes == {"none", "ok", "SinglePeerExecutionError", "EvaluationError",
             "EndorsementError", "SubmitError", "DiscoveryError",
             "ConfigurationError"}

-----------------------------------------------------------------------------
Stages == {"idle", "discovering", "selecting", "signing", "endorsing",
           "endorsed", "resolving", "rediscovering", "broadcasting", "done"}

CallTypeOK ==
  /\ pc \in [Calls -> Stages]
  /\ channel \in [Calls -> Channels]
  /\ plan \in [Calls -> Seq(Peers)]
  /\ attempt \in [Calls -> Nat]
  /\ failures \in [Calls -> Seq([peer: Peers, category: Categories])]
  /\ outcome \in [Calls -> Outcomes]

NetTypeOK ==
  /\ proposals \subseteq (Calls \X Nat \X Peers)
  /\ endorsed \subseteq proposals
  /\ envelopes \subseteq (Calls \X Nat)
  /\ ledger \subseteq envelopes

TypeOK ==
  /\ CacheTypeOK
  /\ CallTypeOK
  /\ NetTypeOK
  /\ turns \in [Channels \X PeerLists -> [Peers -> Nat]]

NoTurns == [k \in Channels \X PeerLists |-> [p \in Peers |-> 0]]

Init ==
  /\ CacheInit
  /\ pc = [c \in Calls |-> "idle"]
  /\ channel \in [Calls -> Channels]
  /\ plan = [c \in Calls |-> <<>>]
  /\ attempt = [c \in Calls |-> 0]
  /\ failures = [c \in Calls |-> <<>>]
  /\ outcome = [c \in Calls |-> "none"]
  /\ proposals = {}
  /\ endorsed = {}
  /\ envelopes = {}
  /\ ledger = {}
  /\ turns = NoTurns

Goto(c, stage) == pc' = [pc EXCEPT ![c] = stage]

Finish(c, result) ==
  /\ Goto(c, "done")
  /\ outcome' = [outcome EXCEPT ![c] = result]

(* Every attempt builds a proposal with a fresh nonce, so the transaction   *)
(* id is new with every attempt.                                            *)
Transaction(c) == <<c, attempt[c]>>
Proposal(c) == <<c, attempt[c], plan[c][attempt[c]]>>

-----------------------------------------------------------------------------
(* Discovery and selection: resolveSinglePeerTargets.                       *)

StartFromCache(c) ==
  /\ pc[c] = "idle"
  /\ CacheGet(channel[c]) # NoResult
  /\ plan' = [plan EXCEPT ![c] = CacheGet(channel[c]).peers]
  /\ Goto(c, "selecting")
  /\ UNCHANGED <<cacheVars, channel, attempt, failures, outcome, netVars, turns>>

StartDiscovery(c) ==
  /\ pc[c] = "idle"
  /\ CacheGet(channel[c]) = NoResult
  /\ Goto(c, "discovering")
  /\ UNCHANGED <<cacheVars, channel, plan, attempt, failures, outcome, netVars, turns>>

DiscoveryAnswers(c, r) ==
  /\ pc[c] = "discovering"
  /\ CacheSet(channel[c], r)
  /\ plan' = [plan EXCEPT ![c] = r.peers]
  /\ Goto(c, "selecting")
  /\ UNCHANGED <<channel, attempt, failures, outcome, netVars, turns>>

DiscoveryFails(c) ==
  /\ pc[c] = "discovering"
  /\ Finish(c, "DiscoveryError")
  /\ UNCHANGED <<cacheVars, channel, plan, attempt, failures, netVars, turns>>

\* mutant: the loop begins with the second peer
SelectSkippingFirst(c) ==
  LET key == RoundRobinKey(channel[c], plan[c])
      ordered == RotateFrom(plan[c], RoundRobinIndex(key, Len(plan[c])))
  IN /\ pc[c] = "selecting"
     /\ AdvanceRoundRobin(key, Len(plan[c]))
     /\ plan' = [plan EXCEPT ![c] = ordered]
     /\ attempt' = [attempt EXCEPT ![c] = IF Len(ordered) > 1 THEN 2 ELSE 1]
     /\ turns' = [turns EXCEPT ![<<channel[c], plan[c]>>][ordered[1]] = @ + 1]
     /\ Goto(c, "signing")
     /\ UNCHANGED <<channel, failures, outcome, netVars>>

(* plan holds the discovered peers until the turn of this call rotates it.  *)
Select(c) ==
  LET key == RoundRobinKey(channel[c], plan[c])
      ordered == RotateFrom(plan[c], RoundRobinIndex(key, Len(plan[c])))
  IN /\ pc[c] = "selecting"
     /\ AdvanceRoundRobin(key, Len(plan[c]))
     /\ plan' = [plan EXCEPT ![c] = ordered]
     /\ attempt' = [attempt EXCEPT ![c] = 1]
     /\ turns' = [turns EXCEPT ![<<channel[c], plan[c]>>][ordered[1]] = @ + 1]
     /\ Goto(c, "signing")
     /\ UNCHANGED <<channel, failures, outcome, netVars>>

-----------------------------------------------------------------------------
(* The failover loop: the catch block of executeSinglePeer.                 *)

CatchFailure(c, e) ==
  LET category == ClassifyFailover(e)
      failed == [peer |-> plan[c][attempt[c]], category |-> category]
  IN /\ failures' = [failures EXCEPT ![c] = Append(@, failed)]
     /\ \/ /\ ~Eligible(category)
           /\ Finish(c, MapError(c, e))
           /\ UNCHANGED attempt
        \/ /\ Eligible(category)
           /\ attempt[c] = Len(plan[c])
           /\ Finish(c, "SinglePeerExecutionError")
           /\ UNCHANGED attempt
        \/ /\ Eligible(category)
           /\ attempt[c] < Len(plan[c])
           /\ attempt' = [attempt EXCEPT ![c] = @ + 1]
           /\ Goto(c, "signing")
           /\ UNCHANGED outcome
     /\ UNCHANGED <<channel, plan, turns>>

\* mutant: the peer's answer is not awaited
SendProposalUnawaited(c) ==
  /\ pc[c] = "signing"
  /\ proposals' = proposals \cup {Proposal(c)}
  /\ Goto(c, "endorsed")
  /\ UNCHANGED <<cacheVars, channel, plan, attempt, failures, outcome,
                 endorsed, envelopes, ledger, turns>>

(* Building and signing the proposal, then handing it to the peer's client. *)
SendProposal(c) ==
  /\ pc[c] = "signing"
  /\ proposals' = proposals \cup {Proposal(c)}
  /\ Goto(c, "endorsing")
  /\ UNCHANGED <<cacheVars, channel, plan, attempt, failures, outcome,
                 endorsed, envelopes, ledger, turns>>

SigningFails(c, e) ==
  /\ pc[c] \in {"signing", "endorsed"}
  /\ e \in Untagged
  /\ CatchFailure(c, e)
  /\ UNCHANGED <<cacheVars, netVars>>

PeerEndorses(c) ==
  /\ pc[c] = "endorsing"
  /\ endorsed' = endorsed \cup {Proposal(c)}
  /\ IF c \in SubmitCalls
       THEN Goto(c, "endorsed") /\ UNCHANGED outcome
       ELSE Finish(c, "ok")
  /\ UNCHANGED <<cacheVars, channel, plan, attempt, failures, proposals,
                 envelopes, ledger, turns>>

(* A bad status or a missing endorsement, or a gRPC error of the call.      *)
PeerFails(c, e) ==
  /\ pc[c] = "endorsing"
  /\ e \in Untagged \cup {"EndorsementError"}
  /\ CatchFailure(c, e)
  /\ UNCHANGED <<cacheVars, netVars>>

\* mutant: the proposal is sent without a deadline
NoProposalDeadline(c) == FALSE /\ pc[c] = "endorsing"

ProposalDeadline(c) ==
  /\ pc[c] = "endorsing"
  /\ CatchFailure(c, "unreachable")
  /\ UNCHANGED <<cacheVars, netVars>>

-----------------------------------------------------------------------------
(* Submit of the endorsed transaction: the rest of submitAsyncToSinglePeer. *)

SignTransaction(c) ==
  /\ pc[c] = "endorsed"
  /\ Goto(c, "resolving")
  /\ UNCHANGED <<cacheVars, channel, plan, attempt, failures, outcome, netVars, turns>>

WriteEnvelope(c) ==
  /\ envelopes' = envelopes \cup {Transaction(c)}
  /\ Goto(c, "broadcasting")
  /\ UNCHANGED <<channel, plan, attempt, failures, outcome, proposals,
                 endorsed, ledger, turns>>

(* resolveSubmitOrdererEndpoint: the configured orderer, else the cache's,  *)
(* which may have changed since this call was planned.                      *)
CachedOrderer(c) ==
  CacheGet(channel[c]) # NoResult /\ CacheGet(channel[c]).orderer

Broadcast(c) ==
  /\ pc[c] = "resolving"
  /\ OrdererConfigured \/ CachedOrderer(c)
  /\ WriteEnvelope(c)
  /\ UNCHANGED cacheVars

NoOrderer(c) ==
  /\ pc[c] = "resolving"
  /\ ~OrdererConfigured
  /\ CacheGet(channel[c]) # NoResult
  /\ ~CacheGet(channel[c]).orderer
  /\ CatchFailure(c, "ConfigurationError")
  /\ UNCHANGED <<cacheVars, netVars>>

(* The connection to the orderer cannot be set up: nothing is written.      *)
OrdererSetupFails(c, e) ==
  /\ pc[c] = "resolving"
  /\ OrdererConfigured \/ CachedOrderer(c)
  /\ e \in Untagged
  /\ CatchFailure(c, e)
  /\ UNCHANGED <<cacheVars, netVars>>

Rediscover(c) ==
  /\ pc[c] = "resolving"
  /\ ~OrdererConfigured
  /\ CacheGet(channel[c]) = NoResult
  /\ Goto(c, "rediscovering")
  /\ UNCHANGED <<cacheVars, channel, plan, attempt, failures, outcome, netVars, turns>>

RediscoveryAnswers(c, r) ==
  /\ pc[c] = "rediscovering"
  /\ CacheSet(channel[c], r)
  /\ \/ r.orderer /\ WriteEnvelope(c)
     \/ ~r.orderer /\ CatchFailure(c, "ConfigurationError") /\ UNCHANGED netVars

RediscoveryFails(c) ==
  /\ pc[c] = "rediscovering"
  /\ CatchFailure(c, "DiscoveryError")
  /\ UNCHANGED <<cacheVars, netVars>>

BroadcastSucceeds(c) ==
  /\ pc[c] = "broadcasting"
  /\ Transaction(c) \in ledger
  /\ Finish(c, "ok")
  /\ UNCHANGED <<cacheVars, channel, plan, attempt, failures, netVars, turns>>

(* A status other than SUCCESS, a stream error, an early end of the stream  *)
(* or the deadline: all of them are a SubmitError.                          *)
BroadcastFails(c) ==
  /\ pc[c] = "broadcasting"
  /\ CatchFailure(c, "SubmitError")
  /\ UNCHANGED <<cacheVars, netVars>>

-----------------------------------------------------------------------------
(* The world around the calls.                                              *)

(* An envelope on the wire may be accepted at any time, also after its      *)
(* sender gave up on it, or never.                                          *)
OrdererAccepts(t) ==
  /\ t \in envelopes \ ledger
  /\ ledger' = ledger \cup {t}
  /\ UNCHANGED <<cacheVars, callVars, proposals, endorsed, envelopes, turns>>

(* FabricBridge.disconnect clears the cache under the calls in flight.      *)
Disconnect ==
  /\ CacheClear
  /\ turns' = NoTurns
  /\ UNCHANGED <<callVars, netVars>>

(* Another flow of the SDK instance, offline signing or the background      *)
(* retry of a failed discovery, refreshes the channel's entry.              *)
OtherFlowDiscovers(ch, r) ==
  /\ CacheSet(ch, r)
  /\ UNCHANGED <<callVars, netVars, turns>>

EntryExpires(ch) ==
  /\ Expire(ch)
  /\ UNCHANGED <<callVars, netVars, turns>>

-----------------------------------------------------------------------------
(* The application calls SubmitAsync or Evaluate.                           *)
Start(c) == StartFromCache(c) \/ StartDiscovery(c)

(* What the call does by itself or when a deadline of the code runs out.    *)
ClientStep(c) ==
  \/ Select(c) \/ SendProposal(c) \/ SignTransaction(c)
  \/ Broadcast(c) \/ NoOrderer(c) \/ Rediscover(c)
  \/ DiscoveryFails(c) \/ ProposalDeadline(c)
  \/ RediscoveryFails(c) \/ BroadcastFails(c)

(* What a peer, the discovery service, the orderer or the signer decides.   *)
RemoteStep(c) ==
  \/ \E r \in DiscoveryResults : DiscoveryAnswers(c, r) \/ RediscoveryAnswers(c, r)
  \/ PeerEndorses(c)
  \/ BroadcastSucceeds(c)
  \/ \E e \in Errors : SigningFails(c, e) \/ PeerFails(c, e) \/ OrdererSetupFails(c, e)

Environment ==
  \/ \E t \in envelopes : OrdererAccepts(t)
  \/ Disconnect
  \/ \E ch \in Channels : EntryExpires(ch)
  \/ \E ch \in Channels, r \in DiscoveryResults : OtherFlowDiscovers(ch, r)

Next ==
  \/ \E c \in Calls : Start(c) \/ ClientStep(c) \/ RemoteStep(c)
  \/ Environment

Spec == Init /\ [][Next]_vars

(* A call in flight is resumed by the event loop, and discovery, endorsing  *)
(* and broadcasting carry deadlines; the signer is assumed to answer.  No   *)
(* peer, discovery service or orderer need ever answer.                     *)
FairSpec == Spec /\ \A c \in Calls : WF_vars(ClientStep(c))

-----------------------------------------------------------------------------
(* Properties                                                               *)

TriedPeers(c) == {failures[c][i].peer : i \in DOMAIN failures[c]}

(* However often a call fails over, it broadcasts at most one transaction.  *)
(* It rests on the errors of the broadcast being non-retryable: each new    *)
(* attempt has a transaction id of its own, so the orderer could not tell   *)
(* two of them apart.                                                       *)
AtMostOneEnvelope ==
  \A t, u \in envelopes : t[1] = u[1] => t[2] = u[2]

(* Whatever is broadcast was endorsed, in the very attempt whose            *)
(* transaction it is, by the peer that attempt was sent to, and belongs to  *)
(* a submit call: an evaluation never reaches the orderer.                  *)
EnvelopesAreEndorsed ==
  \A t \in envelopes :
    /\ t[1] \in SubmitCalls
    /\ \E p \in Peers : <<t[1], t[2], p>> \in endorsed

(* Every error but SubmitError tells the application that nothing was       *)
(* broadcast, so nothing can be ordered later and it may submit again.      *)
OnlySubmitErrorIsUnsure ==
  \A c \in SubmitCalls :
    (\E t \in envelopes : t[1] = c) =>
      outcome[c] \in {"none", "ok", "SubmitError"}

(* Each attempt goes to exactly one peer, and no peer is asked twice by the *)
(* same call, for all rotations of all discovered peer lists.               *)
AttemptsVisitDistinctPeers ==
  \A m, n \in proposals : m[1] = n[1] => (m[2] = n[2] <=> m[3] = n[3])

(* SinglePeerExecutionError is returned only when every eligible peer was   *)
(* tried, and each for a reason that is eligible for failover.              *)
ExhaustionIsComplete ==
  \A c \in Calls :
    outcome[c] = "SinglePeerExecutionError" =>
      /\ TriedPeers(c) = PeersOf(plan[c])
      /\ \A i \in DOMAIN failures[c] : failures[c][i].category = "unreachable"

(* A failure that is not eligible ends the call at once, with its own error *)
(* and not as an exhausted failover: nothing is tried after it.             *)
NoFailoverAfterRefusal ==
  \A c \in Calls :
    \A i \in DOMAIN failures[c] :
      failures[c][i].category # "unreachable" =>
        /\ i = Len(failures[c])
        /\ pc[c] = "done"
        /\ outcome[c] # "SinglePeerExecutionError"

(* Round-robin: since the last disconnect no peer of a peer list was first  *)
(* choice more than once oftener than another, though calls of several      *)
(* transactions draw from the same counter.                                 *)
RoundRobinIsFair ==
  \A ch \in Channels, s \in PeerLists :
    \A i, j \in DOMAIN s : turns[<<ch, s>>][s[i]] <= turns[<<ch, s>>][s[j]] + 1

(* Every call returns, whatever stays silent: every remote step it awaits   *)
(* has a deadline, and failover moves on through finitely many peers.  A    *)
(* call is made once, so in the end none is under way.                      *)
EveryCallReturns ==
  <>[](\A c \in Calls : pc[c] \in {"idle", "done"})

-----------------------------------------------------------------------------
(* The path implements SubmitOnce: SubmitError is the one unsure verdict.   *)

Verdict(c) ==
  CASE pc[c] = "idle" -> "none"
    [] pc[c] \notin {"idle", "done"} -> "pending"
    [] pc[c] = "done" /\ outcome[c] = "ok" -> "ok"
    [] pc[c] = "done" /\ outcome[c] = "SubmitError" -> "unsure"
    [] OTHER -> "safe"

Attempts == UNION {DOMAIN s : s \in PeerLists}

Once == INSTANCE SubmitOnce
  WITH Calls <- SubmitCalls,
       TxIds <- Attempts,
       verdict <- [c \in SubmitCalls |-> Verdict(c)],
       ledger <- ledger

ImplementsSubmitOnce == Once!Spec

=============================================================================
