------------------------- MODULE GoSinglePeerSubmit -------------------------
(***************************************************************************)
(* The single-peer path of the Go bridge: Transaction.SubmitAsync and       *)
(* Evaluate after UseSinglePeer (src/go/fabricbridge/network.go), with peer *)
(* ordering, failover and the orderer submit.                               *)
(*                                                                          *)
(* It promises what the Node bridge's path promises, by other means.  Every *)
(* call discovers anew, and nothing is cached.  A submit builds and signs   *)
(* one proposal and shows it to one peer after another, so all its attempts *)
(* carry the same transaction; only the endorsement fails over, what comes  *)
(* after is outside the loop.  An evaluation builds a proposal per attempt, *)
(* and its loop also covers the answer.                                     *)
(*                                                                          *)
(* Calls are goroutines: an action ends where the goroutine blocks, on a    *)
(* remote call, the signer or the mutex of the round-robin counters.        *)
(***************************************************************************)
EXTENDS PeerOrder

CONSTANTS
  Channels,          \* channels the bridge is used on
  Peers,             \* peer URLs
  SortedByURL,       \* SortedByURL[S]: the peers of S in the order of their URLs
  DiscoveryResults,  \* what a discovery request may return
  SubmitCalls,       \* SubmitAsync calls
  EvaluateCalls,     \* Evaluate calls
  BoundedCalls,      \* calls whose context has a deadline or is cancelled
  OrdererConfigured  \* config.OrdererEndpoint is set

Calls == SubmitCalls \cup EvaluateCalls

PeerSets == {r.peers : r \in DiscoveryResults}

ASSUME GoCallsAssumption ==
  /\ SubmitCalls \cap EvaluateCalls = {}
  /\ BoundedCalls \subseteq Calls
  /\ OrdererConfigured \in BOOLEAN

(* A successful discovery names at least one peer and no URL twice; sorting *)
(* by URL lists each of them once.                                          *)
ASSUME GoDiscoveryAssumption ==
  /\ \A r \in DiscoveryResults :
       r \in [peers: SUBSET Peers \ {{}}, orderer: BOOLEAN]
  /\ \A S \in PeerSets :
       /\ SortedByURL[S] \in Seq(Peers)
       /\ SortedByURL[S] # <<>>
       /\ PeersOf(SortedByURL[S]) = S
       /\ NoRepeats(SortedByURL[S])

VARIABLES
  pc,         \* where a call blocks
  channel,    \* the channel of the call's contract
  ctx,        \* the context the application passed: live, expired, cancelled
  plan,       \* the peers to try, in order
  attempt,    \* the attempt under way, an index of plan
  failures,   \* failed attempts, as SinglePeerExecutionError reports them
  outcome,    \* what the call returned
  counters,   \* roundRobinState.counters
  endorsed,   \* <<call, peer>>: peers that endorsed the call's proposal
  refused,    \* <<call, peer>>: peers whose chaincode or policy refused it
  envelopes,  \* the calls whose transaction was sent to the orderer
  ledger,     \* the calls whose transaction the orderer accepted
  turns       \* turns[<<ch, S>>][p]: orders of peer set S that began with p
              \* (history)

callVars == <<pc, channel, ctx, plan, attempt, failures, outcome>>
netVars == <<endorsed, refused, envelopes, ledger>>
orderVars == <<counters, turns>>
vars == <<callVars, netVars, orderVars>>

-----------------------------------------------------------------------------
(* Errors, and what executeSinglePeerTargets makes of them.                 *)

(* A gRPC status, a refused context, or an error of the signer or the TLS   *)
(* set-up: its code and text tell whether it counts as a timeout, an        *)
(* unavailable peer or a transport failure.                                 *)
Untagged == {"unreachable", "unknown"}

(* QueryTargets reports a refusal as a plain error that quotes the          *)
(* chaincode's message, so its text may read like a timeout.                *)
Refusals == {"refusal", "refusal about a timeout"}

Eligible(e) == e \in {"unreachable", "refusal about a timeout"}

Outcomes == {"none", "ok", "error", "SinglePeerExecutionError", "EndorsementError",
             "SubmitError", "DiscoveryError", "ConfigurationError"}

Stages == {"idle", "discovering", "signing", "sending", "endorsing", "endorsed",
           "resolving", "submitting", "broadcasting", "done"}

Contexts == {"live", "expired", "cancelled"}

\* mutant: one counter for a channel, whatever its peers
RoundRobinKeyOfChannel(ch, peers) == <<ch, CHOOSE s \in {SortedByURL[S] : S \in PeerSets} : TRUE>>

RoundRobinKey(ch, peers) == <<ch, peers>>

Keys == {RoundRobinKey(ch, SortedByURL[S]) : ch \in Channels, S \in PeerSets}

TypeOK ==
  /\ pc \in [Calls -> Stages]
  /\ channel \in [Calls -> Channels]
  /\ ctx \in [Calls -> Contexts]
  /\ plan \in [Calls -> Seq(Peers)]
  /\ attempt \in [Calls -> Nat]
  /\ \A c \in Calls : attempt[c] <= Len(plan[c])
  /\ failures \in [Calls -> Seq([peer: Peers, cause: Untagged \cup Refusals])]
  /\ outcome \in [Calls -> Outcomes]
  /\ counters \in [Keys -> Nat]
  /\ endorsed \subseteq (Calls \X Peers)
  /\ refused \subseteq (Calls \X Peers)
  /\ envelopes \subseteq Calls
  /\ ledger \subseteq envelopes
  /\ turns \in [Channels \X PeerSets -> [Peers -> Nat]]

Init ==
  /\ pc = [c \in Calls |-> "idle"]
  /\ channel \in [Calls -> Channels]
  /\ ctx = [c \in Calls |-> "live"]
  /\ plan = [c \in Calls |-> <<>>]
  /\ attempt = [c \in Calls |-> 0]
  /\ failures = [c \in Calls |-> <<>>]
  /\ outcome = [c \in Calls |-> "none"]
  /\ counters = [k \in Keys |-> 0]
  /\ endorsed = {}
  /\ refused = {}
  /\ envelopes = {}
  /\ ledger = {}
  /\ turns = [k \in Channels \X PeerSets |-> [p \in Peers |-> 0]]

Goto(c, stage) == pc' = [pc EXCEPT ![c] = stage]

Finish(c, result) ==
  /\ Goto(c, "done")
  /\ outcome' = [outcome EXCEPT ![c] = result]

Peer(c) == plan[c][attempt[c]]

-----------------------------------------------------------------------------
(* Discovery and peer order.                                                *)

Start(c) ==
  /\ pc[c] = "idle"
  /\ Goto(c, "discovering")
  /\ UNCHANGED <<channel, ctx, plan, attempt, failures, outcome, netVars, orderVars>>

(* The request fails, or its answer names a peer twice or by a malformed    *)
(* endpoint.                                                                *)
DiscoveryFails(c) ==
  /\ pc[c] = "discovering"
  /\ \E e \in {"DiscoveryError", "ConfigurationError"} : Finish(c, e)
  /\ UNCHANGED <<channel, ctx, plan, attempt, failures, netVars, orderVars>>

(* orderSinglePeers; the mutex makes reading and advancing the counter one  *)
(* step.                                                                    *)
DiscoveryAnswers(c, r) ==
  LET peers == SortedByURL[r.peers]
      key == RoundRobinKey(channel[c], peers)
      ordered == RotateFrom(peers, counters[key] % Len(peers))
  IN /\ pc[c] = "discovering"
     /\ counters' = [counters EXCEPT ![key] = (@ + 1) % Len(peers)]
     /\ turns' = [turns EXCEPT ![<<channel[c], r.peers>>][ordered[1]] = @ + 1]
     /\ plan' = [plan EXCEPT ![c] = ordered]
     /\ attempt' = [attempt EXCEPT ![c] = 1]
     /\ Goto(c, "signing")
     /\ UNCHANGED <<channel, ctx, failures, outcome, netVars>>

-----------------------------------------------------------------------------
(* The failover loop.                                                       *)

\* mutant: len(ordered)-2 taken for len(ordered)-1
NextToLastPeer(c) == attempt[c] >= Len(plan[c]) - 1

IsLastPeer(c) == attempt[c] = Len(plan[c])

(* Where the next attempt begins: a submit has its signed proposal already. *)
Retry(c) == IF c \in SubmitCalls THEN "sending" ELSE "signing"

AttemptFails(c, e) ==
  /\ failures' = [failures EXCEPT ![c] = Append(@, [peer |-> Peer(c), cause |-> e])]
  /\ \/ /\ ~Eligible(e)
        /\ Finish(c, "error")
        /\ UNCHANGED attempt
     \/ /\ Eligible(e)
        /\ IsLastPeer(c)
        /\ Finish(c, "SinglePeerExecutionError")
        /\ UNCHANGED attempt
     \/ /\ Eligible(e)
        /\ ~IsLastPeer(c)
        /\ attempt' = [attempt EXCEPT ![c] = @ + 1]
        /\ Goto(c, Retry(c))
        /\ UNCHANGED outcome
  /\ UNCHANGED <<channel, ctx, plan, orderVars>>

SignProposal(c) ==
  /\ pc[c] = "signing"
  /\ Goto(c, "sending")
  /\ UNCHANGED <<channel, ctx, plan, attempt, failures, outcome, netVars, orderVars>>

(* A submit signs before its loop, an evaluation in every attempt.          *)
SigningFails(c, e) ==
  /\ pc[c] = "signing"
  /\ e \in Untagged
  /\ \/ /\ c \in SubmitCalls
        /\ Finish(c, "EndorsementError")
        /\ UNCHANGED <<channel, ctx, plan, attempt, failures, orderVars>>
     \/ c \in EvaluateCalls /\ AttemptFails(c, e)
  /\ UNCHANGED netVars

SendProposal(c) ==
  /\ pc[c] = "sending"
  /\ ctx[c] = "live"
  /\ Goto(c, "endorsing")
  /\ UNCHANGED <<channel, ctx, plan, attempt, failures, outcome, netVars, orderVars>>

(* What gRPC makes of a context that has ended, before or during the call:  *)
(* DeadlineExceeded or Canceled.                                            *)
ContextError(c) == IF ctx[c] = "expired" THEN "unreachable" ELSE "unknown"

\* mutant: the peer is called without the caller's context
NoContext(c) == FALSE /\ pc[c] = "endorsing"

ContextAborts(c) ==
  /\ pc[c] \in {"sending", "endorsing"}
  /\ ctx[c] # "live"
  /\ AttemptFails(c, ContextError(c))
  /\ UNCHANGED netVars

PeerFails(c, e) ==
  /\ pc[c] \in {"sending", "endorsing"}
  /\ e \in Untagged
  /\ AttemptFails(c, e)
  /\ UNCHANGED netVars

PeerEndorses(c) ==
  /\ pc[c] = "endorsing"
  /\ endorsed' = endorsed \cup {<<c, Peer(c)>>}
  /\ IF c \in SubmitCalls
       THEN Goto(c, "endorsed") /\ UNCHANGED outcome
       ELSE Finish(c, "ok")
  /\ UNCHANGED <<channel, ctx, plan, attempt, failures, refused, envelopes, ledger, orderVars>>

\* mutant: the response is validated inside the submit's loop too
PeerRefusesInLoop(c, e) ==
  /\ pc[c] = "endorsing"
  /\ e \in Refusals
  /\ refused' = refused \cup {<<c, Peer(c)>>}
  /\ AttemptFails(c, e)
  /\ UNCHANGED <<endorsed, envelopes, ledger>>

(* A bad status or a missing endorsement is no gRPC error: it ends a        *)
(* submit's loop and is found by buildPeerTransactionPayload after it, but  *)
(* fails the attempt of an evaluation.                                      *)
PeerRefuses(c, e) ==
  /\ pc[c] = "endorsing"
  /\ e \in Refusals
  /\ refused' = refused \cup {<<c, Peer(c)>>}
  /\ \/ /\ c \in SubmitCalls
        /\ Finish(c, "EndorsementError")
        /\ UNCHANGED <<channel, ctx, plan, attempt, failures, orderVars>>
     \/ c \in EvaluateCalls /\ AttemptFails(c, e)
  /\ UNCHANGED <<endorsed, envelopes, ledger>>

-----------------------------------------------------------------------------
(* Submit of the endorsed transaction: submitPeer, after the loop.          *)

SignTransaction(c) ==
  /\ pc[c] = "endorsed"
  /\ Goto(c, IF OrdererConfigured THEN "submitting" ELSE "resolving")
  /\ UNCHANGED <<channel, ctx, plan, attempt, failures, outcome, netVars, orderVars>>

TransactionSigningFails(c) ==
  /\ pc[c] = "endorsed"
  /\ Finish(c, "SubmitError")
  /\ UNCHANGED <<channel, ctx, plan, attempt, failures, netVars, orderVars>>

ResolutionAnswers(c, r) ==
  /\ pc[c] = "resolving"
  /\ \/ r.orderer /\ Goto(c, "submitting") /\ UNCHANGED outcome
     \/ ~r.orderer /\ Finish(c, "ConfigurationError")
  /\ UNCHANGED <<channel, ctx, plan, attempt, failures, netVars, orderVars>>

ResolutionFails(c) ==
  /\ pc[c] = "resolving"
  /\ Finish(c, "DiscoveryError")
  /\ UNCHANGED <<channel, ctx, plan, attempt, failures, netVars, orderVars>>

SendEnvelope(c) ==
  /\ pc[c] = "submitting"
  /\ ctx[c] = "live"
  /\ envelopes' = envelopes \cup {c}
  /\ Goto(c, "broadcasting")
  /\ UNCHANGED <<channel, ctx, plan, attempt, failures, outcome, endorsed, refused,
                 ledger, orderVars>>

\* mutant: the loss of the answer is reported as a failed endorsement
SubmitFailsAsEndorsement(c) ==
  /\ pc[c] \in {"submitting", "broadcasting"}
  /\ Finish(c, "EndorsementError")
  /\ UNCHANGED <<channel, ctx, plan, attempt, failures, netVars, orderVars>>

(* The connection, the stream, the send, the answer or its status fails, or *)
(* a deadline passes: the submit timeout or the caller's.                   *)
SubmitFails(c) ==
  /\ pc[c] \in {"submitting", "broadcasting"}
  /\ Finish(c, "SubmitError")
  /\ UNCHANGED <<channel, ctx, plan, attempt, failures, netVars, orderVars>>

BroadcastSucceeds(c) ==
  /\ pc[c] = "broadcasting"
  /\ c \in ledger
  /\ Finish(c, "ok")
  /\ UNCHANGED <<channel, ctx, plan, attempt, failures, netVars, orderVars>>

-----------------------------------------------------------------------------
(* The world around the calls.                                              *)

ContextEnds(c, how) ==
  /\ c \in BoundedCalls
  /\ pc[c] \notin {"idle", "done"}
  /\ ctx[c] = "live"
  /\ ctx' = [ctx EXCEPT ![c] = how]
  /\ UNCHANGED <<pc, channel, plan, attempt, failures, outcome, netVars, orderVars>>

(* An envelope that was sent may be accepted at any time, or never.         *)
OrdererAccepts(c) ==
  /\ c \in envelopes \ ledger
  /\ ledger' = ledger \cup {c}
  /\ UNCHANGED <<callVars, endorsed, refused, envelopes, orderVars>>

-----------------------------------------------------------------------------
(* What the call does by itself or when a deadline of the code, or of its   *)
(* context, runs out.  The endorsement has no deadline of its own.          *)
ClientStep(c) ==
  \/ DiscoveryFails(c) \/ SignProposal(c) \/ SendProposal(c) \/ ContextAborts(c)
  \/ SignTransaction(c) \/ ResolutionFails(c) \/ SendEnvelope(c) \/ SubmitFails(c)

(* What a peer, the discovery service, the orderer or the signer decides.   *)
RemoteStep(c) ==
  \/ \E r \in DiscoveryResults : DiscoveryAnswers(c, r) \/ ResolutionAnswers(c, r)
  \/ \E e \in Untagged : SigningFails(c, e) \/ PeerFails(c, e)
  \/ \E e \in Refusals : PeerRefuses(c, e)
  \/ PeerEndorses(c) \/ TransactionSigningFails(c) \/ BroadcastSucceeds(c)

Environment(c) ==
  \/ \E how \in Contexts \ {"live"} : ContextEnds(c, how)
  \/ OrdererAccepts(c)

Next == \E c \in Calls : Start(c) \/ ClientStep(c) \/ RemoteStep(c) \/ Environment(c)

Spec == Init /\ [][Next]_vars

(* The scheduler runs every goroutine, and a context with a deadline ends.  *)
(* No peer, discovery service or orderer need ever answer.                  *)
FairSpec ==
  /\ Spec
  /\ \A c \in Calls : WF_vars(ClientStep(c))
  /\ \A c \in BoundedCalls : WF_vars(ContextEnds(c, "expired"))

-----------------------------------------------------------------------------
(* Properties                                                               *)

(* Whatever is sent to the orderer was endorsed by the peer of the last     *)
(* attempt, which is the one whose endorsement the envelope carries, and    *)
(* belongs to a submit.                                                     *)
EnvelopesAreEndorsed ==
  \A c \in envelopes : c \in SubmitCalls /\ <<c, Peer(c)>> \in endorsed

(* What CONTEXT.md calls non-retryable: after a peer's chaincode or policy  *)
(* refused the call, no other peer is asked, and the call does not end as   *)
(* an exhausted failover.                                                   *)
RefusalsAreFinal(C) ==
  \A c \in C, p \in Peers :
    <<c, p>> \in refused => Peer(c) = p /\ pc[c] = "done"
                           /\ outcome[c] \in {"EndorsementError", "error"}

(* Submits keep that: the answer is validated outside the failover loop.    *)
SubmitRefusalsAreFinal == RefusalsAreFinal(SubmitCalls)

(* Evaluations too, if one believes CONTEXT.md.                             *)
AllRefusalsAreFinal == RefusalsAreFinal(Calls)

(* SinglePeerExecutionError is returned only when an attempt with every     *)
(* discovered peer failed, once each and in the order of the plan.          *)
ExhaustionIsComplete ==
  \A c \in Calls :
    outcome[c] = "SinglePeerExecutionError" =>
      [i \in DOMAIN failures[c] |-> failures[c][i].peer] = plan[c]

(* Round-robin per effective peer set, as ADR-0001 has it: no peer of a set *)
(* is first choice more than once oftener than another, however goroutines  *)
(* meet at the counters.                                                    *)
RoundRobinIsFair ==
  \A k \in DOMAIN turns : \A p, q \in k[2] : turns[k][p] <= turns[k][q] + 1

(* A call whose context ends returns, whatever stays silent.                *)
BoundedCallsReturn ==
  \A c \in BoundedCalls : pc[c] # "idle" ~> pc[c] = "done"

(* What the timeouts of the configuration are for: every call returns.      *)
EveryCallReturns ==
  \A c \in Calls : pc[c] # "idle" ~> pc[c] = "done"

-----------------------------------------------------------------------------
(* The path implements SubmitOnce; a call has one transaction to offer.     *)

Verdict(c) ==
  CASE pc[c] = "idle" -> "none"
    [] pc[c] \notin {"idle", "done"} -> "pending"
    [] pc[c] = "done" /\ outcome[c] = "ok" -> "ok"
    [] pc[c] = "done" /\ outcome[c] = "SubmitError" -> "unsure"
    [] OTHER -> "safe"

Once == INSTANCE SubmitOnce
  WITH Calls <- SubmitCalls,
       TxIds <- {"the proposal's"},
       verdict <- [c \in SubmitCalls |-> Verdict(c)],
       ledger <- ledger \X {"the proposal's"}

(* One proposal, one envelope, and no verdict but SubmitError that leaves   *)
(* the caller in doubt.                                                     *)
ImplementsSubmitOnce == Once!Spec

=============================================================================
