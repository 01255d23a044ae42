--------------------------- MODULE OfflineSigning ---------------------------
(***************************************************************************)
(* Offline proposal signing on the direct path of the Node bridge:          *)
(* NewUnsignedProposal snapshots the peers a proposal is meant for, someone *)
(* signs it outside, and NewSignedProposal resumes it, perhaps much later,  *)
(* to evaluate it or to endorse and submit it (src/src/peer/PeerContract.ts *)
(* with offlineSigning.ts).                                                 *)
(*                                                                          *)
(* Every operation that needs the channel's peers or orderer calls          *)
(* discover(), so this module composes the flows with DiscoverySession: an  *)
(* operation and its query have one name.  Bytes are the request they were  *)
(* built for; a signature is not checked by the bridge, so it is not there. *)
(***************************************************************************)
EXTENDS DiscoverySession, FiniteSets

CONSTANTS
  Requests,          \* calls of NewUnsignedProposal
  EndorseOps,        \* calls of Endorse on a resumed proposal
  EvaluateOps,       \* calls of Evaluate on a resumed proposal
  SubmitOps,         \* calls of SubmitAsync on an endorsed transaction
  Payloads,          \* what a peer may answer to one proposal
  Damages,           \* what may happen to a signed message on its way
  OrdererConfigured  \* config.ordererEndpoint is set

ProposalOps == EndorseOps \cup EvaluateOps

ASSUME OfflineAssumption ==
  /\ Queries = Requests \cup ProposalOps \cup SubmitOps
  /\ Requests \cap (ProposalOps \cup SubmitOps) = {}
  /\ EndorseOps \cap EvaluateOps = {}
  /\ ProposalOps \cap SubmitOps = {}
  /\ Damages \subseteq {"other digest", "no peers", "second peer"}
  /\ OrdererConfigured \in BOOLEAN

VARIABLES
  step,         \* where an operation awaits
  named,        \* peers named to UseEndorsingPeers before a request; {}: UseSinglePeer
  request,      \* the signing request built
  message,      \* the signed message an operation resumed
  answers,      \* answers[o][p]: what the operation's promise for peer p holds
  transaction,  \* the transaction an Endorse returned
  submitted,    \* the Endorse whose transaction a SubmitAsync submits
  verdict,      \* what the operation returned
  envelopes,    \* <<submit, transaction>>: what was broadcast
  ledger        \* the part of it the orderer accepted

flowVars == <<step, named, request, message, answers, transaction, submitted, verdict>>
netVars == <<envelopes, ledger>>
vars == <<sessionVars, flowVars, netVars>>

Modes == {"single-peer", "endorsing-peers"}
SnapshotsOf(k) == [bytes: {k}, digest: {k}, mode: Modes, peers: SUBSET Peers]
Snapshots == UNION {SnapshotsOf(k) : k \in Requests}
SignedMessages == [bytes: Requests, digest: Requests \cup {"other"}, mode: Modes, peers: SUBSET Peers]
Transactions == [bytes: Requests, payload: Payloads, endorsers: SUBSET Peers]
None == [bytes |-> "none"]

Awaited == "pending"
Refused == "refused"
NotAsked == "not asked"

ASSUME OfflinePayloadsAssumption == Payloads \cap {Awaited, Refused, NotAsked} = {}

Steps == {"idle", "resumed", "discovering", "endorsing", "signing", "broadcasting", "done"}
Verdicts == {"none", "ok", "OfflineSigningError", "DiscoveryError", "PeerNotFoundError",
             "EndorsementError", "EvaluationError", "SubmitError"}

OfflineTypeOK ==
  /\ SessionTypeOK
  /\ step \in [Queries -> Steps]
  /\ named \in [Requests -> SUBSET Peers]
  /\ request \in [Requests -> Snapshots \cup {None}]
  /\ message \in [ProposalOps -> SignedMessages \cup {None}]
  /\ answers \in [ProposalOps -> [Peers -> Payloads \cup {Awaited, Refused, NotAsked}]]
  /\ transaction \in [EndorseOps -> Transactions \cup {None}]
  /\ submitted \in [SubmitOps -> EndorseOps \cup {"none"}]
  /\ verdict \in [Queries -> Verdicts]
  /\ envelopes \subseteq (SubmitOps \X Transactions)
  /\ ledger \subseteq envelopes

Init ==
  /\ SessionInit
  /\ step = [o \in Queries |-> "idle"]
  /\ named \in [Requests -> SUBSET Peers]
  /\ request = [k \in Requests |-> None]
  /\ message = [o \in ProposalOps |-> None]
  /\ answers = [o \in ProposalOps |-> [p \in Peers |-> NotAsked]]
  /\ transaction = [o \in EndorseOps |-> None]
  /\ submitted = [s \in SubmitOps |-> "none"]
  /\ verdict = [o \in Queries |-> "none"]
  /\ envelopes = {}
  /\ ledger = {}

At(o, where) == step[o] = where
Go(o, where) == step' = [step EXCEPT ![o] = where]

End(o, told) ==
  /\ Go(o, "done")
  /\ verdict' = [verdict EXCEPT ![o] = told]

(* discover() has returned to the operation.                                *)
Discovered(o) == At(o, "discovering") /\ outcome[o] # "pending"

DiscoverFor(o) == Discover(o) /\ Go(o, "discovering")

-----------------------------------------------------------------------------
(* NewUnsignedProposal: the snapshot.                                       *)

RequestFor(k, mode, peers) ==
  request' = [request EXCEPT ![k] = [bytes |-> k, digest |-> k, mode |-> mode, peers |-> peers]]

Snapshot(k, r) ==
  LET key == RoundRobinKey(of[k], r.peers)
      selected == RotateFrom(r.peers, RoundRobinIndex(key, Len(r.peers)))[1]
  IN \/ /\ named[k] = {}
        /\ AdvanceRoundRobin(key, Len(r.peers))
        /\ RequestFor(k, "single-peer", {selected})
        /\ End(k, "ok")
     \/ /\ named[k] # {}
        /\ IF named[k] \subseteq PeersOf(r.peers)
             THEN RequestFor(k, "endorsing-peers", named[k]) /\ End(k, "ok")
             ELSE End(k, "PeerNotFoundError") /\ UNCHANGED request
        /\ UNCHANGED cacheVars

flowVarsOfOps == <<named, message, answers, transaction, submitted>>
timeVars == <<expiresAt, serviceVars, queryVars>>

(* ensureDiscovery takes an entry of any age.                               *)
BuildFromCache(k) ==
  /\ At(k, "idle")
  /\ CacheGet(of[k]) # NoResult
  /\ Snapshot(k, CacheGet(of[k]))
  /\ UNCHANGED <<timeVars, flowVarsOfOps, netVars>>

BuildDiscovers(k) ==
  /\ At(k, "idle")
  /\ CacheGet(of[k]) = NoResult
  /\ DiscoverFor(k)
  /\ UNCHANGED <<flowVarsOfOps, request, verdict, netVars>>

BuildFromDiscovery(k) ==
  /\ Discovered(k)
  /\ \/ outcome[k] = "DiscoveryError" /\ End(k, "DiscoveryError") /\ UNCHANGED <<cacheVars, request>>
     \/ outcome[k] # "DiscoveryError" /\ Snapshot(k, result[k])
  /\ UNCHANGED <<timeVars, flowVarsOfOps, netVars>>

Build(k) == BuildFromCache(k) \/ BuildDiscovers(k) \/ BuildFromDiscovery(k)

-----------------------------------------------------------------------------
(* NewSignedProposal: a message is resumed, as it was built or damaged.     *)

Damaged(m, d) ==
  CASE d = "other digest" -> [m EXCEPT !.digest = "other"]
    [] d = "no peers" -> [m EXCEPT !.peers = {}]
    [] d = "second peer" -> [m EXCEPT !.peers = Peers]

Received(k) == {request[k]} \cup {Damaged(request[k], d) : d \in Damages}

(* decodePeerSignedMessage and NewPeerSignedProposal                        *)
Accepted(m) ==
  /\ m.digest = m.bytes
  /\ m.mode = "single-peer" => Cardinality(m.peers) = 1

Resume(o, k) ==
  /\ At(o, "idle")
  /\ request[k] # None
  /\ of[o] = of[k]
  /\ \E m \in Received(k) :
       /\ message' = [message EXCEPT ![o] = m]
       /\ IF Accepted(m) THEN Go(o, "resumed") /\ UNCHANGED verdict
                         ELSE End(o, "OfflineSigningError")
  /\ UNCHANGED <<sessionVars, named, request, answers, transaction, submitted, netVars>>

-----------------------------------------------------------------------------
(* Endorse and Evaluate of the resumed proposal: sendProposal.              *)

Revalidate(o) ==
  /\ At(o, "resumed")
  /\ DiscoverFor(o)
  /\ UNCHANGED <<flowVarsOfOps, request, verdict, netVars>>

PassedThrough == {"PeerNotFoundError", "DiscoveryError"}

Reject(o, e) ==
  End(o, IF e \in PassedThrough \/ o \in EndorseOps THEN e ELSE "EvaluationError")

\* mutant: peers that have left are left out
SendToThoseListed(o) ==
  /\ Discovered(o)
  /\ outcome[o] # "DiscoveryError"
  /\ answers' = [answers EXCEPT ![o] =
                   [p \in Peers |-> IF p \in message[o].peers \cap PeersOf(result[o].peers)
                                    THEN Awaited ELSE NotAsked]]
  /\ Go(o, "endorsing")
  /\ UNCHANGED <<verdict, sessionVars, named, request, message, transaction, submitted, netVars>>

(* resolveSnapshottedPeerEndpoints, then the proposal to every peer of the  *)
(* snapshot at once.                                                        *)
SendProposal(o) ==
  /\ Discovered(o)
  /\ \/ /\ outcome[o] = "DiscoveryError"
        /\ Reject(o, "DiscoveryError")
        /\ UNCHANGED answers
     \/ /\ outcome[o] # "DiscoveryError"
        /\ ~(message[o].peers \subseteq PeersOf(result[o].peers))
        /\ Reject(o, "PeerNotFoundError")
        /\ UNCHANGED answers
     \/ /\ outcome[o] # "DiscoveryError"
        /\ message[o].peers \subseteq PeersOf(result[o].peers)
        /\ answers' = [answers EXCEPT ![o] =
                         [p \in Peers |-> IF p \in message[o].peers THEN Awaited ELSE NotAsked]]
        /\ Go(o, "endorsing")
        /\ UNCHANGED verdict
  /\ UNCHANGED <<sessionVars, named, request, message, transaction, submitted, netVars>>

PeerEndorses(o, p, x) ==
  /\ answers[o][p] = Awaited
  /\ answers' = [answers EXCEPT ![o][p] = x]
  /\ UNCHANGED <<sessionVars, step, named, request, message, transaction, submitted, verdict, netVars>>

(* A refusal, a gRPC error or the deadline; the first ends the operation.   *)
PeerFails(o, p) ==
  /\ answers[o][p] = Awaited
  /\ answers' = [answers EXCEPT ![o][p] = Refused]
  /\ \/ At(o, "endorsing") /\ Reject(o, "EndorsementError")
     \/ ~At(o, "endorsing") /\ UNCHANGED <<step, verdict>>
  /\ UNCHANGED <<sessionVars, named, request, message, transaction, submitted, netVars>>

AllAnswered(o) == \A p \in message[o].peers : answers[o][p] \in Payloads

\* mutant: payloads are compared with the first of another proposal only
AgreedOnAny(o, x) == \E p \in message[o].peers : answers[o][p] = x

(* validateExplicitProposalResponses wants at least one response.           *)
AgreedOn(o, x) ==
  /\ message[o].peers # {}
  /\ \A p \in message[o].peers : answers[o][p] = x

Conclude(o) ==
  /\ At(o, "endorsing")
  /\ AllAnswered(o)
  /\ \/ \E x \in Payloads :
          /\ AgreedOn(o, x)
          /\ End(o, "ok")
          /\ transaction' = IF o \in EvaluateOps THEN transaction ELSE
               [transaction EXCEPT ![o] =
                  [bytes |-> message[o].bytes, payload |-> x, endorsers |-> message[o].peers]]
     \/ /\ ~\E x \in Payloads : AgreedOn(o, x)
        /\ Reject(o, "EndorsementError")
        /\ UNCHANGED transaction
  /\ UNCHANGED <<sessionVars, named, request, message, answers, submitted, netVars>>

-----------------------------------------------------------------------------
(* SubmitAsync of the endorsed transaction, as often as the application     *)
(* likes: the bridge signs it, finds an orderer and broadcasts it.          *)

opVars == <<named, request, message, answers, transaction>>

StartSubmit(s, o) ==
  /\ At(s, "idle")
  /\ transaction[o] # None
  /\ of[s] = of[o]
  /\ submitted' = [submitted EXCEPT ![s] = o]
  /\ Go(s, "signing")
  /\ UNCHANGED <<sessionVars, opVars, verdict, netVars>>

Envelope(s) == <<s, transaction[submitted[s]]>>

Broadcast(s) ==
  /\ envelopes' = envelopes \cup {Envelope(s)}
  /\ Go(s, "broadcasting")
  /\ UNCHANGED <<verdict, ledger>>

SubmitFails(s) == End(s, "SubmitError") /\ UNCHANGED netVars

(* The bridge's signer has answered, or failed.                             *)
Signed(s) ==
  /\ At(s, "signing")
  /\ \/ OrdererConfigured /\ Broadcast(s) /\ UNCHANGED sessionVars
     \/ ~OrdererConfigured /\ DiscoverFor(s) /\ UNCHANGED <<verdict, netVars>>
     \/ SubmitFails(s) /\ UNCHANGED sessionVars
  /\ UNCHANGED <<opVars, submitted>>

(* resolveSubmitOrdererEndpoint; every error becomes a SubmitError.         *)
OrdererFound(s) ==
  /\ At(s, "discovering") /\ s \in SubmitOps
  /\ outcome[s] # "pending"
  /\ \/ outcome[s] # "DiscoveryError" /\ result[s].orderer /\ Broadcast(s)
     \/ SubmitFails(s)
  /\ UNCHANGED <<sessionVars, opVars, submitted>>

\* mutant: the end of the stream resolves the promise
BroadcastEndsOk(s) ==
  /\ At(s, "broadcasting")
  /\ End(s, "ok")
  /\ UNCHANGED <<sessionVars, opVars, submitted, netVars>>

\* mutant: no deadline on the stream
BroadcastAnswered(s) ==
  /\ At(s, "broadcasting")
  /\ Envelope(s) \in ledger
  /\ End(s, "ok")
  /\ UNCHANGED <<sessionVars, opVars, submitted, netVars>>

BroadcastEnds(s) ==
  /\ At(s, "broadcasting")
  /\ \/ Envelope(s) \in ledger /\ End(s, "ok") /\ UNCHANGED netVars
     \/ SubmitFails(s)
  /\ UNCHANGED <<sessionVars, opVars, submitted>>

OrdererAccepts(e) ==
  /\ e \in envelopes \ ledger
  /\ ledger' = ledger \cup {e}
  /\ UNCHANGED <<sessionVars, flowVars, envelopes>>

-----------------------------------------------------------------------------
(* No time passes between the return of discover() and what follows it.     *)
SessionStep ==
  /\ \/ UpOrDown \/ Disconnect
     \/ Tick /\ \A o \in Queries : ~Discovered(o)
     \/ \E q \in Queries : QueryStep(q)
     \/ \E ch \in Channels, r \in DiscoveryResults : MembershipChanges(ch, r)
  /\ UNCHANGED <<flowVars, netVars>>

OpStep(o) ==
  \/ o \in Requests /\ Build(o)
  \/ o \in ProposalOps /\ (Revalidate(o) \/ SendProposal(o) \/ Conclude(o)
                             \/ \E p \in Peers : PeerFails(o, p))
  \/ o \in SubmitOps /\ (Signed(o) \/ OrdererFound(o) \/ BroadcastEnds(o))

Next ==
  \/ SessionStep
  \/ \E o \in Queries : OpStep(o)
  \/ \E o \in ProposalOps, k \in Requests : Resume(o, k)
  \/ \E o \in ProposalOps, p \in Peers, x \in Payloads : PeerEndorses(o, p, x)
  \/ \E s \in SubmitOps, o \in EndorseOps : StartSubmit(s, o)
  \/ \E e \in envelopes : OrdererAccepts(e)

Spec == Init /\ [][Next]_vars

(* The application has called it and not got its answer.                    *)
UnderWay(o) == step[o] \notin {"idle", "resumed", "done"}

(* Timers and deadlines fire, continuations run, the signer answers.  The   *)
(* application may stop between two calls.                                  *)
FairSpec ==
  /\ Spec
  /\ \A o \in Queries : /\ WF_vars(UnderWay(o) /\ OpStep(o))
                        /\ WF_vars(QueryStep(o) /\ UNCHANGED <<flowVars, netVars>>)

-----------------------------------------------------------------------------
(* Properties                                                               *)

Asked(o) == {p \in Peers : answers[o][p] # NotAsked}

RecentlyListed(ch, p) ==
  \E r \in DiscoveryResults :
    /\ p \in PeersOf(r.peers)
    /\ lastListed[ch][r] # Never
    /\ now - lastListed[ch][r] <= MaxAge

(* A resumed proposal is sent only to peers that the service has listed     *)
(* within the time to live and one deadline, however old the listing was    *)
(* its snapshot was taken from and however long the message was away.       *)
ProposalsGoToListedPeers ==
  [][\A o \in ProposalOps :
       Asked(o) = {} /\ Asked(o)' # {} => \A p \in Asked(o)' : RecentlyListed(of[o], p)]_vars

(* A proposal goes to every peer its message names or to nobody, though some *)
(* may have left since the snapshot was taken: all of them are in the       *)
(* listing the resume was given, none is left out and none takes another's  *)
(* place.  It goes to one peer only when the request was built for a single *)
(* peer, also if the message that comes back names more (PeerContract.ts:   *)
(* 1072-1102, 1189-1207).                                                   *)
SnapshotIsExact ==
  \A o \in ProposalOps :
    Asked(o) # {} =>
      /\ Asked(o) = message[o].peers
      /\ Asked(o) \subseteq PeersOf(result[o].peers)
      /\ request[message[o].bytes].mode = "single-peer" => Cardinality(Asked(o)) = 1

(* A transaction that reaches the orderer carries one payload, returned by  *)
(* every peer of the message for that very proposal.                        *)
EnvelopesAreUnanimous ==
  \A e \in envelopes :
    LET o == submitted[e[1]]
    IN /\ e[2].endorsers = message[o].peers
       /\ e[2].endorsers # {}
       /\ \A p \in e[2].endorsers : answers[o][p] = e[2].payload

(* The message is one the bridge built and nobody damaged.                  *)
WellFormed(m) ==
  /\ m.digest = m.bytes
  /\ m.peers # {}
  /\ m.mode = "single-peer" => Cardinality(m.peers) = 1

(* CONTEXT.md: "Malformed signing DTOs fail with an Offline signing error   *)
(* before any Fabric network call is attempted."                            *)
MalformedFailLocally ==
  \A o \in ProposalOps :
    message[o] # None /\ ~WellFormed(message[o]) => stage[o] = "idle"

(* Every operation that was begun returns, though the service, a peer or    *)
(* the orderer never answers: each is begun once, so in the end none is     *)
(* under way.                                                               *)
EveryOperationReturns == <>[](\A o \in Queries : ~UnderWay(o))

-----------------------------------------------------------------------------
(* SubmitAsync implements SubmitOnce: each call orders at most the one      *)
(* transaction it was given, and ok is never told of one that was lost.     *)

SubmitVerdict(s) ==
  CASE At(s, "idle") -> "none"
    [] At(s, "done") /\ verdict[s] = "ok" -> "ok"
    [] At(s, "done") /\ verdict[s] # "ok" -> "unsure"
    [] OTHER -> "pending"

Once == INSTANCE SubmitOnce
  WITH Calls <- SubmitOps,
       TxIds <- Requests,
       verdict <- [s \in SubmitOps |-> SubmitVerdict(s)],
       ledger <- {<<e[1], e[2].bytes>> : e \in ledger}

ImplementsSubmitOnce == Once!Spec

=============================================================================
