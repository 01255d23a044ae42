------------------------------ MODULE GoBridge ------------------------------
(***************************************************************************)
(* One connected Bridge of the Go SDK (go/fabricbridge/bridge.go,           *)
(* network.go, events.go) shared by goroutines: calls of Network and of     *)
(* WaitForCommit, Evaluate and SubmitAsync of a contract through the        *)
(* Gateway, event streams and Disconnect, with the reader-writer lock       *)
(* modeMu.                                                                  *)
(*                                                                          *)
(* A commit wait and a call of a contract hold the read lock for as long as *)
(* the Gateway answers nothing, under the caller's context alone; a call of *)
(* a contract does not look at connected, so it may be made on a closed     *)
(* connection.  An event stream holds the lock while it is opened and is    *)
(* read without it.  A Disconnect that waits for the lock keeps new readers *)
(* out, as a sync.RWMutex does.                                             *)
(***************************************************************************)
EXTENDS Naturals, Sequences

CONSTANTS
  Lookups,       \* calls of Network
  Waits,         \* calls of WaitForCommit, each for a transaction of its own
  Transactions,  \* calls of Evaluate and SubmitAsync of a contract
  DeadlineCalls, \* the waits and transactions whose context ends
  Streams,       \* event streams, each read until it fails or ends
  Disconnects,   \* calls of Disconnect
  MaxEvents,     \* bound: events on one stream
  Nobody

GatewayCalls == Waits \cup Transactions
Readers == Lookups \cup GatewayCalls \cup Streams
Calls == Readers \cup Disconnects

ASSUME DeadlinesAreOfGatewayCalls == DeadlineCalls \subseteq GatewayCalls
ASSUME WaitsAreNoTransactions == Waits \cap Transactions = {}
ASSUME NobodyIsNoCall == Nobody \notin Calls
ASSUME EventsAreCounted == MaxEvents \in Nat

VARIABLES
  connected,  \* Bridge.connected
  open,       \* the gRPC connection is open
  writer,     \* the Disconnect that holds modeMu or drains its readers
  stage,      \* where each call is
  outcome,    \* what it returned
  sent,       \* events the Gateway put on each stream
  wire,       \* responses of the Gateway not yet received
  ended,      \* streams the Gateway has ended
  pending,    \* ChaincodeEventStream.pending
  delivered   \* events Recv has returned to the application

vars == <<connected, open, writer, stage, outcome, sent, wire, ended, pending, delivered>>
streamVars == <<sent, wire, ended, pending, delivered>>

Stages == {"idle", "locking", "inside", "calling", "streaming", "draining", "closing", "done"}
Outcomes == {"none", "ok", "not connected", "error", "eof"}

TypeOK ==
  /\ connected \in BOOLEAN /\ open \in BOOLEAN
  /\ writer \in Disconnects \cup {Nobody}
  /\ stage \in [Calls -> Stages] /\ outcome \in [Calls -> Outcomes]
  /\ sent \in [Streams -> 0..MaxEvents] /\ ended \subseteq Streams
  /\ wire \in [Streams -> Seq(Seq(1..MaxEvents))]
  /\ pending \in [Streams -> Seq(1..MaxEvents)]
  /\ delivered \in [Streams -> Seq(1..MaxEvents)]

Init ==
  /\ connected = TRUE /\ open = TRUE
  /\ writer = Nobody
  /\ stage = [c \in Calls |-> "idle"] /\ outcome = [c \in Calls |-> "none"]
  /\ sent = [s \in Streams |-> 0] /\ ended = {}
  /\ wire = [s \in Streams |-> <<>>]
  /\ pending = [s \in Streams |-> <<>>] /\ delivered = [s \in Streams |-> <<>>]

Go(c, from, to) == stage[c] = from /\ stage' = [stage EXCEPT ![c] = to]

\* A call returns; the deferred RUnlock or Unlock runs with it.
Return(c, from, o) ==
  /\ Go(c, from, "done")
  /\ outcome' = [outcome EXCEPT ![c] = o]

Inside(r) == stage[r] \in {"inside", "calling"}

-----------------------------------------------------------------------------
(* The readers' side of the lock, and what each reader does inside it.      *)

Call(c) ==
  /\ Go(c, "idle", "locking")
  /\ UNCHANGED <<connected, open, writer, outcome, streamVars>>

RLock(r) ==
  /\ writer = Nobody
  /\ Go(r, "locking", "inside")
  /\ UNCHANGED <<connected, open, writer, outcome, streamVars>>

\* mutant: the early return leaves the read lock taken
RefusedHoldingLock(r) ==
  /\ ~connected
  /\ stage[r] = "inside" /\ outcome[r] = "none"
  /\ outcome' = [outcome EXCEPT ![r] = "not connected"]
  /\ UNCHANGED <<connected, open, writer, stage, streamVars>>

Refused(r) ==
  /\ ~connected
  /\ Return(r, "inside", "not connected")
  /\ UNCHANGED <<connected, open, writer, streamVars>>

Network(l) ==
  /\ connected
  /\ Return(l, "inside", "ok")
  /\ UNCHANGED <<connected, open, writer, streamVars>>

\* Building or signing the request fails.
RequestFails(r) ==
  /\ connected
  /\ Return(r, "inside", "error")
  /\ UNCHANGED <<connected, open, writer, streamVars>>

CommitStatus(w) ==
  /\ connected
  /\ Go(w, "inside", "calling")
  /\ UNCHANGED <<connected, open, writer, outcome, streamVars>>

\* The transaction has committed; a code other than VALID is an error as well.
StatusAnswers(w) ==
  /\ open
  /\ \E o \in {"ok", "error"} : Return(w, "calling", o)
  /\ UNCHANGED <<connected, open, writer, streamVars>>

\* The library builds, signs and sends the proposal, and for a submit what
\* the peers made of it, without a look at connected.
CallGateway(t) ==
  /\ Go(t, "inside", "calling")
  /\ UNCHANGED <<connected, open, writer, outcome, streamVars>>

\* An evaluation has its result, a submit is with the orderer.
GatewayAnswers(t) ==
  /\ open
  /\ Return(t, "calling", "ok")
  /\ UNCHANGED <<connected, open, writer, streamVars>>

\* The signer fails, the Gateway or the transport, or the connection is closed.
CallFails(c) ==
  /\ Return(c, "calling", "error")
  /\ UNCHANGED <<connected, open, writer, streamVars>>

ContextEnds(c) ==
  /\ c \in DeadlineCalls
  /\ CallFails(c)

ChaincodeEvents(s) ==
  /\ connected
  /\ Go(s, "inside", "streaming")
  /\ UNCHANGED <<connected, open, writer, outcome, streamVars>>

-----------------------------------------------------------------------------
(* Disconnect.                                                              *)

\* Lock() keeps new readers out from here on and waits for those inside.
Announce(d) ==
  /\ writer = Nobody
  /\ Go(d, "locking", "draining")
  /\ writer' = d
  /\ UNCHANGED <<connected, open, outcome, streamVars>>

\* mutant: the connection is closed without waiting for the readers
CloseAtOnce(d) ==
  /\ connected
  /\ Go(d, "draining", "closing")
  /\ open' = FALSE
  /\ UNCHANGED <<connected, writer, outcome, streamVars>>

Close(d) ==
  /\ \A r \in Readers : ~Inside(r)
  /\ connected
  /\ Go(d, "draining", "closing")
  /\ open' = FALSE
  /\ UNCHANGED <<connected, writer, outcome, streamVars>>

Closed(d) ==
  /\ Return(d, "closing", "ok")
  /\ connected' = FALSE
  /\ writer' = Nobody
  /\ UNCHANGED <<open, streamVars>>

AlreadyClosed(d) ==
  /\ \A r \in Readers : ~Inside(r)
  /\ ~connected
  /\ Return(d, "draining", "ok")
  /\ writer' = Nobody
  /\ UNCHANGED <<connected, open, streamVars>>

-----------------------------------------------------------------------------
(* ChaincodeEventStream.Recv: first what is pending, then the next response.*)

Deliver(s) ==
  /\ stage[s] = "streaming"
  /\ pending[s] # <<>>
  /\ delivered' = [delivered EXCEPT ![s] = Append(@, Head(pending[s]))]
  /\ pending' = [pending EXCEPT ![s] = Tail(@)]
  /\ UNCHANGED <<connected, open, writer, stage, outcome, sent, wire, ended>>

\* mutant: the response replaces what is pending instead of waiting for it
ReceiveReplacing(s) ==
  /\ stage[s] = "streaming"
  /\ open
  /\ wire[s] # <<>>
  /\ pending' = [pending EXCEPT ![s] = Head(wire[s])]
  /\ wire' = [wire EXCEPT ![s] = Tail(@)]
  /\ UNCHANGED <<connected, open, writer, stage, outcome, sent, ended, delivered>>

Receive(s) ==
  /\ stage[s] = "streaming"
  /\ pending[s] = <<>>
  /\ wire[s] # <<>>
  /\ pending' = [pending EXCEPT ![s] = Head(wire[s])]
  /\ wire' = [wire EXCEPT ![s] = Tail(@)]
  /\ UNCHANGED <<connected, open, writer, stage, outcome, sent, ended, delivered>>

EndOfStream(s) ==
  /\ pending[s] = <<>>
  /\ s \in ended
  /\ wire[s] = <<>>
  /\ Return(s, "streaming", "eof")
  /\ UNCHANGED <<connected, open, writer, streamVars>>

\* The transport fails, the connection was closed, or the context ended;
\* responses still on the wire are lost.
StreamFails(s) ==
  /\ pending[s] = <<>>
  /\ Return(s, "streaming", "error")
  /\ UNCHANGED <<connected, open, writer, streamVars>>

-----------------------------------------------------------------------------
(* The Gateway.                                                             *)

\* A response carries the next events of a block: none, one or several.
Sends(s) ==
  /\ open /\ stage[s] = "streaming" /\ s \notin ended
  /\ \E n \in sent[s]..MaxEvents :
       /\ wire' = [wire EXCEPT ![s] = Append(@, [i \in 1..(n - sent[s]) |-> sent[s] + i])]
       /\ sent' = [sent EXCEPT ![s] = n]
  /\ wire[s] = <<>>  \* bound: one response on the wire
  /\ UNCHANGED <<connected, open, writer, stage, outcome, ended, pending, delivered>>

Ends(s) ==
  /\ open /\ stage[s] = "streaming" /\ s \notin ended
  /\ ended' = ended \cup {s}
  /\ UNCHANGED <<connected, open, writer, stage, outcome, sent, wire, pending, delivered>>

-----------------------------------------------------------------------------
LookupStep(l) == RLock(l) \/ Refused(l) \/ Network(l)

WaitStep(w) == RLock(w) \/ Refused(w) \/ RequestFails(w) \/ CommitStatus(w) \/ ContextEnds(w)

TransactionStep(t) ==
  RLock(t) \/ CallGateway(t) \/ ContextEnds(t) \/ (~open /\ CallFails(t))

OpenStep(s) == RLock(s) \/ Refused(s) \/ RequestFails(s) \/ ChaincodeEvents(s)

RecvStep(s) == Deliver(s) \/ Receive(s) \/ EndOfStream(s) \/ (~open /\ StreamFails(s))

DisconnectStep(d) == Announce(d) \/ Close(d) \/ Closed(d) \/ AlreadyClosed(d)

Next ==
  \/ \E c \in Calls : Call(c)
  \/ \E l \in Lookups : LookupStep(l)
  \/ \E w \in Waits : WaitStep(w) \/ StatusAnswers(w) \/ CallFails(w)
  \/ \E t \in Transactions : TransactionStep(t) \/ GatewayAnswers(t) \/ CallFails(t)
  \/ \E s \in Streams : OpenStep(s) \/ RecvStep(s) \/ StreamFails(s) \/ Sends(s) \/ Ends(s)
  \/ \E d \in Disconnects : DisconnectStep(d)

Spec == Init /\ [][Next]_vars

(* The scheduler runs every goroutine that can go on, contexts with a       *)
(* deadline end, and a closed connection fails its streams and whatever is  *)
(* called on it.  That the Gateway answers or a transaction commits is not  *)
(* assumed.                                                                 *)
FairSpec ==
  /\ Spec
  /\ \A l \in Lookups : WF_vars(LookupStep(l))
  /\ \A w \in Waits : WF_vars(WaitStep(w))
  /\ \A t \in Transactions : WF_vars(TransactionStep(t))
  /\ \A s \in Streams : WF_vars(OpenStep(s)) /\ WF_vars(RecvStep(s))
  /\ \A d \in Disconnects : WF_vars(DisconnectStep(d))

-----------------------------------------------------------------------------
(* No Disconnect closes the connection under a goroutine that holds the    *)
(* read lock: what it read of connected still holds when it uses the        *)
(* connection, however long the call takes (bridge.go:255-303).  A call of  *)
(* a contract reads nothing and may find the connection closed, but it does *)
(* not lose an open one (network.go:69, 112).                               *)
CheckedConnectionIsOpen ==
  /\ \A r \in Readers : (Inside(r) /\ connected) => open
  /\ \A w \in Waits : stage[w] = "calling" => open

(* The application gets a stream's events in the order the Gateway sent     *)
(* them, each once, whatever their grouping into responses; io.EOF comes    *)
(* only after the last, also when the bridge was disconnected meanwhile.    *)
EventsArriveInOrder ==
  \A s \in Streams :
    /\ delivered[s] = [i \in 1..Len(delivered[s]) |-> i]
    /\ outcome[s] = "eof" => Len(delivered[s]) = sent[s]

EndlessCall == open /\ \E c \in GatewayCalls \ DeadlineCalls : stage[c] = "calling"

(* A call returns unless a commit wait, an evaluation or a submit without a *)
(* deadline awaits the Gateway over the open connection: it holds the read  *)
(* lock, so Disconnect waits for it and every new call waits for Disconnect *)
(* (bridge.go:93, 255; network.go:69, 112).  A stream ends once the         *)
(* connection is closed.                                                    *)
OnlyEndlessCallsBlock ==
  \A c \in Calls :
    LET settled == stage[c] = "done" \/ (stage[c] = "streaming" /\ open)
    IN (stage[c] # "idle" /\ ~settled) ~> (settled \/ EndlessCall)

=============================================================================
