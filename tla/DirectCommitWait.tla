-------------------------- MODULE DirectCommitWait ---------------------------
(***************************************************************************)
(* Waiting for the commit of a transaction that was submitted directly to   *)
(* an orderer.  DirectPeerRuntime.waitForCommit opens a GatewayConnection   *)
(* of its own, asks for the status and closes it.  FabricBridge begins one  *)
(* such wait as soon as a transaction was submitted and hands every caller  *)
(* of WaitForCommit the same promise; an endorsed offline transaction       *)
(* (PeerSubmittedTx) begins one at every call.                              *)
(*                                                                          *)
(* A wait, its connection and its status call have one name, and the        *)
(* transactions are those submitted: WaitsAreConnections.                   *)
(***************************************************************************)
EXTENDS GatewayConnection

CONSTANTS
  Online,   \* transactions submitted through FabricBridge
  Offline,  \* transactions submitted after offline signing
  Callers   \* calls of WaitForCommit, or the second half of a Submit

Submitted == Online \cup Offline

ASSUME WaitAssumption == Online \cap Offline = {}

WaitsAreConnections == StatusCalls = Conns /\ TxIds = Submitted

NoWait == NoConn

VARIABLES
  promise, \* promise[t]: the wait whose promise an online t shares
  settled, \* settled[w]: the result of the promise of wait w
  caller,  \* caller[c]: where a call is
  tx,      \* tx[c]: the transaction it waits for
  awaits,  \* awaits[c]: the wait whose promise it awaits
  answer   \* answer[c]: what it was told

waitVars == <<promise, settled>>
callerVars == <<caller, tx, awaits, answer>>
commitVars == <<connVars, waitVars, callerVars>>

Answers == CommitAnswers \cup ConnectResults

WaitTypeOK ==
  /\ ConnTypeOK
  /\ promise \in [Online -> Conns \cup {NoWait}]
  /\ settled \in [Conns -> Answers]
  /\ caller \in [Callers -> {"idle", "waiting", "done"}]
  /\ tx \in [Callers -> Submitted]
  /\ awaits \in [Callers -> Conns \cup {NoWait}]
  /\ answer \in [Callers -> Answers]

WaitInit ==
  /\ ConnInit
  /\ promise = [t \in Online |-> NoWait]
  /\ settled = [w \in Conns |-> "none"]
  /\ caller = [c \in Callers |-> "idle"]
  /\ tx \in [Callers -> Submitted]
  /\ awaits = [c \in Callers |-> NoWait]
  /\ answer = [c \in Callers |-> "none"]

-----------------------------------------------------------------------------
(* runtime.waitForCommit                                                    *)

BeginWait(w, t) ==
  /\ about[w] = t
  /\ StartConnect(w)

Settle(w, r) == settled' = [settled EXCEPT ![w] = r]

(* connect() has returned: the status is asked for, or the wait is over     *)
(* with the error of connect().                                             *)
Connected(w) ==
  /\ phase[w] = "returned"
  /\ query[w] = "idle"
  /\ settled[w] = "none"
  /\ \/ connected[w] = "ok" /\ CallCommitStatus(w, w) /\ UNCHANGED settled
     \/ connected[w] # "ok" /\ Settle(w, connected[w]) /\ UNCHANGED connVars
  /\ UNCHANGED <<promise, callerVars>>

\* mutant: the connection is closed only after a status was returned
CloseAfterStatus(w) ==
  /\ query[w] = "done"
  /\ settled[w] = "none"
  /\ Settle(w, told[w])
  /\ \/ told[w] \in {"VALID", "INVALID"} /\ Close(w)
     \/ told[w] \notin {"VALID", "INVALID"} /\ UNCHANGED connVars
  /\ UNCHANGED <<promise, callerVars>>

(* finally: disconnect(); its setImmediate delays the result only.          *)
CloseAndSettle(w) ==
  /\ query[w] = "done"
  /\ settled[w] = "none"
  /\ Close(w)
  /\ Settle(w, told[w])
  /\ UNCHANGED <<promise, callerVars>>

WaitStep(w) ==
  \/ (ConnectSteps(w) \/ QuerySteps(w)) /\ UNCHANGED <<waitVars, callerVars>>
  \/ Connected(w) \/ CloseAndSettle(w)

-----------------------------------------------------------------------------
(* FabricBridge.SubmitAsync: the wait begins before the caller has the      *)
(* transaction.                                                             *)
SubmitReturns(t, w) ==
  /\ promise[t] = NoWait
  /\ promise' = [promise EXCEPT ![t] = w]
  /\ BeginWait(w, t)
  /\ UNCHANGED <<settled, callerVars>>

\* mutant: every call begins a wait of its own
OwnWait(c, w) ==
  /\ caller[c] = "idle"
  /\ BeginWait(w, tx[c])
  /\ awaits' = [awaits EXCEPT ![c] = w]
  /\ caller' = [caller EXCEPT ![c] = "waiting"]
  /\ UNCHANGED <<waitVars, tx, answer>>

AwaitCommit(c, w) ==
  /\ caller[c] = "idle"
  /\ \/ /\ tx[c] \in Online
        /\ promise[tx[c]] = w
        /\ UNCHANGED connVars
     \/ tx[c] \in Offline /\ BeginWait(w, tx[c])
  /\ awaits' = [awaits EXCEPT ![c] = w]
  /\ caller' = [caller EXCEPT ![c] = "waiting"]
  /\ UNCHANGED <<waitVars, tx, answer>>

CallerReturns(c) ==
  /\ caller[c] = "waiting"
  /\ settled[awaits[c]] # "none"
  /\ answer' = [answer EXCEPT ![c] = settled[awaits[c]]]
  /\ caller' = [caller EXCEPT ![c] = "done"]
  /\ UNCHANGED <<connVars, waitVars, tx, awaits>>

WaitNetwork ==
  /\ (\E w \in Conns : ConnectReady(w)) \/ (\E t \in TxIds : Commit(t))
  /\ UNCHANGED <<waitVars, callerVars>>

WaitNext ==
  \/ WaitNetwork
  \/ \E w \in Conns : WaitStep(w)
  \/ \E t \in Online, w \in Conns : SubmitReturns(t, w)
  \/ \E c \in Callers, w \in Conns : AwaitCommit(c, w)
  \/ \E c \in Callers : CallerReturns(c)

WaitSpec == WaitInit /\ [][WaitNext]_commitVars

(* Continuations run, timers and deadlines fire, the signer answers.        *)
WaitFairSpec ==
  /\ WaitSpec
  /\ \A w \in Conns : WF_commitVars(WaitStep(w))
  /\ \A c \in Callers : WF_commitVars(CallerReturns(c))

-----------------------------------------------------------------------------
(* Properties                                                               *)

(* All who wait for one online transaction are told the same, whenever they *)
(* asked and whatever became of the connection.                             *)
AllWaitersAgree ==
  \A c, d \in Callers :
    /\ caller[c] = "done" /\ caller[d] = "done"
    /\ tx[c] = tx[d] /\ tx[c] \in Online
    => answer[c] = answer[d]

(* Two who wait for one transaction are never told VALID and INVALID, also  *)
(* when each asked for itself, and a status told is the one of the ledger.  *)
StatusesAreTrue ==
  \A c \in Callers :
    answer[c] \in {"VALID", "INVALID"} => answer[c] = validation[tx[c]]

(* A wait that was connected closes its connection before it settles, also  *)
(* when the signer throws or the status never comes.  (A connect() that     *)
(* fails leaves its client open: waitForCommit returns before its try.)     *)
ConnectionsAreClosed ==
  \A w \in Conns :
    settled[w] # "none" /\ connected[w] = "ok" => ~client[w] /\ ~gateway[w]

(* Every wait returns, though the Gateway and the ledger stay silent.       *)
EveryWaitReturns == \A c \in Callers : caller[c] = "waiting" ~> caller[c] = "done"

=============================================================================
