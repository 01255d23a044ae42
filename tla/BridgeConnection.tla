-------------------------- MODULE BridgeConnection ---------------------------
(***************************************************************************)
(* The FabricBridge object of the Node bridge: connect(), disconnect(),     *)
(* WaitForCommit(), getNetwork() and the first step of a call on a contract *)
(* of that network (src/src/FabricBridge.ts over GatewayConnection).        *)
(*                                                                          *)
(* connect() makes a new GatewayConnection, so an object and the call that  *)
(* made it have one name.  Calls overlap as the application likes, except   *)
(* that it disconnects before it connects again.                            *)
(***************************************************************************)
EXTENDS GatewayConnection

CONSTANTS
  Disconnects, \* calls of disconnect()
  Uses         \* calls of getNetwork(), each followed by a call on a contract

VARIABLES
  current,     \* this.gatewayConnection
  isConnected, \* this.isConnected
  returned,    \* the connect() calls that have returned
  closing,     \* closing[d]: where a disconnect() is
  use,         \* use[u]: where a use is
  held,        \* held[u]: the connection its network was made with
  outcome      \* outcome[u]: what it came to

bridgeVars == <<current, isConnected, returned, closing>>
useVars == <<use, held, outcome>>
vars == <<connVars, bridgeVars, useVars>>

UseOutcomes == {"none", "called", "NotConnectedError", "rejected"}

TypeOK ==
  /\ ConnTypeOK
  /\ current \in Conns \cup {NoConn}
  /\ isConnected \in BOOLEAN
  /\ returned \subseteq Conns
  /\ closing \in [Disconnects -> {"idle", "closing", "done"}]
  /\ use \in [Uses -> {"idle", "network", "done"}]
  /\ held \in [Uses -> Conns \cup {NoConn}]
  /\ outcome \in [Uses -> UseOutcomes]

Init ==
  /\ ConnInit
  /\ current = NoConn
  /\ isConnected = FALSE
  /\ returned = {}
  /\ closing = [d \in Disconnects |-> "idle"]
  /\ use = [u \in Uses |-> "idle"]
  /\ held = [u \in Uses |-> NoConn]
  /\ outcome = [u \in Uses |-> "none"]

-----------------------------------------------------------------------------
(* A continuation that runs before any timer or network event does.         *)
Pending == \E k \in Conns : phase[k] = "ready" \/ (phase[k] = "returned" /\ k \notin returned)

Disconnecting == \E d \in Disconnects : closing[d] = "closing"

Connect(k) ==
  /\ \A j \in Conns : ~client[j]
  /\ StartConnect(k)
  /\ current' = k
  /\ UNCHANGED <<isConnected, returned, closing, useVars>>

ConnectReturns(k) ==
  /\ phase[k] = "returned"
  /\ k \notin returned
  /\ isConnected' = (isConnected \/ connected[k] = "ok")
  /\ returned' = returned \cup {k}
  /\ UNCHANGED <<connVars, current, closing, useVars>>

Disconnect(d) ==
  /\ closing[d] = "idle"
  /\ closing' = [closing EXCEPT ![d] = "closing"]
  /\ \/ current = NoConn /\ UNCHANGED connVars
     \/ current # NoConn /\ Close(current)
  /\ UNCHANGED <<current, isConnected, returned, useVars>>

\* mutant: the bridge does not wait for setImmediate
DisconnectReturnsAtOnce(d) ==
  /\ closing[d] = "closing"
  /\ closing' = [closing EXCEPT ![d] = "done"]
  /\ isConnected' = FALSE
  /\ UNCHANGED <<connVars, current, returned, useVars>>

(* After setImmediate.                                                      *)
DisconnectReturns(d) ==
  /\ closing[d] = "closing"
  /\ ~Pending
  /\ closing' = [closing EXCEPT ![d] = "done"]
  /\ isConnected' = FALSE
  /\ UNCHANGED <<connVars, current, returned, useVars>>

WaitForCommit(w) ==
  /\ query[w] = "idle"
  /\ \/ current = NoConn /\ Tell(w, "NotConnectedError")
        /\ UNCHANGED <<connectVars, on, about, validation>>
     \/ current # NoConn /\ CallCommitStatus(w, current)
  /\ UNCHANGED <<bridgeVars, useVars>>

-----------------------------------------------------------------------------
UseEnds(u, r) ==
  /\ use' = [use EXCEPT ![u] = "done"]
  /\ outcome' = [outcome EXCEPT ![u] = r]

GetNetwork(u) ==
  /\ use[u] = "idle"
  /\ \/ /\ isConnected /\ current # NoConn
        /\ use' = [use EXCEPT ![u] = "network"]
        /\ held' = [held EXCEPT ![u] = current]
        /\ UNCHANGED outcome
     \/ /\ ~(isConnected /\ current # NoConn)
        /\ UseEnds(u, "NotConnectedError")
        /\ UNCHANGED held
  /\ UNCHANGED <<connVars, bridgeVars>>

(* Submit, SubmitAsync or Evaluate of a contract: getGateway() throws when  *)
(* the connection the network was made with has no Gateway.                 *)
CallContract(u) ==
  /\ use[u] = "network"
  /\ UseEnds(u, IF gateway[held[u]] THEN "called" ELSE "rejected")
  /\ UNCHANGED <<connVars, bridgeVars, held>>

-----------------------------------------------------------------------------
(* setImmediate fires before a connection begun meanwhile can be ready.     *)
Network ==
  \/ \E k \in Conns : ConnectReady(k) /\ ~Disconnecting /\ UNCHANGED <<bridgeVars, useVars>>
  \/ \E t \in TxIds : Commit(t) /\ UNCHANGED <<bridgeVars, useVars>>

ConnStep(k) == \/ ConnectSteps(k) /\ UNCHANGED <<bridgeVars, useVars>>
               \/ ConnectReturns(k)
StatusStep(w) == QuerySteps(w) /\ UNCHANGED <<bridgeVars, useVars>>

Next ==
  \/ Network
  \/ \E k \in Conns : Connect(k) \/ ConnStep(k)
  \/ \E d \in Disconnects : Disconnect(d) \/ DisconnectReturns(d)
  \/ \E w \in StatusCalls : WaitForCommit(w) \/ StatusStep(w)
  \/ \E u \in Uses : GetNetwork(u) \/ CallContract(u)

Spec == Init /\ [][Next]_vars

(* Continuations run, timers and deadlines fire, the signer answers.        *)
FairSpec ==
  /\ Spec
  /\ \A k \in Conns : WF_vars(ConnStep(k))
  /\ \A d \in Disconnects : WF_vars(DisconnectReturns(d))
  /\ \A w \in StatusCalls : WF_vars(StatusStep(w))

-----------------------------------------------------------------------------
(* Properties                                                               *)

(* The flag and the connection agree whenever no disconnect() is under way: *)
(* a bridge that takes itself for connected holds an open client with a     *)
(* Gateway, whichever connect() and disconnect() overlapped before.         *)
ConnectedIsUsable ==
  isConnected /\ ~Disconnecting => current # NoConn /\ client[current] /\ gateway[current]

(* A call goes out over the connection the bridge holds, while it is open:  *)
(* neither a status request that awaited the signer nor a call on a         *)
(* contract of an older network uses a connection that a disconnect() has   *)
(* closed meanwhile, or is sent over the one a later connect() opened.      *)
CallsUseOpenConnection ==
  [][/\ \A w \in StatusCalls :
          query[w] # "sent" /\ query'[w] = "sent" => on[w] = current /\ client[current]
     /\ \A u \in Uses :
          outcome[u] # "called" /\ outcome'[u] = "called" =>
            held[u] = current /\ client[current]]_vars

(* Every connect(), disconnect() and WaitForCommit() returns, though the    *)
(* endpoint stays silent and the transaction is never committed.            *)
EveryCallReturns ==
  /\ \A k \in Conns : phase[k] # "new" ~> k \in returned
  /\ \A d \in Disconnects : closing[d] # "idle" ~> closing[d] = "done"
  /\ \A w \in StatusCalls : query[w] # "idle" ~> query[w] = "done"

(* CONTEXT.md: "Node reports SDK operation errors through `better-result`"; *)
(* no promise of an operation is rejected.                                  *)
NothingIsThrown ==
  /\ \A u \in Uses : outcome[u] # "rejected"
  /\ \A w \in StatusCalls : told[w] # "rejected"

=============================================================================
