------------------------- MODULE FabricBridgeProofs --------------------------
(***************************************************************************)
(* Proofs about the three objects that FabricBridge.ts puts together: the   *)
(* bridge and its GatewayConnection (BridgeConnection), the commit waits of *)
(* direct submits, which open GatewayConnections of their own               *)
(* (DirectCommitWait), and the transaction builder (TransactionTargeting)   *)
(* with the endpoint identities it keeps (EndpointIdentity), for any calls, *)
(* connections, transactions and settings.                                  *)
(*                                                                          *)
(* The first two are behaviours of the same connections, each with a        *)
(* specification of its own (Spec, WaitSpec); the third has BuilderSpec.    *)
(***************************************************************************)
EXTENDS BridgeConnection, DirectCommitWait, TransactionTargeting, TLAPS,
        WellFoundedInduction

-----------------------------------------------------------------------------
(* The bridge and its connection                                            *)

Usable(k) == k = current /\ client[k] /\ gateway[k]

(* Only the current connection can be open.  A connect() that succeeded and *)
(* has not yet told the bridge so, and a bridge that takes itself for       *)
(* connected, both have a usable connection unless a disconnect() took it   *)
(* away, and then that disconnect() has still to clear the flag.            *)
BridgeInv ==
  /\ TypeOK
  /\ \A k \in Conns : client[k] => k = current
  /\ \A k \in Conns : gateway[k] => client[k]
  /\ \A k \in Conns : connected[k] = "ok" => phase[k] = "returned"
  /\ \A k \in Conns :
       connected[k] = "ok" /\ k \notin returned => Usable(k) \/ Disconnecting
  /\ isConnected => Disconnecting \/ \E k \in Conns : Usable(k)

(* The invariant holds initially: nothing is open, nothing is connected.    *)
LEMMA InitBridgeInv == Init => BridgeInv
<1> SUFFICES ASSUME Init PROVE BridgeInv
  OBVIOUS
<1>1. TypeOK
  BY DEF Init, ConnInit, TypeOK, ConnTypeOK,
         ConnectResults, CommitAnswers, UseOutcomes
<1> QED
  BY <1>1 DEF Init, ConnInit, BridgeInv

(* A step that leaves the connections and the bridge alone keeps it, if it  *)
(* keeps the types.                                                         *)
LEMMA BridgeStutter ==
  ASSUME BridgeInv, TypeOK',
         UNCHANGED <<phase, connected, client, gateway,
                     current, isConnected, returned, closing>>
  PROVE  BridgeInv'
BY DEF BridgeInv, Usable, Disconnecting

(* connect() begins: no client was open, so whoever counted on one counts   *)
(* on a disconnect() that is under way.                                     *)
LEMMA ConnectKeeps ==
  ASSUME BridgeInv, NEW k \in Conns, Connect(k)
  PROVE  BridgeInv'
<1>1. /\ \A j \in Conns : ~client[j]
      /\ phase[k] = "new" /\ current' = k
      /\ UNCHANGED <<gateway, query, on, about, told, validation,
                     isConnected, returned, closing, use, held, outcome>>
  BY DEF Connect, StartConnect, queryVars, useVars
<1>2. TypeOK
  BY DEF BridgeInv
<1>3. /\ phase' \in [Conns -> {"new", "waiting", "ready", "returned"}]
      /\ connected' \in [Conns -> ConnectResults]
      /\ client' \in [Conns -> BOOLEAN]
      /\ \A j \in Conns :
           j # k => ~client'[j] /\ phase'[j] = phase[j] /\ connected'[j] = connected[j]
      /\ connected'[k] # "ok"
  <2>1. connected[k] # "ok"
    BY <1>1 DEF BridgeInv
  <2>2. CASE /\ phase' = [phase EXCEPT ![k] = "waiting"]
             /\ client' = [client EXCEPT ![k] = TRUE]
             /\ UNCHANGED connected
    BY <1>1, <1>2, <2>1, <2>2
       DEF TypeOK, ConnTypeOK, ConnectResults, ConnectResults
  <2>3. CASE ConnectEnds(k, "ConfigurationError") /\ UNCHANGED client
    BY <1>1, <1>2, <2>3
       DEF TypeOK, ConnTypeOK, ConnectResults, ConnectResults, ConnectEnds
  <2> QED
    BY <2>2, <2>3 DEF Connect, StartConnect
<1>4. TypeOK'
  BY <1>1, <1>2, <1>3 DEF TypeOK, ConnTypeOK, ConnectResults, ConnectResults
<1> QED
  BY <1>1, <1>3, <1>4 DEF BridgeInv, Usable, Disconnecting

(* connect() goes on: the Gateway is made over a client that is still open. *)
LEMMA ConnectContinuesKeeps ==
  ASSUME BridgeInv, NEW k \in Conns, ConnectContinues(k),
         UNCHANGED <<current, isConnected, returned, closing, use, held, outcome>>
  PROVE  BridgeInv'
<1>1. /\ phase[k] = "ready" /\ phase' = [phase EXCEPT ![k] = "returned"]
      /\ gateway' = [gateway EXCEPT ![k] = client[k]]
      /\ UNCHANGED <<client, query, on, about, told, validation>>
  BY DEF ConnectContinues, ConnectEnds, queryVars
<1>2. connected' = [connected EXCEPT ![k] = IF client[k] THEN "ok" ELSE "ConfigurationError"]
  BY DEF ConnectContinues, ConnectEnds
<1>3. PICK r \in {"ok", "ConfigurationError"} :
        r = (IF client[k] THEN "ok" ELSE "ConfigurationError")
  OBVIOUS
<1>4. TypeOK /\ client[k] \in BOOLEAN
  BY DEF BridgeInv, TypeOK, ConnTypeOK
<1>5. /\ phase' \in [Conns -> {"new", "waiting", "ready", "returned"}]
      /\ connected' \in [Conns -> ConnectResults]
      /\ gateway' \in [Conns -> BOOLEAN]
      /\ \A j \in Conns : j # k => /\ phase'[j] = phase[j] /\ connected'[j] = connected[j]
                                  /\ gateway'[j] = gateway[j]
      /\ phase'[k] = "returned" /\ connected'[k] = r /\ gateway'[k] = client[k]
  BY <1>1, <1>2, <1>3, <1>4
     DEF TypeOK, ConnTypeOK, ConnectResults, ConnectResults
<1>6. TypeOK'
  BY <1>1, <1>4, <1>5 DEF TypeOK, ConnTypeOK, ConnectResults, ConnectResults
<1>7. r = "ok" => client[k]
  BY <1>3
<1> QED
  BY <1>1, <1>5, <1>6, <1>7 DEF BridgeInv, Usable, Disconnecting

(* A connect() that fails leaves what was open as it was.                   *)
LEMMA ConnectFailsKeeps ==
  ASSUME BridgeInv, NEW k \in Conns, ConnectFails(k),
         UNCHANGED <<current, isConnected, returned, closing, use, held, outcome>>
  PROVE  BridgeInv'
<1>1. /\ phase[k] = "waiting"
      /\ UNCHANGED <<client, gateway, query, on, about, told, validation>>
  BY DEF ConnectFails, queryVars
<1>2. PICK r \in {"ConfigurationError", "TimeoutError"} :
        /\ phase' = [phase EXCEPT ![k] = "returned"]
        /\ connected' = [connected EXCEPT ![k] = r]
  BY DEF ConnectFails, ConnectEnds
<1>3. TypeOK
  BY DEF BridgeInv
<1>4. /\ phase' \in [Conns -> {"new", "waiting", "ready", "returned"}]
      /\ connected' \in [Conns -> ConnectResults]
      /\ \A j \in Conns : j # k => phase'[j] = phase[j] /\ connected'[j] = connected[j]
      /\ connected'[k] # "ok"
  BY <1>2, <1>3 DEF TypeOK, ConnTypeOK, ConnectResults, ConnectResults
<1>5. TypeOK'
  BY <1>1, <1>3, <1>4 DEF TypeOK, ConnTypeOK, ConnectResults, ConnectResults
<1> QED
  BY <1>1, <1>4, <1>5 DEF BridgeInv, Usable, Disconnecting

(* The network's steps open and close nothing.                              *)
LEMMA ConnectReadyKeeps ==
  ASSUME BridgeInv, NEW k \in Conns, ConnectReady(k),
         UNCHANGED <<current, isConnected, returned, closing, use, held, outcome>>
  PROVE  BridgeInv'
<1>1. /\ phase[k] = "waiting" /\ phase' = [phase EXCEPT ![k] = "ready"]
      /\ UNCHANGED <<connected, client, gateway, query, on, about, told, validation>>
  BY DEF ConnectReady, queryVars
<1>2. TypeOK /\ TypeOK'
  BY <1>1 DEF BridgeInv, TypeOK, ConnTypeOK
<1>3. \A j \in Conns : phase'[j] = "returned" <=> phase[j] = "returned"
  BY <1>1, <1>2 DEF TypeOK, ConnTypeOK
<1> QED
  BY <1>1, <1>2, <1>3 DEF BridgeInv, Usable, Disconnecting

(* connect() tells the bridge: the flag is set for a connection that is     *)
(* usable, or that a disconnect() under way has closed meanwhile.           *)
LEMMA ConnectReturnsKeeps ==
  ASSUME BridgeInv, NEW k \in Conns, ConnectReturns(k)
  PROVE  BridgeInv'
<1>1. /\ k \notin returned /\ returned' = returned \cup {k}
      /\ isConnected' = (isConnected \/ connected[k] = "ok")
      /\ UNCHANGED <<phase, connected, client, gateway, query, on, about, told, validation>>
      /\ UNCHANGED <<current, closing, use, held, outcome>>
  BY
     DEF ConnectReturns, connVars, connectVars, queryVars,
         useVars
<1>2. TypeOK'
  BY <1>1 DEF BridgeInv, TypeOK, ConnTypeOK
<1>3. isConnected' => Disconnecting \/ \E j \in Conns : Usable(j)
  BY <1>1 DEF BridgeInv
<1> QED
  BY <1>1, <1>2, <1>3 DEF BridgeInv, Usable, Disconnecting

(* disconnect() begins: whatever it closes, it is now under way.            *)
LEMMA DisconnectKeeps ==
  ASSUME BridgeInv, NEW d \in Disconnects, Disconnect(d)
  PROVE  BridgeInv'
<1>1. /\ closing' = [closing EXCEPT ![d] = "closing"]
      /\ UNCHANGED <<current, isConnected, returned, use, held, outcome>>
  BY DEF Disconnect, useVars
<1>2. TypeOK
  BY DEF BridgeInv
<1>3. closing' \in [Disconnects -> {"idle", "closing", "done"}] /\ closing'[d] = "closing"
  BY <1>1, <1>2 DEF TypeOK
<1>4. /\ UNCHANGED <<phase, connected, query, on, about, told, validation>>
      /\ client' \in [Conns -> BOOLEAN] /\ gateway' \in [Conns -> BOOLEAN]
      /\ \A k \in Conns : /\ client'[k] => client[k] /\ k = current
                          /\ gateway'[k] => client'[k]
  <2>1. CASE UNCHANGED <<phase, connected, client, gateway, query, on, about, told, validation>>
    BY <1>2, <2>1 DEF BridgeInv, TypeOK, ConnTypeOK
  <2>2. CASE Close(current)
    BY <1>2, <2>2 DEF BridgeInv, TypeOK, ConnTypeOK, Close, queryVars
  <2> QED
    BY <2>1, <2>2 DEF Disconnect, connVars, connectVars, queryVars
<1>5. TypeOK'
  BY <1>1, <1>2, <1>3, <1>4 DEF TypeOK, ConnTypeOK
<1>6. Disconnecting'
  BY <1>3 DEF Disconnecting
<1> QED
  BY <1>1, <1>4, <1>5, <1>6 DEF BridgeInv

(* disconnect() returns when no continuation is due, so that no connect()   *)
(* that succeeded has still to set the flag it clears.                      *)
LEMMA DisconnectReturnsKeeps ==
  ASSUME BridgeInv, NEW d \in Disconnects, DisconnectReturns(d)
  PROVE  BridgeInv'
<1>1. /\ closing' = [closing EXCEPT ![d] = "done"] /\ isConnected' = FALSE
      /\ UNCHANGED <<phase, connected, client, gateway, query, on, about, told, validation>>
      /\ UNCHANGED <<current, returned, use, held, outcome>>
  BY
     DEF DisconnectReturns, connVars, connectVars, queryVars,
         useVars
<1>2. \A k \in Conns : phase[k] = "returned" => k \in returned
  BY DEF DisconnectReturns, Pending
<1>3. TypeOK'
  BY <1>1 DEF BridgeInv, TypeOK, ConnTypeOK
<1> QED
  BY <1>1, <1>2, <1>3 DEF BridgeInv

(* What Tell returns to a status call.                                      *)
LEMMA TellFacts ==
  ASSUME ConnTypeOK, NEW w \in StatusCalls, NEW r \in CommitAnswers, Tell(w, r)
  PROVE  /\ told' \in [StatusCalls -> CommitAnswers]
         /\ query' \in [StatusCalls -> {"idle", "signing", "sent", "done"}]
         /\ told'[w] = r
         /\ \A x \in StatusCalls : x # w => told'[x] = told[x]
BY DEF ConnTypeOK, Tell

(* What is reported is an answer.                                           *)
LEMMA ReportedKeeps ==
  ASSUME TypeOK, NEW w \in StatusCalls, Reported(w),
         UNCHANGED <<current, isConnected, returned, closing, use, held, outcome>>
  PROVE  /\ TypeOK'
         /\ UNCHANGED <<phase, connected, client, gateway>>
<1>1. /\ UNCHANGED <<phase, connected, client, gateway, on, about, validation>>
      /\ Tell(w, validation[about[w]])
  BY DEF Reported, connectVars
<1>2. PICK v : v = validation[about[w]]
  OBVIOUS
<1>3. v \in {"none", "VALID", "INVALID"}
  BY <1>2 DEF TypeOK, ConnTypeOK
<1>4. v \in CommitAnswers
  BY <1>3 DEF CommitAnswers
<1>5. /\ told' \in [StatusCalls -> CommitAnswers]
      /\ query' \in [StatusCalls -> {"idle", "signing", "sent", "done"}]
      /\ told'[w] = v
      /\ \A x \in StatusCalls : x # w => told'[x] = told[x]
  BY <1>1, <1>2, <1>4, TellFacts DEF TypeOK
<1>6. TypeOK'
  BY <1>1, <1>5 DEF TypeOK, ConnTypeOK
<1> QED
  BY <1>1, <1>6

(* So is what a signer that fails, or a call that fails, makes of it.       *)
LEMMA StatusStepKeeps ==
  ASSUME TypeOK, NEW w \in StatusCalls, SignerAnswers(w) \/ StatusFails(w),
         UNCHANGED <<current, isConnected, returned, closing, use, held, outcome>>
  PROVE  /\ TypeOK'
         /\ UNCHANGED <<phase, connected, client, gateway>>
<1>1. UNCHANGED <<phase, connected, client, gateway, on, about, validation>>
  BY DEF SignerAnswers, StatusFails, connectVars
<1>2. CASE query' = [query EXCEPT ![w] = "sent"] /\ UNCHANGED told
  BY <1>1, <1>2 DEF TypeOK, ConnTypeOK
<1>3. ASSUME NEW r \in {"TimeoutError", "CommitError", "rejected"}, Tell(w, r)
      PROVE  TypeOK'
  <2>1. r \in CommitAnswers
    BY DEF CommitAnswers
  <2>2. /\ told' \in [StatusCalls -> CommitAnswers]
        /\ query' \in [StatusCalls -> {"idle", "signing", "sent", "done"}]
        /\ told'[w] = r
        /\ \A x \in StatusCalls : x # w => told'[x] = told[x]
    BY <1>3, <2>1, TellFacts DEF TypeOK
  <2> QED
    BY <1>1, <2>1, <2>2 DEF TypeOK, ConnTypeOK
<1> QED
  BY <1>1, <1>2, <1>3 DEF SignerAnswers, StatusFails

(* A call that begins touches no connection.                                *)
LEMMA WaitForCommitKeeps ==
  ASSUME TypeOK, NEW w \in StatusCalls, WaitForCommit(w)
  PROVE  /\ TypeOK'
         /\ UNCHANGED <<phase, connected, client, gateway, current, isConnected, returned, closing>>
<1>1. /\ UNCHANGED <<phase, connected, client, gateway, about, validation>>
      /\ UNCHANGED <<current, isConnected, returned, closing, use, held, outcome>>
      /\ on' \in [StatusCalls -> Conns \cup {NoConn}]
  BY DEF WaitForCommit, CallCommitStatus, connectVars, bridgeVars,
         useVars, TypeOK, ConnTypeOK
<1>2. CASE query' = [query EXCEPT ![w] = "signing"] /\ UNCHANGED told
  BY <1>1, <1>2 DEF TypeOK, ConnTypeOK
<1>3. CASE Tell(w, "NotConnectedError")
  <2>1. "NotConnectedError" \in CommitAnswers
    BY DEF CommitAnswers
  <2>2. /\ told' \in [StatusCalls -> CommitAnswers]
        /\ query' \in [StatusCalls -> {"idle", "signing", "sent", "done"}]
        /\ told'[w] = "NotConnectedError"
        /\ \A x \in StatusCalls : x # w => told'[x] = told[x]
    BY <1>3, <2>1, TellFacts DEF TypeOK
  <2> QED
    BY <1>1, <2>2 DEF TypeOK, ConnTypeOK
<1> QED
  BY <1>1, <1>2, <1>3 DEF WaitForCommit, CallCommitStatus

(* The peers' verdicts touch none either.                                   *)
LEMMA CommitKeeps ==
  ASSUME TypeOK, NEW t \in TxIds, Commit(t),
         UNCHANGED <<current, isConnected, returned, closing, use, held, outcome>>
  PROVE  /\ TypeOK'
         /\ UNCHANGED <<phase, connected, client, gateway>>
<1>1. UNCHANGED <<phase, connected, client, gateway, query, on, about, told>>
  BY DEF Commit, connectVars, queryVars
<1>2. PICK v \in {"VALID", "INVALID"} : validation' = [validation EXCEPT ![t] = v]
  BY DEF Commit
<1>3. validation' \in [TxIds -> {"none", "VALID", "INVALID"}]
  BY <1>2 DEF Commit, TypeOK, ConnTypeOK
<1> QED
  BY <1>1, <1>3 DEF TypeOK, ConnTypeOK

(* A use of a network reads the bridge and changes nothing of it.           *)
LEMMA UseKeeps ==
  ASSUME TypeOK, NEW u \in Uses, GetNetwork(u) \/ CallContract(u)
  PROVE  /\ TypeOK'
         /\ UNCHANGED <<phase, connected, client, gateway, current, isConnected, returned, closing>>
<1>1. /\ UNCHANGED <<phase, connected, client, gateway, query, on, about, told, validation>>
      /\ UNCHANGED <<current, isConnected, returned, closing>>
  BY DEF GetNetwork, CallContract, connVars, connectVars,
         queryVars, bridgeVars
<1>2. /\ use' \in [Uses -> {"idle", "network", "done"}]
      /\ held' \in [Uses -> Conns \cup {NoConn}]
      /\ outcome' \in [Uses -> UseOutcomes]
  <2>1. {"called", "rejected", "NotConnectedError"} \subseteq UseOutcomes
    BY DEF UseOutcomes
  <2>2. CASE GetNetwork(u)
    BY <2>1, <2>2 DEF GetNetwork, UseEnds, TypeOK
  <2>3. CASE CallContract(u)
    BY <2>1, <2>3 DEF CallContract, UseEnds, TypeOK
  <2> QED
    BY <2>2, <2>3
<1> QED
  BY <1>1, <1>2 DEF TypeOK, ConnTypeOK

(* Every step preserves the invariant.                                      *)
LEMMA BridgeStep == BridgeInv /\ [Next]_vars => BridgeInv'
<1> SUFFICES ASSUME BridgeInv, [Next]_vars PROVE BridgeInv'
  OBVIOUS
<1>1. TypeOK
  BY DEF BridgeInv
<1>2. CASE Network
  <2>1. ASSUME NEW k \in Conns, ConnectReady(k), UNCHANGED <<bridgeVars,
                                                                    useVars>>
        PROVE  BridgeInv'
    BY <2>1, ConnectReadyKeeps DEF bridgeVars, useVars
  <2>2. ASSUME NEW t \in TxIds, Commit(t), UNCHANGED <<bridgeVars, useVars>>
        PROVE  BridgeInv'
    BY <1>1, <2>2, CommitKeeps, BridgeStutter DEF bridgeVars, useVars
  <2> QED
    BY <1>2, <2>1, <2>2 DEF Network
<1>3. ASSUME NEW k \in Conns, Connect(k) \/ ConnStep(k)
      PROVE  BridgeInv'
  <2>1. CASE ConnectSteps(k) /\ UNCHANGED <<bridgeVars, useVars>>
    BY <2>1, ConnectFailsKeeps, ConnectContinuesKeeps
       DEF ConnectSteps, bridgeVars, useVars
  <2> QED
    BY <1>3, <2>1, ConnectKeeps, ConnectReturnsKeeps DEF ConnStep
<1>4. ASSUME NEW d \in Disconnects, Disconnect(d) \/ DisconnectReturns(d)
      PROVE  BridgeInv'
  BY <1>4, DisconnectKeeps, DisconnectReturnsKeeps
<1>5. ASSUME NEW w \in StatusCalls, WaitForCommit(w) \/ StatusStep(w)
      PROVE  BridgeInv'
  <2>1. CASE QuerySteps(w) /\ UNCHANGED <<bridgeVars, useVars>>
    <3>1. UNCHANGED <<current, isConnected, returned, closing, use, held, outcome>>
      BY <2>1 DEF bridgeVars, useVars
    <3>2. TypeOK' /\ UNCHANGED <<phase, connected, client, gateway>>
      BY <1>1, <2>1, <3>1, ReportedKeeps, StatusStepKeeps DEF QuerySteps
    <3> QED
      BY <3>1, <3>2, BridgeStutter
  <2> QED
    BY <1>1, <1>5, <2>1, WaitForCommitKeeps, BridgeStutter DEF StatusStep
<1>6. ASSUME NEW u \in Uses, GetNetwork(u) \/ CallContract(u)
      PROVE  BridgeInv'
  BY <1>1, <1>6, UseKeeps, BridgeStutter
<1>7. CASE UNCHANGED vars
  <2>1. /\ UNCHANGED <<phase, connected, client, gateway, query, on, about, told, validation>>
        /\ UNCHANGED <<current, isConnected, returned, closing, use, held, outcome>>
    BY <1>7 DEF vars, connVars, connectVars, queryVars,
                bridgeVars, useVars
  <2> QED
    BY <1>1, <2>1, BridgeStutter DEF TypeOK, ConnTypeOK
<1> QED
  BY <1>2, <1>3, <1>4, <1>5, <1>6, <1>7 DEF Next

(* The invariant of the bridge, whichever calls of connect() and            *)
(* disconnect() overlap.                                                    *)
THEOREM BridgeInvariance == Spec => []BridgeInv
BY InitBridgeInv, BridgeStep, PTL DEF Spec

(* Every reachable state of the bridge is type correct.                     *)
THEOREM BridgeTypeCorrect == Spec => []TypeOK
<1>1. BridgeInv => TypeOK
  BY DEF BridgeInv
<1> QED
  BY <1>1, BridgeInvariance, PTL

(* A bridge that takes itself for connected while no disconnect() is under  *)
(* way holds an open client with a Gateway (connect and disconnect of       *)
(* FabricBridge.ts).                                                        *)
THEOREM ConnectedBridgesAreUsable == Spec => []ConnectedIsUsable
<1>1. BridgeInv => ConnectedIsUsable
  BY ConnectionAssumption DEF BridgeInv, Usable, ConnectedIsUsable
<1> QED
  BY <1>1, BridgeInvariance, PTL

(* What awaits the signer, or has a network, has a connection.              *)
OwnersInv ==
  /\ \A w \in StatusCalls : query[w] = "signing" => on[w] \in Conns
  /\ \A u \in Uses : use[u] = "network" => held[u] \in Conns

(* A status call is made on the connection the bridge holds, and stays with *)
(* it; so does a network.                                                   *)
LEMMA OwnersStep == TypeOK /\ OwnersInv /\ [Next]_vars => OwnersInv'
<1> SUFFICES ASSUME TypeOK, OwnersInv, [Next]_vars PROVE OwnersInv'
  OBVIOUS
<1>1. CASE UNCHANGED <<query, on, use, held>>
  BY <1>1 DEF OwnersInv
<1>2. CASE Network
  BY <1>1, <1>2 DEF Network, ConnectReady, Commit, queryVars, useVars
<1>3. ASSUME NEW k \in Conns, Connect(k) \/ ConnStep(k) PROVE OwnersInv'
  BY <1>1, <1>3 DEF Connect, StartConnect, ConnStep, ConnectSteps, ConnectFails,
     ConnectContinues, ConnectReturns, connVars, queryVars, useVars
<1>4. ASSUME NEW d \in Disconnects, Disconnect(d) \/ DisconnectReturns(d) PROVE OwnersInv'
  BY <1>1, <1>4 DEF Disconnect, DisconnectReturns, Close, connVars, queryVars, useVars
<1>5. ASSUME NEW w \in StatusCalls, WaitForCommit(w) PROVE OwnersInv'
  <2>1. UNCHANGED <<use, held>> /\ current \in Conns \cup {NoConn}
    BY <1>5 DEF WaitForCommit, useVars, TypeOK
  <2>2. CASE UNCHANGED on /\ Tell(w, "NotConnectedError")
    BY <2>1, <2>2 DEF Tell, OwnersInv, TypeOK, ConnTypeOK
  <2>3. CASE current # NoConn /\ on' = [on EXCEPT ![w] = current]
             /\ (query' = [query EXCEPT ![w] = "signing"] \/ Tell(w, "NotConnectedError"))
    BY <2>1, <2>3 DEF Tell, OwnersInv, TypeOK, ConnTypeOK
  <2> QED
    BY <1>5, <2>2, <2>3 DEF WaitForCommit, CallCommitStatus
<1>6. ASSUME NEW w \in StatusCalls, StatusStep(w) PROVE OwnersInv'
  <2>1. UNCHANGED <<on, use, held>>
    BY <1>6 DEF StatusStep, QuerySteps, SignerAnswers, Reported, StatusFails, useVars
  <2>2. PICK s \in {"sent", "done"} : query' = [query EXCEPT ![w] = s]
    BY <1>6 DEF StatusStep, QuerySteps, SignerAnswers, Reported, StatusFails, Tell
  <2> QED
    BY <2>1, <2>2 DEF OwnersInv, TypeOK, ConnTypeOK
<1>7. ASSUME NEW u \in Uses, GetNetwork(u) \/ CallContract(u) PROVE OwnersInv'
  <2>1. UNCHANGED <<query, on>> /\ current \in Conns \cup {NoConn}
    BY <1>7 DEF GetNetwork, CallContract, connVars, queryVars, TypeOK
  <2>2. CASE GetNetwork(u)
    BY <2>1, <2>2, ConnectionAssumption DEF GetNetwork, UseEnds, OwnersInv, TypeOK
  <2>3. CASE CallContract(u)
    BY <2>1, <2>3 DEF CallContract, UseEnds, OwnersInv, TypeOK
  <2> QED
    BY <1>7, <2>2, <2>3
<1>8. CASE UNCHANGED vars
  BY <1>1, <1>8 DEF vars, connVars, queryVars, useVars
<1> QED
  BY <1>2, <1>3, <1>4, <1>5, <1>6, <1>7, <1>8 DEF Next

(* Only the signer's answer sends a status request, and only a call on a    *)
(* contract calls one: both look whether their connection is open, and the  *)
(* one that may be is the bridge's.                                         *)
LEMMA CallsStep ==
  ASSUME BridgeInv, OwnersInv, [Next]_vars
  PROVE  /\ \A w \in StatusCalls :
              query[w] # "sent" /\ query'[w] = "sent" => on[w] = current /\ client[current]
         /\ \A u \in Uses :
              outcome[u] # "called" /\ outcome'[u] = "called" =>
                held[u] = current /\ client[current]
<1>1. TypeOK /\ (\A k \in Conns : client[k] => k = current)
      /\ (\A k \in Conns : gateway[k] => client[k])
  BY DEF BridgeInv
<1>2. ASSUME NEW w \in StatusCalls, query[w] # "sent", query'[w] = "sent"
      PROVE  on[w] = current /\ client[current]
  <2>1. PICK v \in StatusCalls : WaitForCommit(v) \/ StatusStep(v)
    BY <1>2 DEF Next, Network, Connect, StartConnect, ConnStep, ConnectSteps, ConnectReady,
       ConnectFails, ConnectContinues, ConnectReturns, Disconnect, DisconnectReturns, Close,
       Commit, GetNetwork, CallContract, vars, connVars, queryVars
  <2>2. ~WaitForCommit(v)
    <3>1. ASSUME NEW r \in {"signing", "done"}, query' = [query EXCEPT ![v] = r] PROVE FALSE
      BY <1>1, <1>2, <3>1 DEF TypeOK, ConnTypeOK
    <3> QED
      BY <3>1 DEF WaitForCommit, CallCommitStatus, Tell
  <2>3. ASSUME query' = [query EXCEPT ![v] = "done"] PROVE FALSE
    BY <1>1, <1>2, <2>3 DEF TypeOK, ConnTypeOK
  <2>4. query[v] = "signing" /\ client[on[v]] /\ query' = [query EXCEPT ![v] = "sent"]
    BY <2>1, <2>2, <2>3 DEF StatusStep, QuerySteps, SignerAnswers, Reported, StatusFails, Tell
  <2>5. v = w
    BY <1>1, <1>2, <2>4 DEF TypeOK, ConnTypeOK
  <2> QED
    BY <1>1, <2>4, <2>5 DEF OwnersInv
<1>3. ASSUME NEW u \in Uses, outcome[u] # "called", outcome'[u] = "called"
      PROVE  held[u] = current /\ client[current]
  <2>1. PICK v \in Uses : GetNetwork(v) \/ CallContract(v)
    BY <1>3 DEF Next, Network, Connect, ConnStep, ConnectReturns, Disconnect, DisconnectReturns,
       WaitForCommit, StatusStep, vars, useVars
  <2>2. ASSUME NEW r, r # "called", UseEnds(v, r) PROVE FALSE
    BY <1>1, <1>3, <2>2 DEF UseEnds, TypeOK
  <2>3. use[v] = "network" /\ UseEnds(v, IF gateway[held[v]] THEN "called" ELSE "rejected")
    BY <1>3, <2>1, <2>2 DEF GetNetwork, CallContract
  <2>4. gateway[held[v]] /\ outcome' = [outcome EXCEPT ![v] = "called"]
    BY <2>2, <2>3 DEF UseEnds
  <2>5. v = u
    BY <1>1, <1>3, <2>4 DEF TypeOK
  <2> QED
    BY <1>1, <2>3, <2>4, <2>5 DEF OwnersInv
<1> QED
  BY <1>2, <1>3

(* A call goes out over the open connection the bridge holds, although      *)
(* connect() and disconnect() run while it awaits the signer or keeps a     *)
(* network (getCommitStatus of GatewayConnection.ts, getGateway).           *)
THEOREM CallsGoOutOnOpenConnections == Spec => CallsUseOpenConnection
<1>1. Init => OwnersInv
  BY DEF Init, ConnInit, OwnersInv
<1>2. BridgeInv => TypeOK
  BY DEF BridgeInv
<1>3. BridgeInv /\ OwnersInv /\ [Next]_vars =>
        [/\ \A w \in StatusCalls :
              query[w] # "sent" /\ query'[w] = "sent" => on[w] = current /\ client[current]
         /\ \A u \in Uses :
              outcome[u] # "called" /\ outcome'[u] = "called" =>
                held[u] = current /\ client[current]]_vars
  BY CallsStep
<1> QED
  BY <1>1, <1>2, <1>3, OwnersStep, BridgeInvariance, PTL DEF Spec, CallsUseOpenConnection

-----------------------------------------------------------------------------
(* Commit waits                                                             *)

(* How far a wait has come, and that it settles with what its status call   *)
(* was told, or with the error of its connect(), after it closed what       *)
(* connect() opened.                                                        *)
OwnOK(w) ==
  /\ connected[w] = "ok" => phase[w] = "returned"
  /\ query[w] # "idle" => phase[w] = "returned" /\ connected[w] = "ok"
  /\ told[w] \in {"VALID", "INVALID"} => told[w] = validation[about[w]]
  /\ settled[w] # "none" =>
       /\ phase[w] = "returned"
       /\ connected[w] = "ok" =>
            settled[w] = told[w] /\ query[w] = "done" /\ ~client[w] /\ ~gateway[w]
       /\ connected[w] # "ok" => settled[w] = connected[w]

(* A caller awaits a wait for its transaction, the shared one of an online  *)
(* transaction, and was told what that wait settled with.                   *)
CallerOK(c) ==
  /\ caller[c] # "idle" =>
       /\ awaits[c] \in Conns
       /\ about[awaits[c]] = tx[c]
       /\ tx[c] \in Online => promise[tx[c]] = awaits[c]
  /\ caller[c] = "done" => answer[c] = settled[awaits[c]] /\ answer[c] # "none"
  /\ caller[c] # "done" => answer[c] = "none"

WaitInv ==
  /\ WaitTypeOK
  /\ \A w \in Conns : OwnOK(w)
  /\ \A t \in Online : promise[t] # NoConn => about[promise[t]] = t
  /\ \A c \in Callers : CallerOK(c)

OwnTypes ==
  /\ phase \in [Conns -> {"new", "waiting", "ready", "returned"}]
  /\ connected \in [Conns -> ConnectResults]
  /\ client \in [Conns -> BOOLEAN]
  /\ gateway \in [Conns -> BOOLEAN]
  /\ query \in [Conns -> {"idle", "signing", "sent", "done"}]
  /\ on \in [Conns -> Conns \cup {NoConn}]
  /\ told \in [Conns -> CommitAnswers]
  /\ settled \in [Conns -> Answers]

(* The invariant holds initially: nobody waits.                             *)
LEMMA InitWaitInv ==
  ASSUME WaitsAreConnections
  PROVE  WaitInit => WaitInv
<1> SUFFICES ASSUME WaitInit PROVE WaitInv
  OBVIOUS
<1>1. WaitTypeOK
  BY DEF WaitInit, ConnInit, WaitTypeOK, ConnTypeOK, NoWait, Answers,
         ConnectResults, CommitAnswers
<1>2. \A w \in Conns : OwnOK(w)
  BY DEF WaitInit, ConnInit, OwnOK,
     WaitsAreConnections, Submitted
<1>3. \A t \in Online : promise[t] = NoConn
  BY DEF WaitInit, NoWait
<1>4. \A c \in Callers : CallerOK(c)
  BY DEF WaitInit, CallerOK
<1> QED
  BY <1>1, <1>2, <1>3, <1>4 DEF WaitInv

(* A step of one wait that keeps what is said of it, and its result once it *)
(* has one, keeps the invariant.                                            *)
LEMMA WaitMoves ==
  ASSUME WaitsAreConnections, WaitInv, NEW w \in Conns, OwnTypes', OwnOK(w)',
         settled[w] # "none" => settled'[w] = settled[w],
         UNCHANGED <<about, validation, promise, caller, tx, awaits, answer>>,
         \A x \in Conns : x # w =>
           /\ phase'[x] = phase[x] /\ connected'[x] = connected[x]
           /\ client'[x] = client[x] /\ gateway'[x] = gateway[x]
           /\ query'[x] = query[x] /\ told'[x] = told[x] /\ settled'[x] = settled[x]
  PROVE  WaitInv'
<1>1. WaitTypeOK'
  BY DEF WaitInv, OwnTypes, WaitTypeOK, ConnTypeOK,
     WaitsAreConnections, Submitted
<1>2. \A x \in Conns : OwnOK(x)'
  BY DEF WaitInv, OwnOK
<1>3. \A x \in Conns : settled[x] # "none" => settled'[x] = settled[x]
  OBVIOUS
<1>4. \A c \in Callers : CallerOK(c)'
  BY <1>3 DEF WaitInv, CallerOK
<1> QED
  BY <1>1, <1>2, <1>4 DEF WaitInv

(* What is known before a step of a wait.                                   *)
LEMMA OwnFacts ==
  ASSUME WaitsAreConnections, WaitInv, NEW w \in Conns
  PROVE  /\ WaitTypeOK /\ OwnTypes /\ OwnOK(w)
         /\ phase[w] # "returned" => query[w] = "idle" /\ settled[w] = "none"
         /\ query[w] \in {"signing", "sent"} =>
              phase[w] = "returned" /\ connected[w] = "ok" /\ settled[w] = "none"
BY DEF WaitInv, OwnOK, OwnTypes, WaitTypeOK, ConnTypeOK,
   WaitsAreConnections, Submitted

(* connect() of a wait.                                                     *)
LEMMA WaitConnectKeeps ==
  ASSUME WaitsAreConnections, WaitInv, NEW w \in Conns, ConnectSteps(w) \/ ConnectReady(w),
         UNCHANGED <<promise, settled, caller, tx, awaits, answer>>
  PROVE  WaitInv'
<1>1. OwnTypes /\ OwnOK(w)
  BY OwnFacts
<1>2. CASE ConnectReady(w)
  <2>1. /\ phase[w] = "waiting" /\ phase' = [phase EXCEPT ![w] = "ready"]
        /\ UNCHANGED <<connected, client, gateway, query, on, about, told, validation>>
    BY <1>2 DEF ConnectReady, queryVars
  <2>2. query[w] = "idle" /\ settled[w] = "none"
    BY <2>1, OwnFacts
  <2>3. OwnTypes' /\ OwnOK(w)'
    BY <1>1, <2>1, <2>2 DEF OwnTypes, OwnOK
  <2> QED
    BY <1>1, <2>1, <2>3, WaitMoves DEF OwnTypes
<1>3. CASE ConnectFails(w)
  <2>1. /\ phase[w] = "waiting"
        /\ UNCHANGED <<client, gateway, query, on, about, told, validation>>
    BY <1>3 DEF ConnectFails, queryVars
  <2>2. PICK r \in {"ConfigurationError", "TimeoutError"} :
          /\ phase' = [phase EXCEPT ![w] = "returned"]
          /\ connected' = [connected EXCEPT ![w] = r]
    BY <1>3 DEF ConnectFails, ConnectEnds
  <2>3. query[w] = "idle" /\ settled[w] = "none"
    BY <2>1, OwnFacts
  <2>4. OwnTypes'
    BY <1>1, <2>1, <2>2 DEF OwnTypes, ConnectResults
  <2>5. OwnOK(w)'
    BY <1>1, <2>1, <2>2, <2>3 DEF OwnTypes, OwnOK
  <2> QED
    BY <1>1, <2>1, <2>2, <2>4, <2>5, WaitMoves DEF OwnTypes
<1>4. CASE ConnectContinues(w)
  <2>1. /\ phase[w] = "ready" /\ phase' = [phase EXCEPT ![w] = "returned"]
        /\ gateway' = [gateway EXCEPT ![w] = client[w]]
        /\ UNCHANGED <<client, query, on, about, told, validation>>
    BY <1>4 DEF ConnectContinues, ConnectEnds, queryVars
  <2>2. PICK r \in {"ok", "ConfigurationError"} : connected' = [connected EXCEPT ![w] = r]
    BY <1>4 DEF ConnectContinues, ConnectEnds
  <2>3. query[w] = "idle" /\ settled[w] = "none"
    BY <2>1, OwnFacts
  <2>4. OwnTypes'
    BY <1>1, <2>1, <2>2 DEF OwnTypes, ConnectResults
  <2>5. OwnOK(w)'
    BY <1>1, <2>1, <2>2, <2>3 DEF OwnTypes, OwnOK
  <2> QED
    BY <1>1, <2>1, <2>2, <2>4, <2>5, WaitMoves DEF OwnTypes
<1> QED
  BY <1>2, <1>3, <1>4 DEF ConnectSteps

(* What a status call is told: a verdict is the peers'.                     *)
LEMMA WaitToldKeeps ==
  ASSUME WaitsAreConnections, WaitInv, NEW w \in Conns, NEW r \in CommitAnswers, Tell(w, r),
         phase[w] = "returned" /\ connected[w] = "ok" /\ settled[w] = "none",
         r \in {"VALID", "INVALID"} => r = validation[about[w]],
         on' \in [Conns -> Conns \cup {NoConn}],
         UNCHANGED <<phase, connected, client, gateway, about, validation>>,
         UNCHANGED <<promise, settled, caller, tx, awaits, answer>>
  PROVE  WaitInv'
<1>1. OwnTypes /\ OwnOK(w)
  BY OwnFacts
<1>2. told' = [told EXCEPT ![w] = r] /\ query' = [query EXCEPT ![w] = "done"]
  BY DEF Tell
<1>3. OwnTypes'
  BY <1>1, <1>2 DEF OwnTypes
<1>4. OwnOK(w)'
  BY <1>1, <1>2 DEF OwnTypes, OwnOK
<1> QED
  BY <1>1, <1>2, <1>3, <1>4, WaitMoves DEF OwnTypes

(* The status call of a wait.                                               *)
LEMMA WaitQueryKeeps ==
  ASSUME WaitsAreConnections, WaitInv, NEW w \in Conns, QuerySteps(w),
         UNCHANGED <<promise, settled, caller, tx, awaits, answer>>
  PROVE  WaitInv'
<1>1. OwnTypes /\ OwnOK(w) /\ WaitTypeOK
  BY OwnFacts
<1>2. /\ UNCHANGED <<phase, connected, client, gateway, on, about, validation>>
      /\ query[w] \in {"signing", "sent"}
  BY DEF QuerySteps, SignerAnswers, Reported, StatusFails, connectVars
<1>3. phase[w] = "returned" /\ connected[w] = "ok" /\ settled[w] = "none"
  BY <1>2, OwnFacts
<1>4. CASE query' = [query EXCEPT ![w] = "sent"] /\ UNCHANGED told
  <2>1. OwnTypes' /\ OwnOK(w)'
    BY <1>1, <1>2, <1>3, <1>4 DEF OwnTypes, OwnOK
  <2> QED
    BY <1>1, <1>2, <1>4, <2>1, WaitMoves DEF OwnTypes
<1>5. ASSUME NEW r \in {"TimeoutError", "CommitError", "rejected"}, Tell(w, r)
      PROVE  WaitInv'
  <2>1. r \in CommitAnswers /\ r \notin {"VALID", "INVALID"}
    BY DEF CommitAnswers
  <2>2. on' \in [Conns -> Conns \cup {NoConn}]
    BY <1>1, <1>2 DEF OwnTypes
  <2> QED
    BY <1>2, <1>3, <1>5, <2>1, <2>2, WaitToldKeeps
<1>6. CASE Reported(w)
  <2>1. PICK v : v = validation[about[w]]
    OBVIOUS
  <2>2. v \in {"none", "VALID", "INVALID"}
    BY <1>1, <2>1 DEF WaitTypeOK, ConnTypeOK,
       WaitsAreConnections, Submitted
  <2>3. v \in CommitAnswers /\ Tell(w, v)
    BY <1>6, <2>1, <2>2 DEF CommitAnswers, Reported
  <2>4. on' \in [Conns -> Conns \cup {NoConn}]
    BY <1>1, <1>2 DEF OwnTypes
  <2> QED
    BY <1>2, <1>3, <2>1, <2>3, <2>4, WaitToldKeeps
<1> QED
  BY <1>4, <1>5, <1>6 DEF QuerySteps, SignerAnswers, StatusFails

(* connect() has returned to the wait: the status is asked for, or the wait *)
(* is over.                                                                 *)
LEMMA ConnectedKeeps ==
  ASSUME WaitsAreConnections, WaitInv, NEW w \in Conns, Connected(w)
  PROVE  WaitInv'
<1>1. OwnTypes /\ OwnOK(w)
  BY OwnFacts
<1>2. /\ phase[w] = "returned" /\ query[w] = "idle" /\ settled[w] = "none"
      /\ UNCHANGED <<promise, caller, tx, awaits, answer>>
  BY DEF Connected, callerVars
<1>3. CASE connected[w] = "ok" /\ CallCommitStatus(w, w) /\ UNCHANGED settled
  <2>1. /\ UNCHANGED <<phase, connected, client, gateway, about, validation>>
        /\ on' \in [Conns -> Conns \cup {NoConn}]
    BY <1>1, <1>3 DEF CallCommitStatus, connectVars, OwnTypes
  <2>2. CASE query' = [query EXCEPT ![w] = "signing"] /\ UNCHANGED told
    <3>1. OwnTypes' /\ OwnOK(w)'
      BY <1>1, <1>2, <1>3, <2>1, <2>2 DEF OwnTypes, OwnOK
    <3> QED
      BY <1>1, <1>2, <1>3, <2>1, <2>2, <3>1, WaitMoves DEF OwnTypes
  <2>3. CASE Tell(w, "NotConnectedError")
    <3>1. "NotConnectedError" \in CommitAnswers
      BY DEF CommitAnswers
    <3> QED
      BY <1>2, <1>3, <2>1, <2>3, <3>1, WaitToldKeeps
  <2> QED
    BY <1>3, <2>2, <2>3 DEF CallCommitStatus
<1>4. CASE connected[w] # "ok" /\ Settle(w, connected[w]) /\ UNCHANGED connVars
  <2>1. UNCHANGED <<phase, connected, client, gateway, query, on, about, told, validation>>
    BY <1>4 DEF connVars, connectVars, queryVars
  <2>2. settled' = [settled EXCEPT ![w] = connected[w]] /\ connected[w] \in Answers
    BY <1>1, <1>4 DEF Settle, OwnTypes, Answers
  <2>3. OwnTypes' /\ OwnOK(w)'
    BY <1>1, <1>2, <1>4, <2>1, <2>2 DEF OwnTypes, OwnOK
  <2> QED
    BY <1>1, <1>2, <2>1, <2>2, <2>3, WaitMoves DEF OwnTypes
<1> QED
  BY <1>3, <1>4 DEF Connected

(* The connection is closed, and the wait settles with what it was told.    *)
LEMMA CloseAndSettleKeeps ==
  ASSUME WaitsAreConnections, WaitInv, NEW w \in Conns, CloseAndSettle(w)
  PROVE  WaitInv'
<1>1. OwnTypes /\ OwnOK(w)
  BY OwnFacts
<1>2. /\ query[w] = "done" /\ settled[w] = "none"
      /\ client' = [client EXCEPT ![w] = FALSE] /\ gateway' = [gateway EXCEPT ![w] = FALSE]
      /\ settled' = [settled EXCEPT ![w] = told[w]]
      /\ UNCHANGED <<phase, connected, query, on, about, told, validation>>
      /\ UNCHANGED <<promise, caller, tx, awaits, answer>>
  BY DEF CloseAndSettle, Close, Settle, queryVars, callerVars
<1>3. told[w] \in Answers /\ phase[w] = "returned" /\ connected[w] = "ok"
  BY <1>1, <1>2 DEF OwnTypes, OwnOK, Answers
<1>4. OwnTypes' /\ OwnOK(w)'
  BY <1>1, <1>2, <1>3 DEF OwnTypes, OwnOK
<1> QED
  BY <1>1, <1>2, <1>4, WaitMoves DEF OwnTypes

(* The peers' verdict, once given, is never changed.                        *)
LEMMA WaitCommitKeeps ==
  ASSUME WaitsAreConnections, WaitInv, NEW t \in Online \cup Offline, Commit(t),
         UNCHANGED <<promise, settled, caller, tx, awaits, answer>>
  PROVE  WaitInv'
<1>1. WaitTypeOK
  BY DEF WaitInv
<1>2. UNCHANGED <<phase, connected, client, gateway, query, on, about, told>>
  BY DEF Commit, connectVars, queryVars
<1>3. PICK v \in {"VALID", "INVALID"} : validation' = [validation EXCEPT ![t] = v]
  BY DEF Commit
<1>4. /\ validation' \in [Online \cup Offline -> {"none", "VALID", "INVALID"}]
      /\ \A x \in Online \cup Offline : validation[x] # "none" => validation'[x] = validation[x]
  BY <1>1, <1>3 DEF Commit, WaitTypeOK, ConnTypeOK,
     WaitsAreConnections, Submitted
<1>5. \A w \in Conns : about[w] \in Online \cup Offline
  BY <1>1 DEF WaitTypeOK, ConnTypeOK,
     WaitsAreConnections, Submitted
<1>6. WaitTypeOK'
  BY <1>1, <1>2, <1>4 DEF WaitTypeOK, ConnTypeOK,
     WaitsAreConnections, Submitted
<1>7. \A w \in Conns : OwnOK(w)'
  BY <1>2, <1>4, <1>5 DEF WaitInv, OwnOK
<1> QED
  BY <1>2, <1>6, <1>7 DEF WaitInv, CallerOK

(* A wait begins.                                                           *)
LEMMA BeginFacts ==
  ASSUME WaitsAreConnections, WaitInv, NEW w \in Conns, NEW t,
         BeginWait(w, t), UNCHANGED settled
  PROVE  /\ about[w] = t
         /\ UNCHANGED <<about, validation>>
         /\ OwnTypes'
         /\ \A x \in Conns : OwnOK(x)'
<1>1. OwnTypes /\ OwnOK(w)
  BY OwnFacts
<1>2. /\ about[w] = t /\ phase[w] = "new"
      /\ UNCHANGED <<gateway, query, on, about, told, validation>>
  BY DEF BeginWait, StartConnect, queryVars
<1>3. query[w] = "idle" /\ settled[w] = "none" /\ connected[w] # "ok"
  BY <1>1, <1>2, OwnFacts DEF OwnOK
<1>4. /\ phase' \in [Conns -> {"new", "waiting", "ready", "returned"}]
      /\ connected' \in [Conns -> ConnectResults]
      /\ client' \in [Conns -> BOOLEAN]
      /\ connected'[w] # "ok"
      /\ \A x \in Conns : x # w => /\ phase'[x] = phase[x] /\ connected'[x] = connected[x]
                                  /\ client'[x] = client[x]
  <2>1. CASE /\ phase' = [phase EXCEPT ![w] = "waiting"]
             /\ client' = [client EXCEPT ![w] = TRUE]
             /\ UNCHANGED connected
    BY <1>1, <1>3, <2>1 DEF OwnTypes
  <2>2. CASE ConnectEnds(w, "ConfigurationError") /\ UNCHANGED client
    BY <1>1, <2>2 DEF OwnTypes, ConnectEnds, ConnectResults
  <2> QED
    BY <2>1, <2>2 DEF BeginWait, StartConnect
<1>5. OwnTypes'
  BY <1>1, <1>2, <1>4 DEF OwnTypes
<1>6. \A x \in Conns : OwnOK(x)'
  BY <1>1, <1>2, <1>3, <1>4 DEF WaitInv, OwnOK
<1> QED
  BY <1>2, <1>5, <1>6

(* A submit returns: its wait begins, and is the promise of the transaction *)
(* from then on.                                                            *)
LEMMA SubmitReturnsKeeps ==
  ASSUME WaitsAreConnections, WaitInv, NEW t \in Online, NEW w \in Conns, SubmitReturns(t, w)
  PROVE  WaitInv'
<1>1. /\ promise[t] = NoConn /\ promise' = [promise EXCEPT ![t] = w]
      /\ BeginWait(w, t)
      /\ UNCHANGED <<settled, caller, tx, awaits, answer>>
  BY DEF SubmitReturns, NoWait, callerVars
<1>2. /\ about[w] = t /\ UNCHANGED <<about, validation>>
      /\ OwnTypes' /\ \A x \in Conns : OwnOK(x)'
  BY <1>1, BeginFacts
<1>3. WaitTypeOK
  BY DEF WaitInv
<1>4. promise' \in [Online -> Conns \cup {NoConn}]
      /\ promise'[t] = w /\ \A x \in Online : x # t => promise'[x] = promise[x]
  BY <1>1, <1>3 DEF WaitTypeOK, NoWait
<1>5. WaitTypeOK'
  BY <1>1, <1>2, <1>3, <1>4 DEF OwnTypes, WaitTypeOK, ConnTypeOK, NoWait,
     WaitsAreConnections, Submitted
<1>6. \A x \in Online : promise'[x] # NoConn => about'[promise'[x]] = x
  BY <1>2, <1>4 DEF WaitInv
<1>7. ASSUME NEW c \in Callers PROVE CallerOK(c)'
  <2>1. CallerOK(c)
    BY DEF WaitInv
  <2>2. caller[c] # "idle" /\ tx[c] \in Online => tx[c] # t
    BY <1>1, <2>1, ConnectionAssumption DEF CallerOK
  <2> QED
    BY <1>1, <1>2, <1>4, <2>1, <2>2 DEF CallerOK
<1> QED
  BY <1>2, <1>5, <1>6, <1>7 DEF WaitInv

(* A call of WaitForCommit awaits the shared wait of an online transaction, *)
(* and begins one for an offline transaction.                               *)
LEMMA CallerWaitsKeeps ==
  ASSUME WaitsAreConnections, WaitInv, NEW c \in Callers, NEW w \in Conns,
         AwaitCommit(c, w)
  PROVE  WaitInv'
<1>1. /\ caller[c] = "idle"
      /\ caller' = [caller EXCEPT ![c] = "waiting"] /\ awaits' = [awaits EXCEPT ![c] = w]
      /\ UNCHANGED <<promise, settled, tx, answer>>
  BY DEF AwaitCommit, waitVars
<1>2. WaitTypeOK
  BY DEF WaitInv
<1>3. /\ caller' \in [Callers -> {"idle", "waiting", "done"}] /\ caller'[c] = "waiting"
      /\ awaits' \in [Callers -> Conns \cup {NoConn}] /\ awaits'[c] = w
      /\ \A x \in Callers : x # c => caller'[x] = caller[x] /\ awaits'[x] = awaits[x]
  BY <1>1, <1>2 DEF WaitTypeOK, NoWait
<1>4. /\ UNCHANGED <<about, validation>> /\ about[w] = tx[c]
      /\ OwnTypes' /\ \A x \in Conns : OwnOK(x)'
      /\ tx[c] \in Online => promise[tx[c]] = w
  <2>1. CASE tx[c] \in Online /\ promise[tx[c]] = w /\ UNCHANGED connVars
    <3>1. UNCHANGED <<phase, connected, client, gateway, query, on, about, told, validation>>
      BY <2>1 DEF connVars, connectVars, queryVars
    <3>2. about[w] = tx[c]
      BY <2>1, ConnectionAssumption DEF WaitInv
    <3>3. OwnTypes'
      BY <1>1, <1>2, <3>1 DEF OwnTypes, WaitTypeOK, ConnTypeOK,
         WaitsAreConnections, Submitted
    <3>4. \A x \in Conns : OwnOK(x)'
      BY <1>1, <3>1 DEF WaitInv, OwnOK
    <3> QED
      BY <2>1, <3>1, <3>2, <3>3, <3>4
  <2>2. CASE tx[c] \in Offline /\ BeginWait(w, tx[c])
    BY <1>1, <2>2, BeginFacts, WaitAssumption
  <2> QED
    BY <2>1, <2>2 DEF AwaitCommit
<1>5. WaitTypeOK'
  BY <1>1, <1>2, <1>3, <1>4 DEF OwnTypes, WaitTypeOK, ConnTypeOK, NoWait,
     WaitsAreConnections, Submitted
<1>6. \A x \in Callers : CallerOK(x)'
  BY <1>1, <1>3, <1>4 DEF WaitInv, CallerOK
<1> QED
  BY <1>1, <1>4, <1>5, <1>6 DEF WaitInv

(* A caller is told what its wait settled with.                             *)
LEMMA CallerReturnsKeeps ==
  ASSUME WaitsAreConnections, WaitInv, NEW c \in Callers, CallerReturns(c)
  PROVE  WaitInv'
<1>1. /\ caller[c] = "waiting" /\ settled[awaits[c]] # "none"
      /\ answer' = [answer EXCEPT ![c] = settled[awaits[c]]]
      /\ caller' = [caller EXCEPT ![c] = "done"]
      /\ UNCHANGED <<phase, connected, client, gateway, query, on, about, told, validation>>
      /\ UNCHANGED <<promise, settled, tx, awaits>>
  BY DEF CallerReturns, connVars, connectVars, queryVars, waitVars
<1>2. WaitTypeOK /\ awaits[c] \in Conns
  BY <1>1 DEF WaitInv, CallerOK
<1>3. settled[awaits[c]] \in Answers
  BY <1>2 DEF WaitTypeOK
<1>4. WaitTypeOK'
  BY <1>1, <1>2, <1>3 DEF WaitTypeOK, ConnTypeOK
<1>5. \A x \in Conns : OwnOK(x)'
  BY <1>1 DEF WaitInv, OwnOK
<1>6. \A x \in Callers : CallerOK(x)'
  BY <1>1, <1>2 DEF WaitInv, CallerOK, WaitTypeOK
<1> QED
  BY <1>1, <1>4, <1>5, <1>6 DEF WaitInv

(* Every step preserves the invariant.                                      *)
LEMMA WaitStepKeeps ==
  ASSUME WaitsAreConnections
  PROVE  WaitInv /\ [WaitNext]_commitVars => WaitInv'
<1> SUFFICES ASSUME WaitInv, [WaitNext]_commitVars PROVE WaitInv'
  OBVIOUS
<1>1. CASE WaitNetwork
  <2>1. UNCHANGED <<promise, settled, caller, tx, awaits, answer>>
    BY <1>1 DEF WaitNetwork, waitVars, callerVars
  <2> QED
    BY <1>1, <2>1, WaitConnectKeeps, WaitCommitKeeps
       DEF WaitNetwork, WaitsAreConnections, Submitted
<1>2. ASSUME NEW w \in Conns, WaitStep(w) PROVE WaitInv'
  <2>1. CASE (ConnectSteps(w) \/ QuerySteps(w)) /\ UNCHANGED <<waitVars, callerVars>>
    <3>1. UNCHANGED <<promise, settled, caller, tx, awaits, answer>>
      BY <2>1 DEF waitVars, callerVars
    <3> QED
      BY <2>1, <3>1, WaitConnectKeeps, WaitQueryKeeps
  <2> QED
    BY <1>2, <2>1, ConnectedKeeps, CloseAndSettleKeeps DEF WaitStep
<1>3. ASSUME NEW t \in Online, NEW w \in Conns, SubmitReturns(t, w) PROVE WaitInv'
  BY <1>3, SubmitReturnsKeeps
<1>4. ASSUME NEW c \in Callers, NEW w \in Conns, AwaitCommit(c, w) PROVE WaitInv'
  BY <1>4, CallerWaitsKeeps
<1>5. ASSUME NEW c \in Callers, CallerReturns(c) PROVE WaitInv'
  BY <1>5, CallerReturnsKeeps
<1>6. CASE UNCHANGED commitVars
  <2>1. /\ UNCHANGED <<phase, connected, client, gateway, query, on, about, told, validation>>
        /\ UNCHANGED <<promise, settled, caller, tx, awaits, answer>>
    BY <1>6
       DEF commitVars, connVars, connectVars, queryVars, waitVars,
           callerVars
  <2>2. WaitTypeOK'
    BY <2>1 DEF WaitInv, WaitTypeOK, ConnTypeOK
  <2> QED
    BY <2>1, <2>2 DEF WaitInv, OwnOK, CallerOK
<1> QED
  BY <1>1, <1>2, <1>3, <1>4, <1>5, <1>6 DEF WaitNext

(* The invariant of the waits.                                              *)
THEOREM WaitInvariance ==
  ASSUME WaitsAreConnections
  PROVE  WaitSpec => []WaitInv
BY InitWaitInv, WaitStepKeeps, PTL DEF WaitSpec

(* Every reachable state of the waits is type correct.                      *)
THEOREM WaitTypeCorrect ==
  ASSUME WaitsAreConnections
  PROVE  WaitSpec => []WaitTypeOK
<1>1. WaitInv => WaitTypeOK
  BY DEF WaitInv
<1> QED
  BY <1>1, WaitInvariance, PTL

(* All who wait for one online transaction are told the same (the promise   *)
(* FabricBridge keeps for it).                                              *)
THEOREM WaitersAgree ==
  ASSUME WaitsAreConnections
  PROVE  WaitSpec => []AllWaitersAgree
<1>1. WaitInv => AllWaitersAgree
  BY DEF WaitInv, CallerOK, AllWaitersAgree
<1> QED
  BY <1>1, WaitInvariance, PTL

(* A status told is the one of the ledger, also to those who waited on a    *)
(* connection of their own (waitForCommit of DirectPeerRuntime.ts).         *)
THEOREM WaitStatusesAreTrue ==
  ASSUME WaitsAreConnections
  PROVE  WaitSpec => []StatusesAreTrue
<1>1. ASSUME WaitInv, NEW c \in Callers, answer[c] \in {"VALID", "INVALID"}
      PROVE  answer[c] = validation[tx[c]]
  <2>1. caller[c] = "done"
    BY <1>1 DEF WaitInv, CallerOK
  <2>2. PICK w \in Conns : w = awaits[c] /\ about[w] = tx[c] /\ answer[c] = settled[w]
    BY <1>1, <2>1 DEF WaitInv, CallerOK
  <2>3. connected[w] \notin {"VALID", "INVALID"} /\ OwnOK(w)
    BY <1>1 DEF WaitInv, WaitTypeOK, ConnTypeOK, ConnectResults
  <2>4. settled[w] = told[w]
    BY <1>1, <2>2, <2>3 DEF OwnOK
  <2> QED
    BY <1>1, <2>2, <2>3, <2>4 DEF OwnOK
<1>2. WaitInv => StatusesAreTrue
  BY <1>1 DEF StatusesAreTrue
<1> QED
  BY <1>2, WaitInvariance, PTL

(* A wait that was connected has closed its connection when it settles (the *)
(* finally of waitForCommit of DirectPeerRuntime.ts).                       *)
THEOREM WaitsCloseTheirConnections ==
  ASSUME WaitsAreConnections
  PROVE  WaitSpec => []ConnectionsAreClosed
<1>1. WaitInv => ConnectionsAreClosed
  BY DEF WaitInv, OwnOK, ConnectionsAreClosed
<1> QED
  BY <1>1, WaitInvariance, PTL

-----------------------------------------------------------------------------
(* Peer endpoint identities: what the loop over the inputs makes of them    *)

(* A set of natural numbers that is not empty has a least one: the          *)
(* inductions below look at the least counterexample.                       *)
LEMMA LeastNumber ==
  ASSUME NEW T, T \subseteq Nat, T # {}
  PROVE  \E m \in T : \A k \in T : m <= k
<1> DEFINE R == OpToRel(<, Nat)
<1>1. IsWellFoundedOn(R, Nat)
  BY NatLessThanWellFounded
<1>2. PICK m \in T : \A k \in T : ~ (<<k, m>> \in R)
  <2> HIDE DEF R
  <2> QED
    BY <1>1, WFMin
<1>3. ASSUME NEW k \in T PROVE m <= k
  <2>1. ~ (<<k, m>> \in R)
    BY <1>2
  <2>2. ~ (k < m)
    BY <2>1 DEF OpToRel
  <2> QED
    BY <2>2
<1> QED
  BY <1>3

(* The recursive function of the loop has the values its equation says.     *)
LEMMA DedupedToIsDefined ==
  ASSUME NEW inputs, NEW tls, Len(inputs) \in Nat
  PROVE  /\ DedupedTo(inputs, tls)[0] = Ok(<<>>)
         /\ \A n \in 1..Len(inputs) :
              DedupedTo(inputs, tls)[n] =
                AddIdentity(DedupedTo(inputs, tls)[n - 1], Normalize(inputs[n], tls))
<1> DEFINE Step(v, n) == AddIdentity(v, Normalize(inputs[n], tls))
           Upto(f, m) == f = [n \in 0..m |-> IF n = 0 THEN Ok(<<>>) ELSE Step(f[n - 1], n)]
           T == {m \in Nat : ~ \E f : Upto(f, m)}
           N == Len(inputs)
<1>1. T = {}
  <2> SUFFICES ASSUME T # {} PROVE FALSE
    OBVIOUS
  <2> HIDE DEF Step
  <2>1. PICK m \in T : \A k \in T : m <= k
    <3>1. T \subseteq Nat
      OBVIOUS
    <3> HIDE DEF T
    <3> QED
      BY <3>1, LeastNumber
  <2>2. m \in Nat /\ ~ \E f : Upto(f, m)
    OBVIOUS
  <2>3. m # 0
    <3>1. Upto([n \in 0..0 |-> Ok(<<>>)], 0)
      OBVIOUS
    <3> QED
      BY <2>2, <3>1
  <2>4. PICK g : Upto(g, m - 1)
    <3>1. m \in Nat
      BY <2>2
    <3>2. m - 1 \in Nat /\ m - 1 \notin T
      <4> HIDE DEF T
      <4> QED
        BY <2>1, <2>3, <3>1
    <3> QED
      BY <3>2
  <2> DEFINE h == [n \in 0..m |-> IF n = m THEN Step(g[m - 1], m) ELSE g[n]]
  <2>5. Upto(h, m)
    <3>1. ASSUME NEW n \in 0..m
          PROVE  h[n] = IF n = 0 THEN Ok(<<>>) ELSE Step(h[n - 1], n)
      <4>1. CASE n = m
        <5>1. h[n - 1] = g[m - 1]
          BY <2>2, <2>3, <4>1
        <5> QED
          BY <2>3, <4>1, <5>1
      <4>2. CASE n # m
        <5>1. n \in 0..(m - 1) /\ h[n] = g[n]
          BY <2>2, <2>3, <4>2
        <5>2. g[n] = IF n = 0 THEN Ok(<<>>) ELSE Step(g[n - 1], n)
          BY <2>4, <5>1
        <5>3. n # 0 => h[n - 1] = g[n - 1]
          BY <2>2, <5>1
        <5> QED
          BY <5>1, <5>2, <5>3
      <4> QED
        BY <4>1, <4>2
    <3> HIDE DEF h
    <3>2. h = [n \in 0..m |-> h[n]]
      BY DEF h
    <3> QED
      BY <3>1, <3>2
  <2> QED
    BY <2>2, <2>5
<1>2. PICK f : Upto(f, N)
  BY <1>1
<1>3. DedupedTo(inputs, tls) = CHOOSE g : Upto(g, N)
  BY DEF DedupedTo
<1>4. Upto(DedupedTo(inputs, tls), N)
  BY <1>2, <1>3
<1> QED
  BY <1>4

(* names has the first n of ids and nothing else, in the order in which     *)
(* they first occur.                                                        *)
FirstOf(names, ids, n) ==
  /\ names \in Seq({ids[k] : k \in 1..n})
  /\ \A k \in 1..n : \E i \in 1..Len(names) : names[i] = ids[k]
  /\ \A i, j \in 1..Len(names) :
       i < j => \E k \in 1..n : ids[k] = names[i] /\ \A l \in 1..k : ids[l] # names[j]

(* One more identity, appended if it is new, keeps the order of naming.     *)
LEMMA FirstOfGrows ==
  ASSUME NEW names, NEW ids, NEW n \in Nat, n # 0, FirstOf(names, ids, n - 1)
  PROVE  FirstOf(IF ids[n] \in ToSet(names) THEN names ELSE Append(names, ids[n]), ids, n)
<1> DEFINE S == {ids[k] : k \in 1..n}
<1>1. /\ n - 1 \in Nat /\ 1..(n - 1) \subseteq 1..n /\ n \in 1..n
      /\ \A k \in 1..n : k = n \/ k \in 1..(n - 1)
  OBVIOUS
<1>2. names \in Seq(S)
  <2>1. {ids[k] : k \in 1..(n - 1)} \subseteq S
    BY <1>1
  <2> QED
    BY <2>1 DEF FirstOf
<1>3. ids[n] \in S
  BY <1>1
<1>4. \A k \in 1..(n - 1) : \E i \in 1..Len(names) : names[i] = ids[k]
  BY DEF FirstOf
<1>5. \A i, j \in 1..Len(names) :
        i < j => \E k \in 1..(n - 1) : ids[k] = names[i] /\ \A l \in 1..k : ids[l] # names[j]
  BY DEF FirstOf
<1>6. \A i \in 1..Len(names) : \E k \in 1..(n - 1) : ids[k] = names[i]
  <2> DEFINE X == {ids[k] : k \in 1..(n - 1)}
  <2>1. names \in Seq(X)
    BY DEF FirstOf
  <2>2. \A i \in 1..Len(names) : names[i] \in X
    <3> HIDE DEF X
    <3> QED
      BY <2>1
  <2> QED
    BY <2>2
<1> HIDE DEF S
<1>7. CASE ids[n] \in ToSet(names)
  <2>1. \E i \in 1..Len(names) : names[i] = ids[n]
    BY <1>2, <1>7 DEF ToSet
  <2>2. \A k \in 1..n : \E i \in 1..Len(names) : names[i] = ids[k]
    BY <1>1, <1>4, <2>1
  <2>3. \A i, j \in 1..Len(names) :
          i < j => \E k \in 1..n : ids[k] = names[i] /\ \A l \in 1..k : ids[l] # names[j]
    BY <1>1, <1>5
  <2>4. FirstOf(names, ids, n)
    BY <1>2, <2>2, <2>3 DEF FirstOf, S
  <2> QED
    BY <1>7, <2>4
<1>8. CASE ids[n] \notin ToSet(names)
  <2> DEFINE more == Append(names, ids[n])
  <2>1. /\ more \in Seq(S) /\ Len(names) \in Nat /\ Len(more) = Len(names) + 1
        /\ \A i \in 1..Len(names) : more[i] = names[i]
        /\ more[Len(names) + 1] = ids[n]
    BY <1>2, <1>3
  <2> HIDE DEF more
  <2>2. \A k \in 1..n : \E i \in 1..Len(more) : more[i] = ids[k]
    <3>1. ASSUME NEW k \in 1..(n - 1) PROVE \E i \in 1..Len(more) : more[i] = ids[k]
      <4>1. PICK i \in 1..Len(names) : names[i] = ids[k]
        BY <1>4
      <4> QED
        BY <2>1, <4>1
    <3>2. \E i \in 1..Len(more) : more[i] = ids[n]
      BY <2>1
    <3> QED
      BY <1>1, <3>1, <3>2
  <2>3. \A k \in 1..(n - 1) : ids[k] # ids[n]
    <3>1. \A i \in 1..Len(names) : names[i] # ids[n]
      BY <1>2, <1>8 DEF ToSet
    <3> QED
      BY <1>4, <3>1
  <2>4. ASSUME NEW i \in 1..Len(more), NEW j \in 1..Len(more), i < j
        PROVE  \E k \in 1..n : ids[k] = more[i] /\ \A l \in 1..k : ids[l] # more[j]
    <3>1. i \in 1..Len(names)
      BY <2>1, <2>4
    <3>2. CASE j \in 1..Len(names)
      <4>1. \E k \in 1..(n - 1) : ids[k] = names[i] /\ \A l \in 1..k : ids[l] # names[j]
        BY <1>5, <2>4, <3>1, <3>2
      <4> QED
        BY <1>1, <2>1, <3>1, <3>2, <4>1
    <3>3. CASE j = Len(names) + 1
      <4>1. PICK k \in 1..(n - 1) : ids[k] = names[i]
        BY <1>6, <3>1
      <4>2. \A l \in 1..k : l \in 1..(n - 1)
        BY <1>1
      <4> QED
        BY <1>1, <2>1, <2>3, <3>1, <3>3, <4>1, <4>2
    <3> QED
      BY <2>1, <3>2, <3>3
  <2>5. FirstOf(more, ids, n)
    BY <2>1, <2>2, <2>4 DEF FirstOf, S
  <2> QED
    BY <1>8, <2>5 DEF more
<1> QED
  BY <1>7, <1>8

(* What one more input does to the loop: it stays with what the first input *)
(* that cannot be read made of it.                                          *)
LEMMA AddedOk ==
  ASSUME NEW sofar, NEW n, AddIdentity(sofar, n).kind = "ok"
  PROVE  /\ sofar.kind = "ok" /\ n.kind = "ok"
         /\ AddIdentity(sofar, n) =
              Ok(IF n.id \in ToSet(sofar.id) THEN sofar.id ELSE Append(sofar.id, n.id))
<1>1. sofar.kind = "ok"
  BY DEF AddIdentity
<1>2. n.kind = "ok"
  BY <1>1 DEF AddIdentity
<1> QED
  BY <1>1, <1>2 DEF AddIdentity

(* A loop that ends well has read every input, and has their identities in  *)
(* the order in which they were first named.                                *)
LEMMA DedupedToIsInOrder ==
  ASSUME NEW inputs, NEW tls, Len(inputs) \in Nat,
         Dedupe(inputs, tls).kind = "ok"
  PROVE  /\ Dedupe(inputs, tls) = Ok(Dedupe(inputs, tls).id)
         /\ \A k \in 1..Len(inputs) : Normalize(inputs[k], tls).kind = "ok"
         /\ FirstOf(Dedupe(inputs, tls).id,
                    [k \in 1..Len(inputs) |-> Normalize(inputs[k], tls).id], Len(inputs))
<1> DEFINE N == Len(inputs)
           D == DedupedTo(inputs, tls)
           norm == [k \in 1..N |-> Normalize(inputs[k], tls)]
           ids == [k \in 1..N |-> Normalize(inputs[k], tls).id]
           Fine(n) == D[n].kind = "ok" =>
                        /\ D[n] = Ok(D[n].id)
                        /\ \A k \in 1..n : norm[k].kind = "ok"
                        /\ FirstOf(D[n].id, ids, n)
           T == {n \in 0..N : ~ Fine(n)}
<1>1. D[0] = Ok(<<>>) /\ \A n \in 1..N : D[n] = AddIdentity(D[n - 1], norm[n])
  BY DedupedToIsDefined
<1>2. \A n \in 1..N : ids[n] = norm[n].id
  OBVIOUS
<1> HIDE DEF D, norm, ids
<1>3. T = {}
  <2> SUFFICES ASSUME T # {} PROVE FALSE
    OBVIOUS
  <2>1. PICK m \in T : \A k \in T : m <= k
    <3>1. T \subseteq Nat
      OBVIOUS
    <3> HIDE DEF T
    <3> QED
      BY <3>1, LeastNumber
  <2>2. m \in 0..N /\ ~ Fine(m)
    OBVIOUS
  <2>3. Fine(0)
    <3>1. FirstOf(<<>>, ids, 0)
      BY DEF FirstOf
    <3> QED
      BY <1>1, <3>1 DEF Ok
  <2>4. m # 0 /\ m \in 1..N /\ m - 1 \in 0..N
    BY <2>2, <2>3
  <2>5. Fine(m - 1)
    <3>1. m - 1 \notin T
      <4> HIDE DEF T
      <4> QED
        BY <2>1, <2>4
    <3> QED
      BY <2>4, <3>1
  <2>6. ASSUME D[m].kind = "ok" PROVE Fine(m)
    <3>1. D[m] = AddIdentity(D[m - 1], norm[m])
      BY <1>1, <2>4
    <3>2. /\ D[m - 1].kind = "ok" /\ norm[m].kind = "ok" /\ D[m] = Ok(D[m].id)
          /\ D[m].id = IF ids[m] \in ToSet(D[m - 1].id) THEN D[m - 1].id
                                                       ELSE Append(D[m - 1].id, ids[m])
      <4>1. ids[m] = norm[m].id
        BY <1>2, <2>4
      <4>2. /\ D[m - 1].kind = "ok" /\ norm[m].kind = "ok"
            /\ D[m] = Ok(IF norm[m].id \in ToSet(D[m - 1].id)
                           THEN D[m - 1].id ELSE Append(D[m - 1].id, norm[m].id))
        BY <2>6, <3>1, AddedOk
      <4> QED
        BY <4>1, <4>2 DEF Ok
    <3>3. \A k \in 1..m : norm[k].kind = "ok"
      BY <2>4, <2>5, <3>2
    <3>4. FirstOf(D[m - 1].id, ids, m - 1)
      BY <2>5, <3>2
    <3>5. FirstOf(D[m].id, ids, m)
      <4>1. m \in Nat /\ m # 0
        BY <2>4
      <4> QED
        BY <3>2, <3>4, <4>1, FirstOfGrows
    <3> QED
      BY <3>2, <3>3, <3>5
  <2> QED
    BY <2>2, <2>6
<1>4. Fine(N)
  <2>1. N \notin T
    BY <1>3
  <2> HIDE DEF Fine
  <2> QED
    BY <2>1
<1>5. D[N] = Dedupe(inputs, tls)
  BY DEF D, Dedupe
<1> QED
  BY <1>4, <1>5 DEF norm, ids

(* What a list is read as agrees with the reference, for every list of      *)
(* endpoints (dedupePeerEndpointInputsResult of endpointIdentity.ts).       *)
THEOREM DedupeIsInOrder ==
  ASSUME NEW inputs \in Seq(Endpoints), NEW tls, Dedupe(inputs, tls).kind = "ok"
  PROVE  InOrderOfNaming(Dedupe(inputs, tls).id, inputs, tls)
<1> DEFINE N == Len(inputs)
           ids == [k \in 1..N |-> Normalize(inputs[k], tls).id]
           names == Dedupe(inputs, tls).id
           S == {ids[k] : k \in 1..N}
<1>1. N \in Nat /\ DOMAIN inputs = 1..N
  OBVIOUS
<1>2. FirstOf(names, ids, N)
  BY <1>1, DedupedToIsInOrder
<1>3. \A k \in 1..N : ids[k] = Normalize(inputs[k], tls).id
  OBVIOUS
<1> HIDE DEF ids, names
<1>4. names \in Seq(S)
  BY <1>2 DEF FirstOf
<1>5. \A i \in 1..Len(names) : names[i] \in S
  <2> HIDE DEF S
  <2> QED
    BY <1>4
<1>6. DOMAIN names = 1..Len(names)
  BY <1>4
<1>7. ToSet(names) = {Normalize(inputs[k], tls).id : k \in 1..N}
  <2>1. S = {Normalize(inputs[k], tls).id : k \in 1..N}
    BY <1>3
  <2>2. ToSet(names) \subseteq S
    <3> HIDE DEF S
    <3> QED
      BY <1>5, <1>6 DEF ToSet
  <2>3. ASSUME NEW k \in 1..N PROVE ids[k] \in ToSet(names)
    <3>1. \E i \in 1..Len(names) : names[i] = ids[k]
      BY <1>2 DEF FirstOf
    <3> QED
      BY <1>6, <3>1 DEF ToSet
  <2>4. S \subseteq ToSet(names)
    BY <2>3
  <2> HIDE DEF S
  <2> QED
    BY <2>1, <2>2, <2>4
<1>8. ASSUME NEW i \in 1..Len(names), NEW j \in 1..Len(names), i < j
      PROVE  \E k \in 1..N : /\ Normalize(inputs[k], tls).id = names[i]
                             /\ \A l \in 1..k : Normalize(inputs[l], tls).id # names[j]
  <2>1. PICK k \in 1..N : ids[k] = names[i] /\ \A l \in 1..k : ids[l] # names[j]
    BY <1>2, <1>8 DEF FirstOf
  <2>2. \A l \in 1..k : l \in 1..N
    BY <1>1
  <2> QED
    BY <1>3, <2>1, <2>2
<1>9. InOrderOfNaming(names, inputs, tls)
  BY <1>1, <1>6, <1>7, <1>8 DEF InOrderOfNaming
<1> QED
  BY <1>9 DEF names

(* The endpoints a list of identities has.                                  *)
Identities == {e \in Endpoints : e.scheme \in {"grpc", "grpcs"}}

(* An identity is made of a secure or an open scheme, a host and a port.    *)
LEMMA IdentityIn ==
  ASSUME NEW e, e.host \in Hosts \cup {NoHost}, NEW scheme \in {"grpc", "grpcs"},
         NEW port \in Ports
  PROVE  Identity(scheme, e, port) \in Identities
BY DEF Identity, Identities, Endpoints, Schemes

(* What an endpoint is read as is an identity.                              *)
LEMMA NormalizedIsIdentity ==
  ASSUME NEW e \in Endpoints, NEW tls \in BOOLEAN, Normalize(e, tls).kind = "ok"
  PROVE  Normalize(e, tls).id \in Identities
<1>1. /\ e.host \in Hosts \cup {NoHost}
      /\ e.scheme \in Schemes
  BY DEF Endpoints
<1>2. CASE e.scheme \in {"grpc", "grpcs"}
  <2>1. Normalize(e, tls) = Ok(Identity(e.scheme, e, "7051"))
    BY <1>2 DEF Normalize, NormalizeURL, Thrown, ConfigurationError
  <2> QED
    <3>1. Identity(e.scheme, e, "7051") \in Identities
      BY <1>1, <1>2, IdentityIn DEF Ports
    <3> QED
      BY <2>1, <3>1 DEF Ok
<1>3. CASE e.scheme \notin {"grpc", "grpcs"}
  <2>1. /\ Normalize(e, tls) = Ok(Identity(IF tls THEN "grpcs" ELSE "grpc", e, e.port))
        /\ e.port \in Numeric
    BY <1>3 DEF Normalize, NormalizeHostPort, ConfigurationError
  <2> QED
    <3>1. e.port \in Ports
      BY <2>1 DEF Ports, Numeric
    <3> QED
      BY <1>1, <2>1, <3>1, IdentityIn DEF Ok
<1> QED
  BY <1>2, <1>3

(* An identity is read as one that is read as itself: the port loses its    *)
(* leading zeros the first time.                                            *)
LEMMA IdentityIsStable ==
  ASSUME NEW e \in Identities, NEW tls, Normalize(e, tls).kind = "ok"
  PROVE  LET id == Normalize(e, tls).id
         IN id \in Identities /\ Normalize(id, tls) = Ok(id)
<1>1. /\ e.host \in Hosts \cup {NoHost} /\ e.scheme \in {"grpc", "grpcs"}
  BY DEF Endpoints, Identities
<1>2. Normalize(e, tls) = Ok(Identity(e.scheme, e, "7051")) /\ e.host # NoHost
  BY <1>1 DEF Normalize, NormalizeURL, Thrown, ConfigurationError
<1>3. PICK id : id = Identity(e.scheme, e, "7051")
  OBVIOUS
<1>4. id \in Identities
  BY <1>1, <1>3 DEF Identity, Identities, Endpoints, Ports, Schemes
<1>5. Normalize(id, tls) = Ok(id)
  <2>1. ~ Unparsable(id) /\ id.host # NoHost /\ id.port = "7051" /\ id.path = FALSE
    BY <1>2, <1>3 DEF Identity, Unparsable, URLPorts
  <2>2. Identity(id.scheme, id, "7051") = id
    BY <1>3 DEF Identity
  <2> QED
    BY <1>1, <1>3, <2>1, <2>2 DEF Normalize, NormalizeURL, Identity
<1> QED
  BY <1>2, <1>3, <1>4, <1>5 DEF Ok

(* A list that is read well is read as a list of identities.                *)
LEMMA DedupedAreIdentities ==
  ASSUME NEW inputs \in Seq(Endpoints), NEW tls \in BOOLEAN, Dedupe(inputs, tls).kind = "ok"
  PROVE  /\ Dedupe(inputs, tls) = Ok(Dedupe(inputs, tls).id)
         /\ Dedupe(inputs, tls).id \in Seq(Identities)
<1> DEFINE N == Len(inputs)
           ids == [k \in 1..N |-> Normalize(inputs[k], tls).id]
           S == {ids[k] : k \in 1..N}
<1>1. N \in Nat /\ \A k \in 1..N : inputs[k] \in Endpoints
  OBVIOUS
<1>2. /\ Dedupe(inputs, tls) = Ok(Dedupe(inputs, tls).id)
      /\ FirstOf(Dedupe(inputs, tls).id, ids, N)
      /\ \A k \in 1..N : Normalize(inputs[k], tls).kind = "ok"
  BY <1>1, DedupedToIsInOrder
<1>3. \A k \in 1..N : ids[k] \in Identities
  BY <1>1, <1>2, NormalizedIsIdentity
<1>4. S \subseteq Identities
  BY <1>3
<1>5. Dedupe(inputs, tls).id \in Seq(S)
  BY <1>2 DEF FirstOf
<1> HIDE DEF S
<1> QED
  BY <1>2, <1>4, <1>5

(* What an endpoint is read as, an error included.                          *)
LEMMA NormalizeKinds ==
  ASSUME NEW e, NEW tls
  PROVE  Normalize(e, tls).kind \in {"ok", "ConfigurationError", "thrown"}
BY DEF Normalize, NormalizeURL, NormalizeHostPort, Ok, ConfigurationError, Thrown

(* The loop ends with a list or with the error of one input.                *)
LEMMA DedupeKinds ==
  ASSUME NEW inputs \in Seq(Endpoints), NEW tls
  PROVE  Dedupe(inputs, tls).kind \in {"ok", "ConfigurationError", "thrown"}
<1> DEFINE N == Len(inputs)
           D == DedupedTo(inputs, tls)
           Kinds == {"ok", "ConfigurationError", "thrown"}
           T == {n \in 0..N : D[n].kind \notin Kinds}
<1>1. /\ N \in Nat /\ D[0] = Ok(<<>>)
      /\ \A n \in 1..N : D[n] = AddIdentity(D[n - 1], Normalize(inputs[n], tls))
  BY DedupedToIsDefined
<1> HIDE DEF D
<1>2. T = {}
  <2> SUFFICES ASSUME T # {} PROVE FALSE
    OBVIOUS
  <2>1. PICK m \in T : \A k \in T : m <= k
    <3>1. T \subseteq Nat
      OBVIOUS
    <3> HIDE DEF T
    <3> QED
      BY <3>1, LeastNumber
  <2>2. m \in 0..N /\ D[m].kind \notin Kinds
    OBVIOUS
  <2>3. m \in 1..N /\ m - 1 \in 0..N
    BY <1>1, <2>2 DEF Ok
  <2>4. D[m - 1].kind \in Kinds
    <3>1. m - 1 \notin T
      <4> HIDE DEF T
      <4> QED
        BY <2>1, <2>3
    <3> QED
      BY <2>3, <3>1
  <2>5. \A v, n : v.kind \in Kinds /\ n.kind \in Kinds => AddIdentity(v, n).kind \in Kinds
    BY DEF AddIdentity, Ok
  <2>6. D[m] = AddIdentity(D[m - 1], Normalize(inputs[m], tls))
    BY <1>1, <2>3
  <2> QED
    BY <2>2, <2>4, <2>5, <2>6, NormalizeKinds
<1>3. D[N].kind \in Kinds
  BY <1>1, <1>2
<1> QED
  BY <1>3 DEF D, Dedupe

(* A list of identities that are read as themselves, each once, is left as  *)
(* it is.                                                                   *)
LEMMA DedupeKeeps ==
  ASSUME NEW names \in Seq(Endpoints), NEW tls,
         \A i \in 1..Len(names) : Normalize(names[i], tls) = Ok(names[i]),
         \A i, j \in 1..Len(names) : i < j => names[i] # names[j]
  PROVE  Dedupe(names, tls) = Ok(names)
<1> DEFINE N == Len(names)
           D == DedupedTo(names, tls)
           First(n) == SubSeq(names, 1, n)
           Fine(n) == D[n] = Ok(First(n))
           T == {n \in 0..N : ~ Fine(n)}
<1>1. N \in Nat /\ D[0] = Ok(<<>>)
      /\ \A n \in 1..N : D[n] = AddIdentity(D[n - 1], Ok(names[n]))
  BY DedupedToIsDefined
<1>2. \A n \in 0..N : /\ First(n) \in Seq(Endpoints) /\ Len(First(n)) = n
                      /\ \A i \in 1..n : First(n)[i] = names[i]
  OBVIOUS
<1>3. First(0) = <<>> /\ First(N) = names
  OBVIOUS
<1>4. \A n \in 1..N : First(n) = Append(First(n - 1), names[n])
  OBVIOUS
<1> HIDE DEF D, First
<1>5. T = {}
  <2> SUFFICES ASSUME T # {} PROVE FALSE
    OBVIOUS
  <2>1. PICK m \in T : \A k \in T : m <= k
    <3>1. T \subseteq Nat
      OBVIOUS
    <3> HIDE DEF T
    <3> QED
      BY <3>1, LeastNumber
  <2>2. m \in 0..N /\ ~ Fine(m)
    OBVIOUS
  <2>3. m \in 1..N /\ m - 1 \in 0..N
    BY <1>1, <1>3, <2>2
  <2>4. D[m - 1] = Ok(First(m - 1))
    <3>1. m - 1 \notin T
      <4> HIDE DEF T
      <4> QED
        BY <2>1, <2>3
    <3> QED
      BY <2>3, <3>1
  <2>5. names[m] \notin ToSet(First(m - 1))
    <3>1. PICK l : l = First(m - 1)
      OBVIOUS
    <3>2. DOMAIN l = 1..(m - 1) /\ \A i \in 1..(m - 1) : l[i] = names[i]
      BY <1>2, <2>3, <3>1
    <3>3. \A i \in 1..(m - 1) : names[i] # names[m]
      BY <2>3
    <3> QED
      BY <3>1, <3>2, <3>3 DEF ToSet
  <2>6. D[m] = Ok(Append(First(m - 1), names[m]))
    <3>1. D[m] = AddIdentity(Ok(First(m - 1)), Ok(names[m]))
      BY <1>1, <2>3, <2>4
    <3>2. \A l, e : e \notin ToSet(l) => AddIdentity(Ok(l), Ok(e)) = Ok(Append(l, e))
      BY DEF AddIdentity, Ok
    <3> QED
      BY <2>5, <3>1, <3>2
  <2> QED
    BY <1>4, <2>2, <2>3, <2>6
<1>6. Fine(N)
  <2>1. N \notin T
    BY <1>5
  <2> HIDE DEF Fine
  <2> QED
    BY <1>1, <2>1
<1> QED
  BY <1>3, <1>6 DEF D, Dedupe

(* What the inner transaction reads from a list of identities is a list     *)
(* that it reads as itself, for every such list.  (Of other lists this does *)
(* not hold: a port keeps its leading zeros until it is read with a scheme.)*)
THEOREM DedupeTwice ==
  ASSUME NEW names \in Seq(Identities), NEW tls, Dedupe(names, tls).kind = "ok"
  PROVE  Dedupe(Dedupe(names, tls).id, tls) = Dedupe(names, tls)
<1> DEFINE N == Len(names)
           ids == [k \in 1..N |-> Normalize(names[k], tls).id]
           twice == Dedupe(names, tls).id
           S == {ids[k] : k \in 1..N}
<1>1. N \in Nat /\ \A k \in 1..N : names[k] \in Identities
  OBVIOUS
<1>2. FirstOf(twice, ids, N) /\ \A k \in 1..N : Normalize(names[k], tls).kind = "ok"
  BY <1>1, DedupedToIsInOrder
<1>3. Dedupe(names, tls) = Ok(twice)
  BY <1>1, DedupedToIsInOrder
<1>4. \A k \in 1..N : ids[k] \in Identities /\ Normalize(ids[k], tls) = Ok(ids[k])
  BY <1>1, <1>2, IdentityIsStable
<1> HIDE DEF ids, twice
<1>5. /\ twice \in Seq(S)
      /\ \A i, j \in 1..Len(twice) : i < j => twice[i] # twice[j]
  <2>1. twice \in Seq(S)
    BY <1>2 DEF FirstOf
  <2>2. ASSUME NEW i \in 1..Len(twice), NEW j \in 1..Len(twice), i < j
        PROVE  twice[i] # twice[j]
    <3>1. PICK k \in 1..N : ids[k] = twice[i] /\ \A l \in 1..k : ids[l] # twice[j]
      BY <1>2, <2>2 DEF FirstOf
    <3>2. k \in 1..k
      BY <1>1, <3>1
    <3> QED
      BY <3>1, <3>2
  <2> QED
    BY <2>1, <2>2
<1>6. /\ S \subseteq Endpoints
      /\ \A id \in S : Normalize(id, tls) = Ok(id)
  BY <1>4 DEF Identities
<1> HIDE DEF S
<1>7. /\ twice \in Seq(Endpoints)
      /\ \A i \in 1..Len(twice) : Normalize(twice[i], tls) = Ok(twice[i])
  BY <1>5, <1>6
<1>8. Dedupe(twice, tls) = Ok(twice)
  BY <1>5, <1>7, DedupeKeeps
<1> QED
  BY <1>8, <1>3 DEF twice

-----------------------------------------------------------------------------
(* The transaction builder                                                  *)

(* What the names of the settings s come to, and that u is what an inner    *)
(* transaction is prepared with by a builder that holds s.                  *)
NamesOf(s) ==
  IF s.target.mode = "endorsing" THEN Dedupe(s.target.names, TLS)
                                 ELSE Ok(<<>>)

PreparedFrom(u, s) ==
  /\ NamesOf(s).kind = "ok"
  /\ u = [s EXCEPT !.target = [s.target EXCEPT !.names = NamesOf(s).id]]

(* What a call on peers ran with is what the builder held at one moment     *)
(* between its beginning and its continuation, made canonical.              *)
OneMoment(c) ==
  Runs(c) /\ path[c] = "peer" =>
    \E s \in {begun[c]} \cup setSince[c] : PreparedFrom(used[c], s)

PreparedAtOneMoment == \A c \in Calls : OneMoment(c)

(* A path is chosen by the targeting at the beginning; no setter takes the  *)
(* builder back to the Gateway; and a call that waits has seen the settings *)
(* the builder holds.                                                       *)
CallOK(c) ==
  /\ stage[c] = "idle" => ended[c] = "none" /\ path[c] = "none"
  /\ stage[c] = "awaiting" =>
       ended[c] = "none" /\ path[c] \in {"gateway", "peer"}
         /\ Settings \in {begun[c]} \cup setSince[c]
  /\ path[c] # "none" => ((path[c] = "gateway") <=> (begun[c].target.mode = "gateway"))
  /\ path[c] = "peer" => targeting.mode # "gateway"
  /\ Runs(c) =>
       path[c] # "none" /\ ((path[c] = "gateway") <=> (used[c].target.mode = "gateway"))
  /\ OneMoment(c)

CallTypes ==
  /\ stage \in [Calls -> {"idle", "awaiting", "done"}]
  /\ path \in [Calls -> {"none", "gateway", "peer"}]
  /\ ended \in [Calls -> Outcomes]
  /\ DOMAIN begun = Calls /\ begun = [c \in Calls |-> begun[c]]
  /\ DOMAIN used = Calls /\ used = [c \in Calls |-> used[c]]

TargetOK == DOMAIN targeting = {"mode", "names"}

BuilderInv == CallTypes /\ TargetOK /\ \A c \in Calls : CallOK(c)

(* The invariant holds initially: no call began.                            *)
LEMMA InitBuilderInv == BuilderInit => BuilderInv
<1> SUFFICES ASSUME BuilderInit PROVE BuilderInv
  OBVIOUS
<1>1. CallTypes
  BY DEF BuilderInit, CallTypes, Outcomes
<1>2. \A c \in Calls : stage[c] = "idle" /\ ended[c] = "none" /\ path[c] = "none"
  BY DEF BuilderInit
<1>3. TargetOK
  BY DEF BuilderInit, Gateway, TargetOK
<1> QED
  BY <1>1, <1>2, <1>3 DEF BuilderInv, CallOK, OneMoment, Runs

(* What every setter does: the waiting calls see the new settings, and the  *)
(* builder leaves the peers for the Gateway never.                          *)
LEMMA SetterKeeps ==
  ASSUME BuilderInv, Seen, UNCHANGED <<kind, stage, path, begun, used, ended>>,
         targeting' = targeting \/ (targeting'.mode # "gateway" /\ TargetOK')
  PROVE  BuilderInv'
<1>1. CallTypes' /\ TargetOK'
  BY DEF BuilderInv, CallTypes, TargetOK
<1>2. ASSUME NEW c \in Calls PROVE CallOK(c)'
  <2>1. CallOK(c)
    BY DEF BuilderInv
  <2>2. setSince'[c] = (IF stage[c] = "awaiting" THEN setSince[c] \cup {Settings'}
                                                 ELSE setSince[c])
    BY DEF Seen
  <2>3. stage'[c] = "awaiting" => Settings' \in {begun'[c]} \cup setSince'[c]
    BY <2>2
  <2>4. Runs(c) => setSince'[c] = setSince[c]
    BY <2>1, <2>2 DEF CallOK, Runs
  <2>5. OneMoment(c)'
    <3>1. ASSUME Runs(c)', path'[c] = "peer"
          PROVE  \E s \in {begun'[c]} \cup setSince'[c] : PreparedFrom(used'[c], s)
      <4>1. Runs(c) /\ path[c] = "peer"
        BY <3>1 DEF Runs
      <4>2. PICK s \in {begun[c]} \cup setSince[c] : PreparedFrom(used[c], s)
        BY <2>1, <4>1 DEF CallOK, OneMoment
      <4> QED
        BY <2>4, <4>1, <4>2
    <3> QED
      BY <3>1 DEF OneMoment
  <2> QED
    BY <2>1, <2>3, <2>5 DEF CallOK, Runs
<1> QED
  BY <1>1, <1>2 DEF BuilderInv

(* The setters.                                                             *)
LEMMA SettersKeep ==
  ASSUME BuilderInv,
         \/ UseSinglePeer
         \/ \E names \in Inputs : UseEndorsingPeers(names)
         \/ \E d \in AnyOf(Data) : SetTransientData(d)
         \/ \E x \in Creators : SetProposalCreator(x)
  PROVE  BuilderInv'
<1>1. ASSUME UNCHANGED setterFrame
      PROVE  UNCHANGED <<kind, stage, path, begun, used, ended>>
  BY <1>1 DEF setterFrame
<1>2. CASE UseSinglePeer
  <2>1. targeting'.mode = "single" /\ TargetOK'
    BY <1>2 DEF UseSinglePeer, SinglePeer, TargetOK
  <2> QED
    BY <1>1, <1>2, <2>1, SetterKeeps DEF UseSinglePeer
<1>3. ASSUME NEW names \in Inputs, UseEndorsingPeers(names) PROVE BuilderInv'
  <2>1. PICK canonical : canonical = Dedupe(names, TLS)
    OBVIOUS
  <2>2. Seen /\ UNCHANGED setterFrame
    BY <1>3 DEF UseEndorsingPeers
  <2>3. targeting' = targeting \/ targeting' = EndorsingPeers(canonical.id)
    BY <1>3, <2>1 DEF UseEndorsingPeers
  <2>4. targeting' = targeting \/ (targeting'.mode # "gateway" /\ TargetOK')
    BY <2>3 DEF EndorsingPeers, TargetOK
  <2> QED
    BY <1>1, <2>2, <2>4, SetterKeeps
<1>4. ASSUME NEW d, SetTransientData(d) PROVE BuilderInv'
  BY <1>1, <1>4, SetterKeeps DEF SetTransientData
<1>5. ASSUME NEW x, SetProposalCreator(x) PROVE BuilderInv'
  BY <1>1, <1>5, SetterKeeps DEF SetProposalCreator
<1> QED
  BY <1>2, <1>3, <1>4, <1>5

(* A call that does not move keeps what is said of it while the builder     *)
(* holds what it held.                                                      *)
LEMMA CallStutters ==
  ASSUME NEW c \in Calls, CallOK(c), UNCHANGED <<targeting, transient, creator>>,
         stage'[c] = stage[c] /\ path'[c] = path[c] /\ ended'[c] = ended[c],
         begun'[c] = begun[c] /\ used'[c] = used[c] /\ setSince'[c] = setSince[c]
  PROVE  CallOK(c)'
<1>1. Settings' = Settings
  BY DEF Settings
<1>2. OneMoment(c)'
  BY DEF CallOK, OneMoment, Runs
<1> QED
  BY <1>1, <1>2 DEF CallOK, Runs

(* A call begins: it notes the settings and chooses its path by them.       *)
LEMMA BeginKeeps ==
  ASSUME BuilderInv, NEW c \in Calls, Begin(c)
  PROVE  BuilderInv'
<1>1. /\ stage[c] = "idle" /\ begun' = [begun EXCEPT ![c] = Settings]
      /\ UNCHANGED <<targeting, transient, creator, setSince, used>>
  BY DEF Begin, builderVars
<1>2. CallTypes /\ CallOK(c) /\ TargetOK /\ TargetOK'
  BY <1>1 DEF BuilderInv, TargetOK
<1>3. begun'[c] = Settings /\ Settings' = Settings
      /\ begun' = [x \in Calls |-> begun'[x]] /\ DOMAIN begun' = Calls
      /\ \A x \in Calls : x # c => begun'[x] = begun[x]
  BY <1>1, <1>2 DEF CallTypes, Settings
<1>4. Settings.target = targeting
  BY DEF Settings
<1>5. CASE /\ End(c, "ConfigurationError") /\ UNCHANGED path
  <2>1. /\ stage' = [stage EXCEPT ![c] = "done"]
        /\ ended' = [ended EXCEPT ![c] = "ConfigurationError"]
    BY <1>5 DEF End
  <2>2. CallTypes'
    BY <1>1, <1>2, <1>3, <1>5, <2>1 DEF CallTypes, Outcomes
  <2>3. \A x \in Calls : x # c => CallOK(x)'
    BY <1>1, <1>2, <1>3, <1>5, <2>1, CallStutters DEF BuilderInv, CallTypes
  <2>4. stage'[c] = "done" /\ ended'[c] = "ConfigurationError" /\ path'[c] = "none"
    BY <1>1, <1>2, <1>5, <2>1 DEF CallTypes, CallOK
  <2>5. CallOK(c)'
    BY <2>4 DEF CallOK, OneMoment, Runs
  <2> QED
    BY <1>2, <2>2, <2>3, <2>5 DEF BuilderInv
<1>6. ASSUME NEW way \in {"peer", "gateway"},
             way = (IF RequiresPeerMode THEN "peer" ELSE "gateway"),
             path' = [path EXCEPT ![c] = way],
             stage' = [stage EXCEPT ![c] = "awaiting"], UNCHANGED ended
      PROVE  BuilderInv'
  <2>1. CallTypes'
    BY <1>1, <1>2, <1>3, <1>6 DEF CallTypes
  <2>2. \A x \in Calls : x # c => CallOK(x)'
    BY <1>1, <1>2, <1>3, <1>6, CallStutters DEF BuilderInv, CallTypes
  <2>3. stage'[c] = "awaiting" /\ ended'[c] = "none" /\ path'[c] = way
    BY <1>1, <1>2, <1>6 DEF CallTypes, CallOK
  <2>4. (way = "gateway") <=> (targeting.mode = "gateway")
    BY <1>6 DEF RequiresPeerMode
  <2>5. CallOK(c)'
    BY <1>1, <1>3, <1>4, <2>3, <2>4 DEF CallOK, OneMoment, Runs
  <2> QED
    BY <1>2, <2>1, <2>2, <2>5 DEF BuilderInv
<1> QED
  BY <1>5, <1>6 DEF Begin

(* A call goes on over the Gateway.                                         *)
LEMMA ContinueOnGatewayKeeps ==
  ASSUME BuilderInv, NEW c \in Calls, ContinueOnGateway(c)
  PROVE  BuilderInv'
<1>1. /\ path[c] = "gateway"
      /\ used' = [used EXCEPT ![c] = [Settings EXCEPT !.target = Gateway]]
      /\ stage' = [stage EXCEPT ![c] = "done"] /\ ended' = [ended EXCEPT ![c] = "runs"]
      /\ UNCHANGED <<targeting, transient, creator, path, begun, setSince>>
  BY DEF ContinueOnGateway, Prepare, End, builderVars
<1>2. CallTypes /\ CallOK(c) /\ TargetOK /\ TargetOK'
  BY <1>1 DEF BuilderInv, TargetOK
<1>3. CallTypes'
  BY <1>1, <1>2 DEF CallTypes, Outcomes
<1>4. \A x \in Calls : x # c => CallOK(x)'
  BY <1>1, <1>2, CallStutters DEF BuilderInv, CallTypes
<1>5. stage'[c] = "done" /\ ended'[c] = "runs" /\ used'[c].target = Gateway
  BY <1>1, <1>2 DEF CallTypes, Settings
<1>6. used'[c].target.mode = "gateway"
  BY <1>5 DEF Gateway
<1>7. CallOK(c)'
  BY <1>1, <1>2, <1>5, <1>6 DEF CallOK, OneMoment, Runs
<1> QED
  BY <1>2, <1>3, <1>4, <1>7 DEF BuilderInv

(* A call goes on over peers: what it is prepared with comes from the       *)
(* settings of this moment, which it has seen.                              *)
LEMMA ContinueOnPeersKeeps ==
  ASSUME BuilderInv, NEW c \in Calls, ContinueOnPeers(c)
  PROVE  BuilderInv'
<1>1. /\ stage[c] = "awaiting" /\ path[c] = "peer"
      /\ stage' = [stage EXCEPT ![c] = "done"]
      /\ UNCHANGED <<targeting, transient, creator, path, begun, setSince>>
  BY DEF ContinueOnPeers, End, builderVars
<1>2. CallTypes /\ CallOK(c) /\ TargetOK /\ TargetOK'
  BY <1>1 DEF BuilderInv, TargetOK
<1>3. stage'[c] = "done"
  BY <1>1, <1>2 DEF CallTypes
<1>4. CASE /\ Applied.kind = "ok"
           /\ Prepare(c, [targeting EXCEPT !.names = Applied.id])
           /\ End(c, "runs")
  <2>1. PICK u : u = [Settings EXCEPT !.target = [targeting EXCEPT !.names = Applied.id]]
    OBVIOUS
  <2>2. used' = [used EXCEPT ![c] = u] /\ ended' = [ended EXCEPT ![c] = "runs"]
    BY <1>4, <2>1 DEF Prepare, End
  <2>3. CallTypes'
    BY <1>1, <1>2, <2>2 DEF CallTypes, Outcomes
  <2>4. \A x \in Calls : x # c => CallOK(x)'
    BY <1>1, <1>2, <2>2, CallStutters DEF BuilderInv, CallTypes
  <2>5. ended'[c] = "runs" /\ used'[c] = u
    BY <1>2, <2>2 DEF CallTypes
  <2>6. Settings.target = targeting
    BY DEF Settings
  <2>7. PreparedFrom(u, Settings)
    BY <1>4, <2>1, <2>6 DEF PreparedFrom, NamesOf, Applied
  <2>8. Settings \in {begun'[c]} \cup setSince'[c]
    BY <1>1, <1>2 DEF CallOK
  <2>9. u.target.mode = targeting.mode
    BY <1>2, <2>1 DEF Settings, TargetOK
  <2>10. OneMoment(c)'
    BY <2>5, <2>7, <2>8 DEF OneMoment
  <2> QED
    BY <1>1, <1>2, <1>3, <2>3, <2>4, <2>5, <2>9, <2>10 DEF BuilderInv, CallOK, Runs
<1>5. ASSUME NEW e \in {"rejected", "ConfigurationError", "SubmitError"},
             End(c, e), UNCHANGED used
      PROVE  BuilderInv'
  <2>1. ended' = [ended EXCEPT ![c] = e]
    BY <1>5 DEF End
  <2>2. CallTypes'
    BY <1>1, <1>2, <1>5, <2>1 DEF CallTypes, Outcomes
  <2>3. \A x \in Calls : x # c => CallOK(x)'
    BY <1>1, <1>2, <1>5, <2>1, CallStutters DEF BuilderInv, CallTypes
  <2>4. ended'[c] = e
    BY <1>2, <2>1 DEF CallTypes
  <2>5. CallOK(c)'
    BY <1>1, <1>2, <1>3, <2>4 DEF CallOK, OneMoment, Runs
  <2> QED
    BY <1>2, <2>2, <2>3, <2>5 DEF BuilderInv
<1>6. Unwrapped(c, Applied.kind) \in {"rejected", "ConfigurationError", "SubmitError"}
  BY DEF Unwrapped
<1> QED
  BY <1>4, <1>5, <1>6 DEF ContinueOnPeers

(* Every step preserves the invariant.                                      *)
LEMMA BuilderStep == BuilderInv /\ [BuilderNext]_targetingVars => BuilderInv'
<1> SUFFICES ASSUME BuilderInv, [BuilderNext]_targetingVars PROVE BuilderInv'
  OBVIOUS
<1>1. ASSUME NEW c \in Calls,
             Begin(c) \/ ContinueOnGateway(c) \/ ContinueOnPeers(c)
      PROVE  BuilderInv'
  BY <1>1, BeginKeeps, ContinueOnGatewayKeeps, ContinueOnPeersKeeps
<1>2. CASE UNCHANGED targetingVars
  <2>1. UNCHANGED <<targeting, transient, creator, stage, path, begun, setSince, used, ended>>
    BY <1>2 DEF targetingVars, builderVars, callVars
  <2>2. \A c \in Calls : CallOK(c)'
    BY <2>1, CallStutters DEF BuilderInv
  <2> QED
    BY <2>1, <2>2 DEF BuilderInv, CallTypes, TargetOK
<1> QED
  BY <1>1, <1>2, SettersKeep DEF BuilderNext

(* The invariant of the builder, whichever setters run while calls wait.    *)
THEOREM BuilderInvariance == BuilderSpec => []BuilderInv
BY InitBuilderInv, BuilderStep, PTL DEF BuilderSpec

(* A targeting that names peers has a list of identities, any other none,   *)
(* and settings consist of a targeting, data and a creator.                 *)
TargetIs(t) ==
  /\ t = [mode |-> t.mode, names |-> t.names]
  /\ IF t.mode = "endorsing" THEN t.names \in Seq(Identities) ELSE t.names = <<>>

SettingsAre(s) ==
  /\ s = [target |-> s.target, data |-> s.data, creator |-> s.creator]
  /\ TargetIs(s.target)

(* The names of the builder are what UseEndorsingPeers made of those last   *)
(* named, and every settings a call began with or has seen are settings.    *)
HistoryInv ==
  /\ TargetIs(targeting)
  /\ targeting.mode = "endorsing" =>
       named \in Inputs /\ Dedupe(named, TLS) = Ok(targeting.names)
  /\ \A c \in Calls : stage[c] # "idle" => SettingsAre(begun[c])
  /\ \A c \in Calls : \A s \in setSince[c] : SettingsAre(s)

(* The invariant of the history holds initially: no peer is named.          *)
LEMMA InitHistoryInv == BuilderInit => HistoryInv
BY DEF BuilderInit, HistoryInv, TargetIs, Gateway

(* What the builder holds is settings.                                      *)
LEMMA SettingsOfBuilder == TargetIs(targeting) => SettingsAre(Settings)
BY DEF SettingsAre, Settings

(* A setter that leaves a targeting behind keeps the history.               *)
LEMMA SetterKeepsHistory ==
  ASSUME HistoryInv, Seen, UNCHANGED <<stage, begun>>, TargetIs(targeting)',
         targeting'.mode = "endorsing" =>
           named' \in Inputs /\ Dedupe(named', TLS) = Ok(targeting'.names)
  PROVE  HistoryInv'
<1>1. SettingsAre(Settings')
  <2>1. PICK s : s = Settings'
    OBVIOUS
  <2>2. SettingsAre(s)
    BY <2>1 DEF SettingsAre, Settings
  <2> QED
    BY <2>1, <2>2
<1>2. \A c \in Calls : setSince'[c] \subseteq setSince[c] \cup {Settings'}
  BY DEF Seen
<1>3. \A c \in Calls : \A s \in setSince'[c] : SettingsAre(s)
  BY <1>1, <1>2 DEF HistoryInv
<1> QED
  BY <1>3 DEF HistoryInv

(* UseEndorsingPeers keeps the names it read, or the builder as it was.     *)
LEMMA UseEndorsingPeersKeepsHistory ==
  ASSUME HistoryInv, NEW names \in Inputs, UseEndorsingPeers(names)
  PROVE  HistoryInv'
<1> DEFINE canonical == Dedupe(names, TLS)
<1>1. Seen /\ UNCHANGED <<stage, begun>>
  BY DEF UseEndorsingPeers, setterFrame
<1>2. CASE UNCHANGED <<targeting, named>>
  BY <1>1, <1>2, SetterKeepsHistory DEF HistoryInv, TargetIs
<1>3. CASE canonical.kind = "ok" /\ targeting' = EndorsingPeers(canonical.id) /\ named' = names
  <2>1. names \in Seq(Endpoints) /\ TLS \in BOOLEAN
    BY TargetingAssumption
  <2>2. canonical = Ok(canonical.id) /\ canonical.id \in Seq(Identities)
    BY <1>3, <2>1, DedupedAreIdentities
  <2> HIDE DEF canonical
  <2>3. TargetIs(targeting)'
    BY <1>3, <2>2 DEF TargetIs, EndorsingPeers
  <2>4. Dedupe(named', TLS) = Ok(targeting'.names)
    BY <1>3, <2>2 DEF canonical, EndorsingPeers
  <2> QED
    BY <1>1, <1>3, <2>3, <2>4, SetterKeepsHistory
<1> QED
  BY <1>2, <1>3 DEF UseEndorsingPeers

(* Every step preserves the invariant of the history.                       *)
LEMMA HistoryStep == BuilderInv /\ HistoryInv /\ [BuilderNext]_targetingVars => HistoryInv'
<1> SUFFICES ASSUME BuilderInv, HistoryInv, [BuilderNext]_targetingVars PROVE HistoryInv'
  OBVIOUS
<1>1. CASE UseSinglePeer
  <2>1. Seen /\ UNCHANGED <<stage, begun>> /\ targeting' = SinglePeer
    BY <1>1 DEF UseSinglePeer, setterFrame
  <2>2. TargetIs(targeting)' /\ targeting'.mode # "endorsing"
    BY <2>1 DEF TargetIs, SinglePeer
  <2> QED
    BY <2>1, <2>2, SetterKeepsHistory
<1>2. ASSUME NEW names \in Inputs, UseEndorsingPeers(names) PROVE HistoryInv'
  BY <1>2, UseEndorsingPeersKeepsHistory
<1>3. ASSUME NEW d, SetTransientData(d) \/ SetProposalCreator(d) PROVE HistoryInv'
  <2>1. Seen /\ UNCHANGED <<stage, begun, targeting, named>>
    BY <1>3 DEF SetTransientData, SetProposalCreator, setterFrame
  <2> QED
    BY <2>1, SetterKeepsHistory DEF HistoryInv, TargetIs
<1>4. ASSUME NEW c \in Calls, Begin(c) PROVE HistoryInv'
  <2>1. /\ begun' = [begun EXCEPT ![c] = Settings]
        /\ UNCHANGED <<targeting, named, setSince>>
        /\ \A x \in Calls : x # c => stage'[x] = stage[x]
    BY <1>4 DEF Begin, End, builderVars, BuilderInv, CallTypes
  <2>2. begun'[c] = Settings /\ \A x \in Calls : x # c => begun'[x] = begun[x]
    BY <2>1 DEF BuilderInv, CallTypes
  <2>3. SettingsAre(Settings)
    BY SettingsOfBuilder DEF HistoryInv
  <2>4. \A x \in Calls : stage'[x] # "idle" => SettingsAre(begun'[x])
    BY <2>1, <2>2, <2>3 DEF HistoryInv
  <2> QED
    BY <2>1, <2>4 DEF HistoryInv, TargetIs
<1>5. ASSUME NEW c \in Calls, ContinueOnGateway(c) \/ ContinueOnPeers(c) PROVE HistoryInv'
  <2>1. /\ stage[c] = "awaiting"
        /\ UNCHANGED <<targeting, named, begun, setSince>>
        /\ \A x \in Calls : x # c => stage'[x] = stage[x]
    BY <1>5 DEF ContinueOnGateway, ContinueOnPeers, End, builderVars, BuilderInv, CallTypes
  <2> QED
    BY <2>1 DEF HistoryInv, TargetIs
<1>6. CASE UNCHANGED targetingVars
  BY <1>6 DEF targetingVars, builderVars, callVars, HistoryInv, TargetIs
<1> QED
  BY <1>1, <1>2, <1>3, <1>4, <1>5, <1>6 DEF BuilderNext

(* The invariant of the history.                                            *)
THEOREM HistoryInvariance == BuilderSpec => []HistoryInv
BY InitHistoryInv, HistoryStep, BuilderInvariance, PTL DEF BuilderSpec

(* The types are kept: a setter puts in what it was given or what it read.  *)
LEMMA BuilderTypeStep ==
  BuilderTypeOK /\ HistoryInv' /\ [BuilderNext]_targetingVars => BuilderTypeOK'
<1> SUFFICES ASSUME BuilderTypeOK, HistoryInv', [BuilderNext]_targetingVars
             PROVE  BuilderTypeOK'
  OBVIOUS
<1>1. targeting'.mode \in {"gateway", "single", "endorsing"} =>
        \A i \in DOMAIN targeting'.names : targeting'.names[i] \in Endpoints
  <2>1. CASE targeting'.mode = "endorsing"
    BY <2>1 DEF HistoryInv, TargetIs, Identities
  <2>2. CASE targeting'.mode # "endorsing"
    BY <2>2 DEF HistoryInv, TargetIs
  <2> QED
    BY <2>1, <2>2
<1>2. ASSUME CanSet, NEW r \in {"ok", "ConfigurationError", "thrown"}, Returns(r)
      PROVE  setterTold' = r /\ setters' \in 0..MaxSetters
  BY <1>2, TargetingAssumption DEF CanSet, Returns, BuilderTypeOK
<1>3. CASE UseSinglePeer
  <2>1. UNCHANGED <<transient, creator, named, kind, stage, path, ended>>
        /\ setterTold' = "ok" /\ setters' \in 0..MaxSetters /\ targeting' = SinglePeer
    BY <1>2, <1>3 DEF UseSinglePeer, setterFrame
  <2> QED
    BY <1>1, <2>1 DEF BuilderTypeOK, SinglePeer
<1>4. ASSUME NEW names \in Inputs, UseEndorsingPeers(names) PROVE BuilderTypeOK'
  <2>1. UNCHANGED <<transient, creator, kind, stage, path, ended>>
    BY <1>4 DEF UseEndorsingPeers, setterFrame
  <2>2. PICK canonical : canonical = Dedupe(names, TLS)
    OBVIOUS
  <2>3. canonical.kind \in {"ok", "ConfigurationError", "thrown"}
    BY <2>2, DedupeKinds, TargetingAssumption
  <2>4. setterTold' \in {"ok", "ConfigurationError", "thrown"} /\ setters' \in 0..MaxSetters
    BY <1>2, <1>4, <2>2, <2>3 DEF UseEndorsingPeers
  <2>5. /\ targeting'.mode \in {"gateway", "single", "endorsing"}
        /\ named' \in Inputs \cup {<<>>}
    BY <1>4, <2>2 DEF UseEndorsingPeers, EndorsingPeers, BuilderTypeOK
  <2> QED
    BY <1>1, <2>1, <2>4, <2>5 DEF BuilderTypeOK
<1>5. ASSUME NEW d \in AnyOf(Data), SetTransientData(d) PROVE BuilderTypeOK'
  <2>1. UNCHANGED <<targeting, creator, named, kind, stage, path, ended>> /\ transient' = d
        /\ setterTold' = "ok" /\ setters' \in 0..MaxSetters
    BY <1>2, <1>5 DEF SetTransientData, setterFrame
  <2> QED
    BY <2>1 DEF BuilderTypeOK
<1>6. ASSUME NEW x \in Creators, SetProposalCreator(x) PROVE BuilderTypeOK'
  <2>1. UNCHANGED <<targeting, transient, named, kind, stage, path, ended>> /\ creator' = x
        /\ setterTold' = "ok" /\ setters' \in 0..MaxSetters
    BY <1>2, <1>6 DEF SetProposalCreator, setterFrame
  <2> QED
    BY <2>1 DEF BuilderTypeOK, AnyOf
<1>7. ASSUME NEW c \in Calls, Begin(c) PROVE BuilderTypeOK'
  <2>1. UNCHANGED <<targeting, transient, creator, named, setterTold, setters, kind>>
    BY <1>7 DEF Begin, builderVars
  <2>2. /\ stage' \in [Calls -> {"idle", "awaiting", "done"}]
        /\ path' \in [Calls -> {"none", "gateway", "peer"}]
        /\ ended' \in [Calls -> Outcomes]
    BY <1>7 DEF Begin, End, BuilderTypeOK, Outcomes
  <2> QED
    BY <2>1, <2>2 DEF BuilderTypeOK
<1>8. ASSUME NEW c \in Calls, ContinueOnGateway(c) \/ ContinueOnPeers(c) PROVE BuilderTypeOK'
  <2>1. UNCHANGED <<targeting, transient, creator, named, setterTold, setters, kind, path>>
    BY <1>8 DEF ContinueOnGateway, ContinueOnPeers, builderVars
  <2>2. PICK r \in {"runs", "rejected", "ConfigurationError", "SubmitError"} : End(c, r)
    BY <1>8 DEF ContinueOnGateway, ContinueOnPeers, Unwrapped
  <2>3. /\ stage' \in [Calls -> {"idle", "awaiting", "done"}]
        /\ ended' \in [Calls -> Outcomes]
    BY <2>2 DEF End, BuilderTypeOK, Outcomes
  <2> QED
    BY <2>1, <2>3 DEF BuilderTypeOK
<1>9. CASE UNCHANGED targetingVars
  BY <1>9 DEF targetingVars, builderVars, callVars, BuilderTypeOK
<1> QED
  BY <1>3, <1>4, <1>5, <1>6, <1>7, <1>8, <1>9 DEF BuilderNext

(* Every reachable state of the builder is type correct.                    *)
THEOREM BuilderTypeCorrect == BuilderSpec => []BuilderTypeOK
<1>1. BuilderInit => BuilderTypeOK
  BY TargetingAssumption DEF BuilderInit, BuilderTypeOK, Gateway, AnyOf, Outcomes
<1> QED
  BY <1>1, BuilderTypeStep, HistoryInvariance, PTL DEF BuilderSpec

(* A call keeps the path it began on, whatever is set while it waits        *)
(* (createGatewayTransaction and createPeerTargetedTransaction of           *)
(* FabricBridge.ts).                                                        *)
THEOREM PathsAreKept == BuilderSpec => []PathIsKept
<1>1. BuilderInv => PathIsKept
  BY DEF BuilderInv, CallOK, PathIsKept
<1> QED
  BY <1>1, BuilderInvariance, PTL

(* A call on peers runs with the targeting, the transient data and the      *)
(* proposal creator of one moment, never with a mixture of two settings     *)
(* (createPeerTargetedTransaction).                                         *)
THEOREM SettingsAreNotMixed == BuilderSpec => []PreparedAtOneMoment
<1>1. BuilderInv => PreparedAtOneMoment
  BY DEF BuilderInv, CallOK, PreparedAtOneMoment
<1> QED
  BY <1>1, BuilderInvariance, PTL

(* What a call was prepared with is canonical, and so are the names it came *)
(* from once they are read again.                                           *)
LEMMA PreparedIsCanonical ==
  ASSUME NEW u, NEW s, SettingsAre(s), PreparedFrom(u, s)
  PROVE  Canonical(u) = Canonical(s)
<1>1. PICK names : names = s.target.names
  OBVIOUS
<1>2. PICK ns : ns = NamesOf(s)
  OBVIOUS
<1>3. u = [target |-> [mode |-> s.target.mode, names |-> ns.id],
           data |-> s.data, creator |-> s.creator]
  BY <1>2 DEF PreparedFrom, SettingsAre, TargetIs
<1>4. Dedupe(ns.id, TLS) = Dedupe(names, TLS)
  <2>1. CASE s.target.mode = "endorsing"
    <3>1. names \in Seq(Identities) /\ ns = Dedupe(names, TLS) /\ ns.kind = "ok"
      BY <1>1, <1>2, <2>1 DEF SettingsAre, TargetIs, NamesOf, PreparedFrom
    <3> QED
      BY <3>1, DedupeTwice
  <2>2. CASE s.target.mode # "endorsing"
    BY <1>1, <1>2, <2>2 DEF SettingsAre, TargetIs, NamesOf, Ok
  <2> QED
    BY <2>1, <2>2
<1>5. Canonical(u) = [target |-> [mode |-> s.target.mode, names |-> Dedupe(ns.id, TLS)],
                      data |-> s.data, creator |-> s.creator]
  BY <1>3 DEF Canonical
<1>6. Canonical(s) = [target |-> [mode |-> s.target.mode, names |-> Dedupe(names, TLS)],
                      data |-> s.data, creator |-> s.creator]
  BY <1>1 DEF Canonical, SettingsAre, TargetIs
<1> QED
  BY <1>4, <1>5, <1>6

(* A call on peers runs with what the builder held at one moment, also when *)
(* the spellings of the names changed on the way (createPeerTargeted-       *)
(* Transaction of FabricBridge.ts, dedupePeerEndpointInputsResult).         *)
THEOREM SettingsOfOneMoment == BuilderSpec => []SettingsAreOfOneMoment
<1>1. BuilderInv /\ HistoryInv => SettingsAreOfOneMoment
  <2> SUFFICES ASSUME BuilderInv, HistoryInv, NEW c \in Calls, Runs(c), path[c] = "peer"
               PROVE  \E s \in {begun[c]} \cup setSince[c] : Canonical(used[c]) = Canonical(s)
    BY DEF SettingsAreOfOneMoment
  <2>1. CallOK(c)
    BY DEF BuilderInv
  <2>2. PICK s \in {begun[c]} \cup setSince[c] : PreparedFrom(used[c], s)
    BY <2>1 DEF CallOK, OneMoment
  <2>3. stage[c] # "idle"
    BY <2>1 DEF CallOK, Runs
  <2>4. SettingsAre(s)
    BY <2>2, <2>3 DEF HistoryInv
  <2> QED
    BY <2>2, <2>4, PreparedIsCanonical
<1> QED
  BY <1>1, BuilderInvariance, HistoryInvariance, PTL

(* The names of the builder are the identities the developer named, each    *)
(* once, in the order they were first named (UseEndorsingPeers).            *)
THEOREM NamesOfBuilder == BuilderSpec => []NamesAreDeduplicated
<1>1. HistoryInv => NamesAreDeduplicated
  <2> SUFFICES ASSUME HistoryInv, targeting.mode = "endorsing"
               PROVE  InOrderOfNaming(targeting.names, named, TLS)
    BY DEF NamesAreDeduplicated
  <2>1. named \in Seq(Endpoints) /\ Dedupe(named, TLS) = Ok(targeting.names)
    BY TargetingAssumption DEF HistoryInv
  <2>2. Dedupe(named, TLS).kind = "ok" /\ Dedupe(named, TLS).id = targeting.names
    BY <2>1 DEF Ok
  <2> QED
    BY <2>1, <2>2, DedupeIsInOrder
<1> QED
  BY <1>1, HistoryInvariance, PTL

(* A setter that fails leaves the builder as it was (UseEndorsingPeers).    *)
THEOREM FailedSettersKeepTheBuilder == BuilderSpec => FailedSetterKeeps
<1>1. [BuilderNext]_targetingVars =>
        [setterTold' # "ok" => UNCHANGED builderVars]_<<builderVars,
                                                                  setterTold>>
  <2> SUFFICES ASSUME [BuilderNext]_targetingVars, setterTold' # "ok"
               PROVE  UNCHANGED builderVars
    OBVIOUS
  <2>1. ASSUME NEW names, UseEndorsingPeers(names)
        PROVE  UNCHANGED builderVars
    BY <2>1 DEF UseEndorsingPeers, Returns, builderVars
  <2>2. CASE UNCHANGED targetingVars
    BY <2>2 DEF targetingVars, builderVars
  <2> QED
    BY <2>1, <2>2 DEF BuilderNext, UseSinglePeer, SetTransientData,
      SetProposalCreator, Returns, Begin, ContinueOnGateway,
      ContinueOnPeers
<1> QED
  BY <1>1, PTL DEF BuilderSpec, FailedSetterKeeps

=============================================================================
