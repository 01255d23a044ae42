-------------------------- MODULE GatewayConnection --------------------------
(***************************************************************************)
(* The GatewayConnection objects of the Node bridge                         *)
(* (src/src/gateway/GatewayConnection.ts): connect() opens a gRPC client    *)
(* and waits until it is ready or a timer fires, getCommitStatus() signs    *)
(* and sends a commit status request, disconnect() closes both halves.      *)
(* Each action is what one object does between two awaits; who owns the     *)
(* object, and when it is used, is for the modules that extend this one.    *)
(***************************************************************************)
CONSTANTS
  Conns,       \* GatewayConnection objects
  StatusCalls, \* calls of getCommitStatus
  TxIds,       \* transactions asked about
  NoConn,
  SignerFails  \* config.signer may reject

ASSUME ConnectionAssumption ==
  /\ NoConn \notin Conns
  /\ SignerFails \in BOOLEAN

VARIABLES
  phase,      \* phase[k]: where connect() awaits
  connected,  \* connected[k]: what it returned
  client,     \* client[k]: k holds an open gRPC client
  gateway,    \* gateway[k]: k holds a Gateway over it
  query,      \* query[w]: where a getCommitStatus call awaits
  on,         \* on[w]: the object it was called on
  about,      \* about[w]: the transaction it asks about
  told,       \* told[w]: what it returned
  validation  \* validation[t]: what the peers made of t, "none" before its commit

connectVars == <<phase, connected, client, gateway>>
queryVars == <<query, on, about, told>>
connVars == <<connectVars, queryVars, validation>>

ConnectResults == {"none", "ok", "TimeoutError", "ConfigurationError"}
CommitAnswers == {"none", "VALID", "INVALID", "CommitError", "TimeoutError", "NotConnectedError", "rejected"}

ConnTypeOK ==
  /\ phase \in [Conns -> {"new", "waiting", "ready", "returned"}]
  /\ connected \in [Conns -> ConnectResults]
  /\ client \in [Conns -> BOOLEAN]
  /\ gateway \in [Conns -> BOOLEAN]
  /\ query \in [StatusCalls -> {"idle", "signing", "sent", "done"}]
  /\ on \in [StatusCalls -> Conns \cup {NoConn}]
  /\ about \in [StatusCalls -> TxIds]
  /\ told \in [StatusCalls -> CommitAnswers]
  /\ validation \in [TxIds -> {"none", "VALID", "INVALID"}]

ConnInit ==
  /\ phase = [k \in Conns |-> "new"]
  /\ connected = [k \in Conns |-> "none"]
  /\ client = [k \in Conns |-> FALSE]
  /\ gateway = [k \in Conns |-> FALSE]
  /\ query = [w \in StatusCalls |-> "idle"]
  /\ on = [w \in StatusCalls |-> NoConn]
  /\ about \in [StatusCalls -> TxIds]
  /\ told = [w \in StatusCalls |-> "none"]
  /\ validation = [t \in TxIds |-> "none"]

-----------------------------------------------------------------------------
(* connect()                                                                *)

ConnectEnds(k, r) ==
  /\ phase' = [phase EXCEPT ![k] = "returned"]
  /\ connected' = [connected EXCEPT ![k] = r]

StartConnect(k) ==
  /\ phase[k] = "new"
  /\ \/ /\ phase' = [phase EXCEPT ![k] = "waiting"]
        /\ client' = [client EXCEPT ![k] = TRUE]
        /\ UNCHANGED connected
     \/ ConnectEnds(k, "ConfigurationError") /\ UNCHANGED client
  /\ UNCHANGED <<gateway, queryVars, validation>>

ConnectReady(k) ==
  /\ phase[k] = "waiting"
  /\ client[k]
  /\ phase' = [phase EXCEPT ![k] = "ready"]
  /\ UNCHANGED <<connected, client, gateway, queryVars, validation>>

(* waitForReady's deadline and the timer beside it are due together: the    *)
(* text of the one that rejects first decides the error.  A client that was *)
(* closed meanwhile fails too.                                              *)
ConnectFails(k) ==
  /\ phase[k] = "waiting"
  /\ ConnectEnds(k, "ConfigurationError") \/ ConnectEnds(k, "TimeoutError")
  /\ UNCHANGED <<client, gateway, queryVars, validation>>

(* The Gateway is made; without a client the library refuses to.            *)
ConnectContinues(k) ==
  /\ phase[k] = "ready"
  /\ gateway' = [gateway EXCEPT ![k] = client[k]]
  /\ ConnectEnds(k, IF client[k] THEN "ok" ELSE "ConfigurationError")
  /\ UNCHANGED <<client, queryVars, validation>>

(* disconnect(), up to its await.                                           *)
Close(k) ==
  /\ client' = [client EXCEPT ![k] = FALSE]
  /\ gateway' = [gateway EXCEPT ![k] = FALSE]
  /\ UNCHANGED <<phase, connected, queryVars, validation>>

ConnectSteps(k) == ConnectFails(k) \/ ConnectContinues(k)

-----------------------------------------------------------------------------
(* getCommitStatus()                                                        *)

Tell(w, r) ==
  /\ told' = [told EXCEPT ![w] = r]
  /\ query' = [query EXCEPT ![w] = "done"]

CallCommitStatus(w, k) ==
  /\ query[w] = "idle"
  /\ on' = [on EXCEPT ![w] = k]
  /\ \/ client[k] /\ query' = [query EXCEPT ![w] = "signing"] /\ UNCHANGED told
     \/ ~client[k] /\ Tell(w, "NotConnectedError")
  /\ UNCHANGED <<connectVars, about, validation>>

\* mutant: the client of the check is used after the await
SignerAnswersKeepingClient(w) ==
  /\ query[w] = "signing"
  /\ \/ query' = [query EXCEPT ![w] = "sent"] /\ UNCHANGED told
     \/ SignerFails /\ Tell(w, "rejected")
  /\ UNCHANGED <<connectVars, on, about, validation>>

(* A signer that fails rejects the promise: the await is outside of the     *)
(* try.  A client closed during the await is null when it is used, inside.  *)
SignerAnswers(w) ==
  /\ query[w] = "signing"
  /\ \/ client[on[w]] /\ query' = [query EXCEPT ![w] = "sent"] /\ UNCHANGED told
     \/ ~client[on[w]] /\ Tell(w, "CommitError")
     \/ SignerFails /\ Tell(w, "rejected")
  /\ UNCHANGED <<connectVars, on, about, validation>>

(* The Gateway answers when the transaction has been committed.             *)
Reported(w) ==
  /\ query[w] = "sent"
  /\ validation[about[w]] # "none"
  /\ Tell(w, validation[about[w]])
  /\ UNCHANGED <<connectVars, on, about, validation>>

\* mutant: a call without a deadline fails only with its client
StatusFailsWithClient(w) ==
  /\ query[w] = "sent"
  /\ ~client[on[w]]
  /\ Tell(w, "CommitError")
  /\ UNCHANGED <<connectVars, on, about, validation>>

StatusFails(w) ==
  /\ query[w] = "sent"
  /\ Tell(w, "TimeoutError") \/ Tell(w, "CommitError")
  /\ UNCHANGED <<connectVars, on, about, validation>>

QuerySteps(w) == SignerAnswers(w) \/ Reported(w) \/ StatusFails(w)

Commit(t) ==
  /\ validation[t] = "none"
  /\ validation' \in {[validation EXCEPT ![t] = v] : v \in {"VALID", "INVALID"}}
  /\ UNCHANGED <<connectVars, queryVars>>

=============================================================================
