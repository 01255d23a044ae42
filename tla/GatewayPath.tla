----------------------------- MODULE GatewayPath -----------------------------
(***************************************************************************)
(* The Gateway path of the Node bridge (src/src/gateway/GatewayContract.ts  *)
(* under FabricBridge.ts): transactions that are endorsed, submitted and    *)
(* evaluated through the Gateway service of one peer, in one call or signed *)
(* offline in two, and the waits for their commit.                          *)
(*                                                                          *)
(* The Gateway client library is external: it endorses, signs and submits,  *)
(* and rejects with an EndorseError, a SubmitError or any other error, the  *)
(* text of which the bridge searches for "timeout".                         *)
(***************************************************************************)
CONSTANTS
  Submits,     \* calls of SubmitAsync, or first halves of Submit
  Evaluates,   \* calls of Evaluate
  Requests,    \* calls of NewUnsignedProposal, each with a message signed for it
  EndorseOps,  \* calls of Endorse on a resumed proposal
  EvaluateOps, \* calls of Evaluate on a resumed proposal
  SubmitOps,   \* calls of SubmitAsync on an endorsed transaction
  Waits,       \* calls of WaitForCommit, or second halves of Submit
  Damages,     \* what may happen to a signed message on its way
  None

ResumeOps == EndorseOps \cup EvaluateOps
SubmitCalls == Submits \cup SubmitOps
Ops == Submits \cup Evaluates \cup ResumeOps \cup SubmitOps
TxIds == Submits \cup Requests

ASSUME PathAssumption ==
  /\ None \notin Ops \cup Requests
  /\ Submits \cap (Evaluates \cup ResumeOps \cup SubmitOps \cup Requests) = {}
  /\ Evaluates \cap (ResumeOps \cup SubmitOps) = {}
  /\ EndorseOps \cap EvaluateOps = {}
  /\ ResumeOps \cap SubmitOps = {}
  /\ Damages \subseteq {"encoding", "no routing", "other routing", "bytes", "digest"}

VARIABLES
  open,       \* the connection has a Gateway
  step,       \* where an operation awaits
  verdict,    \* what it returned
  message,    \* message[o]: the signed message that o resumed
  endorsed,   \* endorsed[s]: the Endorse whose transaction s submits
  asked,      \* operations the Gateway was called for (history)
  sent,       \* <<operation, transaction>>: what the Gateway was given to submit
  ledger,     \* the part of it that was ordered
  validation, \* what the peers made of a transaction, "none" before its commit
  waitsFor,   \* waitsFor[w]: the submission a wait was called on
  told        \* told[w]: what it returned

opVars == <<step, verdict, message, endorsed, asked>>
netVars == <<sent, ledger, validation>>
waitVars == <<waitsFor, told>>
vars == <<open, opVars, netVars, waitVars>>

Errors == [kind: {"EndorseError", "SubmitError", "other"}, timeout: BOOLEAN]

Verdicts == {"none", "ok", "rejected", "EndorsementError", "SubmitError", "TimeoutError",
             "EvaluationError", "OfflineSigningError", "ConfigurationError"}
Messages == [request: Requests, damage: Damages \cup {"none"}]
NoMessage == [request |-> None]

TypeOK ==
  /\ open \in BOOLEAN
  /\ step \in [Ops -> {"idle", "resumed", "endorsing", "evaluating",
                       "signing", "submitting", "rejecting", "done"}]
  /\ verdict \in [Ops -> Verdicts]
  /\ message \in [ResumeOps -> Messages \cup {NoMessage}]
  /\ endorsed \in [SubmitOps -> EndorseOps \cup {None}]
  /\ asked \subseteq Ops
  /\ sent \subseteq (SubmitCalls \X TxIds)
  /\ ledger \subseteq sent
  /\ validation \in [TxIds -> {"none", "VALID", "INVALID"}]
  /\ waitsFor \in [Waits -> SubmitCalls \cup {None}]
  /\ told \in [Waits -> {"none", "VALID", "INVALID", "CommitError"}]

Init ==
  /\ open = TRUE
  /\ step = [o \in Ops |-> "idle"]
  /\ verdict = [o \in Ops |-> "none"]
  /\ message = [o \in ResumeOps |-> NoMessage]
  /\ endorsed = [s \in SubmitOps |-> None]
  /\ asked = {}
  /\ sent = {}
  /\ ledger = {}
  /\ validation = [t \in TxIds |-> "none"]
  /\ waitsFor = [w \in Waits |-> None]
  /\ told = [w \in Waits |-> "none"]

At(o, where) == step[o] = where
Go(o, where) == step' = [step EXCEPT ![o] = where]

End(o, r) ==
  /\ Go(o, "done")
  /\ verdict' = [verdict EXCEPT ![o] = r]

Ask(o, where) ==
  /\ Go(o, where)
  /\ asked' = asked \cup {o}
  /\ UNCHANGED verdict

Disconnect == open /\ open' = FALSE /\ UNCHANGED <<opVars, netVars, waitVars>>

(* The transaction an operation submits.                                    *)
Tx(s) == IF s \in Submits THEN s ELSE message[endorsed[s]].request

-----------------------------------------------------------------------------
(* A call on a contract or a transaction: getContract() throws without a    *)
(* Gateway, and what it throws rejects the call.                            *)
Call(o) ==
  /\ At(o, "idle")
  /\ o \in Submits \cup Evaluates
  /\ \/ open /\ Ask(o, IF o \in Submits THEN "endorsing" ELSE "evaluating")
     \/ ~open /\ Go(o, "rejecting") /\ UNCHANGED <<verdict, asked>>
  /\ UNCHANGED <<open, message, endorsed, netVars, waitVars>>

Rejected(o) ==
  /\ At(o, "rejecting")
  /\ End(o, "rejected")
  /\ UNCHANGED <<open, message, endorsed, asked, netVars, waitVars>>

\* mutant: every error of submitAsync is taken for a failed endorsement
MapSubmitErrorEndorse(e) == IF e.timeout THEN "TimeoutError" ELSE "EndorsementError"

MapSubmitError(e) ==
  CASE e.timeout -> "TimeoutError"
    [] ~e.timeout /\ e.kind = "EndorseError" -> "EndorsementError"
    [] OTHER -> "SubmitError"

(* What an error of endorse() becomes.                                      *)
EndorseVerdicts(o, e) == IF o \in Submits THEN {MapSubmitError(e)} ELSE {"EndorsementError"}

(* The Gateway or a peer refuses, a message is lost, or the signer fails.   *)
EndorseFails(o) ==
  /\ At(o, "endorsing")
  /\ \E e \in Errors : e.kind # "SubmitError" /\ \E r \in EndorseVerdicts(o, e) : End(o, r)
  /\ UNCHANGED <<open, message, endorsed, asked, netVars, waitVars>>

(* The library hands the signed transaction to the Gateway.                 *)
Send(s, t) ==
  /\ sent' = sent \cup {<<s, t>>}
  /\ Go(s, "submitting")

EndorseReturns(o) ==
  /\ At(o, "endorsing")
  /\ \/ o \in Submits /\ Send(o, o) /\ UNCHANGED verdict
     \/ o \in EndorseOps /\ End(o, "ok") /\ UNCHANGED sent
  /\ UNCHANGED <<open, message, endorsed, asked, ledger, validation, waitVars>>

(* Evaluate of a contract tells a timeout from another error; a transaction *)
(* and a resumed proposal do not.                                           *)
EvaluateEnds(o) ==
  /\ At(o, "evaluating")
  /\ End(o, "ok") \/ End(o, "EvaluationError") \/ (o \in Evaluates /\ End(o, "TimeoutError"))
  /\ UNCHANGED <<open, message, endorsed, asked, netVars, waitVars>>

-----------------------------------------------------------------------------
(* NewSignedProposal, Endorse and Evaluate                                  *)

\* mutant: the digest is not compared and the routing is not read
ReadUnchecked(m) ==
  CASE m.damage = "encoding" -> "OfflineSigningError"
    [] m.damage = "bytes" -> "SubmitError"
    [] OTHER -> "ok"

(* decodeSignedMessage, validateProposalRouting, the mode, the proposal in  *)
(* the bytes, its digest.                                                   *)
Read(m) ==
  CASE m.damage \in {"encoding", "no routing", "digest"} -> "OfflineSigningError"
    [] m.damage = "other routing" -> "ConfigurationError"
    [] m.damage = "bytes" -> "SubmitError"
    [] OTHER -> "ok"

Resume(o, m) ==
  /\ At(o, "idle")
  /\ message' = [message EXCEPT ![o] = m]
  /\ \/ ~open /\ End(o, "rejected")
     \/ open /\ Read(m) # "ok" /\ End(o, Read(m))
     \/ open /\ Read(m) = "ok" /\ Go(o, "resumed") /\ UNCHANGED verdict
  /\ UNCHANGED <<open, endorsed, asked, netVars, waitVars>>

Execute(o) ==
  /\ At(o, "resumed")
  /\ Ask(o, IF o \in EndorseOps THEN "endorsing" ELSE "evaluating")
  /\ UNCHANGED <<open, message, endorsed, netVars, waitVars>>

(* An endorsed transaction may be submitted more than once.                 *)
SubmitEndorsed(s, o) ==
  /\ At(s, "idle")
  /\ verdict[o] = "ok"
  /\ endorsed' = [endorsed EXCEPT ![s] = o]
  /\ Ask(s, "signing")
  /\ UNCHANGED <<open, message, netVars, waitVars>>

Signed(s) ==
  /\ At(s, "signing")
  /\ \/ Send(s, Tx(s)) /\ UNCHANGED verdict
     \/ End(s, "SubmitError") /\ UNCHANGED sent
  /\ UNCHANGED <<open, message, endorsed, asked, ledger, validation, waitVars>>

-----------------------------------------------------------------------------
(* The Gateway answers when the orderer has accepted the envelope.          *)
SubmitReturns(s) ==
  /\ At(s, "submitting")
  /\ <<s, Tx(s)>> \in ledger
  /\ End(s, "ok")
  /\ UNCHANGED <<open, message, endorsed, asked, netVars, waitVars>>

SubmitVerdicts(s, e) == IF s \in Submits THEN MapSubmitError(e) ELSE "SubmitError"

SubmitFails(s) ==
  /\ At(s, "submitting")
  /\ \E e \in Errors : e.kind # "EndorseError" /\ End(s, SubmitVerdicts(s, e))
  /\ UNCHANGED <<open, message, endorsed, asked, netVars, waitVars>>

OrdererAccepts(e) ==
  /\ e \in sent \ ledger
  /\ ledger' = ledger \cup {e}
  /\ UNCHANGED <<open, opVars, sent, validation, waitVars>>

Commit(t) ==
  /\ validation[t] = "none"
  /\ \E s \in SubmitCalls : <<s, t>> \in ledger
  /\ validation' \in {[validation EXCEPT ![t] = v] : v \in {"VALID", "INVALID"}}
  /\ UNCHANGED <<open, opVars, sent, ledger, waitVars>>

-----------------------------------------------------------------------------
(* WaitForCommit: every call asks for itself, with a deadline.              *)

Waiting(w) == waitsFor[w] # None /\ told[w] = "none"

WaitForCommit(w, s) ==
  /\ waitsFor[w] = None
  /\ verdict[s] = "ok"
  /\ waitsFor' = [waitsFor EXCEPT ![w] = s]
  /\ UNCHANGED <<open, opVars, netVars, told>>

Tell(w, r) ==
  /\ told' = [told EXCEPT ![w] = r]
  /\ UNCHANGED <<open, opVars, netVars, waitsFor>>

\* mutant: a status that was returned is a success
StatusReturnsUnchecked(w) ==
  /\ Waiting(w)
  /\ validation[Tx(waitsFor[w])] # "none"
  /\ Tell(w, "VALID")

StatusReturns(w) ==
  /\ Waiting(w)
  /\ validation[Tx(waitsFor[w])] # "none"
  /\ Tell(w, validation[Tx(waitsFor[w])])

\* mutant: no deadline
StatusFailsWhenClosed(w) == Waiting(w) /\ ~open /\ Tell(w, "CommitError")

(* The deadline, the transport or the signer.                               *)
StatusFails(w) == Waiting(w) /\ Tell(w, "CommitError")

Next ==
  \/ Disconnect
  \/ \E o \in Ops : Call(o) \/ Rejected(o) \/ EndorseFails(o) \/ EndorseReturns(o) \/ EvaluateEnds(o) \/ Execute(o)
  \/ \E o \in ResumeOps, m \in Messages : Resume(o, m)
  \/ \E s \in SubmitOps, o \in EndorseOps : SubmitEndorsed(s, o)
  \/ \E s \in SubmitCalls : Signed(s) \/ SubmitReturns(s) \/ SubmitFails(s)
  \/ \E e \in sent : OrdererAccepts(e)
  \/ \E t \in TxIds : Commit(t)
  \/ \E w \in Waits, s \in SubmitCalls : WaitForCommit(w, s)
  \/ \E w \in Waits : StatusReturns(w) \/ StatusFails(w)

Spec == Init /\ [][Next]_vars

(* The deadline of a status call passes.  Nothing bounds endorse() and      *)
(* submit(): the bridge gives the library no deadline for them.             *)
FairSpec == Spec /\ \A w \in Waits : WF_vars(StatusReturns(w) \/ StatusFails(w))

-----------------------------------------------------------------------------
(* Properties                                                               *)

(* A message that was damaged is refused before the Gateway is called.      *)
DamagedAreRefused ==
  \A o \in ResumeOps : message[o] # NoMessage /\ message[o].damage # "none" => o \notin asked

(* CONTEXT.md: "Malformed signing DTOs fail with an Offline signing error". *)
DamagedAreOfflineSigningErrors ==
  \A o \in ResumeOps :
    message[o] # NoMessage /\ message[o].damage # "none" => verdict[o] = "OfflineSigningError"

(* A wait is told VALID or INVALID only of the transaction it was called    *)
(* for, as the peers validated it, whatever was submitted besides.          *)
StatusesAreTrue ==
  \A w \in Waits :
    told[w] \in {"VALID", "INVALID"} =>
      /\ <<waitsFor[w], Tx(waitsFor[w])>> \in ledger
      /\ told[w] = validation[Tx(waitsFor[w])]

(* Every WaitForCommit returns, though the transaction is never committed.  *)
EveryWaitReturns == \A w \in Waits : Waiting(w) ~> told[w] # "none"

-----------------------------------------------------------------------------
(* Submitting implements SubmitOnce: an EndorsementError, and a call that   *)
(* was rejected, promise that nothing was or will be ordered.               *)

SubmitVerdict(s) ==
  CASE At(s, "idle") -> "none"
    [] At(s, "done") /\ verdict[s] = "ok" -> "ok"
    [] At(s, "done") /\ verdict[s] \in {"EndorsementError", "rejected"} -> "safe"
    [] At(s, "done") /\ verdict[s] \in {"SubmitError", "TimeoutError"} -> "unsure"
    [] OTHER -> "pending"

Once == INSTANCE SubmitOnce
  WITH Calls <- SubmitCalls,
       verdict <- [s \in SubmitCalls |-> SubmitVerdict(s)]

ImplementsSubmitOnce == Once!Spec

=============================================================================
