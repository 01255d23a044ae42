-------------------------- MODULE GatewayPathProofs --------------------------
(***************************************************************************)
(* Proofs about GatewayPath, for every set of calls, messages and damages.  *)
(*                                                                          *)
(* The invariant speaks of one operation at a time.  An operation looks at  *)
(* another only once that one is over (SubmitAsync at the Endorse whose     *)
(* transaction it submits, WaitForCommit at the submit), and what is over   *)
(* does not change (OthersStayOK, OverIsOver).                              *)
(***************************************************************************)
EXTENDS GatewayPath, TLAPS

(* Where an operation may be, and that it has a verdict when it is over.    *)
StageOK(o) ==
  /\ At(o, "rejecting") => o \in Submits \cup Evaluates
  /\ At(o, "endorsing") => o \in Submits \cup EndorseOps
  /\ At(o, "evaluating") => o \in Evaluates \cup EvaluateOps
  /\ At(o, "resumed") => o \in ResumeOps
  /\ At(o, "signing") => o \in SubmitOps
  /\ At(o, "submitting") => o \in SubmitCalls
  /\ At(o, "done") <=> verdict[o] # "none"

(* Only an undamaged message gets as far as the Gateway.                    *)
MessageOK(o) ==
  /\ At(o, "idle") <=> message[o] = NoMessage
  /\ (step[o] \in {"resumed", "endorsing", "evaluating"} \/ o \in asked \/ verdict[o] = "ok") =>
       message[o] \in Messages /\ message[o].damage = "none"

(* A submit sends its own transaction, once, and what it sent leaves only   *)
(* "ok", SubmitError and TimeoutError; "ok" is said of an ordered one.      *)
SubmitOK(s) ==
  /\ s \in SubmitOps /\ ~At(s, "idle") => endorsed[s] \in EndorseOps /\ verdict[endorsed[s]] = "ok"
  /\ At(s, "submitting") => <<s, Tx(s)>> \in sent
  /\ \A t \in TxIds : <<s, t>> \in sent =>
       /\ t = Tx(s)
       /\ step[s] \in {"submitting", "done"}
       /\ verdict[s] \in {"none", "ok", "SubmitError", "TimeoutError"}
  /\ verdict[s] \in {"none", "ok", "EndorsementError", "rejected", "SubmitError", "TimeoutError"}
  /\ verdict[s] = "ok" => <<s, Tx(s)>> \in ledger

OpOK(o) ==
  /\ StageOK(o)
  /\ o \in ResumeOps => MessageOK(o)
  /\ o \in SubmitCalls => SubmitOK(o)

(* A wait is called on a submission that succeeded, and repeats what the    *)
(* peers made of its transaction.                                           *)
WaitOK(w) ==
  /\ waitsFor[w] # None => verdict[waitsFor[w]] = "ok"
  /\ told[w] \in {"VALID", "INVALID"} =>
       waitsFor[w] # None /\ told[w] = validation[Tx(waitsFor[w])]

IInv == TypeOK /\ (\A o \in Ops : OpOK(o)) /\ (\A w \in Waits : WaitOK(w))

-----------------------------------------------------------------------------
(* What the assumption on the constants says of one operation.              *)
LEMMA Kinds ==
  /\ None \notin Ops /\ None \notin SubmitCalls /\ None \notin EndorseOps /\ None \notin Requests
  /\ SubmitCalls \subseteq Ops /\ ResumeOps \subseteq Ops /\ EndorseOps \subseteq ResumeOps
  /\ Submits \subseteq SubmitCalls /\ SubmitOps \subseteq SubmitCalls
  /\ \A o \in Submits : o \notin Evaluates /\ o \notin ResumeOps /\ o \notin SubmitOps
  /\ \A o \in Evaluates : o \notin ResumeOps /\ o \notin SubmitCalls
  /\ \A o \in ResumeOps : o \notin SubmitCalls
  /\ \A o \in EndorseOps : o \notin EvaluateOps
BY PathAssumption DEF Ops, ResumeOps, SubmitCalls

(* A message names a request, and only an undamaged one is read.            *)
LEMMA MessagesAreSome ==
  ASSUME NEW m \in Messages
  PROVE  m # NoMessage /\ m.request \in Requests /\ (Read(m) = "ok" => m.damage = "none")
<1>1. m.request \in Requests /\ m.damage \in Damages \cup {"none"}
  BY DEF Messages
<1>2. m # NoMessage
  BY <1>1, Kinds DEF NoMessage
<1>3. Read(m) = "ok" => m.damage = "none"
  BY <1>1, PathAssumption DEF Read
<1> QED
  BY <1>1, <1>2, <1>3

(* The transaction of a submit under way or over is one that it may send.   *)
LEMMA TxIsATransaction ==
  ASSUME IInv, NEW s \in SubmitCalls, ~At(s, "idle")
  PROVE  Tx(s) \in TxIds
<1>1. CASE s \in Submits
  BY <1>1 DEF Tx, TxIds
<1>2. CASE s \notin Submits
  <2>1. s \in SubmitOps /\ endorsed[s] \in EndorseOps /\ verdict[endorsed[s]] = "ok"
    BY <1>2, Kinds DEF IInv, OpOK, SubmitOK, SubmitCalls
  <2>2. message[endorsed[s]] \in Messages
    BY <2>1, Kinds DEF IInv, OpOK, MessageOK
  <2> QED
    BY <1>2, <2>2, MessagesAreSome DEF Tx, TxIds
<1> QED
  BY <1>1, <1>2

(* A step of operation o: it is not over, and o moves alone.                *)
Moves(o) ==
  /\ ~At(o, "done")
  /\ \A p \in Ops : p # o => step'[p] = step[p] /\ verdict'[p] = verdict[p] /\ (p \in asked' => p \in asked)
  /\ \A p \in ResumeOps : p # o \/ ~At(o, "idle") => message'[p] = message[p]
  /\ \A s \in SubmitOps : s # o => endorsed'[s] = endorsed[s]
  /\ \A e \in sent' : e \in sent \/ e[1] = o
  /\ sent \subseteq sent'
  /\ UNCHANGED <<open, ledger, validation, waitsFor, told>>

(* What is over stays so, with its verdict.                                 *)
LEMMA OverIsOver ==
  ASSUME IInv, NEW o \in Ops, Moves(o), NEW p \in Ops, verdict[p] # "none"
  PROVE  p # o /\ verdict'[p] = verdict[p] /\ (p \in ResumeOps => message'[p] = message[p])
BY DEF IInv, OpOK, StageOK, Moves

(* A submit under way keeps its transaction.                                *)
LEMMA TransactionsStay ==
  ASSUME IInv, NEW o \in Ops, Moves(o), NEW s \in SubmitCalls, ~At(s, "idle"),
         s # o \/ endorsed' = endorsed
  PROVE  Tx(s)' = Tx(s)
<1>1. CASE s \in Submits
  BY <1>1 DEF Tx
<1>2. CASE s \notin Submits
  <2>1. s \in SubmitOps /\ endorsed[s] \in EndorseOps /\ verdict[endorsed[s]] = "ok"
    BY <1>2, Kinds DEF IInv, OpOK, SubmitOK, SubmitCalls
  <2>2. endorsed'[s] = endorsed[s]
    BY <2>1 DEF Moves
  <2>3. message'[endorsed[s]] = message[endorsed[s]]
    BY <2>1, Kinds, OverIsOver
  <2> QED
    BY <1>2, <2>2, <2>3 DEF Tx
<1> QED
  BY <1>1, <1>2

(* A step of one operation keeps what is said of the others.                *)
LEMMA OthersStayOK ==
  ASSUME IInv, NEW o \in Ops, Moves(o), sent' \subseteq SubmitCalls \X TxIds
  PROVE  /\ \A p \in Ops : p # o => OpOK(p)'
         /\ \A w \in Waits : WaitOK(w)'
<1>1. ASSUME NEW p \in Ops, p # o PROVE OpOK(p)'
  <2>1. step'[p] = step[p] /\ verdict'[p] = verdict[p] /\ (p \in asked' => p \in asked)
    BY <1>1 DEF Moves
  <2>2. StageOK(p)'
    BY <2>1 DEF IInv, OpOK, StageOK, At
  <2>3. p \in ResumeOps => MessageOK(p)'
    BY <1>1, <2>1 DEF IInv, OpOK, MessageOK, At, Moves
  <2>4. ASSUME p \in SubmitCalls PROVE SubmitOK(p)'
    <3>1. SubmitOK(p)
      BY <2>4 DEF IInv, OpOK
    <3>2. p \in SubmitOps => endorsed'[p] = endorsed[p]
      BY <1>1 DEF Moves
    <3>3. \A t \in TxIds : <<p, t>> \in sent' <=> <<p, t>> \in sent
      BY <1>1 DEF Moves
    <3>4. ~At(p, "idle") => Tx(p)' = Tx(p) /\ Tx(p) \in TxIds
      BY <1>1, <2>4, TransactionsStay, TxIsATransaction
    <3>5. p \in SubmitOps /\ ~At(p, "idle") => verdict'[endorsed[p]] = verdict[endorsed[p]]
      BY <3>1, Kinds, OverIsOver DEF SubmitOK
    <3>6. At(p, "idle") => verdict[p] = "none"
      BY DEF IInv, OpOK, StageOK, At
    <3>7. ledger' = ledger
      BY DEF Moves
    <3>8. (p \in SubmitOps /\ ~At(p, "idle") => endorsed[p] \in EndorseOps /\ verdict[endorsed[p]] = "ok")'
      BY <2>1, <3>1, <3>2, <3>5 DEF SubmitOK, At
    <3>9. (At(p, "submitting") => <<p, Tx(p)>> \in sent)'
      BY <2>1, <3>1, <3>3, <3>4 DEF SubmitOK, At
    <3>10. \A t \in TxIds : <<p, t>> \in sent' =>
             t = Tx(p)' /\ step'[p] \in {"submitting", "done"}
             /\ verdict'[p] \in {"none", "ok", "SubmitError", "TimeoutError"}
      BY <2>1, <3>1, <3>3, <3>4 DEF SubmitOK, At
    <3>11. verdict'[p] = "ok" => <<p, Tx(p)'>> \in ledger'
      BY <2>1, <3>1, <3>4, <3>6, <3>7 DEF SubmitOK, At
    <3> QED
      BY <2>1, <3>1, <3>8, <3>9, <3>10, <3>11 DEF SubmitOK
  <2> QED
    BY <2>2, <2>3, <2>4 DEF OpOK
<1>2. ASSUME NEW w \in Waits PROVE WaitOK(w)'
  <2>1. WaitOK(w) /\ waitsFor[w] \in SubmitCalls \cup {None}
    BY DEF IInv, TypeOK
  <2>2. CASE waitsFor[w] # None
    <3>1. verdict[waitsFor[w]] = "ok" /\ waitsFor[w] \in SubmitCalls /\ waitsFor[w] \in Ops
      BY <2>1, <2>2, Kinds DEF WaitOK
    <3>2. waitsFor[w] # o /\ verdict'[waitsFor[w]] = "ok" /\ ~At(waitsFor[w], "idle")
      BY <3>1, OverIsOver DEF IInv, OpOK, StageOK, At
    <3>3. Tx(waitsFor[w])' = Tx(waitsFor[w])
      <4>1. PICK s \in SubmitCalls : s = waitsFor[w]
        BY <3>1
      <4>2. Tx(s)' = Tx(s)
        BY <3>2, <4>1, TransactionsStay
      <4>3. waitsFor' = waitsFor
        BY DEF Moves
      <4> QED
        BY <4>1, <4>2, <4>3
    <3> QED
      BY <2>1, <3>2, <3>3 DEF WaitOK, Moves
  <2>3. CASE waitsFor[w] = None
    BY <2>1, <2>3 DEF WaitOK, Moves
  <2> QED
    BY <2>2, <2>3
<1> QED
  BY <1>1, <1>2

-----------------------------------------------------------------------------
(* Types                                                                    *)

(* The types hold initially.                                                *)
LEMMA InitTypeOK == Init => TypeOK
BY Kinds DEF Init, TypeOK, Verdicts

(* What reading a message may come to.                                      *)
LEMMA MessageVerdicts ==
  ASSUME NEW m \in Messages
  PROVE  Read(m) \in Verdicts \ {"none"}
BY DEF Read, Verdicts

(* A step of an operation keeps the types.                                  *)
LEMMA OpStepsPreserveType ==
  ASSUME TypeOK, NEW o \in Ops,
         \/ Call(o) \/ Rejected(o) \/ EndorseFails(o) \/ EndorseReturns(o) \/ EvaluateEnds(o)
         \/ Execute(o)
         \/ o \in ResumeOps /\ \E m \in Messages : Resume(o, m)
         \/ o \in SubmitOps /\ \E d \in EndorseOps : SubmitEndorsed(o, d)
         \/ o \in SubmitCalls /\ (SubmitReturns(o) \/ SubmitFails(o))
  PROVE  TypeOK'
<1>1. CASE Call(o)
  BY <1>1 DEF TypeOK, Call, Ask, Go, netVars, waitVars
<1>2. CASE Rejected(o)
  BY <1>2 DEF TypeOK, Rejected, End, Go, Verdicts, netVars, waitVars
<1>3. CASE EndorseFails(o)
  BY <1>3 DEF TypeOK, EndorseFails, EndorseVerdicts, MapSubmitError, End, Go, Verdicts,
              netVars, waitVars
<1>4. CASE EndorseReturns(o)
  <2>1. CASE o \in Submits /\ Send(o, o) /\ UNCHANGED verdict
    <3>1. <<o, o>> \in SubmitCalls \X TxIds
      BY <2>1 DEF SubmitCalls, TxIds
    <3> QED
      BY <1>4, <2>1, <3>1 DEF TypeOK, EndorseReturns, Send, Go, waitVars
  <2>2. CASE o \in EndorseOps /\ End(o, "ok") /\ UNCHANGED sent
    BY <1>4, <2>2 DEF TypeOK, EndorseReturns, End, Go, Verdicts, waitVars
  <2> QED
    BY <1>4, <2>1, <2>2 DEF EndorseReturns
<1>5. CASE EvaluateEnds(o)
  BY <1>5 DEF TypeOK, EvaluateEnds, End, Go, Verdicts, netVars, waitVars
<1>6. CASE Execute(o)
  BY <1>6 DEF TypeOK, Execute, Ask, Go, netVars, waitVars
<1>7. ASSUME o \in ResumeOps, NEW m \in Messages, Resume(o, m) PROVE TypeOK'
  <2>1. message' \in [ResumeOps -> Messages \cup {NoMessage}]
    BY <1>7 DEF TypeOK, Resume
  <2>2. step' \in [Ops -> {"idle", "resumed", "endorsing", "evaluating",
                          "signing", "submitting", "rejecting", "done"}]
    BY <1>7 DEF TypeOK, Resume, End, Go
  <2>3. verdict' \in [Ops -> Verdicts]
    BY <1>7, MessageVerdicts DEF TypeOK, Resume, End, Go, Verdicts
  <2> QED
    BY <1>7, <2>1, <2>2, <2>3 DEF TypeOK, Resume, netVars, waitVars
<1>8. ASSUME o \in SubmitOps, NEW d \in EndorseOps, SubmitEndorsed(o, d) PROVE TypeOK'
  BY <1>8 DEF TypeOK, SubmitEndorsed, Ask, Go, netVars, waitVars
<1>9. CASE o \in SubmitCalls /\ SubmitReturns(o)
  BY <1>9 DEF TypeOK, SubmitReturns, End, Go, Verdicts, netVars, waitVars
<1>10. CASE o \in SubmitCalls /\ SubmitFails(o)
  BY <1>10 DEF TypeOK, SubmitFails, SubmitVerdicts, MapSubmitError, End, Go, Verdicts,
               netVars, waitVars
<1> QED
  BY <1>1, <1>2, <1>3, <1>4, <1>5, <1>6, <1>7, <1>8, <1>9, <1>10

-----------------------------------------------------------------------------
(* One operation's step                                                     *)

(* A step of an operation that keeps its own part keeps the invariant.      *)
LEMMA OpStepPreserves ==
  ASSUME IInv, NEW o \in Ops, Moves(o), TypeOK', OpOK(o)'
  PROVE  IInv'
<1>1. sent' \subseteq SubmitCalls \X TxIds
  BY DEF TypeOK
<1>2. \A p \in Ops : OpOK(p)'
  BY <1>1, OthersStayOK
<1>3. \A w \in Waits : WaitOK(w)'
  BY <1>1, OthersStayOK
<1> QED
  BY <1>2, <1>3 DEF IInv

(* A call begins, or is rejected before it asks.                            *)
LEMMA CallPreserves ==
  ASSUME IInv, NEW o \in Ops, Call(o) \/ Rejected(o)
  PROVE  IInv'
<1> USE DEF At, Go
<1>1. TypeOK /\ OpOK(o) /\ step = [p \in Ops |-> step[p]] /\ verdict = [p \in Ops |-> verdict[p]]
  BY DEF IInv, TypeOK
<1>2. TypeOK'
  BY <1>1, OpStepsPreserveType
<1>3. Moves(o)
  BY <1>1 DEF Moves, Call, Rejected, Ask, End, netVars, waitVars
<1>4. o \in Submits \cup Evaluates
  BY <1>1 DEF OpOK, StageOK, Call, Rejected
<1>5. StageOK(o)'
  BY <1>1, <1>4 DEF OpOK, StageOK, Call, Rejected, Ask, End
<1>6. o \notin ResumeOps
  BY <1>4, Kinds
<1>7. ASSUME o \in SubmitCalls PROVE SubmitOK(o)'
  <2>1. SubmitOK(o) /\ o \notin SubmitOps /\ Tx(o) = o /\ Tx(o)' = o
    BY <1>1, <1>4, <1>7, Kinds DEF OpOK, Tx
  <2> QED
    BY <1>1, <2>1 DEF SubmitOK, Call, Rejected, Ask, End, netVars, OpOK, StageOK
<1> QED
  BY <1>2, <1>3, <1>5, <1>6, <1>7, OpStepPreserves DEF OpOK

(* The Gateway fails or returns: an endorsement, an evaluation.             *)
LEMMA EndorseFailsPreserves ==
  ASSUME IInv, NEW o \in Ops, EndorseFails(o) \/ EvaluateEnds(o)
  PROVE  IInv'
<1> USE DEF At, Go
<1>1. TypeOK /\ OpOK(o) /\ step = [p \in Ops |-> step[p]] /\ verdict = [p \in Ops |-> verdict[p]]
  BY DEF IInv, TypeOK
<1>2. TypeOK'
  BY <1>1, OpStepsPreserveType
<1>3. PICK r : End(o, r) /\ r \in Verdicts \ {"none", "rejected"}
               /\ (o \in Submits => r \in {"EndorsementError", "TimeoutError", "SubmitError"})
               /\ (o \in EndorseOps => r # "ok")
               /\ (o \in SubmitCalls => o \in Submits)
  <2>1. CASE EndorseFails(o)
    <3>1. o \in Submits \cup EndorseOps /\ (o \in SubmitCalls => o \in Submits)
      BY <1>1, <2>1, Kinds DEF EndorseFails, OpOK, StageOK
    <3>2. PICK e \in Errors : \E r \in EndorseVerdicts(o, e) : End(o, r)
      BY <2>1 DEF EndorseFails
    <3>3. EndorseVerdicts(o, e) \subseteq {"EndorsementError", "TimeoutError", "SubmitError"}
      BY DEF EndorseVerdicts, MapSubmitError
    <3> QED
      BY <3>1, <3>2, <3>3 DEF Verdicts
  <2>2. CASE EvaluateEnds(o)
    <3>1. o \in Evaluates \cup EvaluateOps
      BY <1>1, <2>2 DEF EvaluateEnds, OpOK, StageOK
    <3>2. o \notin SubmitCalls /\ o \notin EndorseOps /\ o \notin Submits
      BY <3>1, Kinds DEF ResumeOps
    <3>3. PICK r \in {"ok", "EvaluationError", "TimeoutError"} : End(o, r)
      BY <2>2 DEF EvaluateEnds
    <3> QED
      BY <3>2, <3>3 DEF Verdicts
  <2> QED
    BY <2>1, <2>2
<1>4. Moves(o)
  BY <1>1 DEF Moves, EndorseFails, EvaluateEnds, End, netVars, waitVars
<1>5. step'[o] = "done" /\ verdict'[o] = r
      /\ message' = message /\ endorsed' = endorsed /\ asked' = asked
      /\ sent' = sent /\ ledger' = ledger
  BY <1>1, <1>3 DEF EndorseFails, EvaluateEnds, End, netVars
<1>6. StageOK(o)'
  BY <1>3, <1>5 DEF StageOK
<1>7. o \in ResumeOps => MessageOK(o)'
  BY <1>1, <1>5 DEF OpOK, MessageOK, EndorseFails, EvaluateEnds
<1>8. ASSUME o \in SubmitCalls PROVE SubmitOK(o)'
  <2>1. SubmitOK(o) /\ o \notin SubmitOps /\ Tx(o) = o /\ Tx(o)' = o
    BY <1>1, <1>3, <1>8, Kinds DEF OpOK, Tx
  <2>2. \A t \in TxIds : <<o, t>> \notin sent
    BY <1>1, <2>1 DEF SubmitOK, EndorseFails, EvaluateEnds
  <2> QED
    BY <1>3, <1>5, <1>8, <2>1, <2>2 DEF SubmitOK
<1> QED
  BY <1>2, <1>4, <1>6, <1>7, <1>8, OpStepPreserves DEF OpOK

(* The Gateway endorsed: a submit of the application sends at once.         *)
LEMMA EndorseReturnsPreserves ==
  ASSUME IInv, NEW o \in Ops, EndorseReturns(o)
  PROVE  IInv'
<1> USE DEF At, Go
<1>1. TypeOK /\ OpOK(o) /\ step = [p \in Ops |-> step[p]] /\ verdict = [p \in Ops |-> verdict[p]]
  BY DEF IInv, TypeOK
<1>2. TypeOK'
  BY <1>1, OpStepsPreserveType
<1>3. Moves(o)
  BY <1>1 DEF Moves, EndorseReturns, Send, End, waitVars
<1>4. CASE o \in Submits /\ Send(o, o) /\ UNCHANGED verdict
  <2>1. o \in SubmitCalls /\ o \notin SubmitOps /\ o \notin ResumeOps /\ Tx(o) = o /\ Tx(o)' = o
    BY <1>4, Kinds DEF Tx
  <2>2. step'[o] = "submitting" /\ verdict'[o] = verdict[o] /\ verdict[o] = "none"
    BY <1>1, <1>4 DEF Send, EndorseReturns, OpOK, StageOK
  <2>3. StageOK(o)'
    BY <2>1, <2>2 DEF StageOK
  <2>4. \A t \in TxIds : <<o, t>> \in sent' <=> t = o
    BY <1>1, <1>4, <2>1 DEF Send, EndorseReturns, OpOK, SubmitOK, TxIds
  <2>5. o \in TxIds
    BY <1>4 DEF TxIds
  <2>6. SubmitOK(o)'
    BY <2>1, <2>2, <2>4, <2>5 DEF SubmitOK
  <2> QED
    BY <1>2, <1>3, <2>1, <2>3, <2>6, OpStepPreserves DEF OpOK
<1>5. CASE o \in EndorseOps /\ End(o, "ok") /\ UNCHANGED sent
  <2>1. o \in ResumeOps /\ o \notin SubmitCalls
    BY <1>5, Kinds
  <2>2. StageOK(o)'
    BY <1>1, <1>5 DEF StageOK, End
  <2>3. MessageOK(o)'
    BY <1>1, <1>5, <2>1 DEF OpOK, MessageOK, EndorseReturns, End
  <2> QED
    BY <1>2, <1>3, <2>1, <2>2, <2>3, OpStepPreserves DEF OpOK
<1> QED
  BY <1>4, <1>5 DEF EndorseReturns

(* A message is resumed, and refused if it was damaged.                     *)
LEMMA ResumePreserves ==
  ASSUME IInv, NEW o \in ResumeOps, Execute(o) \/ \E m \in Messages : Resume(o, m)
  PROVE  IInv'
<1> USE DEF At, Go
<1>0. o \in Ops /\ o \notin SubmitCalls
  BY Kinds
<1>1. TypeOK /\ OpOK(o) /\ step = [p \in Ops |-> step[p]] /\ verdict = [p \in Ops |-> verdict[p]]
      /\ message = [p \in ResumeOps |-> message[p]]
  BY <1>0 DEF IInv, TypeOK
<1>2. TypeOK'
  BY <1>0, <1>1, OpStepsPreserveType
<1>3. Moves(o)
  BY <1>0, <1>1 DEF Moves, Execute, Resume, Ask, End, netVars, waitVars
<1>4. CASE Execute(o)
  <2>1. StageOK(o)'
    BY <1>0, <1>1, <1>4 DEF OpOK, StageOK, Execute, Ask, ResumeOps
  <2>2. MessageOK(o)'
    BY <1>0, <1>1, <1>4 DEF OpOK, MessageOK, Execute, Ask
  <2> QED
    BY <1>0, <1>2, <1>3, <2>1, <2>2, OpStepPreserves DEF OpOK
<1>5. ASSUME NEW m \in Messages, Resume(o, m) PROVE IInv'
  <2>1. message'[o] = m /\ o \notin asked' /\ verdict[o] = "none"
    BY <1>1, <1>5, MessagesAreSome DEF OpOK, StageOK, MessageOK, Resume
  <2>2. \/ step'[o] = "done" /\ verdict'[o] \in Verdicts \ {"none", "ok"}
        \/ step'[o] = "resumed" /\ verdict'[o] = "none" /\ Read(m) = "ok"
    <3>1. CASE ~open /\ End(o, "rejected")
      BY <1>0, <1>1, <3>1 DEF End, Verdicts
    <3>2. CASE open /\ Read(m) # "ok" /\ End(o, Read(m))
      BY <1>0, <1>1, <3>2, MessageVerdicts DEF End
    <3>3. CASE open /\ Read(m) = "ok" /\ Go(o, "resumed") /\ UNCHANGED verdict
      BY <1>0, <1>1, <2>1, <3>3
    <3> QED
      BY <1>5, <3>1, <3>2, <3>3 DEF Resume
  <2>3. StageOK(o)'
    BY <2>2 DEF StageOK
  <2>4. MessageOK(o)'
    BY <2>1, <2>2, MessagesAreSome DEF MessageOK
  <2> QED
    BY <1>0, <1>2, <1>3, <2>3, <2>4, OpStepPreserves DEF OpOK
<1> QED
  BY <1>4, <1>5

(* An endorsed transaction is signed and sent.                              *)
LEMMA SubmitEndorsedPreserves ==
  ASSUME IInv, NEW s \in SubmitOps, NEW d \in EndorseOps, SubmitEndorsed(s, d)
  PROVE  IInv'
<1> USE DEF At, Go
<1>0. s \in Ops /\ s \in SubmitCalls /\ s \notin ResumeOps /\ s \notin Submits
      /\ d \in Ops /\ d \in ResumeOps /\ d # s
  BY Kinds
<1>1. TypeOK /\ OpOK(s) /\ step = [p \in Ops |-> step[p]] /\ verdict = [p \in Ops |-> verdict[p]]
      /\ endorsed = [p \in SubmitOps |-> endorsed[p]]
  BY <1>0 DEF IInv, TypeOK
<1>2. TypeOK'
  BY <1>0, <1>1, OpStepsPreserveType
<1>3. Moves(s)
  BY <1>0, <1>1 DEF Moves, SubmitEndorsed, Ask, netVars, waitVars
<1>4. StageOK(s)'
  BY <1>0, <1>1 DEF OpOK, StageOK, SubmitEndorsed, Ask
<1>5. \A t \in TxIds : <<s, t>> \notin sent
  BY <1>0, <1>1 DEF OpOK, SubmitOK, SubmitEndorsed
<1>6. SubmitOK(s)'
  BY <1>0, <1>1, <1>5 DEF OpOK, StageOK, SubmitOK, SubmitEndorsed, Ask, netVars
<1> QED
  BY <1>0, <1>2, <1>3, <1>4, <1>6, OpStepPreserves DEF OpOK

(* The library's call submit() of a transaction, and its end.               *)
LEMMA SubmitsPreserve ==
  ASSUME IInv, NEW s \in SubmitCalls, Signed(s) \/ SubmitReturns(s) \/ SubmitFails(s)
  PROVE  IInv'
<1> USE DEF At, Go
<1>0. s \in Ops /\ s \notin ResumeOps
  BY Kinds
<1>1. /\ TypeOK /\ OpOK(s) /\ StageOK(s) /\ SubmitOK(s)
      /\ step = [p \in Ops |-> step[p]] /\ verdict = [p \in Ops |-> verdict[p]]
  BY <1>0 DEF IInv, TypeOK, OpOK
<1>2. Moves(s)
  BY <1>0, <1>1 DEF Moves, Signed, SubmitReturns, SubmitFails, Send, End, netVars, waitVars
<1>3. ~At(s, "idle") /\ ~At(s, "done") /\ verdict[s] = "none"
  BY <1>1 DEF Signed, SubmitReturns, SubmitFails, StageOK
<1>4. UNCHANGED <<message, endorsed, asked, ledger, validation, waitVars, open>>
  BY DEF Signed, SubmitReturns, SubmitFails, netVars
<1>5. Tx(s)' = Tx(s) /\ Tx(s) \in TxIds
  BY <1>0, <1>2, <1>3, <1>4, TransactionsStay, TxIsATransaction
<1>6. s \in SubmitOps => endorsed'[s] \in EndorseOps /\ verdict'[endorsed'[s]] = "ok"
  <2>1. ASSUME s \in SubmitOps PROVE endorsed[s] \in EndorseOps /\ verdict[endorsed[s]] = "ok"
    BY <1>1, <1>3, <2>1 DEF SubmitOK
  <2>2. ASSUME s \in SubmitOps PROVE verdict'[endorsed[s]] = "ok"
    BY <1>0, <1>2, <2>1, <2>2, Kinds, OverIsOver
  <2> QED
    BY <1>4, <2>1, <2>2
<1>7. CASE Signed(s) /\ Send(s, Tx(s)) /\ UNCHANGED verdict
  <2>1. step'[s] = "submitting" /\ verdict'[s] = "none" /\ sent' = sent \cup {<<s, Tx(s)>>}
    BY <1>0, <1>1, <1>3, <1>7 DEF Send
  <2>2. TypeOK'
    <3>1. step' \in [Ops -> {"idle", "resumed", "endorsing", "evaluating",
                             "signing", "submitting", "rejecting", "done"}]
      BY <1>0, <1>1, <1>7 DEF Send, TypeOK
    <3>2. sent' \subseteq SubmitCalls \X TxIds /\ ledger' \subseteq sent'
      BY <1>1, <1>4, <1>5, <2>1 DEF TypeOK
    <3> QED
      BY <1>1, <1>4, <1>7, <3>1, <3>2 DEF TypeOK, waitVars
  <2>3. StageOK(s)'
    BY <2>1 DEF StageOK
  <2>4. \A t \in TxIds : <<s, t>> \in sent' => t = Tx(s)
    BY <1>1, <2>1 DEF SubmitOK
  <2>5. SubmitOK(s)'
    BY <1>5, <1>6, <2>1, <2>4 DEF SubmitOK
  <2> QED
    BY <1>0, <1>2, <2>2, <2>3, <2>5, OpStepPreserves DEF OpOK
<1>8. ASSUME NEW r, End(s, r), sent' = sent,
             r \in {"ok", "SubmitError", "TimeoutError"},
             r = "ok" => <<s, Tx(s)>> \in ledger
      PROVE  IInv'
  <2>1. step'[s] = "done" /\ verdict'[s] = r
    BY <1>0, <1>1, <1>8 DEF End
  <2>2. TypeOK'
    <3>1. step' \in [Ops -> {"idle", "resumed", "endorsing", "evaluating",
                             "signing", "submitting", "rejecting", "done"}]
      BY <1>0, <1>1, <1>8 DEF End, TypeOK
    <3>2. verdict' \in [Ops -> Verdicts]
      BY <1>0, <1>1, <1>8 DEF End, TypeOK, Verdicts
    <3> QED
      BY <1>1, <1>4, <1>8, <3>1, <3>2 DEF TypeOK, waitVars
  <2>3. StageOK(s)'
    BY <1>8, <2>1 DEF StageOK
  <2>4. \A t \in TxIds : <<s, t>> \in sent' => t = Tx(s)
    BY <1>1, <1>8 DEF SubmitOK
  <2>5. SubmitOK(s)'
    BY <1>4, <1>5, <1>6, <1>8, <2>1, <2>4 DEF SubmitOK
  <2> QED
    BY <1>0, <1>2, <2>2, <2>3, <2>5, OpStepPreserves DEF OpOK
<1>9. CASE Signed(s) /\ End(s, "SubmitError") /\ UNCHANGED sent
  BY <1>8, <1>9
<1>10. CASE SubmitReturns(s)
  BY <1>8, <1>10 DEF SubmitReturns, netVars
<1>11. CASE SubmitFails(s)
  <2>1. PICK e \in Errors : e.kind # "EndorseError" /\ End(s, SubmitVerdicts(s, e))
    BY <1>11 DEF SubmitFails
  <2>2. SubmitVerdicts(s, e) \in {"SubmitError", "TimeoutError"}
    BY <2>1 DEF SubmitVerdicts, MapSubmitError
  <2> QED
    BY <1>8, <1>11, <2>1, <2>2 DEF SubmitFails, netVars
<1> QED
  BY <1>7, <1>9, <1>10, <1>11 DEF Signed

-----------------------------------------------------------------------------
(* Steps of no operation: the connection, the orderer, the peers, the waits. *)

(* A disconnect moves nothing, and what is ordered was sent.                *)
LEMMA LedgerPreserves ==
  ASSUME IInv, Disconnect \/ \E e \in sent : OrdererAccepts(e)
  PROVE  IInv'
<1>1. UNCHANGED <<opVars, sent, validation, waitVars>> /\ ledger \subseteq ledger'
  BY DEF Disconnect, OrdererAccepts, netVars
<1>2. TypeOK'
  BY DEF IInv, TypeOK, Disconnect, OrdererAccepts, opVars, netVars, waitVars
<1>3. \A o \in Ops : OpOK(o)'
  BY <1>1 DEF IInv, OpOK, StageOK, MessageOK, SubmitOK, At, Tx, opVars
<1>4. \A w \in Waits : WaitOK(w)'
  BY <1>1 DEF IInv, WaitOK, Tx, opVars, waitVars
<1> QED
  BY <1>2, <1>3, <1>4 DEF IInv

(* A verdict of the peers, once given, is never changed.                    *)
LEMMA CommitPreserves ==
  ASSUME IInv, NEW t \in TxIds, Commit(t)
  PROVE  IInv'
<1>1. UNCHANGED <<opVars, sent, ledger, waitVars>>
  BY DEF Commit
<1>2. TypeOK'
  BY <1>1 DEF IInv, TypeOK, Commit, opVars, waitVars
<1>3. \A o \in Ops : OpOK(o)'
  BY <1>1 DEF IInv, OpOK, StageOK, MessageOK, SubmitOK, At, Tx, opVars
<1>4. ASSUME NEW w \in Waits PROVE WaitOK(w)'
  <2>1. WaitOK(w) /\ validation[t] = "none" /\ validation \in [TxIds -> {"none", "VALID", "INVALID"}]
        /\ \E v : validation' = [validation EXCEPT ![t] = v]
    BY DEF IInv, TypeOK, Commit
  <2>2. \A x : validation[x] \in {"VALID", "INVALID"} => validation'[x] = validation[x]
    BY <2>1
  <2> QED
    BY <1>1, <2>1, <2>2 DEF WaitOK, Tx, opVars, waitVars
<1> QED
  BY <1>2, <1>3, <1>4 DEF IInv

(* A wait begins on a submission that succeeded, or ends.                   *)
LEMMA WaitsPreserve ==
  ASSUME IInv, NEW w \in Waits,
         \/ \E s \in SubmitCalls : WaitForCommit(w, s)
         \/ StatusReturns(w) \/ StatusFails(w)
  PROVE  IInv'
<1>1. UNCHANGED <<open, opVars, netVars>>
  BY DEF WaitForCommit, StatusReturns, StatusFails, Tell
<1>2. \A v \in Waits : WaitOK(v)
  BY DEF IInv
<1>3. waitsFor \in [Waits -> SubmitCalls \cup {None}] /\ waitsFor[w] \in SubmitCalls \cup {None}
      /\ told \in [Waits -> {"none", "VALID", "INVALID", "CommitError"}]
  BY DEF IInv, TypeOK
<1>4. \A o \in Ops : OpOK(o)'
  BY <1>1 DEF IInv, OpOK, StageOK, MessageOK, SubmitOK, At, Tx, opVars, netVars
<1>5. CASE \E s \in SubmitCalls : WaitForCommit(w, s)
  <2>1. PICK s \in SubmitCalls : WaitForCommit(w, s)
    BY <1>5
  <2>2. TypeOK'
    BY <1>1, <1>3, <2>1 DEF IInv, TypeOK, WaitForCommit, opVars, netVars
  <2>3. \A v \in Waits : WaitOK(v)'
    BY <1>1, <1>2, <1>3, <2>1 DEF WaitForCommit, WaitOK, Tx, opVars, netVars
  <2> QED
    BY <1>4, <2>2, <2>3 DEF IInv
<1>6. CASE StatusReturns(w)
  <2>1. waitsFor[w] \in SubmitCalls /\ waitsFor[w] # None /\ verdict[waitsFor[w]] = "ok"
    BY <1>2, <1>3, <1>6 DEF StatusReturns, Waiting, WaitOK
  <2>2. Tx(waitsFor[w]) \in TxIds
    <3>1. PICK s \in SubmitCalls : s = waitsFor[w]
      BY <2>1
    <3>2. ~At(s, "idle")
      BY <2>1, <3>1, Kinds DEF IInv, OpOK, StageOK, At
    <3> QED
      BY <3>1, <3>2, TxIsATransaction
  <2>3. validation[Tx(waitsFor[w])] \in {"VALID", "INVALID"}
    BY <1>6, <2>2 DEF IInv, TypeOK, StatusReturns
  <2>4. TypeOK'
    BY <1>1, <1>3, <1>6, <2>3 DEF IInv, TypeOK, StatusReturns, Tell, opVars, netVars
  <2>5. \A v \in Waits : WaitOK(v)'
    BY <1>1, <1>2, <1>3, <1>6, <2>1 DEF StatusReturns, Tell, WaitOK, Tx, opVars, netVars
  <2> QED
    BY <1>4, <2>4, <2>5 DEF IInv
<1>7. CASE StatusFails(w)
  <2>1. TypeOK'
    BY <1>1, <1>3, <1>7 DEF IInv, TypeOK, StatusFails, Tell, opVars, netVars
  <2>2. \A v \in Waits : WaitOK(v)'
    BY <1>1, <1>2, <1>3, <1>7 DEF StatusFails, Tell, WaitOK, Tx, opVars, netVars
  <2> QED
    BY <1>4, <2>1, <2>2 DEF IInv
<1> QED
  BY <1>5, <1>6, <1>7

-----------------------------------------------------------------------------
(* The theorems                                                             *)

(* The invariant holds initially: nothing was called.                       *)
LEMMA InitIInv == Init => IInv
<1> SUFFICES ASSUME Init PROVE IInv
  OBVIOUS
<1>1. \A o \in Ops : OpOK(o)
  BY Kinds DEF Init, OpOK, StageOK, MessageOK, SubmitOK, At
<1>2. \A w \in Waits : WaitOK(w)
  BY DEF Init, WaitOK
<1> QED
  BY <1>1, <1>2, InitTypeOK DEF IInv

(* Every step preserves the invariant.                                      *)
LEMMA NextIInv == IInv /\ [Next]_vars => IInv'
<1> SUFFICES ASSUME IInv, [Next]_vars PROVE IInv'
  OBVIOUS
<1>1. ASSUME NEW o \in Ops,
             \/ Call(o) \/ Rejected(o) \/ EndorseFails(o) \/ EndorseReturns(o)
             \/ EvaluateEnds(o) \/ Execute(o)
      PROVE  IInv'
  <2>1. Execute(o) => o \in ResumeOps
    BY DEF IInv, OpOK, StageOK, Execute
  <2> QED
    BY <1>1, <2>1, CallPreserves, EndorseFailsPreserves, EndorseReturnsPreserves, ResumePreserves
<1>2. ASSUME NEW o \in ResumeOps, NEW m \in Messages, Resume(o, m) PROVE IInv'
  BY <1>2, ResumePreserves
<1>3. ASSUME NEW s \in SubmitOps, NEW o \in EndorseOps, SubmitEndorsed(s, o) PROVE IInv'
  BY <1>3, SubmitEndorsedPreserves
<1>4. ASSUME NEW s \in SubmitCalls, Signed(s) \/ SubmitReturns(s) \/ SubmitFails(s) PROVE IInv'
  BY <1>4, SubmitsPreserve
<1>5. CASE Disconnect \/ \E e \in sent : OrdererAccepts(e)
  BY <1>5, LedgerPreserves
<1>6. ASSUME NEW t \in TxIds, Commit(t) PROVE IInv'
  BY <1>6, CommitPreserves
<1>7. ASSUME NEW w \in Waits,
             \/ \E s \in SubmitCalls : WaitForCommit(w, s)
             \/ StatusReturns(w) \/ StatusFails(w)
      PROVE  IInv'
  BY <1>7, WaitsPreserve
<1>8. CASE UNCHANGED vars
  BY <1>8 DEF IInv, TypeOK, OpOK, StageOK, MessageOK, SubmitOK, WaitOK, At, Tx,
              vars, opVars, netVars, waitVars
<1> QED
  BY <1>1, <1>2, <1>3, <1>4, <1>5, <1>6, <1>7, <1>8 DEF Next

(* The invariant holds throughout, for every set of calls and messages.     *)
THEOREM Invariance == Spec => []IInv
BY InitIInv, NextIInv, PTL DEF Spec

(* Every variable keeps its type.                                           *)
THEOREM TypeCorrect == Spec => []TypeOK
<1>1. IInv => TypeOK
  BY DEF IInv
<1> QED
  BY <1>1, Invariance, PTL

(* A wait repeats the peers' verdict on the transaction of the submission   *)
(* it was called on, which was ordered, however often that was submitted.   *)
THEOREM StatusesMatchTheLedger == Spec => []StatusesAreTrue
<1>1. IInv => StatusesAreTrue
  <2> SUFFICES ASSUME IInv, NEW w \in Waits, told[w] \in {"VALID", "INVALID"}
               PROVE  /\ <<waitsFor[w], Tx(waitsFor[w])>> \in ledger
                      /\ told[w] = validation[Tx(waitsFor[w])]
    BY DEF StatusesAreTrue
  <2>1. /\ waitsFor[w] \in SubmitCalls /\ verdict[waitsFor[w]] = "ok"
        /\ told[w] = validation[Tx(waitsFor[w])]
    BY DEF IInv, TypeOK, WaitOK
  <2>2. SubmitOK(waitsFor[w])
    BY <2>1, Kinds DEF IInv, OpOK
  <2> QED
    BY <2>1, <2>2 DEF SubmitOK
<1> QED
  BY <1>1, Invariance, PTL

(* The Gateway is never asked to endorse or to evaluate a message that was  *)
(* damaged between the caller, its signer and the bridge.                   *)
THEOREM DamagedNeverReachTheGateway == Spec => []DamagedAreRefused
<1>1. IInv => DamagedAreRefused
  BY Kinds DEF IInv, OpOK, MessageOK, DamagedAreRefused
<1> QED
  BY <1>1, Invariance, PTL

-----------------------------------------------------------------------------
(* Submitting implements SubmitOnce                                         *)

Told == [s \in SubmitCalls |-> SubmitVerdict(s)]

(* Only the submit's own transaction can be ordered for it.                 *)
LEMMA OrderedIsItsTransaction ==
  ASSUME IInv, NEW s \in SubmitCalls, NEW t \in TxIds, <<s, t>> \in sent
  PROVE  t = Tx(s)
BY Kinds DEF IInv, OpOK, SubmitOK

(* Initially no submit has a verdict and the ledger is empty.               *)
LEMMA InitMapsToOnce == Init => Once!Init
BY Kinds DEF Init, Once!Init, SubmitVerdict, At

(* A step of one operation leaves the verdicts on the others; its own       *)
(* follows from the invariant before and after.                             *)
LEMMA OpStepMapsToOnce ==
  ASSUME IInv, IInv', NEW o \in Ops, ~At(o, "done"), ledger' = ledger,
         \A p \in Ops : p # o => step'[p] = step[p] /\ verdict'[p] = verdict[p],
         o \in SubmitCalls => step'[o] # "idle" /\ (At(o, "idle") => step'[o] # "done")
  PROVE  [Once!Next]_Once!vars
<1>1. \A s \in SubmitCalls : s # o => SubmitVerdict(s)' = SubmitVerdict(s)
  BY Kinds DEF SubmitVerdict, At
<1>2. CASE o \notin SubmitCalls
  <2>1. Told' = Told
    BY <1>1, <1>2 DEF Told
  <2> QED
    BY <2>1 DEF Told, Once!vars
<1>3. CASE o \in SubmitCalls
  <2>1. Told' = [Told EXCEPT ![o] = SubmitVerdict(o)'] /\ Told[o] = SubmitVerdict(o)
    BY <1>1, <1>3 DEF Told
  <2>2. ASSUME NEW v, SubmitVerdict(o)' = v PROVE Once!Tell(o, v)
    BY <2>1, <2>2 DEF Told, Once!Tell
  <2>3. SubmitOK(o)' /\ StageOK(o)'
    BY <1>3 DEF IInv, OpOK
  <2>4. CASE At(o, "idle")
    <3>1. SubmitVerdict(o) = "none" /\ SubmitVerdict(o)' = "pending"
      BY <1>3, <2>4 DEF SubmitVerdict, At
    <3>2. Once!Call(o)
      BY <2>1, <2>2, <3>1 DEF Once!Call, Told
    <3> QED
      BY <1>3, <3>2 DEF Once!Next
  <2>5. CASE ~At(o, "idle") /\ step'[o] # "done"
    <3>1. SubmitVerdict(o) = "pending" /\ SubmitVerdict(o)' = "pending"
      BY <1>3, <2>5 DEF SubmitVerdict, At
    <3>2. Told' = Told
      BY <1>1, <3>1 DEF Told
    <3> QED
      BY <3>2 DEF Told, Once!vars
  <2>6. CASE ~At(o, "idle") /\ step'[o] = "done"
    <3>1. SubmitVerdict(o) = "pending"
      BY <2>6 DEF SubmitVerdict, At
    <3>2. CASE verdict'[o] = "ok"
      <4>1. SubmitVerdict(o)' = "ok"
        BY <2>6, <3>2 DEF SubmitVerdict, At
      <4>2. Tx(o)' \in TxIds /\ <<o, Tx(o)'>> \in ledger
        <5>1. <<o, Tx(o)'>> \in ledger' /\ ledger' \subseteq SubmitCalls \X TxIds
          BY <2>3, <3>2 DEF SubmitOK, IInv, TypeOK
        <5> QED
          BY <5>1
      <4>3. Once!Succeed(o)
        BY <2>1, <2>2, <3>1, <4>1, <4>2 DEF Once!Succeed, Once!Ordered, Told
      <4> QED
        BY <1>3, <4>3 DEF Once!Next
    <3>3. CASE verdict'[o] \in {"SubmitError", "TimeoutError"}
      <4>1. SubmitVerdict(o)' = "unsure"
        BY <2>6, <3>3 DEF SubmitVerdict, At
      <4>2. Once!FailUnsure(o)
        BY <2>1, <2>2, <3>1, <4>1 DEF Once!FailUnsure, Told
      <4> QED
        BY <1>3, <4>2 DEF Once!Next
    <3>4. CASE verdict'[o] \in {"EndorsementError", "rejected"}
      <4>1. SubmitVerdict(o)' = "safe"
        BY <2>6, <3>4 DEF SubmitVerdict, At
      <4>2. \A t \in TxIds : <<o, t>> \notin ledger
        BY <2>3, <3>4 DEF SubmitOK, IInv, TypeOK
      <4>3. Once!FailSafely(o)
        BY <2>1, <2>2, <3>1, <4>1, <4>2 DEF Once!FailSafely, Once!Ordered, Told
      <4> QED
        BY <1>3, <4>3 DEF Once!Next
    <3>5. verdict'[o] # "none"
      BY <2>3, <2>6 DEF StageOK, At
    <3> QED
      BY <2>3, <3>2, <3>3, <3>4, <3>5 DEF SubmitOK
  <2> QED
    BY <2>4, <2>5, <2>6
<1> QED
  BY <1>2, <1>3

(* The orderer accepts at most one transaction of a submit.                 *)
LEMMA OrdererMapsToOnce ==
  ASSUME IInv, NEW e \in sent, OrdererAccepts(e)
  PROVE  Once!Next
<1>1. PICK s \in SubmitCalls, t \in TxIds : e = <<s, t>>
  BY DEF IInv, TypeOK
<1>2. /\ t = Tx(s) /\ step[s] \in {"submitting", "done"}
      /\ verdict[s] \in {"none", "ok", "SubmitError", "TimeoutError"}
      /\ verdict[s] # "ok"
      /\ At(s, "done") <=> verdict[s] # "none"
  BY <1>1, Kinds DEF IInv, OpOK, StageOK, SubmitOK, OrdererAccepts
<1>3. SubmitVerdict(s) \in {"pending", "unsure"}
  BY <1>2 DEF SubmitVerdict, At
<1>4. Told' = Told
  BY DEF Told, SubmitVerdict, At, OrdererAccepts, opVars
<1>5. ~Once!Ordered(s)
  BY <1>1, <1>2, OrderedIsItsTransaction DEF Once!Ordered, OrdererAccepts, IInv, TypeOK
<1>6. Once!Order(s, t)
  BY <1>1, <1>3, <1>4, <1>5 DEF Once!Order, Told, OrdererAccepts
<1> QED
  BY <1>6 DEF Once!Next

(* Every step is one of SubmitOnce or a stutter of it.                      *)
LEMMA NextMapsToOnce == IInv /\ IInv' /\ [Next]_vars => [Once!Next]_Once!vars
<1> SUFFICES ASSUME IInv, IInv', [Next]_vars PROVE [Once!Next]_Once!vars
  OBVIOUS
<1>0. step = [p \in Ops |-> step[p]] /\ verdict = [p \in Ops |-> verdict[p]]
  BY DEF IInv, TypeOK
<1>1. ASSUME NEW o \in Ops,
             \/ Call(o) \/ Rejected(o) \/ EndorseFails(o) \/ EvaluateEnds(o) \/ Execute(o)
             \/ EndorseReturns(o) \/ Signed(o) \/ SubmitReturns(o) \/ SubmitFails(o)
      PROVE  [Once!Next]_Once!vars
  BY <1>0, <1>1, OpStepMapsToOnce
     DEF Call, Rejected, EndorseFails, EvaluateEnds, Execute, EndorseReturns, Signed,
         SubmitReturns, SubmitFails, Ask, End, Send, Go, At, netVars
<1>2. ASSUME NEW o \in ResumeOps, NEW m \in Messages, Resume(o, m) PROVE [Once!Next]_Once!vars
  BY <1>0, <1>2, Kinds, OpStepMapsToOnce DEF Resume, End, Go, At, netVars
<1>3. ASSUME NEW s \in SubmitOps, NEW o \in EndorseOps, SubmitEndorsed(s, o)
      PROVE  [Once!Next]_Once!vars
  BY <1>0, <1>3, Kinds, OpStepMapsToOnce DEF SubmitEndorsed, Ask, Go, At, netVars
<1>4. ASSUME NEW e \in sent, OrdererAccepts(e) PROVE [Once!Next]_Once!vars
  BY <1>4, OrdererMapsToOnce
<1>5. CASE UNCHANGED <<step, verdict, ledger>>
  BY <1>5 DEF SubmitVerdict, At, Once!vars
<1>6. ASSUME \/ Disconnect \/ \E t \in TxIds : Commit(t)
             \/ \E w \in Waits, s \in SubmitCalls : WaitForCommit(w, s)
             \/ \E w \in Waits : StatusReturns(w) \/ StatusFails(w)
      PROVE  UNCHANGED <<step, verdict, ledger>>
  BY <1>6 DEF Disconnect, Commit, WaitForCommit, StatusReturns, StatusFails, Tell, opVars, netVars
<1> QED
  BY <1>1, <1>2, <1>3, <1>4, <1>5, <1>6, Kinds DEF Next, vars, opVars, netVars

(* For every instance a submit through the Gateway keeps what SubmitOnce    *)
(* promises: its one transaction is ordered at most once for it, "ok" is    *)
(* said of an ordered one, and after an EndorsementError or a rejection     *)
(* nothing was or will be ordered for it.                                   *)
THEOREM GatewayPathImplementsSubmitOnce == Spec => ImplementsSubmitOnce
BY InitMapsToOnce, NextMapsToOnce, Invariance, PTL
   DEF Spec, ImplementsSubmitOnce, Once!Spec

=============================================================================
