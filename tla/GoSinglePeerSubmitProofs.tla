---------------------- MODULE GoSinglePeerSubmitProofs ----------------------
(***************************************************************************)
(* Proofs about GoSinglePeerSubmit, for every set of calls, channels, peers *)
(* and discovery results.                                                   *)
(*                                                                          *)
(* The invariant speaks of one call at a time: calls meet only at the       *)
(* round-robin counters, so a step of one call leaves what is said of the   *)
(* others alone (OtherCallsStayOK).                                         *)
(***************************************************************************)
EXTENDS GoSinglePeerSubmit, PeerOrderProofs, SequenceTheorems

BeforeLoop == {"idle", "discovering"}

InLoop == {"signing", "sending", "endorsing"}

AfterLoop == {"endorsed", "resolving", "submitting", "broadcasting"}

(* A call under way is at a peer of its plan, and has an outcome when it is *)
(* over.                                                                    *)
StageOK(c) ==
  /\ pc[c] \in BeforeLoop => attempt[c] = 0
  /\ pc[c] \in InLoop \cup AfterLoop => attempt[c] # 0
  /\ pc[c] # "done" <=> outcome[c] = "none"

(* After the loop there is an endorsement by the peer of the last attempt;  *)
(* what was sent to the orderer leaves only "ok" and SubmitError.           *)
SubmitOK(c) ==
  /\ pc[c] \in AfterLoop => c \in SubmitCalls /\ <<c, Peer(c)>> \in endorsed
  /\ pc[c] = "broadcasting" => c \in envelopes
  /\ c \in envelopes =>
       /\ c \in SubmitCalls
       /\ <<c, Peer(c)>> \in endorsed
       /\ pc[c] \in {"broadcasting", "done"}
       /\ outcome[c] \in {"none", "ok", "SubmitError"}
  /\ c \in SubmitCalls /\ outcome[c] = "ok" => c \in ledger

RefusalOK(c) ==
  c \in SubmitCalls =>
    \A p : <<c, p>> \in refused => Peer(c) = p /\ pc[c] = "done" /\ outcome[c] = "EndorsementError"

(* The collected errors are those of the attempts so far, in plan order.    *)
FailureOK(c) ==
  /\ \A i \in 1..Len(failures[c]) : failures[c][i].peer = plan[c][i]
  /\ pc[c] # "done" => Len(failures[c]) = IF attempt[c] = 0 THEN 0 ELSE attempt[c] - 1
  /\ outcome[c] = "SinglePeerExecutionError" => Len(failures[c]) = Len(plan[c])

CallOK(c) == StageOK(c) /\ SubmitOK(c) /\ RefusalOK(c) /\ FailureOK(c)

(* A counter says whose turn it is among the peers of its set.              *)
TurnOK(ch, S) ==
  InLap(counters[RoundRobinKey(ch, SortedByURL[S])], turns[<<ch, S>>], SortedByURL[S])

TurnInv == \A ch \in Channels, S \in PeerSets : TurnOK(ch, S)

IInv == TypeOK /\ (\A c \in Calls : CallOK(c)) /\ TurnInv

-----------------------------------------------------------------------------
(* What a discovery result is, and what sorting makes of its peers.         *)
LEMMA SortedFacts ==
  ASSUME NEW S \in PeerSets
  PROVE  /\ SortedByURL[S] \in Seq(Peers) /\ SortedByURL[S] # <<>>
         /\ Len(SortedByURL[S]) \in Nat \ {0}
         /\ NoRepeats(SortedByURL[S]) /\ PeersOf(SortedByURL[S]) = S
BY GoDiscoveryAssumption

(* Two peer sets never share a counter.                                     *)
LEMMA SortingIsInjective ==
  ASSUME NEW S \in PeerSets, NEW T \in PeerSets, SortedByURL[S] = SortedByURL[T]
  PROVE  S = T
BY SortedFacts

(* A call is a submit or an evaluation.                                     *)
LEMMA CallsAreOfOneKind == Calls = SubmitCalls \cup EvaluateCalls /\ \A c \in SubmitCalls : c \notin EvaluateCalls
BY GoCallsAssumption DEF Calls

(* The invariant holds initially: nothing was called.                       *)
LEMMA InitIInv == Init => IInv
<1> SUFFICES ASSUME Init PROVE IInv
  OBVIOUS
<1>1. TypeOK
  BY DEF Init, TypeOK, Stages, Outcomes, Contexts, Keys
<1>2. \A c \in Calls : CallOK(c)
  BY DEF Init, CallOK, StageOK, SubmitOK, RefusalOK, FailureOK, BeforeLoop, InLoop, AfterLoop
<1>3. ASSUME NEW ch \in Channels, NEW S \in PeerSets PROVE TurnOK(ch, S)
  <2>1. counters[RoundRobinKey(ch, SortedByURL[S])] = 0 /\ turns[<<ch, S>>] = [p \in Peers |-> 0]
    BY DEF Init, Keys
  <2> QED
    BY <2>1, SortedFacts, FreshTurnsAreInLap DEF TurnOK
<1> QED
  BY <1>1, <1>2, <1>3 DEF IInv, TurnInv

-----------------------------------------------------------------------------
(* A step that leaves everything of call d alone.                           *)
Untouched(d) ==
  /\ pc'[d] = pc[d] /\ plan'[d] = plan[d] /\ attempt'[d] = attempt[d]
  /\ failures'[d] = failures[d] /\ outcome'[d] = outcome[d]
  /\ \A p : <<d, p>> \in endorsed => <<d, p>> \in endorsed'
  /\ \A p : <<d, p>> \in refused' => <<d, p>> \in refused
  /\ d \in envelopes' => d \in envelopes
  /\ d \in envelopes => d \in envelopes'
  /\ d \in ledger => d \in ledger'

(* A step that leaves a call alone keeps what is said of it.                *)
LEMMA OtherCallsStayOK ==
  ASSUME NEW d, CallOK(d), Untouched(d)
  PROVE  CallOK(d)'
<1>1. StageOK(d)' /\ FailureOK(d)' /\ RefusalOK(d)'
  BY DEF Untouched, CallOK, StageOK, FailureOK, RefusalOK, Peer
<1>2. SubmitOK(d)'
  BY DEF Untouched, CallOK, SubmitOK, Peer
<1> QED
  BY <1>1, <1>2 DEF CallOK

(* A step that moves one call and keeps its part keeps every part.          *)
LEMMA OneCallMoves ==
  ASSUME \A d \in Calls : CallOK(d), NEW c \in Calls, CallOK(c)',
         \A d \in Calls : d # c => Untouched(d)
  PROVE  \A d \in Calls : CallOK(d)'
BY OtherCallsStayOK

(* A step that draws no counter keeps the turns.                            *)
LEMMA TurnsStayInLap ==
  ASSUME TurnInv, UNCHANGED orderVars
  PROVE  TurnInv'
BY DEF TurnInv, TurnOK, orderVars

(* A call moves to another stage, or returns, and changes nothing else.     *)
LEMMA MoveKeepsIInv ==
  ASSUME IInv, NEW c \in Calls, NEW stage \in Stages, NEW o \in Outcomes,
         pc[c] # "done",
         pc' = [pc EXCEPT ![c] = stage], outcome' = [outcome EXCEPT ![c] = o],
         UNCHANGED <<channel, ctx, plan, attempt, failures, netVars, orderVars>>,
         stage # "done" <=> o = "none",
         o # "SinglePeerExecutionError",
         stage \in BeforeLoop => attempt[c] = 0,
         stage \in InLoop \cup AfterLoop => attempt[c] # 0,
         stage \in AfterLoop => pc[c] \in AfterLoop /\ stage # "broadcasting",
         pc[c] = "broadcasting" => stage = "done" /\ o \in {"ok", "SubmitError"},
         c \in SubmitCalls /\ o = "ok" => c \in ledger
  PROVE  IInv'
<1>1. TypeOK /\ (\A d \in Calls : CallOK(d)) /\ TurnInv
  BY DEF IInv
<1>2. TypeOK'
  BY <1>1 DEF TypeOK, netVars, orderVars
<1>3. pc'[c] = stage /\ outcome'[c] = o /\ UNCHANGED <<plan, attempt, failures, netVars>>
  BY <1>1 DEF TypeOK
<1>4. StageOK(c)' /\ FailureOK(c)' /\ RefusalOK(c)'
  BY <1>1, <1>3 DEF CallOK, StageOK, FailureOK, RefusalOK, Peer, netVars
<1>5. SubmitOK(c)'
  BY <1>1, <1>3 DEF CallOK, SubmitOK, AfterLoop, Peer, netVars
<1>6. \A d \in Calls : d # c => Untouched(d)
  BY <1>1 DEF TypeOK, Untouched, netVars
<1>7. \A d \in Calls : CallOK(d)'
  BY <1>1, <1>4, <1>5, <1>6, OneCallMoves DEF CallOK
<1> QED
  BY <1>1, <1>2, <1>7, TurnsStayInLap DEF IInv

(* The steps that are such moves.                                           *)
LEMMA MovesKeepIInv ==
  ASSUME IInv, NEW c \in Calls,
         \/ Start(c) \/ DiscoveryFails(c) \/ SignProposal(c) \/ SendProposal(c)
         \/ SignTransaction(c) \/ TransactionSigningFails(c)
         \/ \E r \in DiscoveryResults : ResolutionAnswers(c, r)
         \/ ResolutionFails(c) \/ SubmitFails(c) \/ BroadcastSucceeds(c)
         \/ \E e \in Untagged : SigningFails(c, e) /\ c \in SubmitCalls
  PROVE  IInv'
<1>1. TypeOK /\ CallOK(c)
  BY DEF IInv
<1>2. /\ pc[c] # "done" => outcome[c] = "none"
      /\ outcome = [outcome EXCEPT ![c] = outcome[c]]
      /\ pc[c] \in BeforeLoop => attempt[c] = 0
      /\ pc[c] \in InLoop \cup AfterLoop => attempt[c] # 0
      /\ pc[c] \in AfterLoop => c \in SubmitCalls
  BY <1>1 DEF TypeOK, CallOK, StageOK, SubmitOK
<1>u. c \in SubmitCalls => c \notin EvaluateCalls
  BY CallsAreOfOneKind
<1>3. CASE Start(c) \/ SignProposal(c) \/ SendProposal(c) \/ SignTransaction(c)
  <2>1. PICK stage \in {"discovering", "sending", "endorsing", "submitting", "resolving"} :
          /\ pc' = [pc EXCEPT ![c] = stage]
          /\ stage = "discovering" => pc[c] = "idle"
          /\ stage = "sending" => pc[c] = "signing"
          /\ stage = "endorsing" => pc[c] = "sending"
          /\ stage \in {"submitting", "resolving"} => pc[c] = "endorsed"
    BY <1>3 DEF Start, SignProposal, SendProposal, SignTransaction, Goto
  <2>2. UNCHANGED <<channel, ctx, plan, attempt, failures, outcome, netVars, orderVars>>
    BY <1>3 DEF Start, SignProposal, SendProposal, SignTransaction
  <2>3. /\ pc[c] \notin {"done", "broadcasting"} /\ stage \in Stages
        /\ stage \in BeforeLoop => pc[c] \in BeforeLoop
        /\ stage \in InLoop => pc[c] \in InLoop
        /\ stage \in AfterLoop => pc[c] \in AfterLoop /\ stage # "broadcasting"
        /\ stage # "done"
    BY <2>1 DEF Stages, BeforeLoop, InLoop, AfterLoop
  <2> QED
    BY <1>2, <2>1, <2>2, <2>3, MoveKeepsIInv DEF Outcomes
<1>4. CASE \/ DiscoveryFails(c) \/ TransactionSigningFails(c)
           \/ \E r \in DiscoveryResults : ResolutionAnswers(c, r) /\ ~r.orderer
           \/ ResolutionFails(c) \/ SubmitFails(c) \/ BroadcastSucceeds(c)
           \/ \E e \in Untagged : SigningFails(c, e) /\ c \in SubmitCalls
  <2>1. PICK o \in Outcomes \ {"none", "SinglePeerExecutionError"} :
          /\ Finish(c, o)
          /\ o = "ok" => c \in ledger
          /\ pc[c] = "broadcasting" => o \in {"ok", "SubmitError"}
    BY <1>4, <1>u DEF DiscoveryFails, TransactionSigningFails, ResolutionAnswers, ResolutionFails,
       SubmitFails, BroadcastSucceeds, SigningFails, Outcomes
  <2>2. /\ UNCHANGED <<channel, ctx, plan, attempt, failures, netVars, orderVars>>
        /\ pc[c] # "done"
    BY <1>4, <1>u DEF DiscoveryFails, TransactionSigningFails, ResolutionAnswers, ResolutionFails,
       SubmitFails, BroadcastSucceeds, SigningFails
  <2>3. "done" \in Stages /\ "done" \notin BeforeLoop \cup InLoop \cup AfterLoop
    BY DEF Stages, BeforeLoop, InLoop, AfterLoop
  <2> QED
    BY <2>1, <2>2, <2>3, MoveKeepsIInv DEF Finish, Goto
<1>5. ASSUME NEW r \in DiscoveryResults, ResolutionAnswers(c, r), r.orderer PROVE IInv'
  <2>1. /\ pc[c] = "resolving" /\ pc' = [pc EXCEPT ![c] = "submitting"]
        /\ UNCHANGED <<channel, ctx, plan, attempt, failures, outcome, netVars, orderVars>>
    BY <1>5 DEF ResolutionAnswers, Goto
  <2>2. /\ "submitting" \in Stages /\ "submitting" \notin BeforeLoop
        /\ pc[c] \in AfterLoop /\ "none" \in Outcomes
    BY <2>1 DEF Stages, BeforeLoop, AfterLoop, Outcomes
  <2> QED
    BY <1>2, <2>1, <2>2, MoveKeepsIInv
<1> QED
  BY <1>3, <1>4, <1>5

-----------------------------------------------------------------------------
(* Discovery gives the call its plan and takes a turn.                      *)
LEMMA DiscoveryAnswersKeepsIInv ==
  ASSUME IInv, NEW c \in Calls, NEW r \in DiscoveryResults, DiscoveryAnswers(c, r)
  PROVE  IInv'
<1>1. TypeOK /\ (\A d \in Calls : CallOK(d)) /\ TurnInv
  BY DEF IInv
<1>2. PICK ch \in Channels, S \in PeerSets : ch = channel[c] /\ S = r.peers
  BY <1>1 DEF TypeOK, PeerSets
<1>3. PICK s : s = SortedByURL[S]
  OBVIOUS
<1> DEFINE key == RoundRobinKey(ch, s)
<1>4. s \in Seq(Peers) /\ s # <<>> /\ Len(s) \in Nat \ {0} /\ NoRepeats(s)
  BY <1>3, SortedFacts
<1>5. /\ key \in Keys /\ <<ch, S>> \in Channels \X PeerSets
      /\ counters \in [Keys -> Nat] /\ turns \in [Channels \X PeerSets -> [Peers -> Nat]]
  BY <1>1, <1>3 DEF Keys, TypeOK
<1>6. PICK k \in Nat : k = counters[key]
  BY <1>5
<1>7. InLap(k, turns[<<ch, S>>], s)
  BY <1>1, <1>3, <1>6 DEF TurnInv, TurnOK
<1>8. PICK ordered : ordered = RotateFrom(s, k % Len(s))
  OBVIOUS
<1>9. PICK next : next = (k + 1) % Len(s)
  OBVIOUS
<1>10. /\ counters' = [counters EXCEPT ![key] = next]
       /\ turns' = [turns EXCEPT ![<<ch, S>>][ordered[1]] = @ + 1]
       /\ plan' = [plan EXCEPT ![c] = ordered]
       /\ attempt' = [attempt EXCEPT ![c] = 1]
       /\ pc[c] = "discovering" /\ pc' = [pc EXCEPT ![c] = "signing"]
       /\ UNCHANGED <<channel, ctx, failures, outcome, netVars>>
  BY <1>2, <1>3, <1>6, <1>8, <1>9 DEF DiscoveryAnswers, Goto
<1>11. k % Len(s) \in 0..(Len(s) - 1) /\ next \in Nat
  <2>1. k \in Nat /\ k + 1 \in Nat /\ Len(s) \in Nat \ {0}
    BY <1>4, <1>6
  <2>2. k % Len(s) \in 0..(Len(s) - 1) /\ (k + 1) % Len(s) \in 0..(Len(s) - 1)
    BY <2>1, RemainderIsIndex
  <2> QED
    BY <1>9, <2>1, <2>2
<1>12. ordered \in Seq(Peers) /\ Len(ordered) = Len(s)
  BY <1>4, <1>8, <1>11, RotationIsInjective
<1>13. /\ ordered[1] \in Peers
       /\ InLap(next, [turns[<<ch, S>>] EXCEPT ![ordered[1]] = @ + 1], s)
  BY <1>4, <1>5, <1>7, <1>8, <1>9, NextTurnIsInLap
<1> HIDE DEF key
<1>14. TypeOK'
  <2>1. counters' \in [Keys -> Nat]
    BY <1>5, <1>10, <1>11
  <2>2. turns' \in [Channels \X PeerSets -> [Peers -> Nat]]
    BY <1>5, <1>10, <1>13
  <2>3. plan' \in [Calls -> Seq(Peers)] /\ attempt' \in [Calls -> Nat] /\ pc' \in [Calls -> Stages]
    BY <1>1, <1>10, <1>12 DEF TypeOK, Stages
  <2>4. ASSUME NEW d \in Calls PROVE attempt'[d] <= Len(plan'[d])
    <3>1. CASE d = c
      BY <1>1, <1>4, <1>10, <1>12, <3>1 DEF TypeOK
    <3>2. CASE d # c
      BY <1>1, <1>10, <3>2 DEF TypeOK
    <3> QED
      BY <3>1, <3>2
  <2> QED
    BY <1>1, <1>10, <2>1, <2>2, <2>3, <2>4 DEF TypeOK, netVars
<1>15. /\ pc'[c] = "signing" /\ attempt'[c] = 1 /\ outcome'[c] = outcome[c]
       /\ failures'[c] = failures[c] /\ attempt[c] = 0
       /\ UNCHANGED <<outcome, endorsed, refused, envelopes, ledger>>
  BY <1>1, <1>10 DEF TypeOK, CallOK, StageOK, BeforeLoop, netVars
<1>16. StageOK(c)' /\ FailureOK(c)'
  BY <1>1, <1>10, <1>15 DEF CallOK, StageOK, FailureOK, BeforeLoop
<1>17. SubmitOK(c)' /\ RefusalOK(c)'
  BY <1>1, <1>10, <1>15 DEF CallOK, StageOK, SubmitOK, RefusalOK, AfterLoop
<1>18. \A d \in Calls : d # c => Untouched(d)
  BY <1>1, <1>10 DEF TypeOK, Untouched, netVars
<1>19. \A d \in Calls : CallOK(d)'
  BY <1>1, <1>16, <1>17, <1>18, OneCallMoves DEF CallOK
<1>20. ASSUME NEW d \in Channels, NEW T \in PeerSets PROVE TurnOK(d, T)'
  <2>1. CASE d = ch /\ T = S
    <3>1. counters'[key] = next
      BY <1>5, <1>10
    <3>2. turns'[<<ch, S>>] = [turns[<<ch, S>>] EXCEPT ![ordered[1]] = @ + 1]
      BY <1>5, <1>10
    <3> QED
      BY <1>3, <1>13, <2>1, <3>1, <3>2 DEF TurnOK, key
  <2>2. CASE d # ch \/ T # S
    <3>1. RoundRobinKey(d, SortedByURL[T]) # key /\ <<d, T>> # <<ch, S>>
      BY <1>3, <2>2, SortingIsInjective DEF key, RoundRobinKey
    <3>2. RoundRobinKey(d, SortedByURL[T]) \in Keys /\ <<d, T>> \in Channels \X PeerSets
      BY DEF Keys
    <3>3. /\ counters'[RoundRobinKey(d, SortedByURL[T])] = counters[RoundRobinKey(d, SortedByURL[T])]
          /\ turns'[<<d, T>>] = turns[<<d, T>>]
      BY <1>5, <1>10, <3>1, <3>2
    <3> QED
      BY <1>1, <3>3 DEF TurnInv, TurnOK
  <2> QED
    BY <2>1, <2>2
<1> QED
  BY <1>14, <1>19, <1>20 DEF IInv, TurnInv

-----------------------------------------------------------------------------
(* A failed attempt: the call returns, or goes on to the next peer of its   *)
(* plan.  An evaluation's attempt may have failed by a refusal.             *)
LEMMA AttemptFailsKeepsIInv ==
  ASSUME IInv, NEW c \in Calls, NEW e \in Untagged \cup Refusals,
         pc[c] \in InLoop, AttemptFails(c, e),
         UNCHANGED <<endorsed, envelopes, ledger>>,
         \/ refused' = refused
         \/ c \in EvaluateCalls /\ refused' = refused \cup {<<c, Peer(c)>>}
  PROVE  IInv'
<1>1. TypeOK /\ (\A d \in Calls : CallOK(d)) /\ TurnInv
  BY DEF IInv
<1>2. /\ attempt[c] \in 1..Len(plan[c]) /\ attempt[c] \in Nat /\ Peer(c) \in Peers
      /\ outcome[c] = "none" /\ pc[c] # "done"
      /\ Len(plan[c]) \in Nat
  <2>1. /\ attempt[c] # 0 /\ outcome[c] = "none" /\ pc[c] # "done"
        /\ attempt[c] \in Nat /\ attempt[c] <= Len(plan[c]) /\ plan[c] \in Seq(Peers)
    BY <1>1 DEF TypeOK, CallOK, StageOK, InLoop
  <2>2. attempt[c] \in 1..Len(plan[c]) /\ Len(plan[c]) \in Nat
    BY <2>1
  <2> QED
    BY <2>1, <2>2, ElementOfSeq DEF Peer
<1> DEFINE f == failures[c]
           failed == [peer |-> Peer(c), cause |-> e]
           g == Append(f, failed)
           Failed == [peer: Peers, cause: Untagged \cup Refusals]
<1>3. failed \in Failed /\ failures \in [Calls -> Seq(Failed)] /\ f \in Seq(Failed)
  BY <1>1, <1>2 DEF TypeOK
<1>4. /\ failures' = [failures EXCEPT ![c] = g]
      /\ UNCHANGED <<channel, ctx, plan, orderVars>>
  BY DEF AttemptFails
<1>5. failed.peer = plan[c][attempt[c]]
  BY DEF Peer
<1>6. /\ Len(f) + 1 = attempt[c] /\ Len(f) \in Nat
      /\ \A i \in 1..Len(f) : f[i].peer = plan[c][i]
  BY <1>1, <1>2, <1>3 DEF CallOK, FailureOK
<1> HIDE DEF failed, Failed, f
<1>7. /\ g \in Seq(Failed) /\ Len(g) = Len(f) + 1 /\ g[Len(f) + 1] = failed
      /\ \A i \in 1..Len(f) : g[i] = f[i]
  BY <1>3, AppendProperties
<1> HIDE DEF g
<1>8. failures' \in [Calls -> Seq(Failed)] /\ failures'[c] = g
      /\ \A d \in Calls : d # c => failures'[d] = failures[d]
  BY <1>3, <1>4, <1>7
<1>9. Len(g) = attempt[c] /\ \A i \in 1..Len(g) : g[i].peer = plan[c][i]
  <2>1. \A i \in 1..Len(g) : i \in 1..Len(f) \/ i = Len(f) + 1
    BY <1>6, <1>7
  <2> QED
    BY <1>5, <1>6, <1>7, <2>1
<1>10. refused' \subseteq (Calls \X Peers)
  BY <1>1, <1>2 DEF TypeOK
<1>11. /\ c \in SubmitCalls => refused' = refused
       /\ c \notin envelopes
       /\ \A p : <<c, p>> \in refused => c \notin SubmitCalls
  BY <1>1, <1>2, CallsAreOfOneKind DEF CallOK, SubmitOK, RefusalOK, InLoop
<1>12. CASE /\ pc' = [pc EXCEPT ![c] = "done"] /\ attempt' = attempt
            /\ \E o \in {"error", "SinglePeerExecutionError"} :
                 /\ outcome' = [outcome EXCEPT ![c] = o]
                 /\ o = "SinglePeerExecutionError" => attempt[c] = Len(plan[c])
  <2>1. PICK o \in {"error", "SinglePeerExecutionError"} :
          /\ outcome' = [outcome EXCEPT ![c] = o]
          /\ o = "SinglePeerExecutionError" => attempt[c] = Len(plan[c])
    BY <1>12
  <2>2. TypeOK'
    BY <1>1, <1>4, <1>8, <1>10, <1>12, <2>1 DEF TypeOK, Stages, Outcomes, orderVars, Failed
  <2>3. pc'[c] = "done" /\ outcome'[c] = o /\ attempt'[c] = attempt[c] /\ plan'[c] = plan[c]
    BY <1>1, <1>4, <1>12, <2>1 DEF TypeOK
  <2>4. StageOK(c)' /\ FailureOK(c)'
    BY <1>8, <1>9, <2>1, <2>3 DEF StageOK, FailureOK, BeforeLoop, InLoop, AfterLoop
  <2>5. SubmitOK(c)' /\ RefusalOK(c)'
    BY <1>11, <2>1, <2>3 DEF SubmitOK, RefusalOK, AfterLoop
  <2>6. \A d \in Calls : d # c => Untouched(d)
    BY <1>1, <1>4, <1>8, <1>12, <2>1 DEF TypeOK, Untouched
  <2> QED
    BY <1>1, <1>4, <2>2, <2>4, <2>5, <2>6, OneCallMoves, TurnsStayInLap DEF CallOK, IInv
<1>13. CASE /\ pc' = [pc EXCEPT ![c] = Retry(c)] /\ outcome' = outcome
            /\ attempt' = [attempt EXCEPT ![c] = @ + 1] /\ attempt[c] # Len(plan[c])
  <2>1. /\ pc'[c] = Retry(c) /\ Retry(c) \in InLoop \cap Stages
        /\ attempt'[c] = attempt[c] + 1 /\ plan'[c] = plan[c] /\ outcome'[c] = "none"
    BY <1>1, <1>2, <1>4, <1>13 DEF TypeOK, Retry, InLoop, Stages
  <2>2. TypeOK'
    <3>1. attempt' \in [Calls -> Nat] /\ pc' \in [Calls -> Stages]
      BY <1>1, <1>2, <1>13, <2>1 DEF TypeOK
    <3>2. \A d \in Calls : attempt'[d] <= Len(plan'[d])
      BY <1>1, <1>2, <1>4, <1>13 DEF TypeOK
    <3> QED
      BY <1>1, <1>4, <1>8, <1>10, <1>13, <3>1, <3>2 DEF TypeOK, orderVars, Failed
  <2>3. StageOK(c)' /\ FailureOK(c)'
    BY <1>2, <1>8, <1>9, <2>1 DEF StageOK, FailureOK, BeforeLoop, InLoop, AfterLoop
  <2>4. SubmitOK(c)' /\ RefusalOK(c)'
    BY <1>11, <2>1 DEF SubmitOK, RefusalOK, InLoop, AfterLoop
  <2>5. \A d \in Calls : d # c => Untouched(d)
    BY <1>1, <1>4, <1>8, <1>13 DEF TypeOK, Untouched
  <2> QED
    BY <1>1, <1>4, <2>2, <2>3, <2>4, <2>5, OneCallMoves, TurnsStayInLap DEF CallOK, IInv
<1> QED
  BY <1>12, <1>13 DEF AttemptFails, Finish, Goto, IsLastPeer

(* A step that fails ends the attempt or the call.                          *)
LEMMA FailuresKeepIInv ==
  ASSUME IInv, NEW c \in Calls,
         \/ ContextAborts(c)
         \/ \E e \in Untagged : PeerFails(c, e) \/ (SigningFails(c, e) /\ c \notin SubmitCalls)
         \/ \E e \in Refusals : PeerRefuses(c, e) /\ c \notin SubmitCalls
  PROVE  IInv'
<1>1. PICK e \in Untagged \cup Refusals :
        /\ pc[c] \in InLoop /\ AttemptFails(c, e)
        /\ UNCHANGED <<endorsed, envelopes, ledger>>
        /\ \/ refused' = refused
           \/ c \in EvaluateCalls /\ refused' = refused \cup {<<c, Peer(c)>>}
  BY
     DEF ContextAborts, PeerFails, SigningFails, PeerRefuses, ContextError, Untagged, InLoop,
         netVars
<1> QED
  BY <1>1, AttemptFailsKeepsIInv

-----------------------------------------------------------------------------
(* What a peer decides: it endorses, or it refuses a submit, which ends it. *)
LEMMA PeerAnswersKeepIInv ==
  ASSUME IInv, NEW c \in Calls,
         PeerEndorses(c) \/ \E e \in Refusals : PeerRefuses(c, e) /\ c \in SubmitCalls
  PROVE  IInv'
<1>1. TypeOK /\ (\A d \in Calls : CallOK(d)) /\ TurnInv
  BY DEF IInv
<1>2. /\ pc[c] = "endorsing" /\ attempt[c] # 0 /\ outcome[c] = "none" /\ c \notin envelopes
      /\ \A p : <<c, p>> \in refused => c \notin SubmitCalls
      /\ UNCHANGED <<channel, ctx, plan, attempt, failures, envelopes, ledger, orderVars>>
  <2>1. pc[c] = "endorsing"
    BY DEF PeerEndorses, PeerRefuses
  <2>2. UNCHANGED <<channel, ctx, plan, attempt, failures, envelopes, ledger, orderVars>>
    BY CallsAreOfOneKind DEF PeerEndorses, PeerRefuses
  <2> QED
    BY <1>1, <2>1, <2>2 DEF CallOK, StageOK, SubmitOK, RefusalOK, InLoop
<1>3. Peer(c) \in Peers /\ UNCHANGED Peer(c)
  <2>1. /\ attempt[c] \in Nat /\ attempt[c] <= Len(plan[c]) /\ plan[c] \in Seq(Peers)
    BY <1>1 DEF TypeOK
  <2>2. attempt[c] \in 1..Len(plan[c])
    BY <1>2, <2>1
  <2> QED
    BY <1>2, <2>1, <2>2, ElementOfSeq DEF Peer
<1>4. CASE PeerEndorses(c)
  <2>1. /\ endorsed' = endorsed \cup {<<c, Peer(c)>>} /\ refused' = refused
        /\ \/ /\ c \in SubmitCalls
              /\ pc' = [pc EXCEPT ![c] = "endorsed"] /\ outcome' = outcome
           \/ /\ c \notin SubmitCalls
              /\ pc' = [pc EXCEPT ![c] = "done"] /\ outcome' = [outcome EXCEPT ![c] = "ok"]
    BY <1>4 DEF PeerEndorses, Goto, Finish
  <2>2. TypeOK'
    <3>1. endorsed' \subseteq (Calls \X Peers) /\ refused' \subseteq (Calls \X Peers)
      BY <1>1, <1>3, <2>1 DEF TypeOK
    <3> QED
      BY <1>1, <1>2, <2>1, <3>1 DEF TypeOK, Stages, Outcomes, orderVars
  <2>3. /\ \/ c \in SubmitCalls /\ pc'[c] = "endorsed" /\ outcome'[c] = "none"
           \/ c \notin SubmitCalls /\ pc'[c] = "done" /\ outcome'[c] = "ok"
        /\ <<c, Peer(c)>> \in endorsed'
    BY <1>1, <1>2, <2>1 DEF TypeOK
  <2>4. StageOK(c)' /\ FailureOK(c)'
    BY <1>1, <1>2, <2>3 DEF CallOK, StageOK, FailureOK, BeforeLoop, InLoop, AfterLoop
  <2>5. SubmitOK(c)' /\ RefusalOK(c)'
    BY <1>2, <1>3, <2>1, <2>3 DEF SubmitOK, RefusalOK, AfterLoop
  <2>6. \A d \in Calls : d # c => Untouched(d)
    BY <1>1, <1>2, <2>1 DEF TypeOK, Untouched
  <2> QED
    BY <1>1, <1>2, <2>2, <2>4, <2>5, <2>6, OneCallMoves, TurnsStayInLap DEF CallOK, IInv
<1>5. CASE \E e \in Refusals : PeerRefuses(c, e) /\ c \in SubmitCalls
  <2>1. /\ refused' = refused \cup {<<c, Peer(c)>>} /\ endorsed' = endorsed
        /\ pc' = [pc EXCEPT ![c] = "done"]
        /\ outcome' = [outcome EXCEPT ![c] = "EndorsementError"]
        /\ c \in SubmitCalls
    BY <1>5, CallsAreOfOneKind DEF PeerRefuses, Goto, Finish
  <2>2. TypeOK'
    <3>1. endorsed' \subseteq (Calls \X Peers) /\ refused' \subseteq (Calls \X Peers)
      BY <1>1, <1>3, <2>1 DEF TypeOK
    <3> QED
      BY <1>1, <1>2, <2>1, <3>1 DEF TypeOK, Stages, Outcomes, orderVars
  <2>3. pc'[c] = "done" /\ outcome'[c] = "EndorsementError"
    BY <1>1, <2>1 DEF TypeOK
  <2>4. StageOK(c)' /\ FailureOK(c)'
    BY <1>1, <1>2, <2>3 DEF CallOK, StageOK, FailureOK, BeforeLoop, InLoop, AfterLoop
  <2>5. SubmitOK(c)' /\ RefusalOK(c)'
    BY <1>2, <1>3, <2>1, <2>3 DEF SubmitOK, RefusalOK, AfterLoop
  <2>6. \A d \in Calls : d # c => Untouched(d)
    BY <1>1, <1>2, <2>1 DEF TypeOK, Untouched
  <2> QED
    BY <1>1, <1>2, <2>2, <2>4, <2>5, <2>6, OneCallMoves, TurnsStayInLap DEF CallOK, IInv
<1> QED
  BY <1>4, <1>5

(* The envelope is written once, for the endorsement of the last attempt.   *)
LEMMA SendEnvelopeKeepsIInv ==
  ASSUME IInv, NEW c \in Calls, SendEnvelope(c)
  PROVE  IInv'
<1>1. TypeOK /\ (\A d \in Calls : CallOK(d)) /\ TurnInv
  BY DEF IInv
<1>2. /\ pc[c] = "submitting" /\ pc' = [pc EXCEPT ![c] = "broadcasting"]
      /\ envelopes' = envelopes \cup {c}
      /\ UNCHANGED <<channel, ctx, plan, attempt, failures, outcome, endorsed, refused,
                     ledger, orderVars>>
  BY DEF SendEnvelope, Goto
<1>3. TypeOK'
  BY <1>1, <1>2 DEF TypeOK, Stages, orderVars
<1>4. pc'[c] = "broadcasting" /\ outcome[c] = "none" /\ c \in envelopes'
  BY <1>1, <1>2 DEF TypeOK, CallOK, StageOK
<1>5. StageOK(c)' /\ FailureOK(c)'
  BY <1>1, <1>2, <1>4 DEF CallOK, StageOK, FailureOK, BeforeLoop, InLoop, AfterLoop
<1>6. SubmitOK(c)' /\ RefusalOK(c)'
  BY <1>1, <1>2, <1>4 DEF CallOK, SubmitOK, RefusalOK, AfterLoop, Peer
<1>7. \A d \in Calls : d # c => Untouched(d)
  BY <1>1, <1>2 DEF TypeOK, Untouched
<1> QED
  BY <1>1, <1>2, <1>3, <1>5, <1>6, <1>7, OneCallMoves, TurnsStayInLap DEF CallOK, IInv

(* The orderer, and the contexts of the calls.                              *)
LEMMA EnvironmentKeepsIInv ==
  ASSUME IInv, NEW c \in Calls, Environment(c)
  PROVE  IInv'
<1>1. TypeOK /\ (\A d \in Calls : CallOK(d)) /\ TurnInv
  BY DEF IInv
<1>2. /\ UNCHANGED <<pc, channel, plan, attempt, failures, outcome, endorsed, refused, envelopes,
                     orderVars>>
      /\ ctx' \in [Calls -> Contexts]
      /\ ledger \subseteq ledger' /\ ledger' \subseteq envelopes
  BY <1>1 DEF Environment, ContextEnds, OrdererAccepts, TypeOK, callVars, netVars
<1>3. TypeOK'
  BY <1>1, <1>2 DEF TypeOK, orderVars
<1>4. \A d \in Calls : Untouched(d)
  BY <1>2 DEF Untouched
<1> QED
  BY <1>1, <1>2, <1>3, <1>4, OtherCallsStayOK, TurnsStayInLap DEF IInv

(* Every step preserves the invariant.                                      *)
LEMMA NextKeepsIInv == IInv /\ [Next]_vars => IInv'
<1> SUFFICES ASSUME IInv, [Next]_vars PROVE IInv'
  OBVIOUS
<1>1. ASSUME NEW c \in Calls, Start(c) \/ ClientStep(c) PROVE IInv'
  BY <1>1, MovesKeepIInv, FailuresKeepIInv, SendEnvelopeKeepsIInv DEF ClientStep
<1>2. ASSUME NEW c \in Calls, RemoteStep(c) PROVE IInv'
  BY <1>2, MovesKeepIInv, FailuresKeepIInv, PeerAnswersKeepIInv, DiscoveryAnswersKeepsIInv
     DEF RemoteStep
<1>3. ASSUME NEW c \in Calls, Environment(c) PROVE IInv'
  BY <1>3, EnvironmentKeepsIInv
<1>4. CASE UNCHANGED vars
  <2>1. TypeOK /\ (\A d \in Calls : CallOK(d)) /\ TurnInv
    BY DEF IInv
  <2>2. UNCHANGED <<pc, channel, ctx, plan, attempt, failures, outcome, endorsed, refused,
                    envelopes, ledger, counters, turns>>
    BY <1>4 DEF vars, callVars, netVars, orderVars
  <2>3. TypeOK'
    BY <2>1, <2>2 DEF TypeOK
  <2>4. \A d \in Calls : Untouched(d)
    BY <2>2 DEF Untouched
  <2>5. \A d \in Calls : CallOK(d)'
    BY <2>1, <2>4, OtherCallsStayOK
  <2>6. TurnInv'
    BY <2>1, <2>2, TurnsStayInLap DEF orderVars
  <2> QED
    BY <2>3, <2>5, <2>6 DEF IInv
<1> QED
  BY <1>1, <1>2, <1>3, <1>4 DEF Next

-----------------------------------------------------------------------------
(* The invariant holds in every reachable state.                            *)
THEOREM Invariance == Spec => []IInv
BY InitIInv, NextKeepsIInv, PTL DEF Spec

(* Type correctness: a goroutine never reads beyond its plan, and never a   *)
(* counter of a peer list that was not discovered.                          *)
THEOREM TypeCorrect == Spec => []TypeOK
<1>1. IInv => TypeOK
  BY DEF IInv
<1> QED
  BY <1>1, Invariance, PTL

(* Nothing is sent to the orderer without an endorsement by the peer whose  *)
(* answer the envelope carries.                                             *)
THEOREM SubmitsAreEndorsed == Spec => []EnvelopesAreEndorsed
<1>1. IInv => EnvelopesAreEndorsed
  BY DEF IInv, TypeOK, CallOK, SubmitOK, EnvelopesAreEndorsed
<1> QED
  BY <1>1, Invariance, PTL

(* A refusal of a submit ends it at the peer that refused, for any number   *)
(* of peers: buildPeerTransactionPayload runs after the loop.               *)
THEOREM SubmitRefusalsEndTheCall == Spec => []SubmitRefusalsAreFinal
<1>1. IInv => SubmitRefusalsAreFinal
  BY DEF IInv, Calls, CallOK, RefusalOK, SubmitRefusalsAreFinal, RefusalsAreFinal
<1> QED
  BY <1>1, Invariance, PTL

(* SinglePeerExecutionError lists every peer of the plan, in its order.     *)
THEOREM ExhaustedCallsTriedAll == Spec => []ExhaustionIsComplete
<1>1. IInv => ExhaustionIsComplete
  <2> SUFFICES ASSUME IInv, NEW c \in Calls, outcome[c] = "SinglePeerExecutionError"
               PROVE  [i \in DOMAIN failures[c] |-> failures[c][i].peer] = plan[c]
    BY DEF ExhaustionIsComplete
  <2>1. /\ DOMAIN failures[c] = 1..Len(failures[c])
        /\ plan[c] = [i \in 1..Len(plan[c]) |-> plan[c][i]]
    BY DEF IInv, TypeOK
  <2>2. /\ Len(failures[c]) = Len(plan[c])
        /\ \A i \in 1..Len(failures[c]) : failures[c][i].peer = plan[c][i]
    BY DEF IInv, CallOK, FailureOK
  <2> QED
    BY <2>1, <2>2
<1> QED
  BY <1>1, Invariance, PTL

(* Round-robin is fair for every peer set, however goroutines meet at the   *)
(* counters and whatever other sets are discovered in between.              *)
THEOREM TurnsAreFair == Spec => []RoundRobinIsFair
<1>1. IInv => RoundRobinIsFair
  <2> SUFFICES ASSUME IInv, NEW k \in DOMAIN turns, NEW p \in k[2], NEW q \in k[2]
               PROVE  turns[k][p] <= turns[k][q] + 1
    BY DEF RoundRobinIsFair
  <2>1. PICK ch \in Channels, S \in PeerSets : k = <<ch, S>>
    BY DEF IInv, TypeOK
  <2>2. PICK s : s = SortedByURL[S]
    OBVIOUS
  <2>3. s \in Seq(Peers) /\ s # <<>> /\ PeersOf(s) = S
    BY <2>2, SortedFacts
  <2>4. PICK i \in 1..Len(s), j \in 1..Len(s) : p = s[i] /\ q = s[j]
    BY <2>1, <2>3 DEF PeersOf
  <2>5. turns[k] \in [Peers -> Nat]
    BY <2>1 DEF IInv, TypeOK
  <2>6. InLap(counters[RoundRobinKey(ch, s)], turns[k], s)
    BY <2>1, <2>2 DEF IInv, TurnInv, TurnOK
  <2>7. turns[k][s[i]] <= turns[k][s[j]] + 1
    BY <2>3, <2>4, <2>5, <2>6, LapsAreFair
  <2> QED
    BY <2>4, <2>7
<1> QED
  BY <1>1, Invariance, PTL

-----------------------------------------------------------------------------
(* The path implements SubmitOnce.                                          *)

Verdicts == [c \in SubmitCalls |-> Verdict(c)]

(* A call whose transaction is ordered has broadcast it.                    *)
LEMMA OrderedIsAccepted ==
  ASSUME NEW c
  PROVE  Once!Ordered(c) <=> c \in ledger
BY DEF Once!Ordered

(* Initially no call has a verdict and the ledger is empty.                 *)
LEMMA InitMapsToOnce == Init => Once!Init
BY DEF Init, Once!Init, Calls, Verdict

(* A step of one call is a call, a verdict, or nothing to its caller.       *)
LEMMA CallStepMapsToOnce ==
  ASSUME IInv, NEW c \in Calls,
         \A d \in Calls \ {c} : pc'[d] = pc[d] /\ outcome'[d] = outcome[d],
         ledger' = ledger,
         pc[c] # "done", pc'[c] # "idle",
         pc[c] = "idle" => pc'[c] # "done",
         c \in SubmitCalls /\ pc'[c] = "done" =>
           /\ outcome'[c] = "ok" => c \in ledger
           /\ outcome'[c] \notin {"ok", "SubmitError"} => pc[c] # "broadcasting"
  PROVE  [Once!Next]_Once!vars
<1>1. SubmitCalls \subseteq Calls
  BY DEF Calls
<1>2. \A d \in SubmitCalls : d # c => Verdict(d)' = Verdict(d)
  BY <1>1 DEF Verdict
<1>3. CASE c \notin SubmitCalls
  <2>1. Verdicts' = Verdicts
    BY <1>2, <1>3 DEF Verdicts
  <2> QED
    BY <2>1 DEF Verdicts, Once!vars
<1>4. CASE c \in SubmitCalls
  <2>1. Verdicts' = [Verdicts EXCEPT ![c] = Verdict(c)'] /\ Verdicts[c] = Verdict(c)
    BY <1>2, <1>4 DEF Verdicts
  <2>2. ASSUME NEW v, Verdict(c)' = v PROVE Once!Tell(c, v)
    BY <2>1, <2>2 DEF Verdicts, Once!Tell
  <2>3. CASE pc[c] = "idle"
    <3>1. Verdict(c) = "none" /\ Verdict(c)' = "pending"
      BY <2>3 DEF Verdict
    <3>2. Once!Call(c)
      BY <2>1, <2>2, <3>1 DEF Once!Call, Verdicts
    <3> QED
      BY <1>4, <3>2 DEF Once!Next
  <2>4. CASE pc[c] # "idle" /\ pc'[c] # "done"
    <3>1. Verdict(c) = "pending" /\ Verdict(c)' = "pending"
      BY <2>4 DEF Verdict
    <3>2. Verdicts' = Verdicts
      BY <1>2, <3>1 DEF Verdicts
    <3> QED
      BY <3>2 DEF Verdicts, Once!vars
  <2>5. CASE pc[c] # "idle" /\ pc'[c] = "done"
    <3>1. Verdict(c) = "pending"
      BY <2>5 DEF Verdict
    <3>2. CASE outcome'[c] = "ok"
      <4>1. Verdict(c)' = "ok" /\ Once!Ordered(c)
        BY <1>4, <2>5, <3>2, OrderedIsAccepted DEF Verdict
      <4>2. Once!Succeed(c)
        BY <2>1, <2>2, <3>1, <4>1 DEF Once!Succeed, Verdicts
      <4> QED
        BY <1>4, <4>2 DEF Once!Next
    <3>3. CASE outcome'[c] = "SubmitError"
      <4>1. Verdict(c)' = "unsure"
        BY <2>5, <3>3 DEF Verdict
      <4>2. Once!FailUnsure(c)
        BY <2>1, <2>2, <3>1, <4>1 DEF Once!FailUnsure, Verdicts
      <4> QED
        BY <1>4, <4>2 DEF Once!Next
    <3>4. CASE outcome'[c] \notin {"ok", "SubmitError"}
      <4>1. c \notin envelopes
        BY <1>4, <2>5, <3>4 DEF IInv, CallOK, SubmitOK
      <4>2. Verdict(c)' = "safe" /\ ~Once!Ordered(c)
        BY <2>5, <3>4, <4>1, OrderedIsAccepted DEF Verdict, IInv, TypeOK
      <4>3. Once!FailSafely(c)
        BY <2>1, <2>2, <3>1, <4>2 DEF Once!FailSafely, Verdicts
      <4> QED
        BY <1>4, <4>3 DEF Once!Next
    <3> QED
      BY <3>2, <3>3, <3>4
  <2> QED
    BY <2>3, <2>4, <2>5
<1> QED
  BY <1>3, <1>4

(* The orderer accepts at most one transaction of a call.                   *)
LEMMA OrdererMapsToOnce ==
  ASSUME IInv, NEW c \in Calls, OrdererAccepts(c)
  PROVE  Once!Next
<1>1. c \in SubmitCalls /\ c \notin ledger /\ pc[c] \in {"broadcasting", "done"}
      /\ outcome[c] \in {"none", "ok", "SubmitError"}
  BY DEF IInv, CallOK, SubmitOK, OrdererAccepts
<1>2. Verdict(c) \in {"pending", "unsure"}
  <2>1. (pc[c] = "done" => outcome[c] # "none") /\ outcome[c] # "ok"
    BY <1>1 DEF IInv, CallOK, StageOK, SubmitOK
  <2> QED
    BY <1>1, <2>1 DEF Verdict
<1>3. Verdicts' = Verdicts
  BY DEF Verdicts, Verdict, OrdererAccepts, callVars
<1>4. (ledger \X {"the proposal's"})' = (ledger \X {"the proposal's"}) \cup {<<c,
                                                                               "the proposal's">>}
  <2>1. PICK x : x = "the proposal's"
    OBVIOUS
  <2>2. ledger' = ledger \cup {c}
    BY DEF OrdererAccepts
  <2>3. (ledger \cup {c}) \X {x} = (ledger \X {x}) \cup {<<c, x>>}
    OBVIOUS
  <2> QED
    BY <2>1, <2>2, <2>3
<1>5. Once!Order(c, "the proposal's")
  BY <1>1, <1>2, <1>3, <1>4, OrderedIsAccepted DEF Once!Order, Verdicts
<1> QED
  BY <1>1, <1>5 DEF Once!Next

(* Whatever ends in a failed attempt, ends the call at most with an error   *)
(* that is safe: its envelope was not sent.                                 *)
LEMMA NextMapsToOnce == IInv /\ [Next]_vars => [Once!Next]_Once!vars
<1> SUFFICES ASSUME IInv, [Next]_vars PROVE [Once!Next]_Once!vars
  OBVIOUS
<1>0. pc \in [Calls -> Stages] /\ outcome \in [Calls -> Outcomes]
  BY DEF IInv, TypeOK
<1>1. ASSUME NEW c \in Calls,
             \/ Start(c) \/ DiscoveryFails(c) \/ SignProposal(c) \/ SendProposal(c)
             \/ SignTransaction(c) \/ TransactionSigningFails(c) \/ ResolutionFails(c)
             \/ SendEnvelope(c) \/ SubmitFails(c) \/ PeerEndorses(c) \/ BroadcastSucceeds(c)
             \/ \E r \in DiscoveryResults : DiscoveryAnswers(c, r) \/ ResolutionAnswers(c, r)
      PROVE  [Once!Next]_Once!vars
  BY <1>0, <1>1, CallStepMapsToOnce
     DEF Start, DiscoveryFails, SignProposal, SendProposal, SignTransaction,
         TransactionSigningFails, ResolutionFails, SendEnvelope, SubmitFails, PeerEndorses,
         BroadcastSucceeds, DiscoveryAnswers, ResolutionAnswers, Goto, Finish, netVars
<1>2. ASSUME NEW c \in Calls,
             \/ ContextAborts(c)
             \/ \E e \in Untagged : SigningFails(c, e) \/ PeerFails(c, e)
             \/ \E e \in Refusals : PeerRefuses(c, e)
      PROVE  [Once!Next]_Once!vars
  <2>1. pc[c] \in InLoop /\ ledger' = ledger
    BY <1>2 DEF ContextAborts, SigningFails, PeerFails, PeerRefuses, InLoop, netVars
  <2>2. \/ Finish(c, "EndorsementError") \/ Finish(c, "error")
        \/ Finish(c, "SinglePeerExecutionError")
        \/ pc' = [pc EXCEPT ![c] = Retry(c)] /\ outcome' = outcome
    BY <1>2 DEF ContextAborts, SigningFails, PeerFails, PeerRefuses, AttemptFails, Goto
  <2>3. Retry(c) \notin {"idle", "done"} /\ pc[c] \notin {"idle", "done", "broadcasting"}
    BY <2>1 DEF Retry, InLoop
  <2> QED
    BY <1>0, <2>1, <2>2, <2>3, CallStepMapsToOnce DEF Finish, Goto
<1>3. ASSUME NEW c \in Calls, OrdererAccepts(c) PROVE [Once!Next]_Once!vars
  BY <1>3, OrdererMapsToOnce
<1>4. CASE UNCHANGED <<pc, outcome, ledger>>
  BY <1>4 DEF Verdict, Once!vars
<1>5. ASSUME NEW c \in Calls, NEW how, ContextEnds(c, how) PROVE UNCHANGED <<pc, outcome, ledger>>
  BY <1>5 DEF ContextEnds, netVars
<1> QED
  BY <1>1, <1>2, <1>3, <1>4, <1>5
     DEF Next, ClientStep, RemoteStep, Environment, vars, callVars, netVars

(* For every instance a Go submit keeps what SubmitOnce promises: a call's  *)
(* one transaction is ordered at most once, "ok" is said of an ordered one, *)
(* and an error other than SubmitError means that none is nor will be.      *)
THEOREM GoSinglePeerImplementsSubmitOnce == Spec => ImplementsSubmitOnce
BY InitIInv, InitMapsToOnce, NextMapsToOnce, Invariance, PTL
   DEF Spec, ImplementsSubmitOnce, Once!Spec

=============================================================================
