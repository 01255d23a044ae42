----------------------- MODULE SinglePeerSubmitProofs -----------------------
(***************************************************************************)
(* Proofs about SinglePeerSubmit, for every set of calls, channels, peers   *)
(* and discovery results.                                                   *)
(***************************************************************************)
EXTENDS SinglePeerSubmit, PeerOrderProofs

-----------------------------------------------------------------------------
(* The inductive invariant.                                                 *)

BeforeAttempts == {"idle", "discovering", "selecting"}

Submitting == {"endorsed", "resolving", "rediscovering", "broadcasting"}

Attempting == Submitting \cup {"signing", "endorsing"}

(* A call under way works through a repetition-free plan.                   *)
PlanOK(c) ==
  /\ pc[c] \in BeforeAttempts => attempt[c] = 0
  /\ pc[c] \in Attempting => attempt[c] # 0
  /\ pc[c] = "selecting" => plan[c] \in PeerLists
  /\ attempt[c] # 0 => /\ NoRepeats(plan[c])
                       /\ attempt[c] \in 1..Len(plan[c])
                       /\ \E s \in PeerLists : Len(s) = Len(plan[c])

PlanInv == \A c \in Calls : PlanOK(c)

(* Every proposal was sent to the peer its attempt is planned for.          *)
ProposalInv ==
  \A m \in proposals : m[2] \in 1..attempt[m[1]] /\ m[3] = plan[m[1]][m[2]]

(* A call has a transaction to submit only when its proposal was endorsed,  *)
(* and succeeds only when that transaction was accepted.                    *)
StageInv ==
  \A c \in Calls :
    /\ pc[c] \in Submitting => c \in SubmitCalls /\ Proposal(c) \in endorsed
    /\ pc[c] = "endorsing" => Proposal(c) \in proposals
    /\ pc[c] = "broadcasting" => Transaction(c) \in envelopes
    /\ pc[c] # "done" <=> outcome[c] = "none"
    /\ c \in SubmitCalls /\ outcome[c] = "ok" => Transaction(c) \in ledger

(* What was broadcast belongs to the last attempt of a call that does not   *)
(* attempt anything more.                                                   *)
EnvelopeInv ==
  \A t \in envelopes :
    /\ t[1] \in SubmitCalls
    /\ t[2] = attempt[t[1]]
    /\ Proposal(t[1]) \in endorsed
    /\ pc[t[1]] \in {"broadcasting", "done"}
    /\ outcome[t[1]] \in {"none", "ok", "SubmitError"}

TurnsTypeOK == turns \in [Channels \X PeerLists -> [Peers -> Nat]]

IInv == TypeOK /\ PlanInv /\ ProposalInv /\ StageInv /\ EnvelopeInv

(* The part of it that speaks of the calls and not of the cache.            *)
CallInv ==
  CallTypeOK /\ NetTypeOK /\ TurnsTypeOK /\ PlanInv /\ ProposalInv /\ StageInv /\ EnvelopeInv

(* The invariant of all calls is the invariant of each.                     *)
LEMMA SplitIInv ==
  /\ IInv <=> CacheTypeOK /\ CallInv
  /\ IInv' <=> CacheTypeOK' /\ CallInv'
BY DEF IInv, TypeOK, CallInv, TurnsTypeOK

(* The invariant holds initially: nothing was called.                       *)
LEMMA InitIInv == Init => IInv
<1> SUFFICES ASSUME Init PROVE IInv
  OBVIOUS
<1>1. CacheTypeOK
  BY DEF Init, CacheInit, CacheTypeOK
<1>2. CallTypeOK
  BY DEF Init, CallTypeOK, Stages, Outcomes
<1>3. NetTypeOK
  BY DEF Init, NetTypeOK
<1>4. TurnsTypeOK
  BY DEF Init, NoTurns, TurnsTypeOK
<1>5. PlanInv /\ ProposalInv /\ StageInv /\ EnvelopeInv
  BY DEF Init, PlanInv, PlanOK, ProposalInv, StageInv, EnvelopeInv, Attempting, Submitting
<1> QED
  BY <1>1, <1>2, <1>3, <1>4, <1>5, SplitIInv DEF CallInv

(* Writing the cache keeps its type.                                        *)
LEMMA CacheStaysTyped ==
  ASSUME CacheTypeOK
  PROVE  /\ \A ch \in Channels, r \in DiscoveryResults : CacheSet(ch, r) => CacheTypeOK'
         /\ \A ch \in Channels : Expire(ch) => CacheTypeOK'
         /\ CacheClear => CacheTypeOK'
         /\ UNCHANGED cacheVars => CacheTypeOK'
<1>1. \A ch \in Channels, r \in DiscoveryResults : CacheSet(ch, r) => CacheTypeOK'
  BY DEF CacheTypeOK, CacheSet
<1>2. \A ch \in Channels : Expire(ch) => CacheTypeOK'
  BY DEF CacheTypeOK, Expire
<1>3. CacheClear => CacheTypeOK'
  BY DEF CacheTypeOK, CacheClear
<1>4. UNCHANGED cacheVars => CacheTypeOK'
  BY DEF CacheTypeOK, cacheVars
<1> QED
  BY <1>1, <1>2, <1>3, <1>4

-----------------------------------------------------------------------------
(* A failed attempt: either the call ends, or the next attempt begins.      *)
LEMMA CatchFailureKeepsCallInv ==
  ASSUME CallInv, NEW c \in Calls, NEW e \in Errors,
         pc[c] \in Attempting,
         pc[c] = "broadcasting" => e = "SubmitError",
         CatchFailure(c, e), UNCHANGED netVars
  PROVE  CallInv'
<1>1. attempt[c] \in 1..Len(plan[c])
  BY DEF CallInv, PlanInv, PlanOK
<1>2. /\ MapError(c, e) \in Outcomes \ {"none", "ok"}
      /\ ClassifyFailover(e) \in Categories
      /\ "SinglePeerExecutionError" \in Outcomes \ {"none", "ok"}
      /\ e = "SubmitError" => ~Eligible(ClassifyFailover(e))
      /\ e = "SubmitError" /\ c \in SubmitCalls => MapError(c, e) = "SubmitError"
  BY DEF MapError, MapSubmitError, MapEvaluateError, ClassifyFailover, Eligible, Outcomes,
         Categories, Errors, KnownNonRetryable, Untagged
<1>3. UNCHANGED <<channel, plan, turns, proposals, endorsed, envelopes, ledger>>
  BY DEF CatchFailure, netVars
<1>4. failures' \in [Calls -> Seq([peer: Peers, category: Categories])]
  <2> DEFINE failed == [peer |-> plan[c][attempt[c]], category |-> ClassifyFailover(e)]
             Failed == [peer: Peers, category: Categories]
  <2>1. plan[c][attempt[c]] \in Peers
    BY <1>1 DEF CallInv, CallTypeOK
  <2>2. failed \in Failed
    BY <1>2, <2>1
  <2>3. failures \in [Calls -> Seq(Failed)]
    BY DEF CallInv, CallTypeOK
  <2>4. failures' = [failures EXCEPT ![c] = Append(@, failed)]
    BY DEF CatchFailure
  <2> HIDE DEF failed, Failed
  <2>5. failures' \in [Calls -> Seq(Failed)]
    BY <2>2, <2>3, <2>4
  <2> QED
    BY <2>5 DEF Failed
<1>5. NetTypeOK' /\ TurnsTypeOK'
  BY <1>3 DEF CallInv, NetTypeOK, TurnsTypeOK
<1>7. \A t \in envelopes : t[1] = c => c \in SubmitCalls /\ e = "SubmitError"
  BY DEF CallInv, EnvelopeInv, Attempting, Submitting
<1>8. CASE /\ pc' = [pc EXCEPT ![c] = "done"]
           /\ attempt' = attempt
           /\ \E o \in Outcomes \ {"none", "ok"} :
                /\ outcome' = [outcome EXCEPT ![c] = o]
                /\ e = "SubmitError" /\ c \in SubmitCalls => o = "SubmitError"
  <2>1. PICK o \in Outcomes \ {"none", "ok"} :
          /\ outcome' = [outcome EXCEPT ![c] = o]
          /\ e = "SubmitError" /\ c \in SubmitCalls => o = "SubmitError"
    BY <1>8
  <2>2. CallTypeOK'
    BY <1>3, <1>4, <1>8, <2>1 DEF CallInv, CallTypeOK, Stages
  <2>3. PlanInv'
    BY <1>1, <1>3, <1>8
       DEF CallInv, CallTypeOK, PlanInv, PlanOK, BeforeAttempts, Attempting, Submitting
  <2>4. ProposalInv'
    BY <1>3, <1>8 DEF CallInv, ProposalInv
  <2>5. StageInv'
    BY <1>3, <1>8, <2>1 DEF CallInv, CallTypeOK, StageInv, Proposal, Transaction, Submitting
  <2>6. EnvelopeInv'
    BY <1>3, <1>7, <1>8, <2>1 DEF CallInv, CallTypeOK, NetTypeOK, EnvelopeInv, Proposal
  <2> QED
    BY <1>5, <2>2, <2>3, <2>4, <2>5, <2>6 DEF CallInv
<1>9. CASE /\ pc' = [pc EXCEPT ![c] = "signing"]
           /\ attempt[c] < Len(plan[c])
           /\ attempt' = [attempt EXCEPT ![c] = @ + 1]
           /\ outcome' = outcome
           /\ e # "SubmitError"
  <2>1. CallTypeOK'
    <3>1. attempt' \in [Calls -> Nat]
      BY <1>9 DEF CallInv, CallTypeOK
    <3>2. pc' \in [Calls -> Stages]
      BY <1>9 DEF CallInv, CallTypeOK, Stages
    <3> QED
      BY <1>3, <1>4, <1>9, <3>1, <3>2 DEF CallInv, CallTypeOK
  <2>2. PlanInv'
    BY <1>1, <1>3, <1>9
       DEF CallInv, CallTypeOK, PlanInv, PlanOK, BeforeAttempts, Attempting, Submitting
  <2>3. ProposalInv'
    BY <1>1, <1>3, <1>9 DEF CallInv, CallTypeOK, NetTypeOK, ProposalInv
  <2>4. StageInv'
    BY <1>3, <1>9 DEF CallInv, CallTypeOK, StageInv, Proposal, Transaction, Submitting, Attempting
  <2>5. EnvelopeInv'
    BY <1>3, <1>7, <1>9 DEF CallInv, CallTypeOK, NetTypeOK, EnvelopeInv, Proposal
  <2> QED
    BY <1>5, <2>1, <2>2, <2>3, <2>4, <2>5 DEF CallInv
<1> QED
  BY <1>2, <1>8, <1>9 DEF CatchFailure, Goto, Finish

-----------------------------------------------------------------------------
(* The cached results a call plans with.                                    *)
LEMMA ResultsAreListings ==
  \A r \in DiscoveryResults :
    /\ r.peers \in PeerLists
    /\ r.peers \in Seq(Peers)
    /\ Len(r.peers) \in Nat \ {0}
    /\ NoRepeats(r.peers)
BY DiscoveryAssumption DEF PeerLists

(* Before its first attempt a call has sent nothing.                        *)
LEMMA PlanningKeepsCallInv ==
  ASSUME CallInv, NEW c \in Calls, NEW r \in DiscoveryResults,
         pc[c] \in {"idle", "discovering"},
         plan' = [plan EXCEPT ![c] = r.peers],
         pc' = [pc EXCEPT ![c] = "selecting"],
         UNCHANGED <<channel, attempt, failures, outcome, netVars, turns>>
  PROVE  CallInv'
<1>1. /\ r.peers \in PeerLists /\ r.peers \in Seq(Peers)
      /\ attempt[c] = 0
  BY ResultsAreListings DEF CallInv, PlanInv, PlanOK, BeforeAttempts
<1>2. CallTypeOK'
  BY <1>1 DEF CallInv, CallTypeOK, Stages
<1>3. NetTypeOK' /\ TurnsTypeOK'
  BY DEF CallInv, NetTypeOK, TurnsTypeOK, netVars
<1>4. PlanInv'
  BY <1>1 DEF CallInv, CallTypeOK, PlanInv, PlanOK, BeforeAttempts, Attempting, Submitting
<1>5. ProposalInv'
  BY <1>1 DEF CallInv, CallTypeOK, NetTypeOK, ProposalInv, netVars
<1>6. StageInv' /\ EnvelopeInv'
  BY <1>1 DEF CallInv, CallTypeOK, NetTypeOK, StageInv, EnvelopeInv, Proposal, Transaction,
     Submitting, netVars
<1> QED
  BY <1>2, <1>3, <1>4, <1>5, <1>6 DEF CallInv

(* The plan of a call is a rotation of a listing.                           *)
LEMMA SelectKeepsIInv ==
  ASSUME IInv, NEW c \in Calls, Select(c)
  PROVE  IInv'
<1> DEFINE key == RoundRobinKey(channel[c], plan[c])
           ordered == RotateFrom(plan[c], RoundRobinIndex(key, Len(plan[c])))
<1>1. /\ pc[c] = "selecting"
      /\ AdvanceRoundRobin(key, Len(plan[c]))
      /\ plan' = [plan EXCEPT ![c] = ordered]
      /\ attempt' = [attempt EXCEPT ![c] = 1]
      /\ turns' = [turns EXCEPT ![<<channel[c], plan[c]>>][ordered[1]] = @ + 1]
      /\ pc' = [pc EXCEPT ![c] = "signing"]
      /\ UNCHANGED <<channel, failures, outcome, proposals, endorsed, envelopes, ledger>>
  BY DEF Select, Goto, netVars
<1>2. /\ plan[c] \in PeerLists /\ plan[c] \in Seq(Peers) /\ NoRepeats(plan[c])
      /\ Len(plan[c]) \in Nat \ {0} /\ plan[c] # <<>>
      /\ attempt[c] = 0
  <2>1. plan[c] \in PeerLists /\ attempt[c] = 0
    BY <1>1 DEF IInv, PlanInv, PlanOK, BeforeAttempts
  <2>2. PICK r \in DiscoveryResults : plan[c] = r.peers
    BY <2>1 DEF PeerLists
  <2> QED
    BY <2>1, <2>2, ResultsAreListings, DiscoveryAssumption
<1>3. key \in Keys /\ RoundRobinIndex(key, Len(plan[c])) \in 0..(Len(plan[c]) - 1)
  <2>1. key \in Keys
    BY <1>2 DEF Keys, RoundRobinKey, IInv, TypeOK, CallTypeOK
  <2>2. counters[key] \in Nat
    BY <2>1 DEF IInv, TypeOK, CacheTypeOK
  <2> QED
    BY <1>2, <2>1, <2>2 DEF RoundRobinIndex
<1>4. /\ ordered \in Seq(Peers) /\ Len(ordered) = Len(plan[c])
      /\ NoRepeats(ordered)
  BY <1>2, <1>3, RotationIsInjective
<1> HIDE DEF key, ordered
<1>5. CacheTypeOK'
  <2>1. (counters[key] + 1) % Len(plan[c]) \in Nat
    BY <1>2, <1>3 DEF IInv, TypeOK, CacheTypeOK
  <2> QED
    BY <1>1, <1>3, <2>1 DEF IInv, TypeOK, CacheTypeOK, AdvanceRoundRobin
<1>6. CallTypeOK'
  BY <1>1, <1>4 DEF IInv, TypeOK, CallTypeOK, Stages
<1>7. NetTypeOK'
  BY <1>1 DEF IInv, TypeOK, NetTypeOK
<1>8. TurnsTypeOK'
  <2>1. ordered[1] \in Peers
    BY <1>2, <1>4
  <2>2. <<channel[c], plan[c]>> \in Channels \X PeerLists
    BY <1>2 DEF IInv, TypeOK, CallTypeOK
  <2> QED
    BY <1>1, <2>1, <2>2 DEF IInv, TypeOK, TurnsTypeOK
<1>9. PlanInv'
  BY <1>1, <1>2, <1>4 DEF IInv, TypeOK, CallTypeOK, PlanInv, PlanOK, BeforeAttempts,
     Attempting, Submitting
<1>10. ProposalInv'
  BY <1>1, <1>2 DEF IInv, TypeOK, CallTypeOK, NetTypeOK, ProposalInv
<1>11. StageInv'
  BY <1>1 DEF IInv, TypeOK, CallTypeOK, StageInv, Proposal, Transaction, Submitting
<1>12. EnvelopeInv'
  BY <1>1 DEF IInv, TypeOK, CallTypeOK, NetTypeOK, EnvelopeInv, Proposal
<1> QED
  BY <1>5, <1>6, <1>7, <1>8, <1>9, <1>10, <1>11, <1>12 DEF IInv, TypeOK, TurnsTypeOK

(* The steps of a call that begin or end a planning phase.                  *)
LEMMA PlanningStepsKeepIInv ==
  ASSUME IInv, NEW c \in Calls,
         \/ StartFromCache(c) \/ StartDiscovery(c) \/ DiscoveryFails(c)
         \/ \E r \in DiscoveryResults : DiscoveryAnswers(c, r)
  PROVE  IInv'
<1> USE SplitIInv, CacheStaysTyped
<1>1. channel[c] \in Channels
  BY DEF IInv, TypeOK, CallTypeOK
<1>2. CASE StartFromCache(c)
  <2>1. CacheGet(channel[c]) \in DiscoveryResults
    BY <1>1, <1>2 DEF StartFromCache, CacheGet, IInv, TypeOK, CacheTypeOK
  <2> QED
    BY <1>2, <2>1, PlanningKeepsCallInv DEF StartFromCache, Goto
<1>3. CASE StartDiscovery(c)
  <2>1. CallTypeOK' /\ NetTypeOK' /\ TurnsTypeOK'
    BY <1>3 DEF StartDiscovery, Goto, CallInv, CallTypeOK, NetTypeOK, TurnsTypeOK, netVars, Stages
  <2>2. PlanInv' /\ ProposalInv'
    BY <1>3 DEF StartDiscovery, Goto, CallInv, CallTypeOK, PlanInv, PlanOK, ProposalInv,
       BeforeAttempts, Attempting, Submitting, netVars
  <2>3. StageInv' /\ EnvelopeInv'
    BY <1>3 DEF StartDiscovery, Goto, CallInv, CallTypeOK, NetTypeOK, StageInv, EnvelopeInv,
       Proposal, Transaction, Submitting, netVars
  <2> QED
    BY <1>3, <2>1, <2>2, <2>3 DEF StartDiscovery, CallInv
<1>4. CASE DiscoveryFails(c)
  <2>1. CallTypeOK' /\ NetTypeOK' /\ TurnsTypeOK'
    BY <1>4 DEF DiscoveryFails, Goto, Finish, CallInv, CallTypeOK, NetTypeOK, TurnsTypeOK,
       netVars, Stages, Outcomes
  <2>2. PlanInv' /\ ProposalInv'
    BY <1>4 DEF DiscoveryFails, Goto, Finish, CallInv, CallTypeOK, PlanInv, PlanOK, ProposalInv,
       BeforeAttempts, Attempting, Submitting, netVars
  <2>3. StageInv' /\ EnvelopeInv'
    BY <1>4 DEF DiscoveryFails, Goto, Finish, CallInv, CallTypeOK, NetTypeOK, StageInv, EnvelopeInv,
       Proposal, Transaction, Submitting, netVars
  <2> QED
    BY <1>4, <2>1, <2>2, <2>3 DEF DiscoveryFails, CallInv
<1>5. ASSUME NEW r \in DiscoveryResults, DiscoveryAnswers(c, r) PROVE IInv'
  BY <1>1, <1>5, PlanningKeepsCallInv DEF DiscoveryAnswers, Goto
<1> QED
  BY <1>2, <1>3, <1>4, <1>5

(* The steps of an attempt that succeed.                                    *)
LEMMA WriteEnvelopeKeepsCallInv ==
  ASSUME CallInv, NEW c \in Calls, pc[c] \in {"resolving", "rediscovering"}, WriteEnvelope(c)
  PROVE  CallInv'
<1> USE DEF WriteEnvelope, Goto
<1>1. c \in SubmitCalls /\ Proposal(c) \in endorsed /\ outcome[c] = "none"
  BY DEF CallInv, StageInv, Submitting
<1>2. CallTypeOK' /\ NetTypeOK' /\ TurnsTypeOK'
  <2>1. CallTypeOK' /\ TurnsTypeOK'
    BY DEF CallInv, CallTypeOK, TurnsTypeOK, Stages
  <2>2. Transaction(c) \in Calls \X Nat
    BY DEF CallInv, CallTypeOK, Transaction
  <2>3. NetTypeOK'
    BY <2>2 DEF CallInv, NetTypeOK
  <2> QED
    BY <2>1, <2>3
<1>3. PlanInv' /\ ProposalInv'
  BY DEF CallInv, CallTypeOK, PlanInv, PlanOK, ProposalInv, BeforeAttempts, Attempting, Submitting
<1>4. StageInv'
  BY <1>1 DEF CallInv, CallTypeOK, StageInv, Proposal, Transaction, Submitting
<1>5. EnvelopeInv'
  <2>1. ASSUME NEW t \in envelopes PROVE t[1] # c
    BY <2>1 DEF CallInv, EnvelopeInv
  <2>2. ASSUME NEW t \in envelopes'
        PROVE  /\ t[1] \in SubmitCalls
               /\ t[2] = attempt[t[1]]
               /\ Proposal(t[1]) \in endorsed
               /\ pc'[t[1]] \in {"broadcasting", "done"}
               /\ outcome[t[1]] \in {"none", "ok", "SubmitError"}
    <3>1. CASE t \in envelopes
      BY <2>1, <3>1 DEF CallInv, CallTypeOK, NetTypeOK, EnvelopeInv
    <3>2. CASE t = Transaction(c)
      BY <1>1, <3>2 DEF CallInv, CallTypeOK, Transaction
    <3> QED
      BY <3>1, <3>2
  <2> QED
    BY <2>2 DEF EnvelopeInv, Proposal
<1> QED
  BY <1>2, <1>3, <1>4, <1>5 DEF CallInv

(* A proposal goes to the peer its attempt is planned for.                  *)
LEMMA SendProposalKeepsIInv ==
  ASSUME IInv, NEW c \in Calls, SendProposal(c)
  PROVE  IInv'
<1> USE DEF SendProposal, Goto
<1>1. attempt[c] \in 1..Len(plan[c]) /\ plan[c][attempt[c]] \in Peers
  BY DEF IInv, TypeOK, CallTypeOK, PlanInv, PlanOK, Attempting
<1>2. CacheTypeOK'
  BY CacheStaysTyped DEF IInv, TypeOK
<1>3. CallTypeOK' /\ NetTypeOK' /\ TurnsTypeOK'
  <2>1. CallTypeOK' /\ TurnsTypeOK'
    BY DEF IInv, TypeOK, CallTypeOK, TurnsTypeOK, Stages
  <2>2. Proposal(c) \in Calls \X Nat \X Peers
    BY <1>1 DEF IInv, TypeOK, CallTypeOK, Proposal
  <2>3. NetTypeOK'
    BY <2>2 DEF IInv, TypeOK, NetTypeOK
  <2> QED
    BY <2>1, <2>3
<1>4. PlanInv'
  BY DEF IInv, TypeOK, CallTypeOK, PlanInv, PlanOK, BeforeAttempts, Attempting, Submitting
<1>5. ProposalInv'
  BY <1>1 DEF IInv, TypeOK, CallTypeOK, NetTypeOK, ProposalInv, Proposal
<1>6. StageInv' /\ EnvelopeInv'
  BY DEF IInv, TypeOK, CallTypeOK, NetTypeOK, StageInv, EnvelopeInv, Proposal, Transaction,
     Submitting
<1> QED
  BY <1>2, <1>3, <1>4, <1>5, <1>6 DEF IInv, TypeOK, TurnsTypeOK

(* A peer endorses the current proposal, or its answer is late.             *)
LEMMA PeerEndorsesKeepsIInv ==
  ASSUME IInv, NEW c \in Calls, PeerEndorses(c)
  PROVE  IInv'
<1> USE DEF PeerEndorses, Goto, Finish
<1>0. Proposal(c) \in proposals
  BY DEF IInv, StageInv
<1>1. CacheTypeOK'
  BY CacheStaysTyped DEF IInv, TypeOK
<1>2. CallTypeOK' /\ NetTypeOK' /\ TurnsTypeOK'
  BY <1>0 DEF IInv, TypeOK, CallTypeOK, NetTypeOK, TurnsTypeOK, Stages, Outcomes
<1>3. PlanInv' /\ ProposalInv'
  BY DEF IInv, TypeOK, CallTypeOK, PlanInv, PlanOK, ProposalInv, BeforeAttempts, Attempting,
     Submitting
<1>4. StageInv' /\ EnvelopeInv'
  <2>1. StageInv'
    BY DEF IInv, TypeOK, CallTypeOK, NetTypeOK, StageInv, Proposal, Transaction, Submitting
  <2>2. \A t \in envelopes : t[1] \in Calls /\ t[1] # c
    BY DEF IInv, TypeOK, NetTypeOK, EnvelopeInv, Calls
  <2>3. EnvelopeInv'
    BY <2>2 DEF IInv, TypeOK, CallTypeOK, NetTypeOK, EnvelopeInv, Proposal
  <2> QED
    BY <2>1, <2>3
<1> QED
  BY <1>1, <1>2, <1>3, <1>4 DEF IInv, TypeOK, TurnsTypeOK

(* An endorsed call is signed and broadcast.                                *)
LEMMA SubmittingStepsKeepIInv ==
  ASSUME IInv, NEW c \in Calls,
         SignTransaction(c) \/ Rediscover(c) \/ BroadcastSucceeds(c)
  PROVE  IInv'
<1> USE DEF SignTransaction, Rediscover, BroadcastSucceeds, Goto, Finish
<1>1. CacheTypeOK'
  BY CacheStaysTyped DEF IInv, TypeOK
<1>2. CallTypeOK' /\ NetTypeOK' /\ TurnsTypeOK'
  BY DEF IInv, TypeOK, CallTypeOK, NetTypeOK, TurnsTypeOK, Stages, Outcomes, netVars
<1>3. PlanInv' /\ ProposalInv'
  BY DEF IInv, TypeOK, CallTypeOK, PlanInv, PlanOK, ProposalInv, BeforeAttempts, Attempting,
     Submitting, netVars
<1>4. StageInv' /\ EnvelopeInv'
  <2>1. StageInv'
    BY DEF IInv, TypeOK, CallTypeOK, NetTypeOK, StageInv, Proposal, Transaction, Submitting,
       netVars
  <2>2. /\ UNCHANGED <<channel, plan, attempt, envelopes, endorsed>>
        /\ \A t \in envelopes : t[1] \in Calls
        /\ \A t \in envelopes : t[1] = c => pc[c] = "broadcasting" /\ pc'[c] = "done"
                                                                  /\ outcome'[c] = "ok"
        /\ \A d \in Calls \ {c} : pc'[d] = pc[d] /\ outcome'[d] = outcome[d]
    BY DEF IInv, TypeOK, CallTypeOK, NetTypeOK, EnvelopeInv, Calls, netVars
  <2>3. EnvelopeInv'
    BY <2>2 DEF IInv, EnvelopeInv, Proposal
  <2> QED
    BY <2>1, <2>3
<1> QED
  BY <1>1, <1>2, <1>3, <1>4 DEF IInv, TypeOK, TurnsTypeOK

(* An attempt that fails broadcasts nothing.                                *)
LEMMA FailuresKeepIInv ==
  ASSUME IInv, NEW c \in Calls,
         \/ \E e \in Errors : SigningFails(c, e) \/ PeerFails(c, e) \/ OrdererSetupFails(c, e)
         \/ ProposalDeadline(c) \/ NoOrderer(c) \/ RediscoveryFails(c) \/ BroadcastFails(c)
  PROVE  IInv'
<1>1. PICK e \in Errors :
        /\ pc[c] \in Attempting
        /\ pc[c] = "broadcasting" => e = "SubmitError"
        /\ CatchFailure(c, e)
        /\ UNCHANGED <<cacheVars, netVars>>
  BY DEF SigningFails, PeerFails, OrdererSetupFails, ProposalDeadline, NoOrderer,
     RediscoveryFails, BroadcastFails, Attempting, Submitting, Errors, Untagged, KnownNonRetryable
<1>2. CallInv /\ CacheTypeOK
  BY SplitIInv
<1>3. CallInv'
  BY <1>1, <1>2, CatchFailureKeepsCallInv
<1>4. CacheTypeOK'
  BY <1>1, <1>2, CacheStaysTyped
<1> QED
  BY <1>3, <1>4, SplitIInv

(* A broadcast ends the call, whatever its answer.                          *)
LEMMA BroadcastsKeepIInv ==
  ASSUME IInv, NEW c \in Calls,
         Broadcast(c) \/ \E r \in DiscoveryResults : RediscoveryAnswers(c, r)
  PROVE  IInv'
<1>1. channel[c] \in Channels /\ CacheTypeOK /\ CallInv
  BY SplitIInv DEF IInv, TypeOK, CallTypeOK
<1>2. CASE Broadcast(c)
  BY <1>1, <1>2, SplitIInv, CacheStaysTyped, WriteEnvelopeKeepsCallInv DEF Broadcast
<1>3. ASSUME NEW r \in DiscoveryResults, RediscoveryAnswers(c, r) PROVE IInv'
  <2>1. CacheTypeOK'
    BY <1>1, <1>3, CacheStaysTyped DEF RediscoveryAnswers
  <2>2. CASE WriteEnvelope(c)
    BY <1>1, <1>3, <2>1, <2>2, SplitIInv, WriteEnvelopeKeepsCallInv DEF RediscoveryAnswers
  <2>3. CASE CatchFailure(c, "ConfigurationError") /\ UNCHANGED netVars
    <3>1. "ConfigurationError" \in Errors /\ pc[c] \in Attempting /\ pc[c] # "broadcasting"
      BY <1>3 DEF RediscoveryAnswers, Errors, Attempting, Submitting
    <3>2. CallInv'
      BY <1>1, <2>3, <3>1, CatchFailureKeepsCallInv
    <3> QED
      BY <2>1, <3>2, SplitIInv
  <2> QED
    BY <1>3, <2>2, <2>3 DEF RediscoveryAnswers
<1> QED
  BY <1>2, <1>3

(* Disconnects, other flows and the orderer move no call.                   *)
LEMMA EnvironmentKeepsIInv ==
  ASSUME IInv, Environment
  PROVE  IInv'
<1>1. CacheTypeOK /\ CallInv
  BY SplitIInv
<1>2. ASSUME NEW t \in envelopes, OrdererAccepts(t) PROVE IInv'
  <2>1. CacheTypeOK'
    BY <1>1, <1>2, CacheStaysTyped DEF OrdererAccepts
  <2>2. CallTypeOK' /\ NetTypeOK' /\ TurnsTypeOK' /\ PlanInv' /\ ProposalInv'
    BY <1>1, <1>2 DEF OrdererAccepts, callVars, CallInv, CallTypeOK, NetTypeOK, TurnsTypeOK,
       PlanInv, PlanOK, ProposalInv
  <2>3. StageInv' /\ EnvelopeInv'
    BY <1>1, <1>2
       DEF OrdererAccepts, callVars, CallInv, StageInv, EnvelopeInv, Proposal, Transaction
  <2> QED
    BY <2>1, <2>2, <2>3, SplitIInv DEF CallInv
<1>3. ASSUME UNCHANGED <<callVars, netVars>>, CacheTypeOK', TurnsTypeOK' PROVE IInv'
  <2>1. CallTypeOK' /\ NetTypeOK' /\ PlanInv' /\ ProposalInv' /\ StageInv' /\ EnvelopeInv'
    BY <1>1, <1>3 DEF callVars, netVars, CallInv, CallTypeOK, NetTypeOK, PlanInv, PlanOK,
       ProposalInv, StageInv, EnvelopeInv, Proposal, Transaction
  <2> QED
    BY <1>3, <2>1, SplitIInv DEF CallInv
<1>4. CASE Disconnect
  <2>1. TurnsTypeOK'
    BY <1>4 DEF Disconnect, NoTurns, TurnsTypeOK
  <2> QED
    BY <1>1, <1>3, <1>4, <2>1, CacheStaysTyped DEF Disconnect
<1>5. ASSUME NEW ch \in Channels, EntryExpires(ch) PROVE IInv'
  BY <1>1, <1>3, <1>5, CacheStaysTyped DEF EntryExpires, CallInv, TurnsTypeOK
<1>6. ASSUME NEW ch \in Channels, NEW r \in DiscoveryResults, OtherFlowDiscovers(ch, r)
      PROVE  IInv'
  BY <1>1, <1>3, <1>6, CacheStaysTyped DEF OtherFlowDiscovers, CallInv, TurnsTypeOK
<1> QED
  BY <1>2, <1>4, <1>5, <1>6 DEF Environment

(* Every step preserves the invariant.                                      *)
LEMMA NextKeepsIInv == IInv /\ [Next]_vars => IInv'
<1> SUFFICES ASSUME IInv, [Next]_vars PROVE IInv'
  OBVIOUS
<1>1. ASSUME NEW c \in Calls, Start(c) PROVE IInv'
  BY <1>1, PlanningStepsKeepIInv DEF Start
<1>2. ASSUME NEW c \in Calls, ClientStep(c) PROVE IInv'
  BY <1>2, SelectKeepsIInv, SendProposalKeepsIInv, SubmittingStepsKeepIInv, BroadcastsKeepIInv,
     FailuresKeepIInv, PlanningStepsKeepIInv DEF ClientStep
<1>3. ASSUME NEW c \in Calls, RemoteStep(c) PROVE IInv'
  BY <1>3, PlanningStepsKeepIInv, BroadcastsKeepIInv, PeerEndorsesKeepsIInv,
     SubmittingStepsKeepIInv, FailuresKeepIInv DEF RemoteStep
<1>4. CASE Environment
  BY <1>4, EnvironmentKeepsIInv
<1>5. CASE UNCHANGED vars
  BY <1>5 DEF vars, cacheVars, callVars, netVars, IInv, TypeOK, CacheTypeOK, CallTypeOK,
     NetTypeOK, PlanInv, PlanOK, ProposalInv, StageInv, EnvelopeInv, Proposal, Transaction
<1> QED
  BY <1>1, <1>2, <1>3, <1>4, <1>5 DEF Next

-----------------------------------------------------------------------------
(* The invariant holds in every reachable state.                            *)
THEOREM Invariance == Spec => []IInv
BY InitIInv, NextKeepsIInv, PTL DEF Spec

(* Type correctness: no call reads a peer beyond its plan or a counter of a *)
(* peer list it was not given, however calls, expiry and disconnects        *)
(* interleave.                                                              *)
THEOREM TypeCorrect == Spec => []TypeOK
<1>1. IInv => TypeOK
  BY DEF IInv
<1> QED
  BY <1>1, Invariance, PTL

(* A call broadcasts at most one transaction, for any number of peers and   *)
(* any failures: executeSinglePeer never starts an attempt after one that   *)
(* reached the orderer.                                                     *)
THEOREM OneEnvelopePerCall == Spec => []AtMostOneEnvelope
<1>1. IInv => AtMostOneEnvelope
  BY DEF IInv, EnvelopeInv, AtMostOneEnvelope
<1> QED
  BY <1>1, Invariance, PTL

(* No transaction reaches the orderer without the endorsement of the peer   *)
(* its attempt was sent to, and none of an evaluation does.                 *)
THEOREM BroadcastsAreEndorsed == Spec => []EnvelopesAreEndorsed
<1>1. IInv => EnvelopesAreEndorsed
  <2> SUFFICES ASSUME IInv, NEW t \in envelopes
               PROVE  /\ t[1] \in SubmitCalls
                      /\ \E p \in Peers : <<t[1], t[2], p>> \in endorsed
    BY DEF EnvelopesAreEndorsed
  <2>1. /\ t[1] \in SubmitCalls /\ t[2] = attempt[t[1]]
        /\ <<t[1], t[2], plan[t[1]][attempt[t[1]]]>> \in endorsed
    BY DEF IInv, EnvelopeInv, Proposal
  <2>2. endorsed \subseteq (Calls \X Nat \X Peers)
    BY DEF IInv, TypeOK, NetTypeOK
  <2> QED
    BY <2>1, <2>2
<1> QED
  BY <1>1, Invariance, PTL

(* Any error but SubmitError leaves nothing behind at the orderer: the      *)
(* errors mapSubmitError passes through arise before the envelope.          *)
THEOREM OtherErrorsAreSafe == Spec => []OnlySubmitErrorIsUnsure
<1>1. IInv => OnlySubmitErrorIsUnsure
  BY DEF IInv, EnvelopeInv, OnlySubmitErrorIsUnsure
<1> QED
  BY <1>1, Invariance, PTL

(* Failover never returns to a peer, whatever list was discovered and       *)
(* wherever its rotation started.                                           *)
THEOREM NoPeerIsAskedTwice == Spec => []AttemptsVisitDistinctPeers
<1>1. IInv => AttemptsVisitDistinctPeers
  <2> SUFFICES ASSUME IInv, NEW m \in proposals, NEW n \in proposals, m[1] = n[1]
               PROVE  m[2] = n[2] <=> m[3] = n[3]
    BY DEF AttemptsVisitDistinctPeers
  <2> DEFINE c == m[1]
  <2>1. c \in Calls /\ attempt[c] \in Nat
    BY DEF IInv, TypeOK, NetTypeOK, CallTypeOK
  <2>2. /\ m[2] \in 1..attempt[c] /\ n[2] \in 1..attempt[c]
        /\ m[3] = plan[c][m[2]] /\ n[3] = plan[c][n[2]]
    BY DEF IInv, ProposalInv
  <2>3. attempt[c] \in 1..Len(plan[c]) /\ NoRepeats(plan[c])
    BY <2>1, <2>2 DEF IInv, PlanInv, PlanOK
  <2>4. m[2] \in DOMAIN plan[c] /\ n[2] \in DOMAIN plan[c]
    BY <2>1, <2>2, <2>3 DEF IInv, TypeOK, CallTypeOK
  <2> QED
    BY <2>2, <2>3, <2>4 DEF NoRepeats
<1> QED
  BY <1>1, Invariance, PTL

-----------------------------------------------------------------------------
(* The path implements SubmitOnce.                                          *)

Verdicts == [c \in SubmitCalls |-> Verdict(c)]

(* The verdict of a call, by where it is and how it ended.                  *)
LEMMA VerdictByStage ==
  ASSUME NEW c \in Calls
  PROVE  /\ pc[c] = "idle" => Verdict(c) = "none"
         /\ pc[c] \notin {"idle", "done"} => Verdict(c) = "pending"
         /\ pc[c] = "done" /\ outcome[c] = "ok" => Verdict(c) = "ok"
         /\ pc[c] = "done" /\ outcome[c] = "SubmitError" => Verdict(c) = "unsure"
         /\ pc[c] = "done" /\ outcome[c] \notin {"ok", "SubmitError"} => Verdict(c) = "safe"
BY DEF Verdict

(* What the ledger holds of a call is the transaction of its last attempt.  *)
LEMMA OrderedIsCurrent ==
  ASSUME IInv, NEW c \in SubmitCalls
  PROVE  /\ Transaction(c) \in ledger => Once!Ordered(c)
         /\ Once!Ordered(c) => Transaction(c) \in ledger
         /\ Once!Ordered(c) => pc[c] \in {"broadcasting", "done"}
<1>1. c \in Calls /\ ledger \subseteq envelopes
  BY DEF Calls, IInv, TypeOK, NetTypeOK
<1>2. ASSUME Transaction(c) \in ledger PROVE Once!Ordered(c)
  <2>1. Transaction(c) \in envelopes
    BY <1>1, <1>2
  <2>2. Proposal(c) \in proposals
    BY <1>1, <2>1 DEF IInv, TypeOK, NetTypeOK, EnvelopeInv, Transaction
  <2>3. attempt[c] \in 1..attempt[c] /\ attempt[c] \in Nat
    BY <1>1, <2>2 DEF IInv, TypeOK, CallTypeOK, ProposalInv, Proposal
  <2>4. PICK s \in PeerLists : Len(s) = Len(plan[c]) /\ attempt[c] \in 1..Len(s)
    BY <1>1, <2>3 DEF IInv, PlanInv, PlanOK
  <2>5. s \in Seq(Peers)
    BY DiscoveryAssumption DEF PeerLists
  <2>6. attempt[c] \in Attempts
    BY <2>4, <2>5 DEF Attempts
  <2> QED
    BY <1>2, <2>6 DEF Once!Ordered, Transaction
<1>3. ASSUME NEW x \in Attempts, <<c, x>> \in ledger
      PROVE  x = attempt[c] /\ pc[c] \in {"broadcasting", "done"}
  BY <1>1, <1>3 DEF IInv, EnvelopeInv
<1> QED
  BY <1>2, <1>3 DEF Once!Ordered, Transaction

(* Initially no call has a verdict and the ledger is empty.                 *)
LEMMA InitMapsToOnce == Init => Once!Init
BY VerdictByStage DEF Init, Once!Init, Calls

(* A step of one call is a call, a verdict, or nothing to its caller.       *)
LEMMA CallStepMapsToOnce ==
  ASSUME IInv, NEW c \in Calls,
         pc' = [pc EXCEPT ![c] = pc'[c]],
         \A d \in Calls \ {c} : outcome'[d] = outcome[d],
         ledger' = ledger,
         pc[c] # "done", pc'[c] # "idle",
         pc[c] = "idle" => pc'[c] # "done",
         c \in SubmitCalls /\ pc'[c] = "done" =>
           /\ outcome'[c] = "ok" => Transaction(c) \in ledger
           /\ outcome'[c] \notin {"ok", "SubmitError"} => pc[c] # "broadcasting"
  PROVE  [Once!Next]_Once!vars
<1>1. pc \in [Calls -> Stages] /\ SubmitCalls \subseteq Calls
  BY DEF IInv, TypeOK, CallTypeOK, Calls
<1>2. \A d \in SubmitCalls : d # c => Verdict(d)' = Verdict(d)
  BY <1>1 DEF Verdict
<1>3. CASE c \notin SubmitCalls
  <2>1. Verdicts' = Verdicts
    BY <1>2, <1>3 DEF Verdicts
  <2> QED
    BY <2>1 DEF Verdicts, Once!vars
<1>4. CASE c \in SubmitCalls
  <2>1. Verdicts' = [Verdicts EXCEPT ![c] = Verdict(c)']
    BY <1>2, <1>4 DEF Verdicts
  <2>2. Verdicts[c] = Verdict(c)
    BY <1>4 DEF Verdicts
  <2>3. ASSUME NEW v, Verdict(c)' = v PROVE Once!Tell(c, v)
    BY <2>1, <2>3 DEF Verdicts, Once!Tell
  <2>4. CASE pc[c] = "idle"
    <3>1. Verdict(c) = "none" /\ Verdict(c)' = "pending"
      BY <1>1, <2>4 DEF Verdict
    <3>2. Once!Call(c)
      BY <2>2, <2>3, <3>1 DEF Once!Call, Verdicts
    <3> QED
      BY <1>4, <3>2 DEF Once!Next
  <2>5. CASE pc[c] # "idle" /\ pc'[c] # "done"
    <3>1. Verdict(c) = "pending" /\ Verdict(c)' = "pending"
      BY <1>1, <2>5 DEF Verdict
    <3>2. Verdicts' = Verdicts
      BY <1>2, <3>1 DEF Verdicts
    <3> QED
      BY <3>2 DEF Verdicts, Once!vars
  <2>6. CASE pc[c] # "idle" /\ pc'[c] = "done"
    <3>1. Verdict(c) = "pending"
      BY <1>1, <2>6 DEF Verdict
    <3>2. CASE outcome'[c] = "ok"
      <4>1. Verdict(c)' = "ok" /\ Once!Ordered(c)
        BY <1>1, <1>4, <2>6, <3>2, OrderedIsCurrent DEF Verdict
      <4>2. Once!Succeed(c)
        BY <2>2, <2>3, <3>1, <4>1 DEF Once!Succeed, Verdicts
      <4> QED
        BY <1>4, <4>2 DEF Once!Next
    <3>3. CASE outcome'[c] = "SubmitError"
      <4>1. Verdict(c)' = "unsure"
        BY <1>1, <2>6, <3>3 DEF Verdict
      <4>2. Once!FailUnsure(c)
        BY <2>2, <2>3, <3>1, <4>1 DEF Once!FailUnsure, Verdicts
      <4> QED
        BY <1>4, <4>2 DEF Once!Next
    <3>4. CASE outcome'[c] \notin {"ok", "SubmitError"}
      <4>1. Verdict(c)' = "safe" /\ ~Once!Ordered(c)
        BY <1>1, <1>4, <2>6, <3>4, OrderedIsCurrent DEF Verdict
      <4>2. Once!FailSafely(c)
        BY <2>2, <2>3, <3>1, <4>1 DEF Once!FailSafely, Verdicts
      <4> QED
        BY <1>4, <4>2 DEF Once!Next
    <3> QED
      BY <3>2, <3>3, <3>4
  <2> QED
    BY <2>4, <2>5, <2>6
<1> QED
  BY <1>3, <1>4

(* A failing attempt leaves the verdict or tells one the ledger allows.     *)
LEMMA FailureMapsToOnce ==
  ASSUME IInv, NEW c \in Calls, NEW e \in Errors,
         pc[c] \in Attempting,
         pc[c] = "broadcasting" => e = "SubmitError",
         CatchFailure(c, e), ledger' = ledger
  PROVE  [Once!Next]_Once!vars
<1>1. /\ pc \in [Calls -> Stages] /\ outcome \in [Calls -> Outcomes]
      /\ pc[c] \notin {"idle", "done"}
  BY DEF IInv, TypeOK, CallTypeOK, Attempting, Submitting
<1>2. /\ MapError(c, e) # "ok"
      /\ e = "SubmitError" => ~Eligible(ClassifyFailover(e))
      /\ e = "SubmitError" /\ c \in SubmitCalls => MapError(c, e) = "SubmitError"
  BY DEF MapError, MapSubmitError, MapEvaluateError, ClassifyFailover, Eligible, Errors,
         KnownNonRetryable, Untagged
<1>3. \/ /\ pc' = [pc EXCEPT ![c] = "done"]
         /\ outcome' = [outcome EXCEPT ![c] = MapError(c, e)]
      \/ /\ pc' = [pc EXCEPT ![c] = "done"]
         /\ outcome' = [outcome EXCEPT ![c] = "SinglePeerExecutionError"]
         /\ e # "SubmitError"
      \/ pc' = [pc EXCEPT ![c] = "signing"] /\ outcome' = outcome
  BY <1>2 DEF CatchFailure, Finish, Goto
<1> QED
  BY <1>1, <1>2, <1>3, CallStepMapsToOnce

(* The orderer accepts at most one transaction of a call.                   *)
LEMMA OrdererMapsToOnce ==
  ASSUME IInv, NEW t \in envelopes, OrdererAccepts(t)
  PROVE  Once!Next
<1> DEFINE c == t[1]
<1>1. c \in SubmitCalls /\ c \in Calls /\ t = Transaction(c) /\ t \notin ledger
  BY DEF IInv, TypeOK, NetTypeOK, EnvelopeInv, OrdererAccepts, Transaction, Calls
<1>2. ~Once!Ordered(c)
  BY <1>1, OrderedIsCurrent
<1>3. Verdict(c) \in {"pending", "unsure"}
  BY <1>1 DEF IInv, EnvelopeInv, StageInv, Verdict
<1>4. t = <<c, attempt[c]>> /\ attempt[c] \in Attempts
  <2>1. Proposal(c) \in proposals
    BY <1>1 DEF IInv, TypeOK, NetTypeOK, EnvelopeInv
  <2>2. attempt[c] \in 1..attempt[c] /\ attempt[c] \in Nat
    BY <1>1, <2>1 DEF IInv, TypeOK, CallTypeOK, ProposalInv, Proposal
  <2>3. PICK s \in PeerLists : attempt[c] \in 1..Len(s)
    BY <1>1, <2>2 DEF IInv, PlanInv, PlanOK
  <2>4. s \in Seq(Peers)
    BY DiscoveryAssumption DEF PeerLists
  <2> QED
    BY <1>1, <2>3, <2>4 DEF Attempts, Transaction
<1>5. Verdicts' = Verdicts
  BY DEF Verdicts, Verdict, OrdererAccepts, callVars
<1>6. Once!Order(c, attempt[c])
  BY <1>1, <1>2, <1>3, <1>4, <1>5 DEF Once!Order, OrdererAccepts, Verdicts
<1> QED
  BY <1>1, <1>4, <1>6 DEF Once!Next

(* Every step is one of SubmitOnce or a stutter of it.                      *)
LEMMA NextMapsToOnce == IInv /\ [Next]_vars => [Once!Next]_Once!vars
<1> SUFFICES ASSUME IInv, [Next]_vars PROVE [Once!Next]_Once!vars
  OBVIOUS
<1>0. pc \in [Calls -> Stages] /\ outcome \in [Calls -> Outcomes]
  BY DEF IInv, TypeOK, CallTypeOK
<1>1. ASSUME NEW c \in Calls,
             \/ Start(c) \/ DiscoveryFails(c) \/ Select(c) \/ SendProposal(c)
             \/ SignTransaction(c) \/ Broadcast(c) \/ Rediscover(c)
             \/ PeerEndorses(c) \/ BroadcastSucceeds(c)
             \/ \E r \in DiscoveryResults : DiscoveryAnswers(c, r)
      PROVE  [Once!Next]_Once!vars
  BY <1>0, <1>1, CallStepMapsToOnce
     DEF Start, StartFromCache, StartDiscovery, DiscoveryFails, DiscoveryAnswers, Select,
         SendProposal, SignTransaction, Broadcast, WriteEnvelope, Rediscover, PeerEndorses,
         BroadcastSucceeds, Goto, Finish, netVars
<1>2. ASSUME NEW c \in Calls,
             \/ \E e \in Errors : SigningFails(c, e) \/ PeerFails(c, e) \/ OrdererSetupFails(c, e)
             \/ ProposalDeadline(c) \/ NoOrderer(c) \/ RediscoveryFails(c) \/ BroadcastFails(c)
      PROVE  [Once!Next]_Once!vars
  <2>1. PICK e \in Errors :
          /\ pc[c] \in Attempting
          /\ pc[c] = "broadcasting" => e = "SubmitError"
          /\ CatchFailure(c, e)
          /\ ledger' = ledger
    BY <1>2 DEF SigningFails, PeerFails, OrdererSetupFails, ProposalDeadline, NoOrderer,
       RediscoveryFails, BroadcastFails, Attempting, Submitting, Errors, Untagged,
       KnownNonRetryable, netVars
  <2> QED
    BY <2>1, FailureMapsToOnce
<1>3. ASSUME NEW c \in Calls, NEW r \in DiscoveryResults, RediscoveryAnswers(c, r)
      PROVE  [Once!Next]_Once!vars
  <2>1. pc[c] = "rediscovering" /\ "ConfigurationError" \in Errors /\ pc[c] \in Attempting
    BY <1>3 DEF RediscoveryAnswers, Errors, Attempting, Submitting
  <2>2. CASE WriteEnvelope(c)
    BY <1>0, <2>1, <2>2, CallStepMapsToOnce DEF WriteEnvelope, Goto
  <2>3. CASE CatchFailure(c, "ConfigurationError") /\ UNCHANGED netVars
    BY <2>1, <2>3, FailureMapsToOnce DEF netVars
  <2> QED
    BY <1>3, <2>2, <2>3 DEF RediscoveryAnswers
<1>4. ASSUME NEW t \in envelopes, OrdererAccepts(t) PROVE [Once!Next]_Once!vars
  BY <1>4, OrdererMapsToOnce
<1>5. CASE UNCHANGED <<pc, outcome, ledger>>
  BY <1>5 DEF Verdict, Once!vars
<1>6. ASSUME Environment, \A t \in envelopes : ~OrdererAccepts(t)
      PROVE  UNCHANGED <<pc, outcome, ledger>>
  BY <1>6 DEF Environment, Disconnect, EntryExpires, OtherFlowDiscovers, callVars, netVars
<1> QED
  BY <1>1, <1>2, <1>3, <1>4, <1>5, <1>6
     DEF Next, ClientStep, RemoteStep, vars, callVars, netVars

(* For every instance a submit keeps what SubmitOnce promises: at most one  *)
(* transaction of a call is ordered, "ok" is said of an ordered one, and an *)
(* error other than SubmitError means that nothing is ordered, nor will be. *)
THEOREM SinglePeerImplementsSubmitOnce == Spec => ImplementsSubmitOnce
BY InitIInv, InitMapsToOnce, NextMapsToOnce, Invariance, PTL
   DEF Spec, ImplementsSubmitOnce, Once!Spec

-----------------------------------------------------------------------------
(* Round-robin.  The counter of a peer list always says whose turn it is,   *)
(* whichever calls drew from it and whenever it was reset.                  *)
TurnInv ==
  \A ch \in Channels, s \in PeerLists : InLap(counters[<<ch, s>>], turns[<<ch, s>>], s)

(* What a list of discovered peers is.                                      *)
LEMMA PeerListFacts ==
  ASSUME NEW s \in PeerLists
  PROVE  s \in Seq(Peers) /\ s # <<>> /\ Len(s) \in Nat \ {0} /\ NoRepeats(s)
BY DiscoveryAssumption DEF PeerLists

(* A call that selects takes the turn the counter names.                    *)
LEMMA SelectKeepsTurnInv ==
  ASSUME IInv, TurnInv, NEW c \in Calls, Select(c)
  PROVE  TurnInv'
<1>0. PICK ch \in Channels, s \in PeerLists : ch = channel[c] /\ s = plan[c]
  BY DEF IInv, TypeOK, CallTypeOK, PlanInv, PlanOK, Select
<1> DEFINE key == <<ch, s>>
<1>1. /\ counters \in [Keys -> Nat] /\ key \in Keys
      /\ turns \in [Channels \X PeerLists -> [Peers -> Nat]]
  BY DEF IInv, TypeOK, CacheTypeOK, Keys, RoundRobinKey
<1>2. PICK k \in Nat : k = counters[key]
  BY <1>1
<1>3. PICK first : first = RotateFrom(s, k % Len(s))[1]
  OBVIOUS
<1>4. /\ turns[key] \in [Peers -> Nat]
      /\ InLap(k, turns[key], s)
  BY <1>1, <1>2 DEF TurnInv
<1>5. first \in Peers /\ InLap((k + 1) % Len(s), [turns[key] EXCEPT ![first] = @ + 1], s)
  BY <1>3, <1>4, PeerListFacts, NextTurnIsInLap
<1>6. PICK next : next = (k + 1) % Len(s)
  OBVIOUS
<1>7. /\ counters' = [counters EXCEPT ![key] = next]
      /\ turns' = [turns EXCEPT ![key][first] = @ + 1]
  BY <1>0, <1>2, <1>3, <1>6 DEF Select, AdvanceRoundRobin, RoundRobinKey, RoundRobinIndex
<1>8. ASSUME NEW d \in Channels, NEW r \in PeerLists
      PROVE  InLap(counters'[<<d, r>>], turns'[<<d, r>>], r)
  <2>1. <<d, r>> \in Keys /\ <<d, r>> \in Channels \X PeerLists /\ key \in Channels \X PeerLists
    BY DEF Keys, RoundRobinKey
  <2>2. CASE <<d, r>> = key
    <3>1. r = s
      BY <2>2
    <3>2. counters'[<<d, r>>] = next
      BY <1>1, <1>7, <2>2
    <3>3. turns'[<<d, r>>] = [turns[key] EXCEPT ![first] = @ + 1]
      BY <1>1, <1>7, <2>1, <2>2
    <3> QED
      BY <1>5, <1>6, <3>1, <3>2, <3>3
  <2>3. CASE <<d, r>> # key
    BY <1>1, <1>7, <2>1, <2>3 DEF TurnInv
  <2> QED
    BY <2>2, <2>3
<1> QED
  BY <1>8 DEF TurnInv

(* Every step keeps the turns.                                              *)
LEMMA NextKeepsTurnInv == IInv /\ TurnInv /\ [Next]_vars => TurnInv'
<1> SUFFICES ASSUME IInv, TurnInv, [Next]_vars PROVE TurnInv'
  OBVIOUS
<1>1. CASE \E c \in Calls : Select(c)
  BY <1>1, SelectKeepsTurnInv
<1>2. CASE Disconnect
  <2> SUFFICES ASSUME NEW ch \in Channels, NEW s \in PeerLists
               PROVE  InLap(counters'[<<ch, s>>], turns'[<<ch, s>>], s)
    BY DEF TurnInv
  <2>1. counters'[<<ch, s>>] = 0 /\ turns'[<<ch, s>>] = [p \in Peers |-> 0]
    BY <1>2 DEF Disconnect, CacheClear, NoTurns, Keys, RoundRobinKey
  <2> QED
    BY <2>1, FreshTurnsAreInLap, PeerListFacts
<1>3. CASE UNCHANGED <<counters, turns>>
  BY <1>3 DEF TurnInv
<1>4. ASSUME NEW c \in Calls,
             \/ StartFromCache(c) \/ StartDiscovery(c) \/ SendProposal(c) \/ SignTransaction(c)
             \/ Broadcast(c) \/ NoOrderer(c) \/ Rediscover(c) \/ DiscoveryFails(c)
             \/ ProposalDeadline(c) \/ RediscoveryFails(c) \/ BroadcastFails(c)
             \/ PeerEndorses(c) \/ BroadcastSucceeds(c)
             \/ \E e \in Errors : SigningFails(c, e) \/ PeerFails(c, e) \/ OrdererSetupFails(c, e)
             \/ \E r \in DiscoveryResults : DiscoveryAnswers(c, r) \/ RediscoveryAnswers(c, r)
      PROVE  UNCHANGED <<counters, turns>>
  BY <1>4 DEF StartFromCache, StartDiscovery, SendProposal, SignTransaction, Broadcast, NoOrderer,
     Rediscover, DiscoveryFails, ProposalDeadline, RediscoveryFails, BroadcastFails, PeerEndorses,
     BroadcastSucceeds, SigningFails, PeerFails, OrdererSetupFails, DiscoveryAnswers,
     RediscoveryAnswers, CatchFailure, WriteEnvelope, CacheSet, cacheVars
<1>5. ASSUME Environment, ~Disconnect PROVE UNCHANGED <<counters, turns>>
  BY <1>5 DEF Environment, OrdererAccepts, EntryExpires, OtherFlowDiscovers, Expire, CacheSet,
     cacheVars
<1> QED
  BY <1>1, <1>2, <1>3, <1>4, <1>5 DEF Next, Start, ClientStep, RemoteStep, vars, cacheVars

(* Round-robin is fair for every number of calls, peers and channels: no    *)
(* peer of a list is first choice twice before another was once, in any     *)
(* interleaving of calls and disconnects.                                   *)
THEOREM TurnsAreFair == Spec => []RoundRobinIsFair
<1>1. Init => TurnInv
  <2> SUFFICES ASSUME Init, NEW ch \in Channels, NEW s \in PeerLists
               PROVE  InLap(counters[<<ch, s>>], turns[<<ch, s>>], s)
    BY DEF TurnInv
  <2>1. counters[<<ch, s>>] = 0 /\ turns[<<ch, s>>] = [p \in Peers |-> 0]
    BY DEF Init, CacheInit, NoTurns, Keys, RoundRobinKey
  <2> QED
    BY <2>1, FreshTurnsAreInLap, PeerListFacts
<1>2. IInv /\ TurnInv => RoundRobinIsFair
  <2> SUFFICES ASSUME IInv, TurnInv, NEW ch \in Channels, NEW s \in PeerLists,
                      NEW i \in DOMAIN s, NEW j \in DOMAIN s
               PROVE  turns[<<ch, s>>][s[i]] <= turns[<<ch, s>>][s[j]] + 1
    BY DEF RoundRobinIsFair
  <2>1. InLap(counters[<<ch, s>>], turns[<<ch, s>>], s) /\ turns[<<ch, s>>] \in [Peers -> Nat]
    BY DEF TurnInv, IInv, TypeOK
  <2>2. i \in 1..Len(s) /\ j \in 1..Len(s) /\ s \in Seq(Peers) /\ s # <<>>
    BY PeerListFacts
  <2> QED
    BY <2>1, <2>2, LapsAreFair
<1> QED
  BY <1>1, <1>2, NextKeepsTurnInv, Invariance, PTL DEF Spec

-----------------------------------------------------------------------------
(* Failures.  The errors a call has collected are those of its attempts so  *)
(* far, in the order of its plan; only the last one may be final.           *)
FailureOK(c) ==
  /\ \A i \in 1..Len(failures[c]) : failures[c][i].peer = plan[c][i]
  /\ pc[c] # "done" => Len(failures[c]) = IF attempt[c] = 0 THEN 0 ELSE attempt[c] - 1
  /\ \A i \in 1..Len(failures[c]) :
       failures[c][i].category # "unreachable" =>
         /\ i = Len(failures[c])
         /\ pc[c] = "done"
         /\ outcome[c] # "SinglePeerExecutionError"
  /\ outcome[c] = "SinglePeerExecutionError" =>
       pc[c] = "done" /\ Len(failures[c]) = Len(plan[c])

FailureInv == \A c \in Calls : FailureOK(c)

(* A step of one call that adds no error to it and does not end it as an    *)
(* exhausted failover.                                                      *)
LEMMA QuietStepKeepsFailures ==
  ASSUME NEW c \in Calls, FailureOK(c),
         pc[c] # "done", failures'[c] = failures[c],
         outcome'[c] # "SinglePeerExecutionError",
         \/ plan'[c] = plan[c] /\ attempt'[c] = attempt[c]
         \/ attempt[c] = 0 /\ attempt'[c] \in {0, 1}
  PROVE  FailureOK(c)'
BY DEF FailureOK

(* A failed attempt adds its own error, for its own peer.                   *)
LEMMA CatchFailureKeepsFailures ==
  ASSUME CallTypeOK, NEW c \in Calls, FailureOK(c), NEW e,
         pc[c] # "done", attempt[c] # 0, outcome[c] # "SinglePeerExecutionError",
         MapError(c, e) # "SinglePeerExecutionError",
         CatchFailure(c, e)
  PROVE  FailureOK(c)'
<1> DEFINE f == failures[c]
           failed == [peer |-> plan[c][attempt[c]], category |-> ClassifyFailover(e)]
           g == Append(f, failed)
<1>1. failures'[c] = g /\ plan'[c] = plan[c]
  BY DEF CatchFailure, CallTypeOK
<1>2. /\ f \in Seq([peer: Peers, category: Categories])
      /\ attempt[c] \in Nat
  BY DEF CallTypeOK
<1>3. /\ Len(f) \in Nat /\ Len(g) = Len(f) + 1 /\ g[Len(f) + 1] = failed
      /\ \A i \in 1..Len(f) : g[i] = f[i]
  BY <1>2
<1>4. /\ failed.peer = plan[c][attempt[c]]
      /\ failed.category # "unreachable" <=> ~Eligible(ClassifyFailover(e))
  BY DEF Eligible
<1>5. /\ Len(f) + 1 = attempt[c]
      /\ \A i \in 1..Len(f) : f[i].peer = plan[c][i] /\ f[i].category = "unreachable"
  BY <1>2 DEF FailureOK
<1> HIDE DEF f, g, failed
<1>6. \A i \in 1..Len(g) : i \in 1..Len(f) \/ i = Len(f) + 1
  BY <1>3
<1>7. \A i \in 1..Len(g) : g[i].peer = plan[c][i]
  BY <1>3, <1>4, <1>5, <1>6
<1>8. \A i \in 1..Len(g) :
        g[i].category # "unreachable" => i = Len(g) /\ ~Eligible(ClassifyFailover(e))
  BY <1>3, <1>4, <1>5, <1>6
<1>9. \/ /\ ~Eligible(ClassifyFailover(e))
         /\ pc'[c] = "done" /\ outcome'[c] # "SinglePeerExecutionError"
      \/ /\ Eligible(ClassifyFailover(e)) /\ attempt[c] = Len(plan[c])
         /\ pc'[c] = "done"
      \/ /\ Eligible(ClassifyFailover(e))
         /\ attempt'[c] = attempt[c] + 1
         /\ outcome'[c] = outcome[c]
  BY DEF CatchFailure, Finish, Goto, CallTypeOK
<1> QED
  BY <1>1, <1>2, <1>3, <1>5, <1>7, <1>8, <1>9 DEF FailureOK

(* Every step keeps what is said of the collected errors.                   *)
LEMMA NextKeepsFailureInv == IInv /\ FailureInv /\ [Next]_vars => FailureInv'
<1> SUFFICES ASSUME IInv, FailureInv, [Next]_vars PROVE FailureInv'
  OBVIOUS
<1>0. CallTypeOK
  BY DEF IInv, TypeOK
<1>1. CASE UNCHANGED callVars
  BY <1>1 DEF FailureInv, FailureOK, callVars
<1>2. ASSUME NEW c \in Calls, FailureOK(c)',
             \A d \in Calls \ {c} :
               /\ pc'[d] = pc[d] /\ plan'[d] = plan[d] /\ attempt'[d] = attempt[d]
               /\ failures'[d] = failures[d] /\ outcome'[d] = outcome[d]
      PROVE  FailureInv'
  <2>1. ASSUME NEW d \in Calls \ {c} PROVE FailureOK(d)'
    BY <1>2, <2>1 DEF FailureInv, FailureOK
  <2> QED
    BY <1>2, <2>1 DEF FailureInv
<1>3. ASSUME NEW c \in Calls,
             \/ Start(c) \/ DiscoveryFails(c) \/ Select(c) \/ SendProposal(c)
             \/ SignTransaction(c) \/ Broadcast(c) \/ Rediscover(c)
             \/ PeerEndorses(c) \/ BroadcastSucceeds(c)
             \/ \E r \in DiscoveryResults :
                  \/ DiscoveryAnswers(c, r)
                  \/ pc[c] = "rediscovering" /\ WriteEnvelope(c)
      PROVE  FailureInv'
  <2>1. /\ pc[c] # "done" /\ failures' = failures
        /\ pc[c] \in BeforeAttempts => attempt[c] = 0
        /\ outcome[c] = "none"
    BY <1>3 DEF IInv, PlanInv, PlanOK, StageInv, Start, StartFromCache, StartDiscovery,
       DiscoveryFails, DiscoveryAnswers, Select, SendProposal, SignTransaction, Broadcast,
       WriteEnvelope, Rediscover, PeerEndorses, BroadcastSucceeds
  <2>2. /\ outcome'[c] # "SinglePeerExecutionError"
        /\ \/ plan'[c] = plan[c] /\ attempt'[c] = attempt[c]
           \/ attempt[c] = 0 /\ attempt'[c] \in {0, 1}
        /\ \A d \in Calls \ {c} :
             /\ pc'[d] = pc[d] /\ plan'[d] = plan[d] /\ attempt'[d] = attempt[d]
             /\ outcome'[d] = outcome[d]
    BY <1>0, <1>3, <2>1 DEF CallTypeOK, Start, StartFromCache, StartDiscovery, DiscoveryFails,
       DiscoveryAnswers, Select, SendProposal, SignTransaction, Broadcast, WriteEnvelope,
       Rediscover, PeerEndorses, BroadcastSucceeds, Goto, Finish, BeforeAttempts
  <2> QED
    BY <1>2, <2>1, <2>2, QuietStepKeepsFailures DEF FailureInv
<1>4. ASSUME NEW c \in Calls, NEW e \in Errors, pc[c] \in Attempting, CatchFailure(c, e)
      PROVE  FailureInv'
  <2>1. /\ pc[c] # "done" /\ attempt[c] # 0 /\ outcome[c] # "SinglePeerExecutionError"
    BY <1>4 DEF IInv, PlanInv, PlanOK, StageInv, Attempting, Submitting
  <2>2. MapError(c, e) # "SinglePeerExecutionError"
    BY DEF MapError, MapSubmitError, MapEvaluateError, Errors, Untagged, KnownNonRetryable
  <2>3. \A d \in Calls \ {c} :
          /\ pc'[d] = pc[d] /\ plan'[d] = plan[d] /\ attempt'[d] = attempt[d]
          /\ failures'[d] = failures[d] /\ outcome'[d] = outcome[d]
    BY <1>0, <1>4 DEF CallTypeOK, CatchFailure, Goto, Finish
  <2> QED
    BY <1>0, <1>2, <1>4, <2>1, <2>2, <2>3, CatchFailureKeepsFailures DEF FailureInv
<1>5. ASSUME NEW c \in Calls,
             \/ \E e \in Errors : SigningFails(c, e) \/ PeerFails(c, e) \/ OrdererSetupFails(c, e)
             \/ ProposalDeadline(c) \/ NoOrderer(c) \/ RediscoveryFails(c) \/ BroadcastFails(c)
             \/ \E r \in DiscoveryResults : RediscoveryAnswers(c, r) /\ ~WriteEnvelope(c)
      PROVE  FailureInv'
  <2>1. \E e \in Errors : pc[c] \in Attempting /\ CatchFailure(c, e)
    BY <1>5 DEF SigningFails, PeerFails, OrdererSetupFails, ProposalDeadline, NoOrderer,
       RediscoveryFails, RediscoveryAnswers, BroadcastFails, Attempting, Submitting, Errors,
       Untagged, KnownNonRetryable
  <2> QED
    BY <1>4, <2>1
<1>6. CASE Environment
  BY <1>1, <1>6 DEF Environment, OrdererAccepts, Disconnect, EntryExpires, OtherFlowDiscovers
<1>7. ASSUME NEW c \in Calls, Start(c) \/ ClientStep(c) \/ RemoteStep(c)
      PROVE  FailureInv'
  BY <1>3, <1>5, <1>7 DEF ClientStep, RemoteStep, RediscoveryAnswers
<1> QED
  BY <1>1, <1>6, <1>7 DEF Next, vars

(* The collected errors follow the plan in every reachable state.           *)
LEMMA FailuresFollowThePlan == Spec => []FailureInv
<1>1. Init => FailureInv
  BY DEF Init, FailureInv, FailureOK
<1> QED
  BY <1>1, NextKeepsFailureInv, Invariance, PTL DEF Spec

(* SinglePeerExecutionError means that every peer of the plan was tried and *)
(* failed for a reason another peer might not have, for any plan.           *)
THEOREM ExhaustedCallsTriedAll == Spec => []ExhaustionIsComplete
<1>1. IInv /\ FailureInv => ExhaustionIsComplete
  <2> SUFFICES ASSUME IInv, FailureInv, NEW c \in Calls,
                      outcome[c] = "SinglePeerExecutionError"
               PROVE  /\ TriedPeers(c) = PeersOf(plan[c])
                      /\ \A i \in DOMAIN failures[c] : failures[c][i].category = "unreachable"
    BY DEF ExhaustionIsComplete
  <2>1. DOMAIN failures[c] = 1..Len(failures[c]) /\ DOMAIN plan[c] = 1..Len(plan[c])
    BY DEF IInv, TypeOK, CallTypeOK
  <2>2. /\ DOMAIN failures[c] = DOMAIN plan[c]
        /\ \A i \in DOMAIN plan[c] : failures[c][i].peer = plan[c][i]
        /\ \A i \in DOMAIN failures[c] : failures[c][i].category = "unreachable"
    BY <2>1 DEF FailureInv, FailureOK
  <2> QED
    BY <2>2 DEF TriedPeers, PeersOf
<1> QED
  BY <1>1, Invariance, FailuresFollowThePlan, PTL

(* A refusal ends the call at once and with its own error, wherever in the  *)
(* plan it comes (isEligibleForFailover, executeSinglePeer).                *)
THEOREM RefusalEndsTheCall == Spec => []NoFailoverAfterRefusal
<1>1. IInv /\ FailureInv => NoFailoverAfterRefusal
  <2>1. ASSUME IInv, NEW c \in Calls PROVE DOMAIN failures[c] = 1..Len(failures[c])
    BY <2>1 DEF IInv, TypeOK, CallTypeOK
  <2> QED
    BY <2>1 DEF FailureInv, FailureOK, NoFailoverAfterRefusal
<1> QED
  BY <1>1, Invariance, FailuresFollowThePlan, PTL

=============================================================================
