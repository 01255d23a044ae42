--------------------- MODULE ExplicitEndorsementProofs ---------------------
(***************************************************************************)
(* Proofs about ExplicitEndorsement, for every set of calls, channels,      *)
(* peers, payloads and discovery results.                                   *)
(***************************************************************************)
EXTENDS ExplicitEndorsement, TLAPS

-----------------------------------------------------------------------------
(* The inductive invariant.                                                 *)

Untargeted == {"idle", "discovering", "targeting"}

Submitting == {"endorsed", "resolving", "rediscovering", "broadcasting"}

Targeted == Submitting \cup {"signing", "endorsing"}

(* All named peers signed the payload the call assembled.                   *)
Agreed(c) == \A p \in named[c] : <<c, p, assembled[c]>> \in signed

(* Which peers a call asks, and which it may.                               *)
TargetOK(c) ==
  /\ pc[c] \in Untargeted \cup {"signing"} => Asked(c) = {}
  /\ Asked(c) \in {{}, named[c]}
  /\ pc[c] \in Targeted \/ Asked(c) # {} => named[c] \subseteq discovered[channel[c]]
  /\ pc[c] = "targeting" =>
       /\ listing[c] \in DiscoveryResults
       /\ PeersOf(listing[c].peers) \subseteq discovered[channel[c]]

(* What a call has in hand where it stands.                                 *)
StageOK(c) ==
  /\ pc[c] \in Submitting => c \in SubmitCalls /\ assembled[c] \in Payloads /\ Agreed(c)
  /\ pc[c] = "broadcasting" => Envelope(c) \in envelopes
  /\ pc[c] # "done" <=> outcome[c] = "none"
  /\ outcome[c] = "ok" => Agreed(c) /\ (c \in SubmitCalls => Envelope(c) \in ledger)

(* An answer is what its peer has signed.                                   *)
AnswersOK(c) ==
  \A p \in Peers : answers[c][p] \in Payloads => <<c, p, answers[c][p]>> \in signed

CallOK(c) == TargetOK(c) /\ StageOK(c) /\ AnswersOK(c)

(* What was broadcast is the transaction of a call that does no more than   *)
(* wait for the orderer.                                                    *)
EnvelopeOK(e) ==
  /\ e.call \in SubmitCalls
  /\ e = Envelope(e.call)
  /\ Agreed(e.call)
  /\ pc[e.call] \in {"broadcasting", "done"}
  /\ outcome[e.call] \in {"none", "ok", "SubmitError"}

CallInv ==
  /\ CallTypeOK
  /\ NetTypeOK
  /\ \A c \in Calls : CallOK(c)
  /\ \A e \in envelopes : EnvelopeOK(e)

(* The cache of a channel names only peers discovered for it.               *)
CacheInv ==
  /\ CacheTypeOK
  /\ discovered \in [Channels -> SUBSET Peers]
  /\ \A ch \in Channels :
       cache[ch] # NoResult => PeersOf(cache[ch].peers) \subseteq discovered[ch]

IInv == CacheInv /\ CallInv

(* Discovery adds to what is known and never takes away.                    *)
Grows == \A ch \in Channels : discovered[ch] \subseteq discovered'[ch]

-----------------------------------------------------------------------------
(* A step of one call.                                                      *)

Frame(c) ==
  /\ UNCHANGED <<channel, named>>
  /\ \A d \in Calls \ {c} :
       /\ pc'[d] = pc[d]
       /\ listing'[d] = listing[d]
       /\ answers'[d] = answers[d]
       /\ assembled'[d] = assembled[d]
       /\ outcome'[d] = outcome[d]
  /\ signed \subseteq signed'
  /\ envelopes \subseteq envelopes'
  /\ ledger \subseteq ledger'

(* It is enough to look at the call that steps.                             *)
LEMMA StepKeepsCallInv ==
  ASSUME CallInv, Grows, NEW c \in Calls, Frame(c),
         CallTypeOK', NetTypeOK', CallOK(c)',
         \A e \in envelopes' : e \in envelopes \/ e.call = c,
         \A e \in envelopes' : e.call = c => EnvelopeOK(e)'
  PROVE  CallInv'
<1>1. ASSUME NEW d \in Calls, d # c PROVE CallOK(d)'
  <2>1. /\ channel[d] \in Channels /\ discovered[channel[d]] \subseteq discovered'[channel[d]]
        /\ TargetOK(d) /\ StageOK(d) /\ AnswersOK(d)
    BY <1>1 DEF CallInv, CallTypeOK, Grows, CallOK
  <2>2. /\ UNCHANGED <<channel[d], named[d], pc[d], listing[d], answers[d], assembled[d],
                       outcome[d]>>
        /\ signed \subseteq signed' /\ envelopes \subseteq envelopes' /\ ledger \subseteq ledger'
    BY <1>1 DEF Frame
  <2>3. TargetOK(d)'
    BY <2>1, <2>2 DEF TargetOK, Asked, Untargeted, Targeted, Submitting
  <2>4. StageOK(d)'
    BY <2>1, <2>2 DEF StageOK, Agreed, Envelope
  <2>5. AnswersOK(d)'
    BY <2>1, <2>2 DEF AnswersOK
  <2> QED
    BY <2>3, <2>4, <2>5 DEF CallOK
<1>2. ASSUME NEW e \in envelopes', e.call # c PROVE EnvelopeOK(e)'
  <2>1. e \in envelopes /\ EnvelopeOK(e)
    BY <1>2 DEF CallInv
  <2>2. e.call \in Calls \ {c}
    BY <1>2, <2>1 DEF EnvelopeOK, Calls
  <2> QED
    BY <2>1, <2>2 DEF EnvelopeOK, Envelope, Agreed, Frame
<1> QED
  BY <1>1, <1>2 DEF CallInv

(* A call that fails keeps what it has; only after a broadcast it must say  *)
(* that it is unsure.                                                       *)
LEMMA ThrowKeepsCallInv ==
  ASSUME CallInv, Grows, NEW c \in Calls, NEW e \in Errors,
         pc[c] \notin {"idle", "done"},
         pc[c] = "broadcasting" => e = "SubmitError",
         Throw(c, e),
         \/ UNCHANGED answers
         \/ \E p \in Peers : answers[c][p] = Pending /\ Settle(c, p, Failed),
         UNCHANGED netVars
  PROVE  CallInv'
<1>1. /\ MapError(c, e) \in Outcomes \ {"none", "ok"}
      /\ e = "SubmitError" /\ c \in SubmitCalls => MapError(c, e) = "SubmitError"
  BY DEF MapError, MapSubmitError, MapEvaluateError, Outcomes, Errors, Named, Untagged
<1>2. /\ pc' = [pc EXCEPT ![c] = "done"]
      /\ outcome' = [outcome EXCEPT ![c] = MapError(c, e)]
      /\ UNCHANGED <<channel, named, listing, assembled, signed, envelopes, ledger>>
  BY DEF Throw, Finish, Goto, netVars
<1>3. /\ answers' \in [Calls -> [Peers -> Answers]]
      /\ \A d \in Calls \ {c} : answers'[d] = answers[d]
      /\ \A p \in Peers : answers'[c][p] = answers[c][p] \/ (answers[c][p] = Pending /\ answers'[c][p] = Failed)
  <2>1. CASE UNCHANGED answers
    BY <2>1 DEF CallInv, CallTypeOK
  <2>2. ASSUME NEW p \in Peers, answers[c][p] = Pending, Settle(c, p, Failed)
        PROVE  <1>3!:
    BY <2>2 DEF CallInv, CallTypeOK, Settle, Answers
  <2> QED
    BY <2>1, <2>2
<1>4. CallTypeOK' /\ NetTypeOK'
  BY <1>1, <1>2, <1>3 DEF CallInv, CallTypeOK, NetTypeOK, Stages
<1>5. Asked(c)' = Asked(c)
  BY <1>3 DEF Asked, Pending, Failed, NotAsked
<1>6. CallOK(c)'
  <2>1. TargetOK(c) /\ StageOK(c) /\ AnswersOK(c) /\ channel[c] \in Channels
        /\ discovered[channel[c]] \subseteq discovered'[channel[c]] /\ pc'[c] = "done"
        /\ outcome'[c] \notin {"none", "ok"}
    BY <1>1, <1>2 DEF CallInv, CallTypeOK, CallOK, Grows
  <2>2. TargetOK(c)'
    BY <1>2, <1>5, <2>1 DEF TargetOK, Untargeted, Targeted, Submitting
  <2>3. StageOK(c)'
    BY <2>1 DEF StageOK, Submitting
  <2>4. AnswersOK(c)'
    BY <1>2, <1>3, <2>1, PayloadsAssumption DEF AnswersOK, Failed
  <2> QED
    BY <2>2, <2>3, <2>4 DEF CallOK
<1>7. ASSUME NEW x \in envelopes', x.call = c PROVE EnvelopeOK(x)'
  BY <1>1, <1>2, <1>7 DEF CallInv, CallTypeOK, EnvelopeOK, Envelope, Agreed
<1>8. Frame(c)
  BY <1>2, <1>3 DEF Frame, CallInv, CallTypeOK
<1> QED
  BY <1>2, <1>4, <1>6, <1>7, <1>8, StepKeepsCallInv

(* A call that moves on with nothing new in hand.                           *)
LEMMA MoveKeepsCallInv ==
  ASSUME CallInv, Grows, NEW c \in Calls, NEW stage,
         <<pc[c], stage>> \in {<<"idle", "discovering">>, <<"endorsed", "resolving">>,
                              <<"resolving", "rediscovering">>},
         Goto(c, stage),
         UNCHANGED <<channel, named, listing, answers, assembled, outcome, netVars>>
  PROVE  CallInv'
<1>1. /\ pc' = [pc EXCEPT ![c] = stage] /\ stage \in Stages \ {"done"} /\ pc[c] # "done"
      /\ UNCHANGED <<signed, envelopes, ledger>>
  BY DEF Goto, Stages, netVars
<1>2. CallTypeOK' /\ NetTypeOK'
  BY <1>1 DEF CallInv, CallTypeOK, NetTypeOK
<1>3. CallOK(c)'
  <2>1. /\ TargetOK(c) /\ StageOK(c) /\ AnswersOK(c) /\ channel[c] \in Channels
        /\ discovered[channel[c]] \subseteq discovered'[channel[c]] /\ pc'[c] = stage
    BY <1>1 DEF CallInv, CallTypeOK, CallOK, Grows
  <2>2. TargetOK(c)'
    BY <1>1, <2>1 DEF TargetOK, Asked, Untargeted, Targeted, Submitting
  <2>3. StageOK(c)' /\ AnswersOK(c)'
    BY <1>1, <2>1 DEF StageOK, AnswersOK, Agreed, Envelope, Submitting
  <2> QED
    BY <2>2, <2>3 DEF CallOK
<1>4. ASSUME NEW x \in envelopes', x.call = c PROVE FALSE
  BY <1>1, <1>4 DEF CallInv, EnvelopeOK
<1>5. Frame(c)
  BY <1>1 DEF Frame, CallInv, CallTypeOK
<1> QED
  BY <1>1, <1>2, <1>3, <1>4, <1>5, StepKeepsCallInv

(* Taking a discovery result to look the named peers up in.                 *)
LEMMA ListingKeepsCallInv ==
  ASSUME CallInv, Grows, NEW c \in Calls, NEW r \in DiscoveryResults,
         pc[c] \in {"idle", "discovering"},
         PeersOf(r.peers) \subseteq discovered'[channel[c]],
         listing' = [listing EXCEPT ![c] = r],
         Goto(c, "targeting"),
         UNCHANGED <<channel, named, answers, assembled, outcome, netVars>>
  PROVE  CallInv'
<1>1. /\ pc' = [pc EXCEPT ![c] = "targeting"] /\ UNCHANGED <<signed, envelopes, ledger>>
  BY DEF Goto, netVars
<1>2. CallTypeOK' /\ NetTypeOK'
  BY <1>1 DEF CallInv, CallTypeOK, NetTypeOK, Stages
<1>3. CallOK(c)'
  <2>1. /\ TargetOK(c) /\ StageOK(c) /\ AnswersOK(c) /\ channel[c] \in Channels
        /\ pc'[c] = "targeting" /\ listing'[c] = r
    BY <1>1 DEF CallInv, CallTypeOK, CallOK
  <2>2. TargetOK(c)'
    BY <1>1, <2>1 DEF TargetOK, Asked, Untargeted, Targeted, Submitting
  <2>3. StageOK(c)' /\ AnswersOK(c)'
    BY <1>1, <2>1 DEF StageOK, AnswersOK, Agreed, Envelope, Submitting
  <2> QED
    BY <2>2, <2>3 DEF CallOK
<1>4. ASSUME NEW x \in envelopes', x.call = c PROVE FALSE
  BY <1>1, <1>4 DEF CallInv, EnvelopeOK
<1>5. Frame(c)
  BY <1>1 DEF Frame, CallInv, CallTypeOK
<1> QED
  BY <1>1, <1>2, <1>3, <1>4, <1>5, StepKeepsCallInv

(* All the named peers were discovered, or the call ends.                   *)
LEMMA TargetKeepsCallInv ==
  ASSUME CallInv, Grows, NEW c \in Calls, Target(c)
  PROVE  CallInv'
<1>1. /\ pc[c] = "targeting"
      /\ listing' = [listing EXCEPT ![c] = NoResult]
      /\ UNCHANGED <<channel, named, answers, assembled, signed, envelopes, ledger>>
      /\ \/ /\ named[c] \subseteq PeersOf(listing[c].peers)
            /\ pc' = [pc EXCEPT ![c] = "signing"]
            /\ UNCHANGED outcome
         \/ /\ pc' = [pc EXCEPT ![c] = "done"]
            /\ outcome' = [outcome EXCEPT ![c] = "PeerNotFoundError"]
  BY DEF Target, AllFound, Finish, Goto, netVars
<1>2. CallTypeOK' /\ NetTypeOK'
  BY <1>1 DEF CallInv, CallTypeOK, NetTypeOK, Stages, Outcomes, Named
<1>3. CallOK(c)'
  <2>1. /\ TargetOK(c) /\ StageOK(c) /\ AnswersOK(c) /\ channel[c] \in Channels
        /\ discovered[channel[c]] \subseteq discovered'[channel[c]]
    BY <1>1 DEF CallInv, CallTypeOK, CallOK, Grows
  <2>2. TargetOK(c)'
    BY <1>1, <2>1 DEF CallInv, CallTypeOK, TargetOK, Asked, Untargeted, Targeted, Submitting
  <2>3. StageOK(c)' /\ AnswersOK(c)'
    BY <1>1, <2>1 DEF CallInv, CallTypeOK, StageOK, AnswersOK, Agreed, Envelope, Submitting
  <2> QED
    BY <2>2, <2>3 DEF CallOK
<1>4. ASSUME NEW x \in envelopes', x.call = c PROVE FALSE
  BY <1>1, <1>4 DEF CallInv, EnvelopeOK
<1>5. Frame(c)
  BY <1>1 DEF Frame, CallInv, CallTypeOK
<1> QED
  BY <1>1, <1>2, <1>3, <1>4, <1>5, StepKeepsCallInv

(* The proposal goes to every named peer at once.                           *)
LEMMA SendProposalsKeepsCallInv ==
  ASSUME CallInv, Grows, NEW c \in Calls, SendProposals(c)
  PROVE  CallInv'
<1>1. /\ pc[c] = "signing"
      /\ pc' = [pc EXCEPT ![c] = "endorsing"]
      /\ answers' = [answers EXCEPT ![c] = [p \in Peers |-> IF p \in named[c] THEN Pending ELSE NotAsked]]
      /\ UNCHANGED <<channel, named, listing, assembled, outcome, signed, envelopes, ledger>>
  BY DEF SendProposals, Goto, netVars
<1>2. CallTypeOK' /\ NetTypeOK'
  BY <1>1 DEF CallInv, CallTypeOK, NetTypeOK, Stages, Answers
<1>3. CallOK(c)'
  <2>1. /\ TargetOK(c) /\ StageOK(c) /\ channel[c] \in Channels
        /\ discovered[channel[c]] \subseteq discovered'[channel[c]]
        /\ pc'[c] = "endorsing" /\ named[c] \subseteq Peers
    BY <1>1 DEF CallInv, CallTypeOK, CallOK, Grows
  <2>2. \A p \in Peers : answers'[c][p] = IF p \in named[c] THEN Pending ELSE NotAsked
    BY <1>1 DEF CallInv, CallTypeOK
  <2>3. Asked(c)' = named[c]
    BY <2>1, <2>2 DEF Asked, Pending, NotAsked
  <2>4. TargetOK(c)'
    BY <1>1, <2>1, <2>3 DEF TargetOK, Untargeted, Targeted, Submitting
  <2>5. StageOK(c)'
    BY <1>1, <2>1 DEF StageOK, Agreed, Envelope, Submitting
  <2>6. AnswersOK(c)'
    BY <2>2, PayloadsAssumption DEF AnswersOK
  <2> QED
    BY <2>4, <2>5, <2>6 DEF CallOK
<1>4. ASSUME NEW x \in envelopes', x.call = c PROVE FALSE
  BY <1>1, <1>4 DEF CallInv, EnvelopeOK
<1>5. Frame(c)
  BY <1>1 DEF Frame, CallInv, CallTypeOK
<1> QED
  BY <1>1, <1>2, <1>3, <1>4, <1>5, StepKeepsCallInv

(* An answer arrives, or fails to, and the call stays where it is.          *)
LEMMA AnswerKeepsCallInv ==
  ASSUME CallInv, Grows, NEW c \in Calls, NEW p \in Peers, NEW x \in Answers,
         answers[c][p] = Pending,
         Settle(c, p, x),
         x # NotAsked,
         signed \subseteq signed',
         signed' \subseteq Calls \X Peers \X Payloads,
         x \in Payloads => <<c, p, x>> \in signed',
         UNCHANGED <<pc, channel, named, listing, assembled, outcome, envelopes, ledger>>
  PROVE  CallInv'
<1>1. answers' = [answers EXCEPT ![c][p] = x]
  BY DEF Settle
<1>2. CallTypeOK' /\ NetTypeOK'
  BY <1>1 DEF CallInv, CallTypeOK, NetTypeOK, Answers
<1>3. CallOK(c)'
  <2>1. /\ TargetOK(c) /\ StageOK(c) /\ AnswersOK(c) /\ channel[c] \in Channels
        /\ discovered[channel[c]] \subseteq discovered'[channel[c]]
    BY DEF CallInv, CallTypeOK, CallOK, Grows
  <2>2. Asked(c)' = Asked(c)
    BY <1>1, PayloadsAssumption DEF CallInv, CallTypeOK, Asked, Pending, Failed, NotAsked
  <2>3. TargetOK(c)'
    BY <2>1, <2>2 DEF TargetOK, Untargeted, Targeted, Submitting
  <2>4. StageOK(c)'
    BY <1>1, <2>1 DEF StageOK, Agreed, Envelope, Submitting
  <2>5. AnswersOK(c)'
    BY <1>1, <2>1 DEF CallInv, CallTypeOK, AnswersOK
  <2> QED
    BY <2>3, <2>4, <2>5 DEF CallOK
<1>4. ASSUME NEW e \in envelopes', e.call = c PROVE EnvelopeOK(e)'
  BY <1>1, <1>4 DEF CallInv, EnvelopeOK, Envelope, Agreed
<1>5. Frame(c)
  BY <1>1 DEF Frame, CallInv, CallTypeOK
<1> QED
  BY <1>2, <1>3, <1>4, <1>5, StepKeepsCallInv

(* Building the transaction of equal answers, or returning their result.    *)
LEMMA AssembleKeepsCallInv ==
  ASSUME CallInv, Grows, NEW c \in Calls, NEW x \in Payloads, Assemble(c, x)
  PROVE  CallInv'
<1>1. /\ pc[c] = "endorsing"
      /\ \A p \in named[c] : answers[c][p] = x
      /\ assembled' = [assembled EXCEPT ![c] = x]
      /\ UNCHANGED <<channel, named, listing, answers, signed, envelopes, ledger>>
      /\ \/ /\ c \in SubmitCalls
            /\ pc' = [pc EXCEPT ![c] = "endorsed"]
            /\ UNCHANGED outcome
         \/ /\ c \notin SubmitCalls
            /\ pc' = [pc EXCEPT ![c] = "done"]
            /\ outcome' = [outcome EXCEPT ![c] = "ok"]
  BY DEF Assemble, SamePayload, Finish, Goto, netVars
<1>2. CallTypeOK' /\ NetTypeOK'
  BY <1>1 DEF CallInv, CallTypeOK, NetTypeOK, Stages, Outcomes
<1>3. CallOK(c)'
  <2>1. /\ TargetOK(c) /\ StageOK(c) /\ AnswersOK(c) /\ channel[c] \in Channels
        /\ discovered[channel[c]] \subseteq discovered'[channel[c]]
        /\ named[c] \subseteq Peers /\ assembled'[c] = x
    BY <1>1 DEF CallInv, CallTypeOK, CallOK, Grows
  <2>2. TargetOK(c)'
    BY <1>1, <2>1 DEF CallInv, CallTypeOK, TargetOK, Asked, Untargeted, Targeted, Submitting
  <2>3. Agreed(c)'
    BY <1>1, <2>1 DEF Agreed, AnswersOK
  <2>4. StageOK(c)'
    BY <1>1, <2>1, <2>3 DEF CallInv, CallTypeOK, StageOK, Submitting
  <2>5. AnswersOK(c)'
    BY <1>1, <2>1 DEF AnswersOK
  <2> QED
    BY <2>2, <2>4, <2>5 DEF CallOK
<1>4. ASSUME NEW e \in envelopes', e.call = c PROVE FALSE
  BY <1>1, <1>4 DEF CallInv, EnvelopeOK
<1>5. Frame(c)
  BY <1>1 DEF Frame, CallInv, CallTypeOK
<1> QED
  BY <1>1, <1>2, <1>3, <1>4, <1>5, StepKeepsCallInv

(* What is broadcast carries the payload all named peers signed.            *)
LEMMA WriteEnvelopeKeepsCallInv ==
  ASSUME CallInv, Grows, NEW c \in Calls, pc[c] \in {"resolving", "rediscovering"},
         WriteEnvelope(c), UNCHANGED answers
  PROVE  CallInv'
<1>1. /\ pc' = [pc EXCEPT ![c] = "broadcasting"]
      /\ envelopes' = envelopes \cup {Envelope(c)}
      /\ UNCHANGED <<channel, named, listing, answers, assembled, outcome, signed, ledger>>
  BY DEF WriteEnvelope, Goto
<1>2. c \in SubmitCalls /\ assembled[c] \in Payloads /\ Agreed(c) /\ outcome[c] = "none"
  BY DEF CallInv, CallOK, StageOK, Submitting
<1>3. CallTypeOK' /\ NetTypeOK'
  <2>1. Envelope(c) \in [call: Calls, payload: Payloads, endorsers: SUBSET Peers]
    BY <1>2 DEF CallInv, CallTypeOK, Envelope
  <2> QED
    BY <1>1, <2>1 DEF CallInv, CallTypeOK, NetTypeOK, Stages
<1>4. CallOK(c)'
  <2>1. /\ TargetOK(c) /\ StageOK(c) /\ AnswersOK(c) /\ channel[c] \in Channels
        /\ discovered[channel[c]] \subseteq discovered'[channel[c]]
        /\ pc'[c] = "broadcasting"
    BY <1>1 DEF CallInv, CallTypeOK, CallOK, Grows
  <2>2. TargetOK(c)'
    BY <1>1, <2>1 DEF TargetOK, Asked, Untargeted, Targeted, Submitting
  <2>3. StageOK(c)' /\ AnswersOK(c)'
    BY <1>1, <1>2, <2>1 DEF StageOK, AnswersOK, Agreed, Envelope, Submitting
  <2> QED
    BY <2>2, <2>3 DEF CallOK
<1>5. \A e \in envelopes : e.call # c
  BY DEF CallInv, EnvelopeOK
<1>6. ASSUME NEW e \in envelopes', e.call = c PROVE EnvelopeOK(e)'
  BY <1>1, <1>2, <1>5, <1>6 DEF CallInv, CallTypeOK, EnvelopeOK, Envelope, Agreed
<1>7. Frame(c)
  BY <1>1 DEF Frame, CallInv, CallTypeOK
<1>8. \A e \in envelopes' : e \in envelopes \/ e.call = c
  BY <1>1 DEF Envelope
<1> QED
  BY <1>3, <1>4, <1>6, <1>7, <1>8, StepKeepsCallInv

(* A call succeeds only with its transaction in the ledger.                 *)
LEMMA BroadcastSucceedsKeepsCallInv ==
  ASSUME CallInv, Grows, NEW c \in Calls, BroadcastSucceeds(c)
  PROVE  CallInv'
<1>1. /\ pc[c] = "broadcasting"
      /\ Envelope(c) \in ledger
      /\ pc' = [pc EXCEPT ![c] = "done"]
      /\ outcome' = [outcome EXCEPT ![c] = "ok"]
      /\ UNCHANGED <<channel, named, listing, answers, assembled, signed, envelopes, ledger>>
  BY DEF BroadcastSucceeds, Finish, Goto, netVars
<1>2. CallTypeOK' /\ NetTypeOK'
  BY <1>1 DEF CallInv, CallTypeOK, NetTypeOK, Stages, Outcomes
<1>3. CallOK(c)'
  <2>1. /\ TargetOK(c) /\ StageOK(c) /\ AnswersOK(c) /\ channel[c] \in Channels
        /\ discovered[channel[c]] \subseteq discovered'[channel[c]]
        /\ pc'[c] = "done" /\ outcome'[c] = "ok"
    BY <1>1 DEF CallInv, CallTypeOK, CallOK, Grows
  <2>2. TargetOK(c)'
    BY <1>1, <2>1 DEF TargetOK, Asked, Untargeted, Targeted, Submitting
  <2>3. StageOK(c)' /\ AnswersOK(c)'
    BY <1>1, <2>1 DEF StageOK, AnswersOK, Agreed, Envelope, Submitting
  <2> QED
    BY <2>2, <2>3 DEF CallOK
<1>4. ASSUME NEW e \in envelopes', e.call = c PROVE EnvelopeOK(e)'
  BY <1>1, <1>4 DEF CallInv, CallTypeOK, EnvelopeOK, Envelope, Agreed
<1>5. Frame(c)
  BY <1>1 DEF Frame, CallInv, CallTypeOK
<1> QED
  BY <1>1, <1>2, <1>3, <1>4, <1>5, StepKeepsCallInv

(* What happens to the cache, whoever causes it.                            *)
LEMMA CacheInvIsKept ==
  ASSUME CacheInv
  PROVE  /\ \A ch \in Channels, r \in DiscoveryResults :
              Learn(ch, r) => CacheInv' /\ Grows /\ PeersOf(r.peers) \subseteq discovered'[ch]
         /\ CacheClear /\ UNCHANGED discovered => CacheInv' /\ Grows
         /\ UNCHANGED <<cacheVars, discovered>> => CacheInv' /\ Grows
<1>1. ASSUME NEW ch \in Channels, NEW r \in DiscoveryResults, Learn(ch, r)
      PROVE  CacheInv' /\ Grows /\ PeersOf(r.peers) \subseteq discovered'[ch]
  <2>1. PeersOf(r.peers) \subseteq Peers
    BY DiscoveryAssumption DEF PeersOf
  <2>2. /\ cache' = [cache EXCEPT ![ch] = r]
        /\ discovered' = [discovered EXCEPT ![ch] = @ \cup PeersOf(r.peers)]
    BY <1>1 DEF Learn, CacheSet
  <2>3. CacheTypeOK'
    BY <1>1 DEF Learn, CacheSet, CacheInv, CacheTypeOK
  <2>4. discovered' \in [Channels -> SUBSET Peers]
    BY <2>1, <2>2 DEF CacheInv
  <2>5. Grows /\ PeersOf(r.peers) \subseteq discovered'[ch]
    BY <2>2 DEF Grows, CacheInv
  <2>6. ASSUME NEW k \in Channels, cache'[k] # NoResult
        PROVE  PeersOf(cache'[k].peers) \subseteq discovered'[k]
    BY <2>2, <2>5, <2>6 DEF CacheInv, CacheTypeOK, Grows
  <2> QED
    BY <2>3, <2>4, <2>5, <2>6 DEF CacheInv, PeersOf
<1>2. ASSUME CacheClear, UNCHANGED discovered PROVE CacheInv' /\ Grows
  BY <1>2 DEF CacheClear, CacheInv, CacheTypeOK, Grows
<1>3. ASSUME UNCHANGED <<cacheVars, discovered>> PROVE CacheInv' /\ Grows
  BY <1>3 DEF cacheVars, CacheInv, CacheTypeOK, Grows, PeersOf
<1> QED
  BY <1>1, <1>2, <1>3

(* What the orderer accepts and what others learn leaves the calls alone.   *)
LEMMA WorldKeepsCallInv ==
  ASSUME CallInv, Grows,
         UNCHANGED <<callVars, signed, envelopes>>,
         ledger \subseteq ledger' /\ ledger' \subseteq envelopes
  PROVE  CallInv'
<1>1. UNCHANGED <<pc, channel, named, listing, answers, assembled, outcome, signed, envelopes>>
  BY DEF callVars
<1>2. CallTypeOK' /\ NetTypeOK'
  BY <1>1 DEF CallInv, CallTypeOK, NetTypeOK
<1>3. ASSUME NEW d \in Calls PROVE CallOK(d)'
  <2>1. /\ TargetOK(d) /\ StageOK(d) /\ AnswersOK(d) /\ channel[d] \in Channels
        /\ discovered[channel[d]] \subseteq discovered'[channel[d]]
    BY DEF CallInv, CallTypeOK, CallOK, Grows
  <2>2. TargetOK(d)'
    BY <1>1, <2>1 DEF TargetOK, Asked
  <2>3. StageOK(d)' /\ AnswersOK(d)'
    BY <1>1, <2>1 DEF StageOK, AnswersOK, Agreed, Envelope
  <2> QED
    BY <2>2, <2>3 DEF CallOK
<1>4. \A e \in envelopes' : EnvelopeOK(e)'
  BY <1>1 DEF CallInv, EnvelopeOK, Envelope, Agreed
<1> QED
  BY <1>2, <1>3, <1>4 DEF CallInv

-----------------------------------------------------------------------------
(* The invariant holds initially: nothing was asked or cached.              *)
LEMMA InitIInv == Init => IInv
<1> SUFFICES ASSUME Init PROVE IInv
  OBVIOUS
<1>1. CacheInv
  BY DEF Init, CacheInit, CacheInv, CacheTypeOK
<1>2. CallTypeOK /\ NetTypeOK
  BY DEF Init, CallTypeOK, NetTypeOK, Stages, Answers, Outcomes
<1>3. ASSUME NEW c \in Calls PROVE CallOK(c)
  <2>1. pc[c] = "idle" /\ outcome[c] = "none" /\ \A p \in Peers : answers[c][p] = NotAsked
    BY DEF Init
  <2>2. Asked(c) = {}
    BY <2>1 DEF Asked
  <2>3. TargetOK(c) /\ StageOK(c)
    BY <2>1, <2>2 DEF TargetOK, StageOK, Untargeted, Targeted, Submitting
  <2>4. AnswersOK(c)
    BY <2>1, PayloadsAssumption DEF AnswersOK
  <2> QED
    BY <2>3, <2>4 DEF CallOK
<1>4. \A e \in envelopes : EnvelopeOK(e)
  BY DEF Init
<1> QED
  BY <1>1, <1>2, <1>3, <1>4 DEF IInv, CallInv

(* The steps of a call that do not fail it.                                 *)
LEMMA ProgressKeepsIInv ==
  ASSUME IInv, NEW c \in Calls,
         \/ Start(c) \/ Target(c) \/ SendProposals(c) \/ SignTransaction(c)
         \/ Broadcast(c) \/ Rediscover(c) \/ BroadcastSucceeds(c)
         \/ \E r \in DiscoveryResults : DiscoveryAnswers(c, r)
         \/ \E p \in Peers, x \in Payloads : PeerEndorses(c, p, x)
         \/ \E x \in Payloads : Assemble(c, x)
  PROVE  IInv'
<1> USE CacheInvIsKept DEF IInv
<1>1. channel[c] \in Channels
  BY DEF CallInv, CallTypeOK
<1>2. CASE StartFromCache(c)
  <2>1. /\ CacheGet(channel[c]) \in DiscoveryResults
        /\ PeersOf(CacheGet(channel[c]).peers) \subseteq discovered[channel[c]]
    BY <1>1, <1>2 DEF StartFromCache, CacheGet, CacheInv, CacheTypeOK
  <2> QED
    BY <1>2, <2>1, ListingKeepsCallInv DEF StartFromCache
<1>3. CASE StartDiscovery(c)
  BY <1>3, MoveKeepsCallInv DEF StartDiscovery
<1>4. CASE Target(c)
  BY <1>4, TargetKeepsCallInv DEF Target
<1>5. CASE SendProposals(c)
  BY <1>5, SendProposalsKeepsCallInv DEF SendProposals
<1>6. CASE SignTransaction(c)
  BY <1>6, MoveKeepsCallInv DEF SignTransaction
<1>7. CASE Broadcast(c)
  BY <1>7, WriteEnvelopeKeepsCallInv DEF Broadcast
<1>8. CASE Rediscover(c)
  BY <1>8, MoveKeepsCallInv DEF Rediscover
<1>9. CASE BroadcastSucceeds(c)
  BY <1>9, BroadcastSucceedsKeepsCallInv DEF BroadcastSucceeds
<1>10. ASSUME NEW r \in DiscoveryResults, DiscoveryAnswers(c, r) PROVE IInv'
  BY <1>1, <1>10, ListingKeepsCallInv DEF DiscoveryAnswers
<1>11. ASSUME NEW p \in Peers, NEW x \in Payloads, PeerEndorses(c, p, x) PROVE IInv'
  <2>1. x \in Answers /\ x # NotAsked
    BY PayloadsAssumption DEF Answers
  <2>2. signed' = signed \cup {<<c, p, x>>} /\ signed' \subseteq Calls \X Peers \X Payloads
    BY <1>11 DEF PeerEndorses, CallInv, NetTypeOK
  <2> QED
    BY <1>11, <2>1, <2>2, AnswerKeepsCallInv DEF PeerEndorses
<1>12. ASSUME NEW x \in Payloads, Assemble(c, x) PROVE IInv'
  BY <1>12, AssembleKeepsCallInv DEF Assemble
<1> QED
  BY <1>2, <1>3, <1>4, <1>5, <1>6, <1>7, <1>8, <1>9, <1>10, <1>11, <1>12 DEF Start

(* A peer's failure, noticed or not.                                        *)
LEMMA PeerFailsKeepsIInv ==
  ASSUME IInv, NEW c \in Calls, NEW p \in Peers, NEW e \in Errors, PeerFails(c, p, e)
  PROVE  IInv'
<1>1. CacheInv' /\ Grows
  BY CacheInvIsKept DEF IInv, PeerFails
<1>2. CASE pc[c] = "endorsing" /\ Throw(c, e)
  BY <1>1, <1>2, ThrowKeepsCallInv DEF IInv, PeerFails
<1>3. CASE UNCHANGED <<pc, channel, named, listing, assembled, outcome>>
  <2> DEFINE x == Failed
  <2>1. /\ x \in Answers /\ x # NotAsked /\ x \notin Payloads
        /\ answers[c][p] = Pending /\ Settle(c, p, x)
    BY PayloadsAssumption DEF PeerFails, Answers, Failed, NotAsked
  <2>2. /\ UNCHANGED <<pc, channel, named, listing, assembled, outcome, envelopes, ledger, signed>>
        /\ signed \subseteq Calls \X Peers \X Payloads
    BY <1>3 DEF PeerFails, netVars, IInv, CallInv, NetTypeOK
  <2> HIDE DEF x
  <2>3. CallInv'
    BY <1>1, <2>1, <2>2, AnswerKeepsCallInv DEF IInv
  <2> QED
    BY <1>1, <2>3 DEF IInv
<1> QED
  BY <1>2, <1>3 DEF PeerFails

(* Every other way to fail.                                                 *)
LEMMA FailuresKeepIInv ==
  ASSUME IInv, NEW c \in Calls,
         \/ DiscoveryFails(c) \/ PayloadsDiffer(c) \/ NoOrderer(c) \/ RediscoveryFails(c)
         \/ BroadcastFails(c)
         \/ \E e \in Errors : SigningFails(c, e) \/ OrdererSetupFails(c, e)
  PROVE  IInv'
<1>1. PICK e \in Errors :
        /\ Throw(c, e) /\ UNCHANGED <<answers, netVars, cacheVars, discovered>>
        /\ pc[c] \notin {"idle", "done"}
        /\ pc[c] = "broadcasting" => e = "SubmitError"
  BY DEF DiscoveryFails, PayloadsDiffer, NoOrderer, RediscoveryFails, BroadcastFails,
     SigningFails, OrdererSetupFails, Errors, Named, Untagged
<1>2. CacheInv' /\ Grows
  BY <1>1, CacheInvIsKept DEF IInv
<1> QED
  BY <1>1, <1>2, ThrowKeepsCallInv DEF IInv

(* A second discovery goes on to a broadcast or ends the call.              *)
LEMMA RediscoveryAnswersKeepsIInv ==
  ASSUME IInv, NEW c \in Calls, NEW r \in DiscoveryResults, RediscoveryAnswers(c, r)
  PROVE  IInv'
<1>1. /\ pc[c] = "rediscovering" /\ channel[c] \in Channels /\ UNCHANGED answers
      /\ Learn(channel[c], r)
  BY DEF RediscoveryAnswers, IInv, CallInv, CallTypeOK
<1>2. CacheInv' /\ Grows
  BY <1>1, CacheInvIsKept DEF IInv
<1>3. CASE WriteEnvelope(c)
  BY <1>1, <1>2, <1>3, WriteEnvelopeKeepsCallInv DEF IInv
<1>4. CASE Throw(c, "ConfigurationError") /\ UNCHANGED netVars
  BY <1>1, <1>2, <1>4, ThrowKeepsCallInv DEF IInv, Errors, Named
<1> QED
  BY <1>3, <1>4 DEF RediscoveryAnswers

(* Disconnects, other flows and the orderer move no call.                   *)
LEMMA EnvironmentKeepsIInv == IInv /\ Environment => IInv'
<1> SUFFICES ASSUME IInv, Environment PROVE IInv'
  OBVIOUS
<1>1. ledger \subseteq envelopes
  BY DEF IInv, CallInv, NetTypeOK
<1>2. ASSUME NEW e \in envelopes, OrdererAccepts(e) PROVE IInv'
  BY <1>1, <1>2, CacheInvIsKept, WorldKeepsCallInv DEF OrdererAccepts, IInv
<1>3. CASE Disconnect
  BY <1>1, <1>3, CacheInvIsKept, WorldKeepsCallInv DEF Disconnect, IInv, netVars
<1>4. ASSUME NEW ch \in Channels, NEW r \in DiscoveryResults, OtherFlowDiscovers(ch, r)
      PROVE  IInv'
  BY <1>1, <1>4, CacheInvIsKept, WorldKeepsCallInv DEF OtherFlowDiscovers, IInv, netVars
<1> QED
  BY <1>2, <1>3, <1>4 DEF Environment

(* Every step preserves the invariant.                                      *)
LEMMA NextKeepsIInv == IInv /\ [Next]_vars => IInv'
<1> SUFFICES ASSUME IInv, [Next]_vars PROVE IInv'
  OBVIOUS
<1>1. ASSUME NEW c \in Calls, Start(c) \/ ClientStep(c) \/ RemoteStep(c) PROVE IInv'
  BY <1>1, ProgressKeepsIInv, PeerFailsKeepsIInv, FailuresKeepIInv, RediscoveryAnswersKeepsIInv
     DEF ClientStep, RemoteStep, ProposalDeadline, Errors, Untagged
<1>2. CASE Environment
  BY <1>2, EnvironmentKeepsIInv
<1>3. CASE UNCHANGED vars
  BY <1>3, CacheInvIsKept, WorldKeepsCallInv DEF IInv, CallInv, NetTypeOK, vars, netVars
<1> QED
  BY <1>1, <1>2, <1>3 DEF Next

(* The invariant holds in every reachable state.                            *)
THEOREM Invariance == Spec => []IInv
BY InitIInv, NextKeepsIInv, PTL DEF Spec

(* Type correctness: a call never looks a peer up in a listing it does not  *)
(* have, nor broadcasts a payload it did not assemble.                      *)
THEOREM TypeCorrect == Spec => []TypeOK
<1>1. IInv => TypeOK
  BY DEF IInv, CacheInv, CallInv, TypeOK
<1> QED
  BY <1>1, Invariance, PTL

(* For any number of peers and any mix of answers, what is broadcast is one *)
(* payload that all named peers, and no others, signed for this call.       *)
THEOREM BroadcastsAreUnanimous == Spec => []EnvelopesAreUnanimous
<1>1. IInv => EnvelopesAreUnanimous
  BY DEF IInv, CallInv, EnvelopeOK, Envelope, Agreed, EnvelopesAreUnanimous
<1> QED
  BY <1>1, Invariance, PTL

(* A submit or an evaluation returns a result only when all named peers     *)
(* agreed on it: sendDirectExplicitProposal lets no failure pass.           *)
THEOREM ReturnedResultsAreUnanimous == Spec => []ResultsAreUnanimous
<1>1. IInv => ResultsAreUnanimous
  BY DEF IInv, CallInv, CallOK, StageOK, Agreed, ResultsAreUnanimous
<1> QED
  BY <1>1, Invariance, PTL

(* No peer is asked that discovery did not name for the call's channel, and *)
(* none when one of the named peers is missing.                             *)
THEOREM TargetsAreDiscovered == Spec => []OnlyDiscoveredPeersAreAsked
<1>1. IInv => OnlyDiscoveredPeersAreAsked
  BY DEF IInv, CallInv, CallOK, TargetOK, OnlyDiscoveredPeersAreAsked
<1> QED
  BY <1>1, Invariance, PTL

-----------------------------------------------------------------------------
(* The path implements SubmitOnce.                                          *)

Verdicts == [c \in SubmitCalls |-> Verdict(c)]

(* What the ledger holds of a call is the one envelope it broadcast.        *)
LEMMA OrderedIsBroadcast ==
  ASSUME IInv, NEW c \in SubmitCalls
  PROVE  /\ Envelope(c) \in ledger => Once!Ordered(c)
         /\ Once!Ordered(c) => Envelope(c) \in ledger
         /\ Once!Ordered(c) => pc[c] \in {"broadcasting", "done"}
<1>1. Once!Ordered(c) <=> \E e \in ledger : e.call = c
  BY DEF Once!Ordered, OrderedTransactions
<1>2. ASSUME NEW e \in ledger, e.call = c
      PROVE  e = Envelope(c) /\ pc[c] \in {"broadcasting", "done"}
  BY <1>2 DEF IInv, CallInv, NetTypeOK, EnvelopeOK
<1> QED
  BY <1>1, <1>2 DEF Envelope

(* Initially no call has a verdict and the ledger is empty.                 *)
LEMMA InitMapsToOnce == Init => Once!Init
BY DEF Init, Once!Init, Calls, Verdict, OrderedTransactions

(* A step of one call is a call, a verdict, or nothing to its caller.       *)
LEMMA CallStepMapsToOnce ==
  ASSUME IInv, NEW c \in Calls,
         pc' = [pc EXCEPT ![c] = pc'[c]],
         \A d \in Calls \ {c} : outcome'[d] = outcome[d],
         ledger' = ledger,
         pc[c] # "done", pc'[c] # "idle",
         pc[c] = "idle" => pc'[c] # "done",
         c \in SubmitCalls /\ pc'[c] = "done" =>
           /\ outcome'[c] = "ok" => Envelope(c) \in ledger
           /\ outcome'[c] \notin {"ok", "SubmitError"} => pc[c] # "broadcasting"
  PROVE  [Once!Next]_Once!vars
<1>1. pc \in [Calls -> Stages] /\ SubmitCalls \subseteq Calls
  BY DEF IInv, CallInv, CallTypeOK, Calls
<1>0. OrderedTransactions' = OrderedTransactions
  BY DEF OrderedTransactions
<1>2. \A d \in SubmitCalls : d # c => Verdict(d)' = Verdict(d)
  BY <1>1 DEF Verdict
<1>3. CASE c \notin SubmitCalls
  <2>1. Verdicts' = Verdicts
    BY <1>2, <1>3 DEF Verdicts
  <2> QED
    BY <1>0, <2>1 DEF Verdicts, Once!vars
<1>4. CASE c \in SubmitCalls
  <2>1. Verdicts' = [Verdicts EXCEPT ![c] = Verdict(c)']
    BY <1>2, <1>4 DEF Verdicts
  <2>2. Verdicts[c] = Verdict(c)
    BY <1>4 DEF Verdicts
  <2>3. ASSUME NEW v, Verdict(c)' = v PROVE Once!Tell(c, v)
    BY <2>1, <2>3 DEF Verdicts, Once!Tell
  <2>4. CASE pc[c] = "idle"
    <3>1. Verdict(c) = "none" /\ Verdict(c)' = "pending"
      BY <1>1, <2>4 DEF Verdict
    <3>2. Once!Call(c)
      BY <1>0, <2>2, <2>3, <3>1 DEF Once!Call, Verdicts
    <3> QED
      BY <1>4, <3>2 DEF Once!Next
  <2>5. CASE pc[c] # "idle" /\ pc'[c] # "done"
    <3>1. Verdict(c) = "pending" /\ Verdict(c)' = "pending"
      BY <1>1, <2>5 DEF Verdict
    <3>2. Verdicts' = Verdicts
      BY <1>2, <3>1 DEF Verdicts
    <3> QED
      BY <1>0, <3>2 DEF Verdicts, Once!vars
  <2>6. CASE pc[c] # "idle" /\ pc'[c] = "done"
    <3>1. Verdict(c) = "pending"
      BY <1>1, <2>6 DEF Verdict
    <3>2. CASE outcome'[c] = "ok"
      <4>1. Verdict(c)' = "ok" /\ Once!Ordered(c)
        BY <1>1, <1>4, <2>6, <3>2, OrderedIsBroadcast DEF Verdict
      <4>2. Once!Succeed(c)
        BY <1>0, <2>2, <2>3, <3>1, <4>1 DEF Once!Succeed, Verdicts
      <4> QED
        BY <1>4, <4>2 DEF Once!Next
    <3>3. CASE outcome'[c] = "SubmitError"
      <4>1. Verdict(c)' = "unsure"
        BY <1>1, <2>6, <3>3 DEF Verdict
      <4>2. Once!FailUnsure(c)
        BY <1>0, <2>2, <2>3, <3>1, <4>1 DEF Once!FailUnsure, Verdicts
      <4> QED
        BY <1>4, <4>2 DEF Once!Next
    <3>4. CASE outcome'[c] \notin {"ok", "SubmitError"}
      <4>1. Verdict(c)' = "safe" /\ ~Once!Ordered(c)
        BY <1>1, <1>4, <2>6, <3>4, OrderedIsBroadcast DEF Verdict
      <4>2. Once!FailSafely(c)
        BY <1>0, <2>2, <2>3, <3>1, <4>1 DEF Once!FailSafely, Verdicts
      <4> QED
        BY <1>4, <4>2 DEF Once!Next
    <3> QED
      BY <3>2, <3>3, <3>4
  <2> QED
    BY <2>4, <2>5, <2>6
<1> QED
  BY <1>3, <1>4

(* A call that ends with an error tells a verdict the ledger allows.        *)
LEMMA ThrowMapsToOnce ==
  ASSUME IInv, NEW c \in Calls, NEW e \in Errors,
         pc[c] \notin {"idle", "done"},
         pc[c] = "broadcasting" => e = "SubmitError",
         Throw(c, e), ledger' = ledger
  PROVE  [Once!Next]_Once!vars
<1>1. pc \in [Calls -> Stages] /\ outcome \in [Calls -> Outcomes]
  BY DEF IInv, CallInv, CallTypeOK
<1>2. /\ MapError(c, e) # "ok"
      /\ e = "SubmitError" /\ c \in SubmitCalls => MapError(c, e) = "SubmitError"
  BY DEF MapError, MapSubmitError, MapEvaluateError, Errors, Named, Untagged
<1>3. /\ pc' = [pc EXCEPT ![c] = "done"]
      /\ outcome' = [outcome EXCEPT ![c] = MapError(c, e)]
  BY DEF Throw, Finish, Goto
<1> QED
  BY <1>1, <1>2, <1>3, CallStepMapsToOnce

(* The orderer accepts at most one transaction of a call.                   *)
LEMMA OrdererMapsToOnce ==
  ASSUME IInv, NEW e \in envelopes, OrdererAccepts(e)
  PROVE  Once!Next
<1> DEFINE c == e.call
<1>1. c \in SubmitCalls /\ c \in Calls /\ e = Envelope(c) /\ e \notin ledger
  BY DEF IInv, CallInv, EnvelopeOK, OrdererAccepts, Calls
<1>2. ~Once!Ordered(c)
  BY <1>1, OrderedIsBroadcast
<1>3. Verdict(c) \in {"pending", "unsure"}
  BY <1>1 DEF IInv, CallInv, CallOK, StageOK, EnvelopeOK, Verdict
<1>4. OrderedTransactions' = OrderedTransactions \cup {<<c, ProposalTx>>}
  BY DEF OrderedTransactions, OrdererAccepts
<1>5. Verdicts' = Verdicts
  BY DEF Verdicts, Verdict, OrdererAccepts, callVars
<1> HIDE DEF c
<1>6. Once!Order(c, ProposalTx)
  BY <1>1, <1>2, <1>3, <1>4, <1>5 DEF Once!Order, Verdicts
<1> QED
  BY <1>1, <1>6 DEF Once!Next

(* Every step is one of SubmitOnce or a stutter of it.                      *)
LEMMA NextMapsToOnce == IInv /\ [Next]_vars => [Once!Next]_Once!vars
<1> SUFFICES ASSUME IInv, [Next]_vars PROVE [Once!Next]_Once!vars
  OBVIOUS
<1>0. pc \in [Calls -> Stages] /\ outcome \in [Calls -> Outcomes]
  BY DEF IInv, CallInv, CallTypeOK
<1>1. ASSUME NEW c \in Calls,
             \/ Start(c) \/ Target(c) \/ SendProposals(c) \/ SignTransaction(c)
             \/ Broadcast(c) \/ Rediscover(c) \/ BroadcastSucceeds(c)
             \/ \E r \in DiscoveryResults : DiscoveryAnswers(c, r)
             \/ \E x \in Payloads : Assemble(c, x)
      PROVE  [Once!Next]_Once!vars
  BY <1>0, <1>1, CallStepMapsToOnce
     DEF Start, StartFromCache, StartDiscovery, DiscoveryAnswers, Target, SendProposals,
         SignTransaction, Broadcast, WriteEnvelope, Rediscover, Assemble,
         BroadcastSucceeds, Goto, Finish, netVars
<1>2. ASSUME NEW c \in Calls, NEW e \in Errors,
             pc[c] \notin {"idle", "done"},
             pc[c] = "broadcasting" => e = "SubmitError",
             Throw(c, e), UNCHANGED netVars
      PROVE  [Once!Next]_Once!vars
  BY <1>2, ThrowMapsToOnce DEF netVars
<1>3. ASSUME NEW c \in Calls,
             \/ DiscoveryFails(c) \/ PayloadsDiffer(c) \/ NoOrderer(c) \/ RediscoveryFails(c)
             \/ BroadcastFails(c)
             \/ \E e \in Errors : SigningFails(c, e) \/ OrdererSetupFails(c, e)
      PROVE  [Once!Next]_Once!vars
  BY <1>2, <1>3 DEF DiscoveryFails, PayloadsDiffer, NoOrderer, RediscoveryFails, BroadcastFails,
     SigningFails, OrdererSetupFails, Errors, Named, Untagged
<1>4. CASE UNCHANGED <<pc, outcome, ledger>>
  BY <1>4 DEF Verdict, OrderedTransactions, Once!vars
<1>5. ASSUME NEW c \in Calls, NEW p \in Peers, NEW e \in Errors, PeerFails(c, p, e)
      PROVE  [Once!Next]_Once!vars
  BY <1>2, <1>4, <1>5 DEF PeerFails, netVars
<1>6. ASSUME NEW c \in Calls, NEW p \in Peers, NEW x \in Payloads, PeerEndorses(c, p, x)
      PROVE  [Once!Next]_Once!vars
  BY <1>4, <1>6 DEF PeerEndorses
<1>7. ASSUME NEW c \in Calls, NEW r \in DiscoveryResults, RediscoveryAnswers(c, r)
      PROVE  [Once!Next]_Once!vars
  <2>1. pc[c] = "rediscovering" /\ "ConfigurationError" \in Errors
    BY <1>7 DEF RediscoveryAnswers, Errors, Named
  <2>2. CASE WriteEnvelope(c)
    BY <1>0, <2>1, <2>2, CallStepMapsToOnce DEF WriteEnvelope, Goto
  <2>3. CASE Throw(c, "ConfigurationError") /\ UNCHANGED netVars
    BY <1>2, <2>1, <2>3
  <2> QED
    BY <1>7, <2>2, <2>3 DEF RediscoveryAnswers
<1>8. ASSUME NEW e \in envelopes, OrdererAccepts(e) PROVE [Once!Next]_Once!vars
  BY <1>8, OrdererMapsToOnce
<1>9. ASSUME Environment, \A e \in envelopes : ~OrdererAccepts(e)
      PROVE  UNCHANGED <<pc, outcome, ledger>>
  BY <1>9 DEF Environment, Disconnect, OtherFlowDiscovers, callVars, netVars
<1>10. UNCHANGED vars => UNCHANGED <<pc, outcome, ledger>>
  BY DEF vars, callVars, netVars
<1>11. ASSUME NEW c \in Calls, NEW p \in Peers, ProposalDeadline(c, p)
       PROVE  [Once!Next]_Once!vars
  BY <1>5, <1>11 DEF ProposalDeadline, Errors, Untagged
<1> QED
  BY <1>1, <1>3, <1>4, <1>5, <1>6, <1>7, <1>8, <1>9, <1>10, <1>11
     DEF Next, ClientStep, RemoteStep

(* For every instance an explicit submit keeps what SubmitOnce promises:    *)
(* one transaction at most, "ok" only for an ordered one, and nothing       *)
(* ordered, now or later, after an error other than SubmitError.            *)
THEOREM ExplicitImplementsSubmitOnce == Spec => ImplementsSubmitOnce
BY InitIInv, InitMapsToOnce, NextMapsToOnce, Invariance, PTL
   DEF Spec, ImplementsSubmitOnce, Once!Spec

=============================================================================
