------------------------- MODULE TransactionTargeting ------------------------
(***************************************************************************)
(* The transaction builder of the Node bridge: BridgeTransactionImpl of     *)
(* src/src/FabricBridge.ts with the targeting value object of               *)
(* transactionTargeting.ts and the inner transaction it prepares.           *)
(*                                                                          *)
(* The builder is mutable and its calls are asynchronous: a call chooses    *)
(* its path when it begins, and reads the targeting, the transient data and *)
(* the proposal creator after an await, when a setter may have run.         *)
(***************************************************************************)
EXTENDS EndpointIdentity, Naturals

CONSTANTS
  Calls,
  Inputs,    \* sequences of endpoints the application passes to UseEndorsingPeers
  Data,      \* transient data maps that are not empty
  Creators,
  TLS,       \* discovery uses TLS
  MaxSetters \* bound on the setters that are called

Nothing == "nothing"  \* no transient data, no proposal creator

ASSUME TargetingAssumption ==
  /\ TLS \in BOOLEAN
  /\ MaxSetters \in Nat
  /\ Inputs \subseteq Seq(Endpoints)
  /\ Nothing \notin Data \cup Creators

VARIABLES
  targeting,  \* this.targeting of the builder
  transient,  \* this.transientData
  creator,    \* this.proposalCreator
  named,      \* the names last passed to UseEndorsingPeers with success (history)
  setterTold, \* what the last setter returned
  setters,    \* how many have been called (bounded by MaxSetters)
  kind,       \* kind[c]: the operation called
  stage,      \* where it is
  path,       \* the path it chose
  begun,      \* the settings of the builder when it began (history)
  setSince,   \* the settings after each setter that ran while it waited (history)
  used,       \* what its inner transaction was prepared with
  ended       \* how it ended, or "runs" when the inner transaction was called

builderVars == <<targeting, transient, creator>>
callVars == <<kind, stage, path, begun, setSince, used, ended>>
targetingVars == <<builderVars, named, setterTold, setters, callVars>>

Operations == {"submit", "evaluate", "propose"}
Outcomes == {"none", "runs", "ConfigurationError", "SubmitError", "rejected"}

Gateway == [mode |-> "gateway", names |-> <<>>]
SinglePeer == [mode |-> "single", names |-> <<>>]
EndorsingPeers(names) == [mode |-> "endorsing", names |-> names]

AnyOf(S) == S \cup {Nothing}
Settings == [target |-> targeting, data |-> transient, creator |-> creator]
None == [target |-> "none"]

BuilderTypeOK ==
  /\ targeting.mode \in {"gateway", "single", "endorsing"}
  /\ \A i \in DOMAIN targeting.names : targeting.names[i] \in Endpoints
  /\ transient \in AnyOf(Data)
  /\ creator \in AnyOf(Creators)
  /\ named \in Inputs \cup {<<>>}
  /\ setterTold \in {"none", "ok", "ConfigurationError", "thrown"}
  /\ setters \in 0..MaxSetters
  /\ kind \in [Calls -> Operations]
  /\ stage \in [Calls -> {"idle", "awaiting", "done"}]
  /\ path \in [Calls -> {"none", "gateway", "peer"}]
  /\ ended \in [Calls -> Outcomes]

BuilderInit ==
  /\ targeting = Gateway
  /\ transient = Nothing
  /\ creator = Nothing
  /\ named = <<>>
  /\ setterTold = "none"
  /\ setters = 0
  /\ kind \in [Calls -> Operations]
  /\ stage = [c \in Calls |-> "idle"]
  /\ path = [c \in Calls |-> "none"]
  /\ begun = [c \in Calls |-> None]
  /\ setSince = [c \in Calls |-> {}]
  /\ used = [c \in Calls |-> None]
  /\ ended = [c \in Calls |-> "none"]

-----------------------------------------------------------------------------
(* Setters                                                                  *)

CanSet == setters < MaxSetters

Returns(r) == setterTold' = r /\ setters' = setters + 1

(* History: the calls that are waiting see the new settings.                *)
Seen ==
  setSince' = [c \in Calls |-> IF stage[c] = "awaiting" THEN setSince[c] \cup {Settings'}
                                                         ELSE setSince[c]]

setterFrame == <<kind, stage, path, begun, used, ended>>

UseSinglePeer ==
  /\ CanSet
  /\ targeting' = SinglePeer
  /\ Returns("ok")
  /\ UNCHANGED <<transient, creator, named, setterFrame>>
  /\ Seen

(* One name that is no endpoint, or no name at all, and nothing is set.     *)
UseEndorsingPeers(names) ==
  LET canonical == Dedupe(names, TLS)
  IN /\ CanSet
     /\ \/ /\ canonical.kind = "ok" /\ canonical.id # <<>>
           /\ targeting' = EndorsingPeers(canonical.id)
           /\ named' = names
           /\ Returns("ok")
        \/ /\ canonical.kind = "ok" /\ canonical.id = <<>>
           /\ Returns("ConfigurationError")
           /\ UNCHANGED <<targeting, named>>
        \/ /\ canonical.kind # "ok"
           /\ Returns(canonical.kind)
           /\ UNCHANGED <<targeting, named>>
     /\ UNCHANGED <<transient, creator, setterFrame>>
     /\ Seen

SetTransientData(d) ==
  /\ CanSet
  /\ transient' = d
  /\ Returns("ok")
  /\ UNCHANGED <<targeting, creator, named, setterFrame>>
  /\ Seen

SetProposalCreator(x) ==
  /\ CanSet
  /\ creator' = x
  /\ Returns("ok")
  /\ UNCHANGED <<targeting, transient, named, setterFrame>>
  /\ Seen

-----------------------------------------------------------------------------
(* Calls                                                                    *)

End(c, r) ==
  /\ stage' = [stage EXCEPT ![c] = "done"]
  /\ ended' = [ended EXCEPT ![c] = r]

RequiresPeerMode == targeting.mode # "gateway"

Begin(c) ==
  /\ stage[c] = "idle"
  /\ begun' = [begun EXCEPT ![c] = Settings]
  /\ \/ /\ kind[c] = "propose" /\ creator = Nothing
        /\ End(c, "ConfigurationError")
        /\ UNCHANGED path
     \/ /\ kind[c] # "propose" \/ creator # Nothing
        /\ path' = [path EXCEPT ![c] = IF RequiresPeerMode THEN "peer" ELSE "gateway"]
        /\ stage' = [stage EXCEPT ![c] = "awaiting"]
        /\ UNCHANGED ended
  /\ UNCHANGED <<builderVars, named, setterTold, setters, kind, setSince, used>>

Prepare(c, target) == used' = [used EXCEPT ![c] = [Settings EXCEPT !.target = target]]

\* mutant: the targeting decides again, after the await
ContinueOnGatewayTargeted(c) ==
  /\ stage[c] = "awaiting" /\ path[c] = "gateway"
  /\ Prepare(c, targeting)
  /\ End(c, "runs")
  /\ UNCHANGED <<builderVars, named, setterTold, setters, kind, path, begun, setSince>>

(* createGatewayTransaction                                                 *)
ContinueOnGateway(c) ==
  /\ stage[c] = "awaiting" /\ path[c] = "gateway"
  /\ Prepare(c, Gateway)
  /\ End(c, "runs")
  /\ UNCHANGED <<builderVars, named, setterTold, setters, kind, path, begun, setSince>>

(* createPeerTargetedTransaction: the inner transaction reads the names of  *)
(* the builder again; what that throws is an error of SubmitAsync only.     *)
Applied ==
  IF targeting.mode = "endorsing" THEN Dedupe(targeting.names, TLS) ELSE Ok(<<>>)

Unwrapped(c, e) ==
  CASE kind[c] # "submit" -> "rejected"
    [] e = "ConfigurationError" -> "ConfigurationError"
    [] OTHER -> "SubmitError"

\* mutant: the inner transaction is prepared as the builder was at the call
ContinueOnPeersAsBegun(c) ==
  /\ stage[c] = "awaiting" /\ path[c] = "peer"
  /\ used' = [used EXCEPT ![c] = [Settings EXCEPT !.target = begun[c].target]]
  /\ End(c, "runs")
  /\ UNCHANGED <<builderVars, named, setterTold, setters, kind, path, begun, setSince>>

ContinueOnPeers(c) ==
  /\ stage[c] = "awaiting" /\ path[c] = "peer"
  /\ \/ /\ Applied.kind = "ok"
        /\ Prepare(c, [targeting EXCEPT !.names = Applied.id])
        /\ End(c, "runs")
     \/ /\ Applied.kind # "ok"
        /\ End(c, Unwrapped(c, Applied.kind))
        /\ UNCHANGED used
  /\ UNCHANGED <<builderVars, named, setterTold, setters, kind, path, begun, setSince>>

BuilderNext ==
  \/ UseSinglePeer
  \/ \E names \in Inputs : UseEndorsingPeers(names)
  \/ \E d \in AnyOf(Data) : SetTransientData(d)
  \/ \E x \in Creators : SetProposalCreator(x)
  \/ \E c \in Calls : Begin(c) \/ ContinueOnGateway(c) \/ ContinueOnPeers(c)

BuilderSpec == BuilderInit /\ [][BuilderNext]_targetingVars

-----------------------------------------------------------------------------
(* Properties                                                               *)

Runs(c) == ended[c] = "runs"

(* A call that began for the Gateway never reaches the peers a later setter *)
(* named, and one that began for peers never falls back to the Gateway.     *)
PathIsKept ==
  \A c \in Calls : Runs(c) =>
    /\ (begun[c].target.mode = "gateway") <=> (used[c].target.mode = "gateway")
    /\ (used[c].target.mode = "gateway") <=> (path[c] = "gateway")

Canonical(settings) == [settings EXCEPT !.target.names = Dedupe(@, TLS)]

(* What a call on peers runs with is what the builder held at one moment,   *)
(* never the names of one setting with the data or the creator of another.  *)
SettingsAreOfOneMoment ==
  \A c \in Calls : Runs(c) /\ path[c] = "peer" =>
    \E s \in {begun[c]} \cup setSince[c] : Canonical(used[c]) = Canonical(s)

(* A setter that fails changes nothing: the last setting that succeeded     *)
(* stays in force.                                                          *)
FailedSetterKeeps == [][setterTold' # "ok" => UNCHANGED builderVars]_<<builderVars, setterTold>>

(* CONTEXT.md: the peers of a transaction are the identities the developer  *)
(* named, each once, in the order they were first named.                    *)
NamesAreDeduplicated ==
  targeting.mode = "endorsing" => InOrderOfNaming(targeting.names, named, TLS)

(* CONTEXT.md: "Invalid **Peer endpoint identity** format is local          *)
(* configuration failure".                                                  *)
InvalidNamesAreConfigurationFailures == setterTold # "thrown"

(* CONTEXT.md: "Node reports SDK operation errors through `better-result`". *)
NothingIsRejected == \A c \in Calls : ended[c] # "rejected"

=============================================================================
