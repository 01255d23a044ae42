----------------------------- MODULE SubmitOnce -----------------------------
(***************************************************************************)
(* What a submit of the bridge promises its caller, apart from how peers    *)
(* and orderers are reached.                                                *)
(*                                                                          *)
(*   - One call orders at most one transaction, however many peers it tried *)
(*     and whatever answers were lost.                                      *)
(*   - A call that returns a submitted transaction has one in the orderer.  *)
(*   - A call that ends with a "safe" error has ordered nothing and never   *)
(*     will: the application may submit again.                              *)
(*   - After an "unsure" error (SubmitError) a transaction may already be   *)
(*     ordered, or may still become so: the envelope can be on its way.     *)
(***************************************************************************)
CONSTANTS
  Calls,   \* submit calls of the application
  TxIds    \* the transactions one call may build

VARIABLES
  verdict, \* what the caller was told
  ledger   \* the <<call, transaction>> pairs the orderer accepted

vars == <<verdict, ledger>>

Verdicts == {"none", "pending", "ok", "safe", "unsure"}

TypeOK ==
  /\ verdict \in [Calls -> Verdicts]
  /\ ledger \subseteq (Calls \X TxIds)

Ordered(c) == \E x \in TxIds : <<c, x>> \in ledger

Init ==
  /\ verdict = [c \in Calls |-> "none"]
  /\ ledger = {}

Tell(c, v) == verdict' = [verdict EXCEPT ![c] = v]

Call(c) ==
  /\ verdict[c] = "none"
  /\ Tell(c, "pending")
  /\ UNCHANGED ledger

Order(c, x) ==
  /\ verdict[c] \in {"pending", "unsure"}
  /\ ~Ordered(c)
  /\ ledger' = ledger \cup {<<c, x>>}
  /\ UNCHANGED verdict

Succeed(c) ==
  /\ verdict[c] = "pending"
  /\ Ordered(c)
  /\ Tell(c, "ok")
  /\ UNCHANGED ledger

FailSafely(c) ==
  /\ verdict[c] = "pending"
  /\ ~Ordered(c)
  /\ Tell(c, "safe")
  /\ UNCHANGED ledger

FailUnsure(c) ==
  /\ verdict[c] = "pending"
  /\ Tell(c, "unsure")
  /\ UNCHANGED ledger

Next ==
  \E c \in Calls :
    \/ Call(c) \/ Succeed(c) \/ FailSafely(c) \/ FailUnsure(c)
    \/ \E x \in TxIds : Order(c, x)

Spec == Init /\ [][Next]_vars

=============================================================================
