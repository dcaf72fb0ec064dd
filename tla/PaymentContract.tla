-------------------------- MODULE PaymentContract --------------------------
(***************************************************************************)
(* What the x402 rail promises its payers and its callers, in terms of      *)
(* money and answers alone: of the mandates that share a grant and a quote  *)
(* nonce one is paid, within the grant's cap and not after its revocation,  *)
(* and a call is answered once, with a success only for a paid mandate.     *)
(* Retries, timeouts, crashes and late transactions do not show.            *)
(***************************************************************************)
EXTENDS Integers

CONSTANTS Calls, Mandates, Grants, GrantOf, NonceOf, AmountOf, MaxAggregate

VARIABLES
  mandate,   \* what each call asks to settle
  paid,      \* the mandates whose money has moved
  received,  \* the money, per grant
  revoked,   \* grants that were withdrawn
  result     \* the answer to each call, "none" before

Success == {"ok", "idempotent"}

(* Mandates that compete for one payment.                                   *)
Rivals(m) == {k \in Mandates : GrantOf[k] = GrantOf[m] /\ NonceOf[k] = NonceOf[m]}

Pay(m) ==
  LET g == GrantOf[m] IN
  /\ g \notin revoked
  /\ paid \intersect Rivals(m) = {}
  /\ received[g] + AmountOf[m] <= MaxAggregate[g]
  /\ paid' = paid \union {m}
  /\ received' = [received EXCEPT ![g] = @ + AmountOf[m]]
  /\ UNCHANGED <<mandate, revoked, result>>

Revoke(g) ==
  /\ revoked' = revoked \union {g}
  /\ UNCHANGED <<mandate, paid, received, result>>

Answer(c, r) ==
  /\ result[c] = "none"
  /\ r \in Success => mandate[c] \in paid
  /\ result' = [result EXCEPT ![c] = r]
  /\ UNCHANGED <<mandate, paid, received, revoked>>

Init ==
  /\ mandate \in [Calls -> Mandates]
  /\ paid = {} /\ revoked = {}
  /\ received = [g \in Grants |-> 0]
  /\ result = [c \in Calls |-> "none"]

(* The answer of a step is the one it records.                              *)
Next ==
  \/ \E m \in Mandates : Pay(m)
  \/ \E g \in Grants : Revoke(g)
  \/ \E c \in Calls : Answer(c, result'[c])

Spec == Init /\ [][Next]_<<mandate, paid, received, revoked, result>>

=============================================================================
