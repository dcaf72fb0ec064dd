---------------------------- MODULE HoldContract ----------------------------
(***************************************************************************)
(* What the escrow promises about an order, in terms of money alone: the    *)
(* terms are fixed when the order is funded, and the whole amount leaves    *)
(* once, to the payee or back to refundTo, on the word of somebody entitled *)
(* to send it there.                                                        *)
(***************************************************************************)
EXTENDS Integers, Sequences

CONSTANTS Orders, Terms, None

VARIABLES
  agreed,    \* the terms of a funded order, None before
  payments   \* the transfers out of an order, each with its sender and time

Fund(o, t) ==
  /\ agreed[o] = None
  /\ agreed' = [agreed EXCEPT ![o] = t]
  /\ UNCHANGED payments

(* Who may send the money where, and when.                                  *)
Entitled(t, p) ==
  \/ p.to = t.payee /\ p.by \in {t.payee, t.releaser} \ {None}
  \/ p.to = t.refundTo /\ p.by = t.payee
  \/ p.to = t.refundTo /\ p.by = t.payer /\ p.at >= t.expiry

Settle(o, p) ==
  /\ agreed[o] # None
  /\ payments[o] = <<>>
  /\ p.amount = agreed[o].amount
  /\ Entitled(agreed[o], p)
  /\ payments' = [payments EXCEPT ![o] = <<p>>]
  /\ UNCHANGED agreed

Init ==
  /\ agreed = [o \in Orders |-> None]
  /\ payments = [o \in Orders |-> <<>>]

(* The terms and the payment of a step are the ones it records.             *)
Next ==
  \E o \in Orders :
    \/ agreed'[o] \in Terms /\ Fund(o, agreed'[o])
    \/ payments'[o] # <<>> /\ Settle(o, Head(payments'[o]))

Spec == Init /\ [][Next]_<<agreed, payments>>

=============================================================================
