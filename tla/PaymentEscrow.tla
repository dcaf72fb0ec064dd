--------------------------- MODULE PaymentEscrow ---------------------------
(***************************************************************************)
(* PaymentEscrow: a hold per orderHash, funded by whoever claims the hash   *)
(* first and ended by release, refund or reclaim.  The contract keeps all   *)
(* holds in one token balance per asset; a token may keep a fee of what is  *)
(* transferred, while the hold records the nominal amount.  Nothing stops   *)
(* the escrow from being named as payee or refundTo, nor anybody from       *)
(* sending it tokens of no order; such tokens stay with it.                 *)
(***************************************************************************)
EXTENDS BlockContext

CONSTANTS
  Orders,    \* orderHash
  Assets,
  FeeOf,     \* what the token keeps of a transfer; 0 for a standard ERC-20
  Escrow,    \* address(this)
  MaxAmount, \* bound on an order's amount
  MaxGift    \* bound on the balance that a transfer of no order may reach

Amounts == 1 .. MaxAmount

ASSUME EscrowAssumption ==
  /\ FeeOf \in [Assets -> Nat] /\ MaxAmount \in Nat /\ MaxGift \in Nat
  /\ IsFiniteSet(Orders)
  /\ Escrow # None

Payees == Accounts \union {Escrow}

Terms ==
  [payer : Accounts, asset : Assets, amount : Amounts, payee : Payees,
   refundTo : Payees, releaser : Accounts \union {None}, expiry : 1 .. MaxTime]

Payment == [to : Payees, amount : Amounts, by : Accounts, at : Nat]

ASSUME TermsAssumption == None \notin Terms

VARIABLES
  holds,    \* _holds without the status; None when the status is None
  status,   \* Hold.status
  tokens,   \* the escrow's balance per asset
  payments  \* history: the transfers out of each order

escrowVars == <<holds, status, tokens, payments>>

EscrowInit ==
  /\ holds = [o \in Orders |-> None]
  /\ status = [o \in Orders |-> "None"]
  /\ tokens = [a \in Assets |-> 0]
  /\ payments = [o \in Orders |-> <<>>]

-----------------------------------------------------------------------------

(* refundTo defaults to the payer.                                          *)
RefundDestination_NoDefault(refundTo, payer) == refundTo
RefundDestination(refundTo, payer) == IF refundTo = None THEN payer ELSE refundTo

Deposit(o, payer, a, amount, payee, refundTo, releaser, expiry) ==
  /\ status[o] = "None"
  /\ expiry > now
  /\ FeeOf[a] <= amount
  /\ holds' = [holds EXCEPT ![o] =
       [payer |-> payer, asset |-> a, amount |-> amount, payee |-> payee,
        refundTo |-> RefundDestination(refundTo, payer),
        releaser |-> releaser, expiry |-> expiry]]
  /\ status' = [status EXCEPT ![o] = "Held"]
  /\ tokens' = [tokens EXCEPT ![a] = @ + amount - FeeOf[a]]
  /\ UNCHANGED payments

(* _held: a hold that exists and has not been ended.                        *)
Held_AnyExisting(o) == status[o] # "None"
Held(o) == status[o] = "Held"

(* Every ending sets the status and sends the hold's whole amount; the      *)
(* transfer reverts beyond the escrow's balance, and to the escrow itself   *)
(* it costs the fee alone.                                                  *)
Spent(a, amount, to) == IF to = Escrow THEN FeeOf[a] ELSE amount

End(o, by, to, outcome) ==
  LET h == holds[o] IN
  /\ Held(o)
  /\ FeeOf[h.asset] <= h.amount /\ h.amount <= tokens[h.asset]
  /\ status' = [status EXCEPT ![o] = outcome]
  /\ tokens' = [tokens EXCEPT ![h.asset] = @ - Spent(h.asset, h.amount, to)]
  /\ payments' = [payments EXCEPT ![o] =
       Append(@, [to |-> to, amount |-> h.amount, by |-> by, at |-> now])]
  /\ UNCHANGED holds

MayRelease_Anyone(o, by) == TRUE
MayRelease(o, by) ==
  \/ by = holds[o].payee
  \/ holds[o].releaser # None /\ by = holds[o].releaser

Release(o, by) ==
  /\ holds[o] # None
  /\ MayRelease(o, by)
  /\ End(o, by, holds[o].payee, "Captured")

Refund(o, by) ==
  /\ holds[o] # None
  /\ by = holds[o].payee
  /\ End(o, by, holds[o].refundTo, "Refunded")

Reclaim(o, by) ==
  /\ holds[o] # None
  /\ by = holds[o].payer
  /\ now >= holds[o].expiry
  /\ End(o, by, holds[o].refundTo, "Reclaimed")

(* A transfer to the escrow's address that is no deposit.                   *)
Gift(a, amount) ==
  /\ FeeOf[a] <= amount
  /\ tokens[a] + amount <= MaxGift
  /\ tokens' = [tokens EXCEPT ![a] = @ + amount - FeeOf[a]]
  /\ UNCHANGED <<holds, status, payments>>

EscrowNext ==
  \/ \E o \in Orders :
       \/ \E payer \in Accounts, payee \in Payees, a \in Assets, amount \in Amounts,
             refundTo \in Payees \union {None}, releaser \in Accounts \union {None},
             expiry \in 1 .. MaxTime :
            Deposit(o, payer, a, amount, payee, refundTo, releaser, expiry)
            /\ UNCHANGED now
       \/ \E by \in Accounts : (Release(o, by) \/ Refund(o, by) \/ Reclaim(o, by)) /\ UNCHANGED now
  \/ \E a \in Assets, amount \in Amounts : Gift(a, amount) /\ UNCHANGED now
  \/ Tick /\ UNCHANGED escrowVars

EscrowSpec == EscrowInit /\ now = 0 /\ [][EscrowNext]_<<escrowVars, now>>

-----------------------------------------------------------------------------
(* Properties *)

EscrowTypeOK ==
  /\ holds \in [Orders -> Terms \union {None}]
  /\ status \in [Orders -> {"None", "Held", "Captured", "Refunded", "Reclaimed"}]
  /\ tokens \in [Assets -> Nat]
  /\ payments \in [Orders -> Seq(Payment)]
  /\ now \in 0 .. MaxTime

(* What the escrow still owes of an asset, unit by unit: the first, second, *)
(* ... unit of the funded orders that nothing has been paid out of.         *)
Owed(a) ==
  {u \in Orders \X Amounts :
     /\ holds[u[1]] # None /\ payments[u[1]] = <<>>
     /\ holds[u[1]].asset = a /\ u[2] <= holds[u[1]].amount}

(* Solvent: whatever the orders do to each other, the escrow holds of a     *)
(* token without a fee at least what it still owes, so no ending of one     *)
(* order can be paid with the money of another or find the balance short    *)
(* (deposit, release, refund and reclaim share one balance per asset).      *)
Solvent ==
  \A a \in Assets : FeeOf[a] = 0 => tokens[a] >= Cardinality(Owed(a))

(* NoHoldIsStuck: the balance never stands in the way of an ending of a     *)
(* hold in a token without a fee (the transfers of release, refund and      *)
(* reclaim).                                                                *)
NoHoldIsStuck ==
  \A o \in Orders : Held(o) =>
    LET h == holds[o] IN FeeOf[h.asset] = 0 => h.amount <= tokens[h.asset]

(* MoneyMovesOnce: the escrow implements HoldContract: an order's terms are *)
(* fixed by its deposit and its whole amount leaves exactly once, to a      *)
(* party entitled to it (release, refund, reclaim).                         *)
Hold == INSTANCE HoldContract WITH agreed <- holds
MoneyMovesOnce == Hold!Spec

=============================================================================
