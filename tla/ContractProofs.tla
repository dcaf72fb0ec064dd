---------------------------- MODULE ContractProofs ----------------------------
(***************************************************************************)
(* Proofs about the escrow and the delegation manager, for any accounts,    *)
(* orders, assets, delegations, calls and bounds, and about the contracts   *)
(* put together, whose steps are steps of one contract or none.             *)
(***************************************************************************)
EXTENDS MCContracts, RegistryProofs

-----------------------------------------------------------------------------
(* The escrow *)

(* An order has terms from its deposit on, and nothing has left it until it *)
(* ends.                                                                    *)
HeldIsUnpaid ==
  \A o \in Orders :
    /\ status[o] = "None" <=> holds[o] = None
    /\ status[o] \in {"None", "Held"} => payments[o] = <<>>

EscrowInv == EscrowTypeOK /\ HeldIsUnpaid

LEMMA EscrowInitInv == EscrowInit /\ now = 0 => EscrowInv
<1> SUFFICES ASSUME EscrowInit, now = 0 PROVE EscrowInv
  OBVIOUS
<1>1. EscrowTypeOK
  BY BlockAssumption DEF EscrowInit, EscrowTypeOK
<1>2. HeldIsUnpaid
  BY DEF EscrowInit, HeldIsUnpaid
<1> QED
  BY <1>1, <1>2 DEF EscrowInv

LEMMA DepositKeeps ==
  ASSUME EscrowInv, NEW o \in Orders, NEW payer \in Accounts, NEW payee \in Payees, NEW a \in Assets,
         NEW amount \in Amounts, NEW refundTo \in Payees \union {None},
         NEW releaser \in Accounts \union {None}, NEW expiry \in 1 .. MaxTime,
         Deposit(o, payer, a, amount, payee, refundTo, releaser, expiry), UNCHANGED now
  PROVE  EscrowInv' /\ holds[o] = None /\ holds'[o] \in Terms /\ holds' = [holds EXCEPT ![o] = holds'[o]]
<1> USE BlockAssumption, EscrowAssumption, TermsAssumption
<1> DEFINE t == [payer |-> payer, asset |-> a, amount |-> amount, payee |-> payee,
                 refundTo |-> RefundDestination(refundTo, payer),
                 releaser |-> releaser, expiry |-> expiry]
<1>1. RefundDestination(refundTo, payer) \in Payees
  BY DEF RefundDestination, Payees
<1>2. t \in Terms /\ t # None
  BY <1>1 DEF Terms
<1>3. /\ status[o] = "None" /\ FeeOf[a] <= amount
      /\ holds' = [holds EXCEPT ![o] = t] /\ status' = [status EXCEPT ![o] = "Held"]
      /\ tokens' = [tokens EXCEPT ![a] = @ + amount - FeeOf[a]] /\ payments' = payments
  BY DEF Deposit
<1> HIDE DEF t
<1>4. amount \in Nat /\ FeeOf[a] \in Nat /\ tokens[a] \in Nat
  BY DEF Amounts, EscrowInv, EscrowTypeOK
<1>5. tokens[a] + amount - FeeOf[a] \in Nat
  BY <1>3, <1>4
<1>6. EscrowTypeOK'
  BY <1>2, <1>3, <1>5 DEF EscrowInv, EscrowTypeOK
<1>7. HeldIsUnpaid'
  BY <1>2, <1>3 DEF EscrowInv, EscrowTypeOK, HeldIsUnpaid
<1>8. holds[o] = None /\ holds'[o] = t
  BY <1>3 DEF EscrowInv, EscrowTypeOK, HeldIsUnpaid
<1> QED
  BY <1>2, <1>3, <1>6, <1>7, <1>8 DEF EscrowInv

(* An ending pays the whole amount, as the first and only payment.          *)
LEMMA EndKeeps ==
  ASSUME EscrowInv, NEW o \in Orders, NEW by \in Accounts, NEW to \in Payees,
         NEW outcome \in {"Captured", "Refunded", "Reclaimed"}, holds[o] # None,
         End(o, by, to, outcome), UNCHANGED now
  PROVE  /\ EscrowInv' /\ UNCHANGED holds /\ payments[o] = <<>>
         /\ payments' = [payments EXCEPT ![o] =
              <<[to |-> to, amount |-> holds[o].amount, by |-> by, at |-> now]>>]
<1> USE BlockAssumption
<1> DEFINE h == holds[o]
           p == [to |-> to, amount |-> h.amount, by |-> by, at |-> now]
<1>1. h \in Terms /\ h.amount \in Amounts /\ h.asset \in Assets /\ h.amount \in Nat
  <2>1. h \in Terms
    BY DEF EscrowInv, EscrowTypeOK
  <2> QED
    BY <2>1, EscrowAssumption DEF Terms, Amounts
<1> DEFINE spent == Spent(h.asset, h.amount, to)
<1>2. /\ status[o] = "Held" /\ h.amount <= tokens[h.asset] /\ FeeOf[h.asset] <= h.amount
      /\ status' = [status EXCEPT ![o] = outcome]
      /\ tokens' = [tokens EXCEPT ![h.asset] = @ - spent]
      /\ payments' = [payments EXCEPT ![o] = Append(@, p)] /\ holds' = holds
  BY DEF End, Held
<1>3. payments[o] = <<>>
  BY <1>2 DEF EscrowInv, HeldIsUnpaid
<1>4. p \in Payment
  BY <1>1 DEF EscrowInv, EscrowTypeOK, Payment
<1> HIDE DEF p
<1>5. <<p>> \in Seq(Payment) /\ Append(payments[o], p) = <<p>>
  BY <1>3, <1>4
<1>6. payments' = [payments EXCEPT ![o] = <<p>>]
  BY <1>2, <1>5
<1>7. tokens[h.asset] \in Nat /\ tokens[h.asset] - spent \in Nat
  <2>1. FeeOf[h.asset] \in Nat /\ tokens[h.asset] \in Nat
    BY <1>1, EscrowAssumption DEF EscrowInv, EscrowTypeOK
  <2> QED
    BY <1>1, <1>2, <2>1 DEF Spent
<1> HIDE DEF spent
<1>8. EscrowTypeOK'
  BY <1>1, <1>2, <1>5, <1>6, <1>7 DEF EscrowInv, EscrowTypeOK
<1>9. HeldIsUnpaid'
  BY <1>2, <1>6 DEF EscrowInv, EscrowTypeOK, HeldIsUnpaid
<1> QED
  BY <1>2, <1>3, <1>6, <1>8, <1>9 DEF EscrowInv, p

(* The three endings pay a party who is entitled to it.                     *)
LEMMA EndingsSettle ==
  ASSUME EscrowInv, NEW o \in Orders, NEW by \in Accounts,
         Release(o, by) \/ Refund(o, by) \/ Reclaim(o, by), UNCHANGED now
  PROVE  EscrowInv' /\ Hold!Next
<1>0. holds[o] \in Terms /\ holds[o] # None
  BY DEF EscrowInv, EscrowTypeOK, Release, Refund, Reclaim
<1>1. holds[o].payee \in Payees /\ holds[o].refundTo \in Payees
  BY <1>0 DEF Terms
<1>2. PICK to \in Payees, outcome \in {"Captured", "Refunded", "Reclaimed"} :
        /\ End(o, by, to, outcome)
        /\ \/ to = holds[o].payee /\ by \in {holds[o].payee, holds[o].releaser} \ {None}
           \/ to = holds[o].refundTo /\ by = holds[o].payee
           \/ to = holds[o].refundTo /\ by = holds[o].payer /\ now >= holds[o].expiry
  BY <1>1, BlockAssumption DEF Release, Refund, Reclaim, MayRelease
<1> DEFINE p == [to |-> to, amount |-> holds[o].amount, by |-> by, at |-> now]
<1>3. /\ EscrowInv' /\ UNCHANGED holds /\ payments[o] = <<>>
      /\ payments' = [payments EXCEPT ![o] = <<p>>]
  BY <1>0, <1>2, EndKeeps
<1>4. p.amount = holds[o].amount /\ Hold!Entitled(holds[o], p)
  BY <1>2 DEF Hold!Entitled
<1> HIDE DEF p
<1>5. payments'[o] = <<p>> /\ Head(payments'[o]) = p /\ payments'[o] # <<>>
  BY <1>3 DEF EscrowInv, EscrowTypeOK
<1>6. Hold!Settle(o, Head(payments'[o]))
  BY <1>0, <1>3, <1>4, <1>5 DEF Hold!Settle
<1> QED
  BY <1>3, <1>5, <1>6 DEF Hold!Next

LEMMA EscrowStepSettles ==
  ASSUME EscrowInv, [EscrowNext]_<<escrowVars, now>>
  PROVE  EscrowInv' /\ [Hold!Next]_<<holds, payments>>
<1>1. CASE UNCHANGED escrowVars /\ (Tick \/ UNCHANGED now)
  <2>1. now' \in 0 .. MaxTime
    BY <1>1, BlockAssumption DEF Tick, EscrowInv, EscrowTypeOK
  <2> QED
    BY <1>1, <2>1 DEF escrowVars, EscrowInv, EscrowTypeOK, HeldIsUnpaid
<1>2. ASSUME NEW o \in Orders, NEW payer \in Accounts, NEW payee \in Payees, NEW a \in Assets,
             NEW amount \in Amounts, NEW refundTo \in Payees \union {None},
             NEW releaser \in Accounts \union {None}, NEW expiry \in 1 .. MaxTime,
             Deposit(o, payer, a, amount, payee, refundTo, releaser, expiry), UNCHANGED now
      PROVE  EscrowInv' /\ Hold!Next
  <2>1. /\ EscrowInv' /\ holds[o] = None /\ holds'[o] \in Terms
        /\ holds' = [holds EXCEPT ![o] = holds'[o]]
    BY <1>2, DepositKeeps
  <2>2. Hold!Fund(o, holds'[o])
    BY <1>2, <2>1 DEF Hold!Fund, Deposit
  <2> QED
    BY <2>1, <2>2 DEF Hold!Next
<1>3. ASSUME NEW a \in Assets, NEW amount \in Amounts, Gift(a, amount), UNCHANGED now
      PROVE  EscrowInv' /\ UNCHANGED <<holds, payments>>
  <2>1. tokens[a] + amount - FeeOf[a] \in Nat
    <3>1. amount \in Nat /\ FeeOf[a] \in Nat /\ tokens[a] \in Nat
      BY EscrowAssumption DEF Amounts, EscrowInv, EscrowTypeOK
    <3> QED
      BY <1>3, <3>1 DEF Gift
  <2>2. /\ tokens' = [tokens EXCEPT ![a] = tokens[a] + amount - FeeOf[a]]
        /\ UNCHANGED <<holds, status, payments>>
    BY <1>3 DEF Gift
  <2>3. EscrowTypeOK'
    BY <1>3, <2>1, <2>2 DEF EscrowInv, EscrowTypeOK
  <2>4. HeldIsUnpaid'
    BY <2>2 DEF EscrowInv, HeldIsUnpaid
  <2> QED
    BY <2>2, <2>3, <2>4 DEF EscrowInv
<1> QED
  BY <1>1, <1>2, <1>3, EndingsSettle DEF EscrowNext

(* The holds, balances and payments of the escrow keep their types: no      *)
(* ending drives a balance below zero.                                      *)
THEOREM EscrowTypes == EscrowSpec => []EscrowTypeOK
<1>1. EscrowInv /\ [EscrowNext]_<<escrowVars, now>> => EscrowInv'
  BY EscrowStepSettles
<1>2. EscrowInv => EscrowTypeOK
  BY DEF EscrowInv
<1> QED
  BY <1>1, <1>2, EscrowInitInv, PTL DEF EscrowSpec

(* The escrow implements HoldContract: terms are fixed by the deposit and   *)
(* the whole amount leaves once, to a party entitled to it (deposit,        *)
(* release, refund, reclaim).                                               *)
THEOREM EscrowMovesMoneyOnce == EscrowSpec => MoneyMovesOnce
<1>1. EscrowInit => Hold!Init
  BY DEF EscrowInit, Hold!Init
<1>2. EscrowInv /\ [EscrowNext]_<<escrowVars, now>> => EscrowInv' /\ [Hold!Next]_<<holds, payments>>
  BY EscrowStepSettles
<1> QED
  BY <1>1, <1>2, EscrowInitInv, PTL DEF EscrowSpec, MoneyMovesOnce, Hold!Spec

-----------------------------------------------------------------------------
(* The balance of the escrow *)

LEMMA EscrowInvHolds == EscrowSpec => []EscrowInv
<1>1. EscrowInv /\ [EscrowNext]_<<escrowVars, now>> => EscrowInv'
  BY EscrowStepSettles
<1> QED
  BY <1>1, EscrowInitInv, PTL DEF EscrowSpec

(* The units of one order.                                                  *)
Units(o, n) == {o} \X (1 .. n)

LEMMA UnitsCount ==
  ASSUME NEW o, NEW n \in Nat
  PROVE  IsFiniteSet(Units(o, n)) /\ Cardinality(Units(o, n)) = n
<1>1. IsFiniteSet({o}) /\ Cardinality({o}) = 1
  BY FS_Singleton
<1>2. IsFiniteSet(1 .. n) /\ Cardinality(1 .. n) = n
  BY FS_Interval
<1>3. /\ IsFiniteSet(Units(o, n))
      /\ Cardinality(Units(o, n)) = Cardinality({o}) * Cardinality(1 .. n)
  BY <1>1, <1>2, FS_Product DEF Units
<1> QED
  BY <1>1, <1>2, <1>3

(* What is owed is a finite number of units.                                *)
LEMMA OwedIsFinite ==
  ASSUME NEW a
  PROVE  IsFiniteSet(Owed(a)) /\ Cardinality(Owed(a)) \in Nat
<1>1. IsFiniteSet(Amounts)
  BY EscrowAssumption, FS_Interval DEF Amounts
<1>2. IsFiniteSet(Orders \X Amounts)
  BY <1>1, EscrowAssumption, FS_Product
<1>3. IsFiniteSet(Owed(a))
  BY <1>2, FS_Subset DEF Owed
<1> QED
  BY <1>3, FS_CardinalityType

(* Units that come to what is owed, or leave it, are counted in full.       *)
LEMMA UnitsAdd ==
  ASSUME NEW S, IsFiniteSet(S), NEW o, NEW n \in Nat, S \intersect Units(o, n) = {}
  PROVE  Cardinality(S \union Units(o, n)) = Cardinality(S) + n
<1>1. IsFiniteSet(Units(o, n)) /\ Cardinality(Units(o, n)) = n
  BY UnitsCount
<1>2. Cardinality(S \union Units(o, n))
        = Cardinality(S) + Cardinality(Units(o, n)) - Cardinality(S \intersect Units(o, n))
  BY <1>1, FS_Union
<1>3. Cardinality(S \intersect Units(o, n)) = 0 /\ Cardinality(S) \in Nat
  BY FS_EmptySet, FS_CardinalityType
<1> QED
  BY <1>1, <1>2, <1>3

(* A deposit adds the units of its order to what is owed of its asset.      *)
LEMMA DepositStaysSolvent ==
  ASSUME EscrowInv, Solvent, NEW o \in Orders, NEW t \in Terms, holds[o] = None, status[o] = "None",
         FeeOf[t.asset] <= t.amount,
         holds' = [holds EXCEPT ![o] = t], payments' = payments,
         tokens' = [tokens EXCEPT ![t.asset] = @ + t.amount - FeeOf[t.asset]]
  PROVE  Solvent'
<1> DEFINE n == t.amount
<1>0. /\ t # None /\ t.asset \in Assets /\ n \in Nat /\ 1 .. n \subseteq Amounts
      /\ holds \in [Orders -> Terms \union {None}] /\ payments[o] = <<>>
      /\ tokens \in [Assets -> Nat] /\ FeeOf \in [Assets -> Nat]
  <2>1. t.asset \in Assets /\ n \in 1 .. MaxAmount
    BY DEF Terms, Amounts
  <2>2. n \in Nat /\ 1 .. n \subseteq Amounts
    BY <2>1, EscrowAssumption DEF Amounts
  <2>3. payments[o] = <<>>
    BY DEF EscrowInv, HeldIsUnpaid
  <2>4. t # None
    BY TermsAssumption
  <2> QED
    BY <2>1, <2>2, <2>3, <2>4, EscrowAssumption DEF EscrowInv, EscrowTypeOK
<1>1. holds'[o] = t /\ \A q \in Orders : q # o => holds'[q] = holds[q]
  BY <1>0
<1>2. ASSUME NEW a \in Assets, a # t.asset PROVE Owed(a)' = Owed(a)
  BY <1>0, <1>1, <1>2 DEF Owed
<1>3. /\ Owed(t.asset)' = Owed(t.asset) \union Units(o, n)
      /\ Owed(t.asset) \intersect Units(o, n) = {}
  <2>1. ASSUME NEW q \in Orders, NEW i \in Amounts
        PROVE  <<q, i>> \in Owed(t.asset)' <=> <<q, i>> \in Owed(t.asset) \/ (q = o /\ i <= n)
    BY <1>0, <1>1, <2>1 DEF Owed
  <2>2. ASSUME NEW q \in Orders, NEW i \in Amounts
        PROVE  <<q, i>> \in Units(o, n) <=> q = o /\ i <= n
    BY <1>0, <2>2, EscrowAssumption DEF Units, Amounts
  <2>3. ASSUME NEW i PROVE <<o, i>> \notin Owed(t.asset)
    BY DEF Owed
  <2>4. /\ Owed(t.asset) \subseteq Orders \X Amounts
        /\ Owed(t.asset)' \subseteq Orders \X Amounts
        /\ Units(o, n) \subseteq Orders \X Amounts
    BY <1>0 DEF Owed, Units
  <2>5. Owed(t.asset)' = Owed(t.asset) \union Units(o, n)
    BY ONLY <2>1, <2>2, <2>4
  <2>6. Owed(t.asset) \intersect Units(o, n) = {}
    BY ONLY <2>2, <2>3, <2>4
  <2> QED
    BY <2>5, <2>6
<1>4. Cardinality(Owed(t.asset)') = Cardinality(Owed(t.asset)) + n
  <2>1. IsFiniteSet(Owed(t.asset))
    BY OwedIsFinite
  <2>2. Cardinality(Owed(t.asset) \union Units(o, n)) = Cardinality(Owed(t.asset)) + n
    BY <1>0, <1>3, <2>1, UnitsAdd
  <2> QED
    BY <1>3, <2>2
<1> SUFFICES ASSUME NEW a \in Assets
             PROVE  FeeOf[a] = 0 => tokens'[a] >= Cardinality(Owed(a)')
  BY DEF Solvent
<1>5. CASE a # t.asset
  BY <1>0, <1>2, <1>5 DEF Solvent
<1>6. CASE a = t.asset
  <2>1. Cardinality(Owed(a)) \in Nat
    BY OwedIsFinite
  <2>2. tokens'[a] = tokens[a] + n - FeeOf[a] /\ tokens[a] \in Nat /\ FeeOf[a] \in Nat
    BY <1>0, <1>6
  <2> QED
    BY <1>0, <1>4, <1>6, <2>1, <2>2 DEF Solvent
<1> QED
  BY <1>5, <1>6

(* An ending takes the units of its order from what is owed.                *)
LEMMA EndStaysSolvent ==
  ASSUME EscrowInv, Solvent, NEW o \in Orders, holds[o] # None, payments[o] = <<>>, holds' = holds,
         FeeOf[holds[o].asset] <= holds[o].amount, NEW to,
         tokens' = [tokens EXCEPT ![holds[o].asset] = @ - Spent(holds[o].asset, holds[o].amount, to)],
         NEW p, p # <<>>, payments' = [payments EXCEPT ![o] = p]
  PROVE  Solvent'
<1> DEFINE h == holds[o]
           n == h.amount
<1>0. /\ h.asset \in Assets /\ n \in Nat /\ 1 .. n \subseteq Amounts
      /\ payments \in [Orders -> Seq(Payment)] /\ holds \in [Orders -> Terms \union {None}]
      /\ tokens \in [Assets -> Nat] /\ FeeOf \in [Assets -> Nat]
  <2>1. h \in Terms
    BY DEF EscrowInv, EscrowTypeOK
  <2>2. h.asset \in Assets /\ n \in 1 .. MaxAmount
    BY <2>1 DEF Terms, Amounts
  <2>3. n \in Nat /\ 1 .. n \subseteq Amounts
    BY <2>2, EscrowAssumption DEF Amounts
  <2> QED
    BY <2>2, <2>3, EscrowAssumption DEF EscrowInv, EscrowTypeOK
<1>1. payments'[o] # <<>> /\ \A q \in Orders : q # o => payments'[q] = payments[q]
  BY <1>0
<1>2. ASSUME NEW a \in Assets, a # h.asset PROVE Owed(a)' = Owed(a)
  BY <1>0, <1>1, <1>2 DEF Owed
<1>3. /\ Owed(h.asset) = Owed(h.asset)' \union Units(o, n)
      /\ Owed(h.asset)' \intersect Units(o, n) = {}
  <2>1. ASSUME NEW q \in Orders, NEW i \in Amounts
        PROVE  <<q, i>> \in Owed(h.asset) <=> <<q, i>> \in Owed(h.asset)' \/ (q = o /\ i <= n)
    BY <1>0, <1>1, <2>1 DEF Owed
  <2>2. ASSUME NEW q \in Orders, NEW i \in Amounts
        PROVE  <<q, i>> \in Units(o, n) <=> q = o /\ i <= n
    BY <1>0, <2>2, EscrowAssumption DEF Units, Amounts
  <2>3. ASSUME NEW i PROVE <<o, i>> \notin Owed(h.asset)'
    BY <1>1 DEF Owed
  <2>4. /\ Owed(h.asset) \subseteq Orders \X Amounts
        /\ Owed(h.asset)' \subseteq Orders \X Amounts
        /\ Units(o, n) \subseteq Orders \X Amounts
    BY <1>0 DEF Owed, Units
  <2>5. Owed(h.asset) = Owed(h.asset)' \union Units(o, n)
    BY ONLY <2>1, <2>2, <2>4
  <2>6. Owed(h.asset)' \intersect Units(o, n) = {}
    BY ONLY <2>2, <2>3, <2>4
  <2> QED
    BY <2>5, <2>6
<1>4. IsFiniteSet(Owed(h.asset)') /\ Cardinality(Owed(h.asset)') \in Nat
  <2>1. Owed(h.asset)' \in SUBSET Owed(h.asset)
    BY <1>3
  <2>2. IsFiniteSet(Owed(h.asset)')
    BY <2>1, OwedIsFinite, FS_Subset
  <2> QED
    BY <2>2, FS_CardinalityType
<1>5. Cardinality(Owed(h.asset)) = Cardinality(Owed(h.asset)') + n
  <2>1. Cardinality(Owed(h.asset)' \union Units(o, n)) = Cardinality(Owed(h.asset)') + n
    BY <1>0, <1>3, <1>4, UnitsAdd
  <2> QED
    BY <1>3, <2>1
<1> SUFFICES ASSUME NEW a \in Assets
             PROVE  FeeOf[a] = 0 => tokens'[a] >= Cardinality(Owed(a)')
  BY DEF Solvent
<1>6. CASE a # h.asset
  BY <1>0, <1>2, <1>6 DEF Solvent
<1>7. CASE a = h.asset
  <2>1. tokens'[a] = tokens[a] - Spent(a, n, to) /\ tokens[a] \in Nat
    BY <1>0, <1>7
  <2>2. Spent(a, n, to) \in Int /\ Spent(a, n, to) <= n
    BY <1>0, <1>7 DEF Spent
  <2> QED
    BY <1>0, <1>4, <1>5, <1>7, <2>1, <2>2 DEF Solvent
<1> QED
  BY <1>6, <1>7

LEMMA EscrowStepSolvent ==
  ASSUME EscrowInv, Solvent, [EscrowNext]_<<escrowVars, now>>
  PROVE  Solvent'
<1>1. CASE UNCHANGED escrowVars
  BY <1>1 DEF escrowVars, Solvent, Owed
<1>2. ASSUME NEW o \in Orders, NEW payer \in Accounts, NEW payee \in Payees, NEW a \in Assets,
             NEW amount \in Amounts, NEW refundTo \in Payees \union {None},
             NEW releaser \in Accounts \union {None}, NEW expiry \in 1 .. MaxTime,
             Deposit(o, payer, a, amount, payee, refundTo, releaser, expiry), UNCHANGED now
      PROVE  Solvent'
  <2> DEFINE t == [payer |-> payer, asset |-> a, amount |-> amount, payee |-> payee,
                   refundTo |-> RefundDestination(refundTo, payer),
                   releaser |-> releaser, expiry |-> expiry]
  <2>1. RefundDestination(refundTo, payer) \in Payees
    BY DEF RefundDestination, Payees
  <2>2. t \in Terms /\ t.asset = a /\ t.amount = amount
    BY <2>1 DEF Terms
  <2>3. /\ status[o] = "None" /\ FeeOf[a] <= amount /\ payments' = payments
        /\ holds' = [holds EXCEPT ![o] = t]
        /\ tokens' = [tokens EXCEPT ![a] = @ + amount - FeeOf[a]]
    BY <1>2 DEF Deposit
  <2>4. holds[o] = None
    BY <2>3 DEF EscrowInv, HeldIsUnpaid
  <2> HIDE DEF t
  <2> QED
    BY <2>2, <2>3, <2>4, DepositStaysSolvent
<1>3. ASSUME NEW o \in Orders, NEW by \in Accounts,
             Release(o, by) \/ Refund(o, by) \/ Reclaim(o, by)
      PROVE  Solvent'
  <2>1. PICK to, outcome : End(o, by, to, outcome)
    BY <1>3 DEF Release, Refund, Reclaim
  <2> DEFINE e == [to |-> to, amount |-> holds[o].amount, by |-> by, at |-> now]
             p == Append(payments[o], e)
  <2>2. /\ holds[o] # None /\ status[o] = "Held" /\ holds' = holds
        /\ FeeOf[holds[o].asset] <= holds[o].amount
        /\ tokens' = [tokens EXCEPT ![holds[o].asset] = @ - Spent(holds[o].asset, holds[o].amount, to)]
        /\ payments' = [payments EXCEPT ![o] = Append(@, e)]
    BY <1>3, <2>1 DEF End, Held, Release, Refund, Reclaim
  <2>3. payments[o] = <<>>
    BY <2>2 DEF EscrowInv, HeldIsUnpaid
  <2> HIDE DEF e
  <2>4. p # <<>> /\ payments' = [payments EXCEPT ![o] = p]
    BY <2>2, <2>3
  <2> HIDE DEF p
  <2> QED
    BY <2>2, <2>3, <2>4, EndStaysSolvent
<1>4. ASSUME NEW a \in Assets, NEW amount \in Amounts, Gift(a, amount)
      PROVE  Solvent'
  <2> SUFFICES ASSUME NEW b \in Assets, FeeOf[b] = 0 PROVE tokens'[b] >= Cardinality(Owed(b)')
    BY DEF Solvent
  <2>1. Owed(b)' = Owed(b) /\ Cardinality(Owed(b)) \in Nat
    BY <1>4, OwedIsFinite DEF Gift, Owed
  <2>2. tokens[b] \in Nat /\ tokens'[b] >= tokens[b]
    BY <1>4, EscrowAssumption DEF Gift, Amounts, EscrowInv, EscrowTypeOK
  <2>3. tokens'[b] \in Int
    BY <1>4, EscrowAssumption DEF Gift, Amounts, EscrowInv, EscrowTypeOK
  <2> QED
    BY <2>1, <2>2, <2>3 DEF Solvent
<1> QED
  BY <1>1, <1>2, <1>3, <1>4 DEF EscrowNext, escrowVars

(* Orders share one balance per asset, and still it covers what they are    *)
(* owed in tokens without a fee, however deposits, endings and transfers of *)
(* no order interleave (deposit, release, refund, reclaim).                 *)
THEOREM EscrowStaysSolvent == EscrowSpec => []Solvent
<1>1. EscrowInit => Solvent
  <2> SUFFICES ASSUME EscrowInit, NEW a \in Assets PROVE tokens[a] = 0 /\ Cardinality(Owed(a)) = 0
    BY DEF Solvent
  <2>1. tokens[a] = 0 /\ Owed(a) = {}
    BY DEF EscrowInit, Owed
  <2> QED
    BY <2>1, FS_EmptySet
<1>2. EscrowInv /\ Solvent /\ [EscrowNext]_<<escrowVars, now>> => Solvent'
  BY EscrowStepSolvent
<1> QED
  BY <1>1, <1>2, EscrowInvHolds, PTL DEF EscrowSpec

(* The transfer of an ending never fails for lack of balance.               *)
THEOREM EscrowHoldsArePayable == EscrowSpec => []NoHoldIsStuck
<1>1. ASSUME EscrowInv, Solvent PROVE NoHoldIsStuck
  <2> SUFFICES ASSUME NEW o \in Orders, Held(o), FeeOf[holds[o].asset] = 0
               PROVE  holds[o].amount <= tokens[holds[o].asset]
    BY DEF NoHoldIsStuck
  <2> DEFINE h == holds[o]
  <2>1. h # None /\ payments[o] = <<>> /\ h \in Terms
    BY <1>1 DEF EscrowInv, EscrowTypeOK, HeldIsUnpaid, Held
  <2>2. h.asset \in Assets /\ h.amount \in 1 .. MaxAmount /\ h.amount \in Nat
    BY <2>1, EscrowAssumption DEF Terms, Amounts
  <2>3. Units(o, h.amount) \in SUBSET Owed(h.asset)
    BY <2>1, <2>2, EscrowAssumption DEF Units, Owed, Amounts
  <2>4. Cardinality(Units(o, h.amount)) <= Cardinality(Owed(h.asset))
    BY <2>3, OwedIsFinite, FS_Subset
  <2>5. Cardinality(Units(o, h.amount)) = h.amount
    BY <2>2, UnitsCount
  <2>6. tokens[h.asset] \in Nat /\ Cardinality(Owed(h.asset)) \in Nat
    BY <1>1, <2>2, OwedIsFinite DEF EscrowInv, EscrowTypeOK
  <2>7. tokens[h.asset] >= Cardinality(Owed(h.asset))
    BY <1>1, <2>2 DEF Solvent
  <2> HIDE DEF h
  <2> QED
    BY <2>2, <2>4, <2>5, <2>6, <2>7 DEF h
<1> QED
  BY <1>1, EscrowStaysSolvent, EscrowInvHolds, PTL

-----------------------------------------------------------------------------
(* Delegations *)

DelegationInv ==
  /\ DelegationTypeOK /\ now \in Nat
  /\ endorsed \subseteq endorsements
  /\ WithinEveryLink

(* What WithinEveryLink says of link i of an execution, given the           *)
(* endorsements made.                                                       *)
WithinLink(e, i, given) ==
  LET q == QuorumOf[e.chain[i]] IN
  /\ e.call \in Permits[e.chain[i]]
  /\ e.at >= WindowOf[e.chain[i]].after /\ e.at <= WindowOf[e.chain[i]].until
  /\ DelegateOf[e.chain[i]] \in
       {Open, IF i = 1 THEN e.redeemer ELSE DelegatorOf[e.chain[i - 1]]}
  /\ q # None =>
    /\ q.threshold > 0
    /\ Cardinality({x \in q.signers :
         <<x, [delegation |-> e.chain[i], redeemer |-> e.redeemer, call |-> e.call]>>
           \in given}) >= q.threshold

LEMMA WithinMeans ==
  /\ WithinEveryLink <=>
       \A k \in DOMAIN executions : \A i \in DOMAIN executions[k].chain :
         WithinLink(executions[k], i, endorsements)
  /\ WithinEveryLink' <=>
       \A k \in DOMAIN executions' : \A i \in DOMAIN executions'[k].chain :
         WithinLink(executions'[k], i, endorsements')
BY DEF WithinEveryLink, WithinLink

(* The signers who endorsed a payload are only ever more.                   *)
LEMMA QuorumGrows ==
  ASSUME NEW d \in Delegations, QuorumOf[d] # None, NEW p, NEW given, NEW more, given \subseteq more,
         Cardinality({x \in QuorumOf[d].signers : <<x, p>> \in given}) >= QuorumOf[d].threshold
  PROVE  Cardinality({x \in QuorumOf[d].signers : <<x, p>> \in more}) >= QuorumOf[d].threshold
<1> DEFINE Few == {x \in QuorumOf[d].signers : <<x, p>> \in given}
           Many == {x \in QuorumOf[d].signers : <<x, p>> \in more}
<1>1. QuorumOf[d] \in Quorum
  BY DelegationAssumption
<1>2. QuorumOf[d].signers \subseteq Accounts /\ QuorumOf[d].threshold \in Nat
  BY <1>1 DEF Quorum
<1>3. Few \subseteq Many /\ Many \subseteq Accounts /\ IsFiniteSet(Accounts)
  BY <1>2, DelegationAssumption
<1>4. Cardinality(Few) >= QuorumOf[d].threshold
  OBVIOUS
<1> HIDE DEF Few, Many
<1>5. /\ IsFiniteSet(Many) /\ IsFiniteSet(Few) /\ Cardinality(Few) <= Cardinality(Many)
      /\ Cardinality(Few) \in Nat /\ Cardinality(Many) \in Nat
  BY <1>3, FS_Subset, FS_CardinalityType
<1>6. Cardinality(Many) >= QuorumOf[d].threshold
  BY <1>2, <1>4, <1>5
<1> QED
  BY <1>6 DEF Many

LEMMA WithinLinkGrows ==
  ASSUME NEW e, NEW i, e.chain[i] \in Delegations, NEW given, NEW more, given \subseteq more,
         WithinLink(e, i, given)
  PROVE  WithinLink(e, i, more)
<1> DEFINE d == e.chain[i]
           p == [delegation |-> d, redeemer |-> e.redeemer, call |-> e.call]
<1>1. QuorumOf[d] # None =>
        Cardinality({x \in QuorumOf[d].signers : <<x, p>> \in given}) >= QuorumOf[d].threshold
  BY DEF WithinLink
<1> HIDE DEF p
<1>2. QuorumOf[d] # None =>
        Cardinality({x \in QuorumOf[d].signers : <<x, p>> \in more}) >= QuorumOf[d].threshold
  BY <1>1, QuorumGrows
<1> QED
  BY <1>2 DEF WithinLink, p

LEMMA ChainLinks ==
  ASSUME NEW chain \in Chains
  PROVE  /\ chain \in Seq(Delegations) /\ chain # <<>>
         /\ \A i \in DOMAIN chain : chain[i] \in Delegations
<1>1. PICK n \in 1 .. MaxChain : chain \in [1 .. n -> Delegations]
  BY DEF Chains
<1>2. n \in Nat /\ n # 0
  BY DelegationAssumption
<1> QED
  BY <1>1, <1>2

(* A step that makes no execution and takes no endorsement away.            *)
LEMMA NoExecutionKeeps ==
  ASSUME DelegationInv, DelegationTypeOK', now' \in Nat, executions' = executions,
         endorsed' \subseteq endorsements', endorsements \subseteq endorsements'
  PROVE  DelegationInv'
<1>1. ASSUME NEW k \in DOMAIN executions, NEW i \in DOMAIN executions[k].chain
      PROVE  WithinLink(executions[k], i, endorsements')
  <2>0. executions[k] \in Execution
    BY DEF DelegationInv, DelegationTypeOK
  <2>1. executions[k].chain \in Chains
    BY <2>0 DEF Execution
  <2>2. executions[k].chain[i] \in Delegations
    BY <2>1, ChainLinks
  <2>3. WithinLink(executions[k], i, endorsements)
    BY WithinMeans DEF DelegationInv
  <2> QED
    BY <2>2, <2>3, WithinLinkGrows
<1>2. WithinEveryLink'
  BY <1>1, WithinMeans
<1> QED
  BY <1>2 DEF DelegationInv

LEMMA RedeemKeeps ==
  ASSUME DelegationInv, NEW chain \in Chains, NEW redeemer \in Accounts, NEW call_ \in Calls,
         RedeemDelegation(chain, redeemer, call_), UNCHANGED now
  PROVE  DelegationInv'
<1> DEFINE e == [chain |-> chain, redeemer |-> redeemer, call |-> call_, at |-> now]
<1>1. e \in Execution
  BY DEF DelegationInv, Execution
<1>2. /\ executions' = Append(executions, e)
      /\ UNCHANGED <<accepted, endorsed, managed, systemPaused, endorsements>>
      /\ \A i \in DOMAIN chain : ValidLink(chain, i, redeemer) /\ BeforeHooks(chain, i, redeemer, call_)
  BY DEF RedeemDelegation
<1>3. revokedDelegations' \subseteq Delegations
  BY DelegationAssumption DEF RedeemDelegation, Effect, DelegationInv, DelegationTypeOK
<1>4. ASSUME NEW i \in DOMAIN chain PROVE WithinLink(e, i, endorsements)
  <2> DEFINE d == chain[i]
             p == [delegation |-> d, redeemer |-> redeemer, call |-> call_]
  <2>1. d \in Delegations /\ WindowOf[d].after \in Nat /\ WindowOf[d].until \in Nat
    BY ChainLinks, DelegationAssumption
  <2>2. /\ call_ \in Permits[d] /\ now >= WindowOf[d].after /\ now <= WindowOf[d].until
        /\ DelegateOf[d] \in {Open, IF i = 1 THEN redeemer ELSE DelegatorOf[chain[i - 1]]}
    BY <1>2, <2>1 DEF BeforeHooks, ValidLink, TimestampHook
  <2>3. ASSUME QuorumOf[d] # None
        PROVE  /\ QuorumOf[d].threshold > 0
               /\ Cardinality({x \in QuorumOf[d].signers : <<x, p>> \in endorsements}) >= QuorumOf[d].threshold
    <3>1. /\ QuorumOf[d].threshold \in 1 .. Cardinality(QuorumOf[d].signers)
          /\ Cardinality({x \in QuorumOf[d].signers : <<x, p>> \in endorsed}) >= QuorumOf[d].threshold
      BY <1>2, <2>3 DEF BeforeHooks, QuorumHook, Endorses
    <3>2. QuorumOf[d].threshold > 0
      BY <3>1
    <3>3. endorsed \subseteq endorsements
      BY DEF DelegationInv
    <3> HIDE DEF p
    <3> QED
      BY <2>1, <2>3, <3>1, <3>2, <3>3, QuorumGrows
  <2> QED
    BY <2>2, <2>3 DEF WithinLink
<1>5. e.chain = chain
  OBVIOUS
<1> HIDE DEF e
<1>6. /\ executions \in Seq(Execution) /\ executions' \in Seq(Execution)
      /\ DOMAIN executions' = 1 .. Len(executions) + 1 /\ DOMAIN executions = 1 .. Len(executions)
      /\ \A k \in DOMAIN executions : executions'[k] = executions[k]
      /\ executions'[Len(executions) + 1] = e /\ Len(executions) \in Nat
  BY <1>1, <1>2 DEF DelegationInv, DelegationTypeOK
<1>7. DelegationTypeOK'
  BY <1>2, <1>3, <1>6 DEF DelegationInv, DelegationTypeOK
<1>8. ASSUME NEW k \in DOMAIN executions', NEW i \in DOMAIN executions'[k].chain
      PROVE  WithinLink(executions'[k], i, endorsements)
  <2>1. CASE k \in DOMAIN executions
    BY <1>6, <2>1, WithinMeans DEF DelegationInv
  <2>2. CASE k \notin DOMAIN executions
    BY <1>4, <1>5, <1>6, <2>2
  <2> QED
    BY <2>1, <2>2
<1>9. WithinEveryLink'
  BY <1>2, <1>8, WithinMeans
<1> QED
  BY <1>2, <1>7, <1>9 DEF DelegationInv

LEMMA EndorseKeeps ==
  ASSUME DelegationInv, NEW d \in Delegations, NEW redeemer \in Accounts, NEW call_ \in Calls,
         QuorumOf[d] # None, NEW x \in QuorumOf[d].signers,
         \/ ApproveHash(x, [delegation |-> d, redeemer |-> redeemer, call |-> call_])
         \/ RevokeHash(x, [delegation |-> d, redeemer |-> redeemer, call |-> call_]),
         UNCHANGED now
  PROVE  DelegationInv'
<1> DEFINE p == [delegation |-> d, redeemer |-> redeemer, call |-> call_]
<1>1. QuorumOf[d] \in Quorum
  BY DelegationAssumption
<1>2. x \in Accounts /\ p \in Payload
  BY <1>1 DEF Quorum, Payload
<1>3. ApproveHash(x, p) \/ RevokeHash(x, p)
  OBVIOUS
<1> HIDE DEF p
<1>4. <<x, p>> \in Accounts \X Payload
  BY <1>2
<1>5. /\ endorsed' \subseteq endorsed \union {<<x, p>>}
      /\ endorsements' \in {endorsements, endorsements \union {<<x, p>>}}
      /\ endorsed' \subseteq endorsements'
      /\ UNCHANGED <<accepted, revokedDelegations, managed, systemPaused, executions>>
  BY <1>3 DEF ApproveHash, RevokeHash, DelegationInv
<1>6. DelegationTypeOK' /\ endorsements \subseteq endorsements' /\ now' \in Nat
  BY <1>4, <1>5 DEF DelegationInv, DelegationTypeOK
<1> QED
  BY <1>5, <1>6, NoExecutionKeeps

LEMMA DelegationStepInv == DelegationInv /\ [DelegationNext]_<<delegationVars, now>> => DelegationInv'
<1> SUFFICES ASSUME DelegationInv, [DelegationNext]_<<delegationVars, now>> PROVE DelegationInv'
  OBVIOUS
<1> USE DelegationAssumption
<1>1. CASE UNCHANGED delegationVars /\ (Tick \/ UNCHANGED now)
  <2>1. now' \in Nat
    BY <1>1 DEF Tick, DelegationInv
  <2>2. DelegationTypeOK'
    BY <1>1 DEF delegationVars, DelegationInv, DelegationTypeOK
  <2> QED
    BY <1>1, <2>1, <2>2, NoExecutionKeeps DEF delegationVars, DelegationInv
<1>2. ASSUME NEW d \in Delegations, UNCHANGED now,
             \/ SignDelegation(d) \/ SignatureLapses(d)
             \/ \E x \in Accounts : RevokeDelegationByOwner(x, d)
      PROVE  DelegationInv'
  <2>1. DelegationTypeOK' /\ UNCHANGED <<endorsed, endorsements, executions>>
    BY <1>2 DEF SignDelegation, SignatureLapses, RevokeDelegationByOwner, DelegationInv, DelegationTypeOK
  <2> QED
    BY <1>2, <2>1, NoExecutionKeeps DEF DelegationInv
<1>3. ASSUME NEW a \in Accounts, SetManager(a), UNCHANGED now PROVE DelegationInv'
  <2>1. DelegationTypeOK' /\ UNCHANGED <<endorsed, endorsements, executions>>
    BY <1>3 DEF SetManager, DelegationInv, DelegationTypeOK
  <2> QED
    BY <1>3, <2>1, NoExecutionKeeps DEF DelegationInv
<1>4. CASE SetSystemPause /\ UNCHANGED now
  <2>1. DelegationTypeOK' /\ UNCHANGED <<endorsed, endorsements, executions>>
    BY <1>4 DEF SetSystemPause, DelegationInv, DelegationTypeOK
  <2> QED
    BY <1>4, <2>1, NoExecutionKeeps DEF DelegationInv
<1> QED
  BY <1>1, <1>2, <1>3, <1>4, RedeemKeeps, EndorseKeeps DEF DelegationNext, DelegationStep

LEMMA DelegationInvHolds == DelegationSpec => []DelegationInv
<1>1. DelegationInit /\ now = 0 => DelegationInv
  <2> SUFFICES ASSUME DelegationInit, now = 0 PROVE DelegationInv
    OBVIOUS
  <2>1. executions \in Seq(Execution) /\ DOMAIN executions = {}
    BY DEF DelegationInit
  <2>2. DelegationTypeOK /\ now \in Nat /\ endorsed \subseteq endorsements
    BY <2>1 DEF DelegationInit, DelegationTypeOK
  <2> QED
    BY <2>1, <2>2 DEF DelegationInv, WithinEveryLink
<1> QED
  BY <1>1, DelegationStepInv, PTL DEF DelegationSpec

(* Every call made through a chain is within the authority of each of its   *)
(* links, with the quorums they ask for (redeemDelegation,                  *)
(* _validateDelegation, _runBeforeHooks).                                   *)
THEOREM CallsWithinEveryLink == DelegationSpec => [](DelegationTypeOK /\ WithinEveryLink)
<1>1. DelegationInv => DelegationTypeOK /\ WithinEveryLink
  BY DEF DelegationInv
<1> QED
  BY <1>1, DelegationInvHolds, PTL

(* No call goes through a chain with a revoked link, and no revocation is   *)
(* taken back (_validateDelegation, revokeDelegationByOwner).               *)
THEOREM RevokedChainsAreDead == DelegationSpec => RevokedLinkIsDead
<1> DEFINE Dead ==
      /\ revokedDelegations \subseteq revokedDelegations'
      /\ executions' # executions =>
           \A i \in DOMAIN executions'[Len(executions')].chain :
             executions'[Len(executions')].chain[i] \notin revokedDelegations
<1>1. DelegationInv /\ [DelegationNext]_<<delegationVars, now>> => [Dead]_<<delegationVars, now>>
  <2> SUFFICES ASSUME DelegationInv, DelegationNext PROVE Dead
    OBVIOUS
  <2>1. ASSUME NEW chain \in Chains, NEW x \in Accounts, NEW call_ \in Calls, RedeemDelegation(chain, x, call_)
        PROVE  Dead
    <3> DEFINE e == [chain |-> chain, redeemer |-> x, call |-> call_, at |-> now]
    <3>1. /\ executions' = Append(executions, e) /\ e.chain = chain
          /\ \A i \in DOMAIN chain : chain[i] \notin revokedDelegations
          /\ revokedDelegations \subseteq revokedDelegations'
      BY <2>1 DEF RedeemDelegation, ValidLink, NotRevokedLink, Effect
    <3> HIDE DEF e
    <3>2. executions'[Len(executions')] = e
      BY <3>1 DEF DelegationInv, DelegationTypeOK
    <3> QED
      BY <3>1, <3>2
  <2>2. ASSUME ~\E chain \in Chains, x \in Accounts, call_ \in Calls : RedeemDelegation(chain, x, call_)
        PROVE  revokedDelegations \subseteq revokedDelegations' /\ executions' = executions
    BY <2>2, ZenonT(60) DEF DelegationNext, DelegationStep, delegationVars, SignDelegation, SignatureLapses,
                RevokeDelegationByOwner, ApproveHash, RevokeHash, SetManager, SetSystemPause
  <2> QED
    BY <2>1, <2>2
<1> QED
  BY <1>1, DelegationInvHolds, PTL DEF DelegationSpec, RevokedLinkIsDead

-----------------------------------------------------------------------------
(* The contracts together *)

(* A step of the whole is a step of the contract in focus; the others see   *)
(* at most the block time pass.                                             *)
LEMMA StepsAreComponentSteps ==
  ASSUME [Next]_vars
  PROVE  /\ [DelegationNext]_<<delegationVars, now>> /\ [EscrowNext]_<<escrowVars, now>>
         /\ [AgreementNext]_agreementVars /\ [AttestationNext]_attestationVars
         /\ [RelationshipNext]_relationshipVars /\ [NamesNext]_<<namesVars, now>>
         /\ [SkillNext]_skillVars /\ [OntologyNext]_ontologyVars /\ [VaultNext]_vaultVars
<1> DEFINE Quiet == Tick \/ UNCHANGED now
<1>0. /\ Quiet /\ UNCHANGED delegationVars => [DelegationNext]_<<delegationVars, now>>
      /\ Quiet /\ UNCHANGED escrowVars => [EscrowNext]_<<escrowVars, now>>
      /\ Quiet /\ UNCHANGED namesVars => [NamesNext]_<<namesVars, now>>
  BY DEF DelegationNext, EscrowNext, NamesNext
<1>1. /\ DelegationNext => Quiet
      /\ EscrowNext => Quiet
      /\ NamesNext => Quiet
  BY DEF DelegationNext, EscrowNext, NamesNext
<1> HIDE DEF Quiet
<1>2. UNCHANGED now => Quiet
  BY DEF Quiet
<1>3. CASE UNCHANGED vars
  BY <1>0, <1>2, <1>3 DEF vars
<1>4. CASE DelegationsStep
  BY <1>0, <1>1, <1>4 DEF DelegationsStep
<1>5. CASE EscrowStep
  BY <1>0, <1>1, <1>5 DEF EscrowStep
<1>6. CASE NamesStep
  BY <1>0, <1>1, <1>6 DEF NamesStep
<1>7. CASE AgreementStep
  BY <1>0, <1>2, <1>7 DEF AgreementStep
<1>8. CASE AttestationStep
  BY <1>0, <1>2, <1>8 DEF AttestationStep
<1>9. CASE RelationshipStep
  BY <1>0, <1>2, <1>9 DEF RelationshipStep
<1>10. CASE SkillsStep
  BY <1>0, <1>2, <1>10 DEF SkillsStep
<1>11. CASE OntologyStep
  BY <1>0, <1>2, <1>11 DEF OntologyStep
<1>12. CASE VaultStep
  BY <1>0, <1>2, <1>12 DEF VaultStep
<1> QED
  BY <1>3, <1>4, <1>5, <1>6, <1>7, <1>8, <1>9, <1>10, <1>11, <1>12 DEF Next

(* The whole implements the specification of each contract.                 *)
LEMMA WholeImplementsParts ==
  Spec => /\ DelegationSpec /\ EscrowSpec /\ AgreementSpec /\ AttestationSpec /\ RelationshipSpec
          /\ NamesSpec /\ SkillSpec /\ OntologySpec /\ VaultSpec
<1>1. Init => /\ DelegationInit /\ EscrowInit /\ AgreementInit /\ AttestationInit /\ RelationshipInit
              /\ NamesInit /\ SkillInit /\ OntologyInit /\ VaultInit /\ now = 0
  BY DEF Init
<1>2. [Next]_vars =>
        /\ [DelegationNext]_<<delegationVars, now>> /\ [EscrowNext]_<<escrowVars, now>>
        /\ [AgreementNext]_agreementVars /\ [AttestationNext]_attestationVars
        /\ [RelationshipNext]_relationshipVars /\ [NamesNext]_<<namesVars, now>>
        /\ [SkillNext]_skillVars /\ [OntologyNext]_ontologyVars /\ [VaultNext]_vaultVars
  BY StepsAreComponentSteps
<1> QED
  BY <1>1, <1>2, PTL DEF Spec, DelegationSpec, EscrowSpec, AgreementSpec, AttestationSpec,
     RelationshipSpec, NamesSpec, SkillSpec, OntologySpec, VaultSpec

(* The contracts together keep their types.                                 *)
THEOREM TypeCorrect == Spec => []TypeOK
<1>1. DelegationTypeOK /\ EscrowTypeOK /\ AgreementTypeOK /\ AttestationTypeOK /\ RelationshipTypeOK
      /\ NamesTypeOK /\ SkillTypeOK /\ OntologyTypeOK /\ VaultTypeOK => TypeOK
  BY DEF TypeOK
<1> QED
  BY <1>1, WholeImplementsParts, CallsWithinEveryLink, EscrowTypes, AgreementsSettledByBoth,
     AttestationsNeedBoth, RelationshipTypes, NamesAreVouched, SkillTypes, OntologyListsMatch,
     VaultKeepsNamespaces, PTL

(* Together they keep every invariant that one of them has by itself.       *)
THEOREM InvariantsTogether ==
  Spec => [](/\ WithinEveryLink /\ Solvent /\ SettledByBoth /\ JointNeedsBoth
             /\ ReverseIsVouched /\ ListsMatchTables /\ OwnNamespace)
BY WholeImplementsParts, CallsWithinEveryLink, EscrowStaysSolvent, AgreementsSettledByBoth,
   AttestationsNeedBoth, NamesAreVouched, OntologyListsMatch, VaultKeepsNamespaces, PTL

(* And every restriction on steps, the escrow's refinement included.        *)
THEOREM StepsTogether ==
  Spec => RevokedLinkIsDead /\ MoneyMovesOnce /\ ActiveByBoth /\ PinnedVersionStands
BY WholeImplementsParts, RevokedChainsAreDead, EscrowMovesMoneyOnce, EdgesActiveByBoth, VersionsStand, PTL
=============================================================================
