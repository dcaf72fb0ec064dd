----------------------------- MODULE X402Proofs -----------------------------
(***************************************************************************)
(* Proofs of the safety properties of the x402 rail and of the on-chain     *)
(* enforcer, for any set of grants, mandates and settle() calls.            *)
(***************************************************************************)
EXTENDS X402Rail, FiniteSetTheorems, TLAPS

(* The nonce of every charge is burned.                                     *)
NonceBurned ==
  \A i \in DOMAIN charges :
    NonceOf[charges[i].mandate] \in nonceUsed[GrantOf[charges[i].mandate]]

(* The transactions that landed are in the charge history.                  *)
LandedIsCharged == \A a \in Attempts : tx[a] = "landed" => WasCharged(mandate[a])

ChainInv == ChainTypeOK /\ NonceBurned /\ ChargedOnce /\ SpendWithinCap
CallInv  == SingleFlight /\ LandedIsCharged /\ ReceiptMeansPaid
Inv == TypeOK /\ ChainInv /\ CallInv

(* Initially nothing was charged and nothing is in flight.                  *)
LEMMA InitInv == Init => Inv
<1> USE ChargeAssumption, RailAssumption
<1> SUFFICES ASSUME Init PROVE Inv
  OBVIOUS
<1>1. ChainTypeOK
  <2>1. charges \in Seq(Charge)
    BY DEF Init, ChainInit
  <2>2. nonceUsed \in [Grants -> SUBSET Nonces]
    BY DEF Init, ChainInit
  <2> QED
    BY <2>1, <2>2 DEF Init, ChainInit, ChainTypeOK
<1>2. TypeOK
  BY <1>1 DEF Init, RailInit, TypeOK, NonceState, Place, Result, TxState
<1>3. NonceBurned /\ ChargedOnce
  BY DEF Init, ChainInit, NonceBurned, ChargedOnce
<1>4. SpendWithinCap
  BY DEF Init, ChainInit, SpendWithinCap
<1>5. CallInv
  BY DEF Init, RailInit, CallInv, SingleFlight, InFlight, LandedIsCharged, ReceiptMeansPaid
<1> QED
  BY <1>1, <1>2, <1>3, <1>4, <1>5 DEF Inv, ChainInv

(* Appending to a sequence.                                                 *)
LEMMA AppendFacts ==
  ASSUME NEW S, NEW s \in Seq(S), NEW e \in S
  PROVE  /\ Append(s, e) \in Seq(S)
         /\ DOMAIN Append(s, e) = DOMAIN s \union {Len(s) + 1}
         /\ Len(s) + 1 \notin DOMAIN s
         /\ Append(s, e)[Len(s) + 1] = e
         /\ \A i \in DOMAIN s : Append(s, e)[i] = s[i] /\ s[i] \in S
OBVIOUS

(* RedeemDelegation moves nonce, budget and money together.                 *)
LEMMA RedeemKeepsChainInv ==
  ASSUME ChainInv, NEW m \in Mandates, RedeemDelegation(m)
  PROVE  ChainInv'
<1> USE ChargeAssumption
<1> DEFINE g == GrantOf[m]
<1>0. /\ g \in Grants /\ NonceOf[m] \in Nonces /\ AmountOf[m] \in Nat
      /\ charges \in Seq(Charge)
      /\ [mandate |-> m, at |-> now] \in Charge
      /\ ChainTypeOK
  BY DEF ChainInv, ChainTypeOK, Charge
<1>1. /\ charges' \in Seq(Charge)
      /\ DOMAIN charges' = DOMAIN charges \union {Len(charges) + 1}
      /\ Len(charges) + 1 \notin DOMAIN charges
      /\ charges'[Len(charges) + 1].mandate = m
      /\ \A i \in DOMAIN charges : charges'[i] = charges[i] /\ charges[i].mandate \in Mandates
  <2>1. charges' = Append(charges, [mandate |-> m, at |-> now])
    BY DEF RedeemDelegation
  <2>2. [mandate |-> m, at |-> now].mandate = m /\ \A c \in Charge : c.mandate \in Mandates
    BY DEF Charge
  <2> QED
    BY <1>0, <2>1, <2>2, AppendFacts
<1>2. ChainTypeOK'
  <2>1. nonceUsed' \in [Grants -> SUBSET Nonces]
    BY <1>0 DEF RedeemDelegation, ChainTypeOK
  <2>2. spent' \in [Grants -> Nat] /\ received' \in [Grants -> Nat]
    <3>1. /\ spent \in [Grants -> Nat] /\ received \in [Grants -> Nat]
          /\ spent' = [spent EXCEPT ![g] = @ + AmountOf[m]]
          /\ received' = [received EXCEPT ![g] = @ + AmountOf[m]]
      BY <1>0 DEF RedeemDelegation, ChainTypeOK
    <3>2. spent[g] + AmountOf[m] \in Nat /\ received[g] + AmountOf[m] \in Nat
      BY ONLY <1>0, <3>1
    <3> QED
      BY ONLY <1>0, <3>1, <3>2
  <2>3. windowStart' \in [Grants -> Nat] /\ callsInWindow' \in [Grants -> Nat]
    <3>1. /\ windowStart \in [Grants -> Nat] /\ callsInWindow \in [Grants -> Nat] /\ now \in Nat
          /\ windowStart' = [windowStart EXCEPT ![g] = IF WindowExpired(g) THEN now ELSE @]
          /\ callsInWindow' = [callsInWindow EXCEPT ![g] = NextCalls(g)]
      BY <1>0 DEF RedeemDelegation, ChainTypeOK
    <3>2. NextCalls(g) \in Nat
      BY <1>0, <3>1 DEF NextCalls
    <3> QED
      BY ONLY <1>0, <3>1, <3>2
  <2> QED
    BY <1>0, <1>1, <2>1, <2>2, <2>3 DEF RedeemDelegation, ChainTypeOK
<1>3. /\ \A h \in Grants : nonceUsed[h] \subseteq nonceUsed'[h]
      /\ NonceOf[m] \in nonceUsed'[g] /\ NonceOf[m] \notin nonceUsed[g]
  BY <1>0 DEF RedeemDelegation, Redeemable, NonceFresh, ChainTypeOK
<1>4. NonceBurned'
  BY <1>0, <1>1, <1>3 DEF NonceBurned, ChainInv
<1>5. ChargedOnce'
  <2> SUFFICES ASSUME NEW i \in DOMAIN charges', NEW j \in DOMAIN charges',
                      GrantOf[charges'[i].mandate] = GrantOf[charges'[j].mandate],
                      NonceOf[charges'[i].mandate] = NonceOf[charges'[j].mandate]
               PROVE  i = j
    BY DEF ChargedOnce
  <2>1. CASE i \in DOMAIN charges /\ j \in DOMAIN charges
    BY <2>1, <1>1 DEF ChainInv, ChargedOnce
  <2>2. CASE i \notin DOMAIN charges /\ j \in DOMAIN charges
    BY <2>2, <1>1, <1>3, SMTT(40) DEF ChainInv, NonceBurned
  <2>3. CASE i \in DOMAIN charges /\ j \notin DOMAIN charges
    BY <2>3, <1>1, <1>3, SMTT(40) DEF ChainInv, NonceBurned
  <2> QED
    BY <1>1, <2>1, <2>2, <2>3
<1>6. SpendWithinCap'
  BY <1>0 DEF ChainInv, SpendWithinCap, RedeemDelegation, Redeemable, WithinAggregate, ChainTypeOK
<1> QED
  BY <1>2, <1>4, <1>5, <1>6 DEF ChainInv

(* What a landed redemption was charged for stays charged.                  *)
LEMMA ChargesGrow ==
  ASSUME ChainTypeOK, NEW m \in Mandates, RedeemDelegation(m), NEW k \in Mandates
  PROVE  (WasCharged(k) => WasCharged(k)') /\ WasCharged(m)'
<1> USE ChargeAssumption
<1>1. /\ DOMAIN charges' = DOMAIN charges \union {Len(charges) + 1}
      /\ charges'[Len(charges) + 1].mandate = m
      /\ \A i \in DOMAIN charges : charges'[i] = charges[i]
  <2>1. charges' = Append(charges, [mandate |-> m, at |-> now])
    BY DEF RedeemDelegation
  <2>2. charges \in Seq(Charge) /\ [mandate |-> m, at |-> now] \in Charge
    BY DEF ChainTypeOK, Charge
  <2> QED
    BY <2>1, <2>2, AppendFacts, SMTT(40)
<1> QED
  BY <1>1 DEF WasCharged

(* Steps of the chain that redeem nothing.                                  *)
LEMMA ChainFrame ==
  ASSUME ChainInv, UNCHANGED budgetVars, revoked' \subseteq Grants,
         systemPaused' \in BOOLEAN, now' \in Nat
  PROVE  ChainInv' /\ \A m \in Mandates : WasCharged(m)' = WasCharged(m)
BY DEF ChainInv, budgetVars, ChainTypeOK, NonceBurned, ChargedOnce, SpendWithinCap, WasCharged

(* One step of one settle() call.                                           *)
LEMMA StepKeepsInv ==
  ASSUME Inv, NEW a \in Attempts, Step(a)
  PROVE  Inv'
<1> DEFINE m == mandate[a]
<1>0. /\ TypeOK /\ m \in Mandates /\ UNCHANGED <<chainVars, mandate, crashes>>
      /\ SingleFlight /\ LandedIsCharged /\ ReceiptMeansPaid
  BY DEF Inv, CallInv, TypeOK, Step, Verify, Reserve, SimulationPasses, SimulationRefuses,
         Throws, Submit, Settle, Fail
<1>1. ChainInv' /\ \A k \in Mandates : WasCharged(k)' = WasCharged(k)
  BY <1>0, ChainFrame DEF chainVars, Inv, TypeOK, ChainTypeOK
<1>2. ChainTypeOK'
  BY <1>1 DEF ChainInv
<1>3. TypeOK'
  BY <1>0, <1>2 DEF TypeOK, Step, Verify, Reserve, SimulationPasses, SimulationRefuses,
         Throws, Submit, Settle, Fail, Return, Goto, Mark, MarkFailed,
         NonceState, Place, Result, TxState
<1>4. \A b \in Attempts : b # a =>
        pc'[b] = pc[b] /\ result'[b] = result[b] /\ tx'[b] = tx[b]
  BY <1>0 DEF TypeOK, Step, Verify, Reserve, SimulationPasses, SimulationRefuses,
         Throws, Submit, Settle, Fail, Return, Goto
<1>5. \A k \in Mandates : k # m => row'[k] = row[k]
  BY <1>0 DEF TypeOK, Step, Verify, Reserve, SimulationPasses, SimulationRefuses,
         Throws, Submit, Settle, Fail, Mark, MarkFailed
<1>6. /\ InFlight(a)' => ~Claimable(row'[m])
      /\ InFlight(a)' => InFlight(a) \/ Claimable(row[m])
      /\ InFlight(a) \/ Claimable(row[m]) \/ row'[m] = row[m]
  BY <1>0 DEF TypeOK, Step, Verify, Reserve, SimulationPasses, SimulationRefuses,
         Throws, Submit, Settle, Fail, Return, Goto, Mark, MarkFailed,
         InFlight, Claimable, SingleFlight
<1>7. SingleFlight'
  <2>1. \A b \in Attempts : b # a => InFlight(b)' = InFlight(b)
    BY <1>4 DEF InFlight
  <2>2. \A b \in Attempts : b # a /\ InFlight(b) /\ mandate[b] = m
           => ~InFlight(a) /\ ~Claimable(row[m])
    BY <1>0 DEF SingleFlight
  <2>3. ASSUME NEW b \in Attempts, InFlight(b)'
        PROVE  ~Claimable(row'[mandate[b]])
    <3>0. mandate[b] \in Mandates
      BY <1>0 DEF TypeOK
    <3>1. CASE b = a
      BY <3>1, <1>6, <2>3
    <3>2. CASE b # a /\ mandate[b] = m
      BY <3>2, <2>1, <2>2, <2>3, <1>6
    <3>3. CASE b # a /\ mandate[b] # m
      BY <3>0, <3>3, <2>1, <2>3, <1>5, <1>0 DEF SingleFlight
    <3> QED
      BY <3>1, <3>2, <3>3
  <2>4. ASSUME NEW b \in Attempts, NEW c \in Attempts,
               InFlight(b)', InFlight(c)', mandate[b] = mandate[c]
        PROVE  b = c
    BY <2>4, <2>1, <2>2, <1>6, <1>0 DEF SingleFlight
  <2> QED
    BY <2>3, <2>4, <1>0 DEF SingleFlight, Claimable
<1>8. tx[a] = "landed" => WasCharged(m)
  BY <1>0 DEF LandedIsCharged
<1>9. LandedIsCharged'
  <2>1. tx'[a] = "landed" => tx[a] = "landed"
    BY <1>0 DEF TypeOK, Step, Verify, Reserve, SimulationPasses, SimulationRefuses,
           Throws, Submit, Settle, Fail
  <2> QED
    BY <1>0, <1>1, <1>4, <2>1 DEF LandedIsCharged, TypeOK
<1>10. /\ row'[m] = "settled" => WasCharged(m)
       /\ result'[a] \in {"ok", "idempotent"} => WasCharged(m)
  BY <1>0, <1>8 DEF TypeOK, Step, Verify, Reserve, SimulationPasses, SimulationRefuses,
         Throws, Submit, Settle, Fail, Return, Goto, Mark, MarkFailed, Confirmed,
         ReceiptMeansPaid
<1>11. ReceiptMeansPaid'
  <2>1. \A k \in Mandates : row'[k] = "settled" => WasCharged(k)
    BY <1>0, <1>5, <1>10 DEF ReceiptMeansPaid
  <2>2. \A b \in Attempts : result'[b] \in {"ok", "idempotent"} => WasCharged(mandate[b])
    BY <1>0, <1>4, <1>10 DEF ReceiptMeansPaid
  <2>3. \A b \in Attempts : mandate[b] \in Mandates /\ mandate'[b] = mandate[b]
    BY <1>0 DEF TypeOK
  <2> QED
    BY <1>1, <2>1, <2>2, <2>3 DEF ReceiptMeansPaid
<1> QED
  BY <1>1, <1>3, <1>7, <1>9, <1>11 DEF Inv, CallInv

(* A redemption lands.                                                      *)
LEMMA LandKeepsInv ==
  ASSUME Inv, NEW a \in Attempts, Land(a)
  PROVE  Inv'
<1>0. /\ TypeOK /\ ChainInv /\ ChainTypeOK /\ mandate[a] \in Mandates
      /\ RedeemDelegation(mandate[a])
      /\ UNCHANGED <<row, pc, mandate, result, crashes>>
  BY DEF Inv, TypeOK, Land
<1>1. ChainInv'
  BY <1>0, RedeemKeepsChainInv
<1>2. /\ \A k \in Mandates : WasCharged(k) => WasCharged(k)'
      /\ WasCharged(mandate[a])'
  BY <1>0, ChargesGrow
<1>3. TypeOK'
  BY <1>0, <1>1 DEF ChainInv, TypeOK, Land, TxState
<1>4. SingleFlight'
  BY <1>0 DEF Inv, CallInv, SingleFlight, InFlight
<1>5. \A b \in Attempts : mandate[b] \in Mandates /\ mandate'[b] = mandate[b]
                          /\ (b # a => tx'[b] = tx[b])
  BY <1>0 DEF TypeOK, Land
<1>6. LandedIsCharged'
  <2> SUFFICES ASSUME NEW b \in Attempts, tx'[b] = "landed"
               PROVE  WasCharged(mandate[b])'
    BY <1>5 DEF LandedIsCharged
  <2>1. CASE b = a
    BY <2>1, <1>2
  <2>2. CASE b # a
    BY <2>2, <1>2, <1>5 DEF Inv, CallInv, LandedIsCharged
  <2> QED
    BY <2>1, <2>2
<1>7. ReceiptMeansPaid'
  BY <1>0, <1>2, <1>5 DEF Inv, CallInv, ReceiptMeansPaid
<1> QED
  BY <1>1, <1>3, <1>4, <1>6, <1>7 DEF Inv, CallInv

(* The steps that neither run a call nor redeem.                            *)
LEMMA OtherKeepsInv ==
  ASSUME Inv,
         \/ \E a \in Attempts : Revert(a)
         \/ Crash
         \/ Chain /\ UNCHANGED railVars
         \/ UNCHANGED vars
  PROVE  Inv'
<1>0. TypeOK /\ ChainInv /\ CallInv
  BY DEF Inv
<1>1. UNCHANGED budgetVars /\ revoked' \subseteq Grants /\ systemPaused' \in BOOLEAN /\ now' \in Nat
  BY <1>0 DEF TypeOK, ChainTypeOK, Revert, Crash, Chain, RevokeDelegation, SetPause, Tick,
              vars, chainVars, budgetVars
<1>2. ChainInv' /\ \A k \in Mandates : WasCharged(k)' = WasCharged(k)
  BY <1>0, <1>1, ChainFrame
<1>3. mandate' = mandate /\ result' = result /\ \A b \in Attempts : mandate[b] \in Mandates
  BY <1>0 DEF TypeOK, Revert, Crash, railVars, vars
<1>4. /\ tx' \in [Attempts -> TxState]
      /\ \A b \in Attempts : tx'[b] = "landed" => tx[b] = "landed"
  BY <1>0 DEF TypeOK, TxState, Revert, Crash, railVars, vars
<1>5. /\ pc' \in [Attempts -> Place]
      /\ \A b \in Attempts : InFlight(b)' => InFlight(b) /\ row' = row
  <2>1. CASE Crash
    BY <2>1, <1>0 DEF TypeOK, Place, Crash, InFlight
  <2>2. CASE ~Crash
    BY <2>2, <1>0 DEF TypeOK, Revert, railVars, vars, InFlight
  <2> QED
    BY <2>1, <2>2
<1>6. /\ row' \in [Mandates -> NonceState]
      /\ \A k \in Mandates : row'[k] = "settled" => row[k] = "settled"
  <2>1. CASE Crash
    BY <2>1, <1>0 DEF TypeOK, NonceState, Crash
  <2>2. CASE ~Crash
    BY <2>2, <1>0 DEF TypeOK, Revert, railVars, vars
  <2> QED
    BY <2>1, <2>2
<1>7. crashes' \in Nat
  BY <1>0 DEF TypeOK, Crash, Revert, railVars, vars
<1>8. TypeOK'
  BY <1>0, <1>2, <1>3, <1>4, <1>5, <1>6, <1>7 DEF ChainInv, TypeOK
<1>9. SingleFlight'
  BY <1>0, <1>3, <1>5 DEF CallInv, SingleFlight, Claimable
<1>10. LandedIsCharged' /\ ReceiptMeansPaid'
  BY <1>0, <1>2, <1>3, <1>4, <1>6 DEF CallInv, LandedIsCharged, ReceiptMeansPaid
<1> QED
  BY <1>2, <1>8, <1>9, <1>10 DEF Inv, CallInv

(* The conjunction is inductive over settle() calls, the chain and crashes. *)
THEOREM RailInvariance == Spec => []Inv
<1>1. Inv /\ [Next]_vars => Inv'
  <2> SUFFICES ASSUME Inv, [Next]_vars PROVE Inv'
    OBVIOUS
  <2>1. ASSUME NEW a \in Attempts, Step(a) PROVE Inv'
    BY <2>1, StepKeepsInv
  <2>2. ASSUME NEW a \in Attempts, Land(a) PROVE Inv'
    BY <2>2, LandKeepsInv
  <2>3. ASSUME \/ \E a \in Attempts : Revert(a)
               \/ Crash
               \/ Chain /\ UNCHANGED railVars
               \/ UNCHANGED vars
        PROVE Inv'
    BY <2>3, OtherKeepsInv
  <2> QED
    BY <2>1, <2>2, <2>3 DEF Next
<1> QED
  BY InitInv, <1>1, PTL DEF Spec

(* Every reachable state of the rail is type correct.                       *)
THEOREM RailTypeCorrect == Spec => []TypeOK
<1>1. Inv => TypeOK
  BY DEF Inv
<1> QED
  BY RailInvariance, <1>1, PTL

(* PAY-RAIL-4: no nonce of a grant is charged twice.                        *)
THEOREM MandatesAreChargedOnce == Spec => []ChargedOnce
<1>1. Inv => ChargedOnce
  BY DEF Inv, ChainInv
<1> QED
  BY RailInvariance, <1>1, PTL

(* The money a grant pays stays within its aggregate cap.                   *)
THEOREM SpendingIsCapped == Spec => []SpendWithinCap
<1>1. Inv => SpendWithinCap
  BY DEF Inv, ChainInv
<1> QED
  BY RailInvariance, <1>1, PTL

(* PAY-RAIL-5: one call at a time works on a mandate.                       *)
THEOREM CallsAreExclusive == Spec => []SingleFlight
<1>1. Inv => SingleFlight
  BY DEF Inv, CallInv
<1> QED
  BY RailInvariance, <1>1, PTL

(* A receipt or a successful answer is backed by a charge on the chain.     *)
THEOREM ReceiptsAreTrue == Spec => []ReceiptMeansPaid
<1>1. Inv => ReceiptMeansPaid
  BY DEF Inv, CallInv
<1> QED
  BY RailInvariance, <1>1, PTL

(* PAY-DEL-3: a stale revocation read never lets a charge through.          *)
THEOREM RevocationIsFinal == Spec => NoChargeAfterRevoke
<1> DEFINE Fresh == \A i \in DOMAIN charges' \ DOMAIN charges :
                      GrantOf[charges'[i].mandate] \notin revoked
<1>1. ASSUME Inv, [Next]_vars PROVE [Fresh]_vars
  <2>1. CASE \E a \in Attempts : Land(a)
    <3> PICK a \in Attempts : Land(a)
      BY <2>1
    <3>1. /\ DOMAIN charges' \ DOMAIN charges \subseteq {Len(charges) + 1}
          /\ charges'[Len(charges) + 1].mandate = mandate[a]
      <4>1. charges' = Append(charges, [mandate |-> mandate[a], at |-> now])
        BY DEF Land, RedeemDelegation
      <4>2. charges \in Seq(Charge) /\ [mandate |-> mandate[a], at |-> now] \in Charge
        BY <1>1 DEF Inv, TypeOK, ChainTypeOK, Charge
      <4> QED
        BY <4>1, <4>2, AppendFacts
    <3>2. GrantOf[mandate[a]] \notin revoked
      BY DEF Land, RedeemDelegation, Redeemable, DelegationLive
    <3> QED
      BY <3>1, <3>2
  <2>2. CASE ~\E a \in Attempts : Land(a)
    <3>1. UNCHANGED charges
      BY <1>1, <2>2 DEF Next, Step, Verify, Reserve, SimulationPasses, SimulationRefuses,
             Throws, Submit, Settle, Fail, Revert, Crash, Chain, RevokeDelegation,
             SetPause, Tick, vars, chainVars, budgetVars
    <3> QED
      BY <3>1
  <2> QED
    BY <2>1, <2>2
<1> QED
  BY RailInvariance, <1>1, PTL DEF Spec, NoChargeAfterRevoke

-----------------------------------------------------------------------------
(* The frequency cap *)

(* The charges of history h to grant g from lo until before hi.             *)
Hits(h, g, lo, hi) ==
  {i \in DOMAIN h : GrantOf[h[i].mandate] = g /\ lo <= h[i].at /\ h[i].at < hi}

(* What the budget of g knows of its history: a charge opened the window at *)
(* ws, no charge is later than the window, calls bounds the charges in it,  *)
(* and the charges less than a window before ws are all of the previous     *)
(* window, whose opening charge is not among them.                          *)
OpenWindow(h, g, ws, calls) ==
  /\ MaxPerWindow[g] # 0 /\ WindowSeconds[g] # 0
  /\ \E i \in DOMAIN h : GrantOf[h[i].mandate] = g /\ h[i].at = ws
  /\ \A i \in DOMAIN h : GrantOf[h[i].mandate] = g => h[i].at < ws + WindowSeconds[g]
  /\ Cardinality(Hits(h, g, ws, ws + WindowSeconds[g])) <= calls
  /\ calls <= MaxPerWindow[g]
  /\ Cardinality(Hits(h, g, ws - WindowSeconds[g] + 1, ws)) <= MaxPerWindow[g] - 1

NoCharge(h, g) == \A i \in DOMAIN h : GrantOf[h[i].mandate] # g

FrequencyInv ==
  /\ now # 0
  /\ \A i \in DOMAIN charges : charges[i].at <= now
  /\ \A g \in Grants :
       /\ windowStart[g] <= now
       /\ windowStart[g] = 0 => NoCharge(charges, g)
       /\ windowStart[g] # 0 => OpenWindow(charges, g, windowStart[g], callsInWindow[g])
  /\ FrequencyBounded

(* The parts of a recorded charge.                                          *)
LEMMA ChargeFields ==
  /\ \A c \in Charge : c.at \in Nat /\ c.mandate \in Mandates
  /\ \A h \in Seq(Charge) : \A i \in DOMAIN h : h[i] \in Charge
<1>1. \A c \in Charge : c.at \in Nat /\ c.mandate \in Mandates
  BY DEF Charge
<1>2. \A h \in Seq(Charge) : \A i \in DOMAIN h : h[i] \in Charge
  OBVIOUS
<1> QED
  BY <1>1, <1>2

(* Sets of charges are finite, and a part of one is no larger.              *)
LEMMA HitsAreFinite ==
  ASSUME NEW h \in Seq(Charge), NEW g, NEW lo, NEW hi
  PROVE  /\ IsFiniteSet(Hits(h, g, lo, hi))
         /\ Cardinality(Hits(h, g, lo, hi)) \in Nat
<1>1. DOMAIN h = 1..Len(h) /\ Len(h) \in Nat
  OBVIOUS
<1>2. IsFiniteSet(DOMAIN h)
  BY <1>1, FS_Interval
<1>3. IsFiniteSet(Hits(h, g, lo, hi))
  BY <1>2, FS_Subset DEF Hits
<1> QED
  BY <1>3, FS_CardinalityType

(* A period that ends after the window opened straddles two windows.        *)
LEMMA PeriodIsBounded ==
  ASSUME NEW h \in Seq(Charge), NEW g \in Grants, NEW ws \in Nat, NEW calls \in Nat,
         OpenWindow(h, g, ws, calls), NEW t \in Nat, ws < t + WindowSeconds[g]
  PROVE  Cardinality(Hits(h, g, t, t + WindowSeconds[g])) <= 2 * MaxPerWindow[g] - 1
<1> DEFINE W == WindowSeconds[g]
           A == Hits(h, g, ws - W + 1, ws)
           B == Hits(h, g, ws, ws + W)
           P == Hits(h, g, t, t + W)
<1>0. W \in Nat /\ MaxPerWindow[g] \in Nat
  BY ChargeAssumption
<1>1. /\ IsFiniteSet(A) /\ Cardinality(A) \in Nat
      /\ IsFiniteSet(B) /\ Cardinality(B) \in Nat
      /\ IsFiniteSet(P) /\ Cardinality(P) \in Nat
  BY HitsAreFinite
<1>2. \A i \in DOMAIN h : h[i].at \in Nat
  BY ChargeFields
<1>3. P \in SUBSET (A \union B)
  <2> SUFFICES ASSUME NEW i \in DOMAIN h, GrantOf[h[i].mandate] = g,
                      t <= h[i].at, h[i].at < t + W
               PROVE  \/ ws - W + 1 <= h[i].at /\ h[i].at < ws
                      \/ ws <= h[i].at /\ h[i].at < ws + W
    BY DEF Hits
  <2>1. h[i].at < ws + W
    BY DEF OpenWindow
  <2> QED
    BY <2>1, <1>0, <1>2, SMTT(40)
<1>4. Cardinality(A) <= MaxPerWindow[g] - 1 /\ Cardinality(B) <= MaxPerWindow[g]
  <2>1. /\ Cardinality(A) <= MaxPerWindow[g] - 1
        /\ Cardinality(B) <= calls /\ calls <= MaxPerWindow[g]
    BY DEF OpenWindow
  <2> HIDE DEF A, B
  <2> QED
    BY <2>1, <1>0, <1>1
<1> HIDE DEF A, B, P
<1>5. /\ IsFiniteSet(A \union B)
      /\ Cardinality(A \union B) = Cardinality(A) + Cardinality(B) - Cardinality(A \cap B)
  BY <1>1, FS_Union
<1>6. IsFiniteSet(A \cap B) /\ Cardinality(A \cap B) \in Nat
  <2>1. A \cap B \in SUBSET A
    OBVIOUS
  <2>2. IsFiniteSet(A \cap B)
    BY <1>1, <2>1, FS_Subset
  <2> QED
    BY <2>2, FS_CardinalityType
<1>7. Cardinality(P) <= Cardinality(A \union B)
  BY <1>3, <1>5, FS_Subset
<1>8. Cardinality(P) <= 2 * MaxPerWindow[g] - 1
  BY ONLY <1>0, <1>1, <1>4, <1>5, <1>6, <1>7, SMTT(40)
<1> QED
  BY <1>8 DEF P

(* A charge to another grant, or after the period, is not in it.            *)
LEMMA HitsKept ==
  ASSUME NEW h \in Seq(Charge), NEW c \in Charge, NEW g, NEW lo \in Int, NEW hi \in Int,
         ~(GrantOf[c.mandate] = g /\ c.at < hi)
  PROVE  Hits(Append(h, c), g, lo, hi) = Hits(h, g, lo, hi)
<1>1. /\ DOMAIN Append(h, c) = DOMAIN h \union {Len(h) + 1}
      /\ Append(h, c)[Len(h) + 1] = c
      /\ \A i \in DOMAIN h : Append(h, c)[i] = h[i]
  BY AppendFacts
<1> QED
  BY <1>1 DEF Hits

(* Appending a charge adds at most itself to a period.                      *)
LEMMA HitsOfAppend ==
  ASSUME NEW h \in Seq(Charge), NEW c \in Charge, NEW g, NEW lo \in Int, NEW hi \in Int
  PROVE  LET in == GrantOf[c.mandate] = g /\ lo <= c.at /\ c.at < hi
             A  == Hits(Append(h, c), g, lo, hi)
             B  == Hits(h, g, lo, hi)
         IN  /\ ~in => A = B
             /\ in  => A = B \union {Len(h) + 1} /\ Cardinality(A) = Cardinality(B) + 1
<1> DEFINE A == Hits(Append(h, c), g, lo, hi)
           B == Hits(h, g, lo, hi)
           in == GrantOf[c.mandate] = g /\ lo <= c.at /\ c.at < hi
<1>1. /\ DOMAIN Append(h, c) = DOMAIN h \union {Len(h) + 1}
      /\ Len(h) + 1 \notin DOMAIN h
      /\ Append(h, c)[Len(h) + 1] = c
      /\ \A i \in DOMAIN h : Append(h, c)[i] = h[i]
  BY AppendFacts
<1>2. ~in => A = B
  BY <1>1 DEF Hits
<1>3. in => A = B \union {Len(h) + 1}
  BY <1>1 DEF Hits
<1>4. IsFiniteSet(B) /\ Len(h) + 1 \notin B
  <2>1. IsFiniteSet(B)
    BY HitsAreFinite
  <2> QED
    BY <1>1, <2>1 DEF Hits
<1>5. in => Cardinality(A) = Cardinality(B) + 1
  <2> HIDE DEF A, B, in
  <2> QED
    BY <1>3, <1>4, FS_AddElement
<1> QED
  BY <1>2, <1>3, <1>5

(* The charge opens a window when the last one has expired: what precedes   *)
(* it by less than a window belongs to the last one, after its opening.     *)
LEMMA ChargeRollsWindow ==
  ASSUME NEW h \in Seq(Charge), NEW c \in Charge, NEW g \in Grants, GrantOf[c.mandate] = g,
         \A i \in DOMAIN h : h[i].at <= c.at,
         MaxPerWindow[g] # 0, WindowSeconds[g] # 0, NEW ws \in Nat, NEW calls \in Nat,
         \/ NoCharge(h, g)
         \/ OpenWindow(h, g, ws, calls) /\ c.at >= ws + WindowSeconds[g]
  PROVE  OpenWindow(Append(h, c), g, c.at, 1)
<1> DEFINE W == WindowSeconds[g]
           h2 == Append(h, c)
           B == Hits(h, g, ws, ws + W)
           A2 == Hits(h2, g, c.at - W + 1, c.at)
           B2 == Hits(h2, g, c.at, c.at + W)
<1>0. W \in Nat /\ MaxPerWindow[g] \in Nat /\ c.at \in Nat /\ \A i \in DOMAIN h : h[i].at \in Nat
  BY ChargeAssumption, ChargeFields
<1>1. /\ DOMAIN h2 = DOMAIN h \union {Len(h) + 1}
      /\ Len(h) + 1 \notin DOMAIN h
      /\ h2[Len(h) + 1] = c
      /\ \A i \in DOMAIN h : h2[i] = h[i]
  BY AppendFacts
<1>2. h2 \in Seq(Charge)
  BY AppendFacts
<1>3. \A i \in DOMAIN h : GrantOf[h[i].mandate] = g => h[i].at < c.at
  <2> SUFFICES ASSUME NEW i \in DOMAIN h, GrantOf[h[i].mandate] = g
               PROVE  h[i].at < c.at
    OBVIOUS
  <2>1. h[i].at < ws + W /\ c.at >= ws + W
    BY DEF NoCharge, OpenWindow
  <2>2. h[i].at \in Nat
    BY <1>0
  <2> QED
    BY <2>1, <2>2, <1>0
<1>4. B2 = {Len(h) + 1}
  BY <1>0, <1>1, <1>3 DEF Hits
<1>5. Cardinality(B2) = 1
  <2> HIDE DEF B2
  <2> QED
    BY <1>4, FS_Singleton
<1>6. Cardinality(A2) <= MaxPerWindow[g] - 1
  <2>1. CASE NoCharge(h, g)
    <3>1. A2 = {}
      BY <2>1, <1>0, <1>1 DEF Hits, NoCharge
    <3> HIDE DEF A2
    <3> QED
      BY <3>1, <1>0, FS_EmptySet
  <2>2. CASE OpenWindow(h, g, ws, calls) /\ c.at >= ws + W
    <3>1. PICK k \in DOMAIN h : GrantOf[h[k].mandate] = g /\ h[k].at = ws
      BY <2>2 DEF OpenWindow
    <3>2. k \in B
      BY <3>1, <1>0 DEF Hits
    <3>3. A2 \in SUBSET (B \ {k})
      <4> SUFFICES ASSUME NEW i \in A2 PROVE i \in B /\ i # k
        OBVIOUS
      <4>1. /\ i \in DOMAIN h2 /\ GrantOf[h2[i].mandate] = g
            /\ c.at - W + 1 <= h2[i].at /\ h2[i].at < c.at
        BY DEF Hits
      <4>2. i \in DOMAIN h /\ h2[i] = h[i]
        BY <4>1, <1>0, <1>1
      <4>3. ws < h[i].at
        <5>1. h[i].at \in Nat
          BY <4>2, <1>0
        <5> QED
          BY <4>1, <4>2, <5>1, <2>2, <1>0, SMTT(40)
      <4>4. h[i].at < ws + W
        BY <4>1, <4>2, <2>2 DEF OpenWindow
      <4>5. i # k /\ ws <= h[i].at
        BY <4>2, <4>3, <3>1, <1>0
      <4> QED
        BY <4>1, <4>2, <4>4, <4>5 DEF Hits
    <3>4. /\ IsFiniteSet(B) /\ Cardinality(B) \in Nat
          /\ IsFiniteSet(A2) /\ Cardinality(A2) \in Nat
      BY <1>2, HitsAreFinite
    <3>5. Cardinality(B) <= calls /\ calls <= MaxPerWindow[g]
      BY <2>2 DEF OpenWindow
    <3> HIDE DEF A2, B
    <3>6. IsFiniteSet(B \ {k}) /\ Cardinality(B \ {k}) = Cardinality(B) - 1
      BY <3>2, <3>4, FS_RemoveElement
    <3>7. Cardinality(A2) <= Cardinality(B \ {k})
      BY <3>3, <3>6, FS_Subset
    <3> QED
      BY <3>4, <3>5, <3>6, <3>7, <1>0
  <2> QED
    BY <2>1, <2>2
<1>7. /\ \E i \in DOMAIN h2 : GrantOf[h2[i].mandate] = g /\ h2[i].at = c.at
      /\ \A i \in DOMAIN h2 : GrantOf[h2[i].mandate] = g => h2[i].at < c.at + W
  BY <1>0, <1>1, <1>3
<1>8. /\ Cardinality(B2) <= 1 /\ 1 <= MaxPerWindow[g]
  <2> HIDE DEF B2
  <2> QED
    BY <1>0, <1>5
<1> QED
  BY <1>6, <1>7, <1>8 DEF OpenWindow

(* The charge counts in the open window.                                    *)
LEMMA ChargeCountsInWindow ==
  ASSUME NEW h \in Seq(Charge), NEW c \in Charge, NEW g \in Grants, GrantOf[c.mandate] = g,
         NEW ws \in Nat, NEW calls \in Nat, OpenWindow(h, g, ws, calls),
         ws <= c.at, c.at < ws + WindowSeconds[g], calls + 1 <= MaxPerWindow[g]
  PROVE  OpenWindow(Append(h, c), g, ws, calls + 1)
<1> DEFINE W == WindowSeconds[g]
           h2 == Append(h, c)
<1>0. W \in Nat /\ MaxPerWindow[g] \in Nat /\ c.at \in Nat
  BY ChargeAssumption DEF Charge
<1>1. /\ DOMAIN h2 = DOMAIN h \union {Len(h) + 1}
      /\ h2[Len(h) + 1] = c
      /\ \A i \in DOMAIN h : h2[i] = h[i]
  BY AppendFacts
<1>2. Cardinality(Hits(h2, g, ws, ws + W)) <= calls + 1
  <2>1. Cardinality(Hits(h2, g, ws, ws + W)) = Cardinality(Hits(h, g, ws, ws + W)) + 1
    BY <1>0, HitsOfAppend
  <2>2. /\ Cardinality(Hits(h, g, ws, ws + W)) \in Nat
        /\ Cardinality(Hits(h, g, ws, ws + W)) <= calls
    BY HitsAreFinite DEF OpenWindow
  <2> QED
    BY <2>1, <2>2
<1>3. Hits(h2, g, ws - W + 1, ws) = Hits(h, g, ws - W + 1, ws)
  <2>1. ~(c.at < ws) /\ ws \in Int /\ ws - W + 1 \in Int
    BY <1>0
  <2> QED
    BY <2>1, HitsKept
<1> QED
  BY <1>0, <1>1, <1>2, <1>3 DEF OpenWindow

(* A charge to another grant leaves the budget of g as it was.              *)
LEMMA ChargeLeavesOthers ==
  ASSUME NEW h \in Seq(Charge), NEW c \in Charge, NEW g \in Grants, GrantOf[c.mandate] # g
  PROVE  /\ NoCharge(h, g) => NoCharge(Append(h, c), g)
         /\ \A ws, calls \in Nat : OpenWindow(h, g, ws, calls) => OpenWindow(Append(h, c), g, ws, calls)
<1>0. WindowSeconds[g] \in Nat
  BY ChargeAssumption
<1>1. /\ DOMAIN Append(h, c) = DOMAIN h \union {Len(h) + 1}
      /\ Append(h, c)[Len(h) + 1] = c
      /\ \A i \in DOMAIN h : Append(h, c)[i] = h[i]
  BY AppendFacts
<1>2. \A lo, hi \in Int : Hits(Append(h, c), g, lo, hi) = Hits(h, g, lo, hi)
  BY HitsKept
<1> QED
  BY <1>0, <1>1, <1>2, SMTT(40) DEF NoCharge, OpenWindow

(* The charges of a period, as the property counts them.                    *)
LEMMA PeriodIsHits ==
  ASSUME charges \in Seq(Charge), NEW g \in Grants, NEW t \in Nat
  PROVE  {i \in ChargedTo(g) : charges[i].at \in t..(t + WindowSeconds[g] - 1)}
           = Hits(charges, g, t, t + WindowSeconds[g])
<1>1. WindowSeconds[g] \in Nat /\ \A i \in DOMAIN charges : charges[i].at \in Nat
  BY ChargeAssumption, ChargeFields
<1> QED
  BY <1>1 DEF ChargedTo, Hits

(* A redemption rolls the window or counts in it, and stays bounded.        *)
LEMMA RedeemKeepsFrequency ==
  ASSUME ChainTypeOK, ChainTypeOK', FrequencyInv, NEW m \in Mandates, RedeemDelegation(m)
  PROVE  FrequencyInv'
<1> USE ChargeAssumption
<1> DEFINE g == GrantOf[m]
           c == [mandate |-> m, at |-> now]
<1>0. /\ g \in Grants /\ c \in Charge /\ c.mandate = m /\ c.at = now /\ now \in Nat
      /\ charges \in Seq(Charge) /\ charges' = Append(charges, c) /\ now' = now
      /\ WindowSeconds[g] \in Nat /\ MaxPerWindow[g] \in Nat
  BY DEF ChainTypeOK, Charge, RedeemDelegation
<1>1. /\ \A f \in Grants : windowStart[f] \in Nat /\ callsInWindow[f] \in Nat
      /\ \A f \in Grants : f # g => /\ windowStart'[f] = windowStart[f]
                                    /\ callsInWindow'[f] = callsInWindow[f]
      /\ windowStart'[g] = IF WindowExpired(g) THEN now ELSE windowStart[g]
      /\ callsInWindow'[g] = NextCalls(g)
      /\ MaxPerWindow[g] # 0 /\ WindowSeconds[g] # 0 /\ NextCalls(g) <= MaxPerWindow[g]
  BY <1>0 DEF ChainTypeOK, RedeemDelegation, Redeemable, ValidTerms
<1>2. /\ now # 0
      /\ \A i \in DOMAIN charges : charges[i].at <= now
      /\ \A f \in Grants :
           /\ windowStart[f] <= now
           /\ windowStart[f] = 0 => NoCharge(charges, f)
           /\ windowStart[f] # 0 => OpenWindow(charges, f, windowStart[f], callsInWindow[f])
  BY DEF FrequencyInv
<1>3. /\ DOMAIN charges' = DOMAIN charges \union {Len(charges) + 1}
      /\ charges'[Len(charges) + 1] = c
      /\ \A i \in DOMAIN charges : charges'[i] = charges[i]
  BY <1>0, AppendFacts
<1> HIDE DEF g, c
<1>4. /\ windowStart'[g] # 0 /\ windowStart'[g] <= now
      /\ OpenWindow(charges', g, windowStart'[g], callsInWindow'[g])
  <2>1. CASE WindowExpired(g)
    <3>1. windowStart'[g] = now /\ callsInWindow'[g] = 1
      BY <1>1, <2>1 DEF NextCalls
    <3>2. \/ NoCharge(charges, g)
          \/ /\ OpenWindow(charges, g, windowStart[g], callsInWindow[g])
             /\ c.at >= windowStart[g] + WindowSeconds[g]
      BY <1>0, <1>2, <2>1 DEF WindowExpired
    <3>3. OpenWindow(Append(charges, c), g, c.at, 1)
      <4>1. GrantOf[c.mandate] = g
        BY <1>0 DEF g
      <4> QED
        BY <4>1, <1>0, <1>1, <1>2, <3>2, ChargeRollsWindow
    <3> QED
      BY <1>0, <1>2, <3>1, <3>3
  <2>2. CASE ~WindowExpired(g)
    <3>0. NextCalls(g) = callsInWindow[g] + 1
      BY <2>2 DEF NextCalls
    <3>1. /\ windowStart'[g] = windowStart[g] /\ callsInWindow'[g] = callsInWindow[g] + 1
          /\ windowStart[g] # 0 /\ now < windowStart[g] + WindowSeconds[g]
          /\ callsInWindow[g] + 1 <= MaxPerWindow[g]
      <4>1. windowStart[g] # 0 /\ ~(now >= windowStart[g] + WindowSeconds[g])
        BY <2>2 DEF WindowExpired
      <4>2. windowStart[g] \in Nat /\ now \in Nat /\ WindowSeconds[g] \in Nat
        BY ONLY <1>0, <1>1
      <4>3. now < windowStart[g] + WindowSeconds[g]
        BY ONLY <4>1, <4>2
      <4>4. windowStart'[g] = windowStart[g]
        BY ONLY <1>1, <2>2
      <4>5. /\ callsInWindow'[g] = callsInWindow[g] + 1
            /\ callsInWindow[g] + 1 <= MaxPerWindow[g]
        BY ONLY <1>1, <3>0
      <4> QED
        BY ONLY <4>1, <4>3, <4>4, <4>5
    <3>2. OpenWindow(Append(charges, c), g, windowStart[g], callsInWindow[g] + 1)
      <4>1. GrantOf[c.mandate] = g
        BY <1>0 DEF g
      <4> QED
        BY <4>1, <1>0, <1>1, <1>2, <3>1, ChargeCountsInWindow
    <3> QED
      BY <1>0, <1>2, <3>1, <3>2
  <2> QED
    BY <2>1, <2>2
<1>5. ASSUME NEW f \in Grants
      PROVE  /\ windowStart'[f] <= now
             /\ windowStart'[f] = 0 => NoCharge(charges', f)
             /\ windowStart'[f] # 0 => OpenWindow(charges', f, windowStart'[f], callsInWindow'[f])
  <2>1. CASE f = g
    BY <2>1, <1>4
  <2>2. CASE f # g
    <3>1. GrantOf[c.mandate] # f
      BY <2>2, <1>0 DEF g
    <3> QED
      BY <2>2, <3>1, <1>0, <1>1, <1>2, ChargeLeavesOthers
  <2> QED
    BY <2>1, <2>2
<1>6. \A i \in DOMAIN charges' : charges'[i].at <= now
  BY <1>0, <1>2, <1>3, SMTT(40)
<1>7. ASSUME NEW f \in Grants, NEW t \in 1..MaxTime, ChargedTo(f)' # {}
      PROVE  Cardinality(Hits(charges', f, t, t + WindowSeconds[f])) <= 2 * MaxPerWindow[f] - 1
  <2>0. t \in Nat /\ WindowSeconds[f] \in Nat /\ charges' \in Seq(Charge)
    BY DEF ChainTypeOK
  <2>1. CASE windowStart'[f] < t + WindowSeconds[f]
    <3>1. windowStart'[f] # 0
      BY <1>5, <1>7 DEF ChargedTo, NoCharge
    <3>2. windowStart'[f] \in Nat /\ callsInWindow'[f] \in Nat
      BY DEF ChainTypeOK
    <3> QED
      BY <2>0, <2>1, <3>1, <3>2, <1>5, PeriodIsBounded
  <2>2. CASE ~(windowStart'[f] < t + WindowSeconds[f])
    <3>1. ~(GrantOf[c.mandate] = f /\ c.at < t + WindowSeconds[f])
      <4>1. windowStart'[f] \in Nat
        BY DEF ChainTypeOK
      <4>2. windowStart'[f] <= now /\ c.at = now /\ now \in Nat
        BY <1>0, <1>5
      <4> QED
        BY ONLY <2>0, <2>2, <4>1, <4>2
    <3>2. Hits(charges', f, t, t + WindowSeconds[f]) = Hits(charges, f, t, t + WindowSeconds[f])
      <4>1. t \in Int /\ t + WindowSeconds[f] \in Int
        BY ONLY <2>0
      <4>2. charges \in Seq(Charge) /\ c \in Charge /\ charges' = Append(charges, c)
        BY <1>0
      <4> QED
        BY ONLY <4>1, <4>2, <3>1, HitsKept
    <3>3. CASE ChargedTo(f) # {}
      BY <2>0, <3>2, <3>3, <1>0, PeriodIsHits DEF FrequencyInv, FrequencyBounded
    <3>4. CASE ChargedTo(f) = {}
      <4>1. f = g
        BY <1>0, <1>3, <1>7, <3>4 DEF ChargedTo, g
      <4>2. Hits(charges, f, t, t + WindowSeconds[f]) = {}
        BY <3>4 DEF ChargedTo, Hits
      <4>3. Cardinality(Hits(charges', f, t, t + WindowSeconds[f])) = 0
        BY ONLY <4>2, <3>2, FS_EmptySet
      <4>4. MaxPerWindow[f] \in Nat /\ MaxPerWindow[f] # 0
        BY ONLY <4>1, <1>0, <1>1
      <4> QED
        BY ONLY <4>3, <4>4
    <3> QED
      BY <3>3, <3>4
  <2> QED
    BY <2>1, <2>2
<1>8. FrequencyBounded'
  <2> SUFFICES ASSUME NEW f \in Grants, NEW t \in 1..MaxTime, ChargedTo(f)' # {}
               PROVE  Cardinality({i \in ChargedTo(f)' : charges'[i].at \in t..(t + WindowSeconds[f] - 1)})
                        <= 2 * MaxPerWindow[f] - 1
    BY DEF FrequencyBounded
  <2>1. {i \in ChargedTo(f)' : charges'[i].at \in t..(t + WindowSeconds[f] - 1)}
          = Hits(charges', f, t, t + WindowSeconds[f])
    <3>1. WindowSeconds[f] \in Nat /\ \A i \in DOMAIN charges' : charges'[i].at \in Nat
      BY ChargeFields DEF ChainTypeOK
    <3> QED
      BY <3>1 DEF ChargedTo, Hits
  <2> QED
    BY <2>1, <1>7
<1> QED
  BY <1>0, <1>2, <1>5, <1>6, <1>8 DEF FrequencyInv

(* Time and the steps that redeem nothing leave the history alone.          *)
LEMMA FrequencyFrame ==
  ASSUME ChainTypeOK, FrequencyInv, UNCHANGED budgetVars, now' \in Nat, now <= now'
  PROVE  FrequencyInv'
<1>1. /\ windowStart' = windowStart /\ callsInWindow' = callsInWindow /\ charges' = charges
      /\ now \in Nat /\ now # 0
      /\ \A g \in Grants : windowStart[g] \in Nat
      /\ \A i \in DOMAIN charges : charges[i].at \in Nat
  BY ChargeFields DEF budgetVars, ChainTypeOK, FrequencyInv
<1>2. /\ now' # 0
      /\ \A i \in DOMAIN charges : charges[i].at <= now'
      /\ \A g \in Grants : windowStart[g] <= now'
  BY <1>1 DEF FrequencyInv
<1>3. FrequencyBounded'
  BY <1>1 DEF FrequencyInv, FrequencyBounded, ChargedTo
<1> QED
  BY <1>1, <1>2, <1>3 DEF FrequencyInv

(* The frequency cap: any WindowSeconds in a row hold fewer than twice      *)
(* MaxPerWindow charges of a grant, whatever retries and crashes there are. *)
THEOREM ChargeRateIsBounded == Spec => []FrequencyBounded
<1>1. Init => FrequencyInv
  <2> SUFFICES ASSUME Init PROVE FrequencyInv
    OBVIOUS
  <2>1. charges = <<>> /\ now = 1 /\ windowStart = [g \in Grants |-> 0]
    BY DEF Init, ChainInit
  <2> QED
    BY <2>1 DEF FrequencyInv, NoCharge, FrequencyBounded, ChargedTo
<1>2. ASSUME Inv, Inv', FrequencyInv, [Next]_vars PROVE FrequencyInv'
  <2>0. ChainTypeOK /\ ChainTypeOK'
    BY <1>2 DEF Inv, ChainInv
  <2>1. CASE \E a \in Attempts : Land(a)
    <3> PICK a \in Attempts : Land(a)
      BY <2>1
    <3>1. mandate[a] \in Mandates /\ RedeemDelegation(mandate[a])
      BY <1>2 DEF Inv, TypeOK, Land
    <3> QED
      BY <1>2, <2>0, <3>1, RedeemKeepsFrequency
  <2>2. CASE ~\E a \in Attempts : Land(a)
    <3>1. UNCHANGED budgetVars /\ now' \in Nat /\ now <= now'
      BY <1>2, <2>0, <2>2 DEF Next, Step, Verify, Reserve, SimulationPasses, SimulationRefuses,
             Throws, Submit, Settle, Fail, Revert, Crash, Chain, RevokeDelegation,
             SetPause, Tick, vars, chainVars, budgetVars, ChainTypeOK
    <3> QED
      BY <1>2, <2>0, <3>1, FrequencyFrame
  <2> QED
    BY <2>1, <2>2
<1>3. FrequencyInv => FrequencyBounded
  BY DEF FrequencyInv
<1> QED
  BY RailInvariance, <1>1, <1>2, <1>3, PTL DEF Spec

-----------------------------------------------------------------------------
(* The payment contract *)

(* A call has an answer exactly when it has returned.                       *)
AnsweredOnce == \A a \in Attempts : result[a] # "none" <=> pc[a] = "returned"

LEMMA AnsweredOnceKept ==
  ASSUME TypeOK, AnsweredOnce, [Next]_vars
  PROVE  AnsweredOnce'
<1>1. ASSUME NEW a \in Attempts, Step(a) PROVE AnsweredOnce'
  <2>1. /\ result[a] = "none"
        /\ result'[a] # "none" <=> pc'[a] = "returned"
    BY <1>1 DEF TypeOK, AnsweredOnce, Step, Verify, Reserve, SimulationPasses, SimulationRefuses,
           Throws, Submit, Settle, Fail, Return, Goto
  <2>2. \A b \in Attempts : b # a => pc'[b] = pc[b] /\ result'[b] = result[b]
    BY <1>1 DEF TypeOK, Step, Verify, Reserve, SimulationPasses, SimulationRefuses,
           Throws, Submit, Settle, Fail, Return, Goto
  <2> QED
    BY <2>1, <2>2 DEF AnsweredOnce
<1>2. ASSUME Crash PROVE AnsweredOnce'
  BY <1>2 DEF TypeOK, AnsweredOnce, Crash
<1>3. ASSUME UNCHANGED <<pc, result>> PROVE AnsweredOnce'
  BY <1>3 DEF AnsweredOnce
<1> QED
  BY <1>1, <1>2, <1>3 DEF Next, Land, Revert, railVars, vars

(* The mandates that the charge history names.                              *)
LEMMA PaidIsCharged == \A m : m \in Paid <=> WasCharged(m)
BY DEF Paid, WasCharged

contractVars == <<mandate, Paid, received, revoked, result>>

(* A step of a call gives its answer or shows nothing.                      *)
LEMMA StepAnswers ==
  ASSUME Inv, AnsweredOnce, NEW a \in Attempts, Step(a)
  PROVE  Contract!Answer(a, result'[a]) \/ UNCHANGED contractVars
<1>1. /\ UNCHANGED <<mandate, received, revoked, charges>>
      /\ result' = [result EXCEPT ![a] = result'[a]]
  BY DEF Inv, TypeOK, Step, Verify, Reserve, SimulationPasses, SimulationRefuses,
         Throws, Submit, Settle, Fail, Return, Goto, chainVars, budgetVars
<1>2. result[a] = "none"
  BY DEF Inv, TypeOK, AnsweredOnce, Step, Verify, Reserve, SimulationPasses, SimulationRefuses,
         Throws, Submit, Settle, Fail
<1>3. Paid' = Paid
  BY <1>1 DEF Paid
<1>4. result'[a] \in {"ok", "idempotent"} => mandate[a] \in Paid
  <2>1. Inv'
    BY StepKeepsInv
  <2>2. result'[a] \in {"ok", "idempotent"} => WasCharged(mandate[a])
    BY <1>1, <2>1 DEF Inv, CallInv, ReceiptMeansPaid, WasCharged
  <2> QED
    BY <2>2, PaidIsCharged
<1> QED
  BY <1>1, <1>2, <1>3, <1>4 DEF Contract!Answer, Contract!Success

(* A redemption that lands pays a mandate none of whose rivals is paid: the *)
(* nonce it found fresh is burned for every charge there is.                *)
LEMMA LandPays ==
  ASSUME Inv, NEW a \in Attempts, Land(a)
  PROVE  Contract!Pay(mandate[a])
<1> DEFINE m == mandate[a]
           g == GrantOf[m]
<1>0. /\ TypeOK /\ ChainInv /\ ChainTypeOK /\ m \in Mandates /\ RedeemDelegation(m)
      /\ UNCHANGED <<mandate, result>>
  BY DEF Inv, TypeOK, Land
<1>1. /\ g \notin revoked /\ revoked' = revoked
      /\ NonceOf[m] \notin nonceUsed[g]
      /\ spent[g] + AmountOf[m] <= MaxAggregate[g]
      /\ received' = [received EXCEPT ![g] = @ + AmountOf[m]]
  BY <1>0 DEF RedeemDelegation, Redeemable, DelegationLive, NonceFresh, WithinAggregate
<1>2. received[g] + AmountOf[m] <= MaxAggregate[g]
  <2>1. g \in Grants
    BY <1>0, ChargeAssumption
  <2> QED
    BY <1>0, <1>1, <2>1 DEF ChainInv, SpendWithinCap
<1>3. Paid \intersect Contract!Rivals(m) = {}
  BY <1>0, <1>1 DEF Paid, Contract!Rivals, ChainInv, NonceBurned
<1>4. Paid' = Paid \union {m}
  <2>1. charges' = Append(charges, [mandate |-> m, at |-> now])
    BY <1>0 DEF RedeemDelegation
  <2>2. charges \in Seq(Charge) /\ [mandate |-> m, at |-> now] \in Charge
    BY <1>0 DEF ChainTypeOK, Charge
  <2>3. /\ DOMAIN charges' = DOMAIN charges \union {Len(charges) + 1}
        /\ charges'[Len(charges) + 1].mandate = m
        /\ \A i \in DOMAIN charges : charges'[i].mandate = charges[i].mandate
    BY <2>1, <2>2, AppendFacts, SMTT(40)
  <2> QED
    BY ONLY <2>3 DEF Paid
<1> HIDE DEF m
<1> QED
  BY <1>0, <1>1, <1>2, <1>3, <1>4 DEF Contract!Pay, m

(* Of the chain's other steps the contract sees the revocations.            *)
LEMMA OthersKeepContract ==
  ASSUME \/ \E a \in Attempts : Revert(a)
         \/ Crash
         \/ Chain /\ UNCHANGED railVars
         \/ UNCHANGED vars
  PROVE  (\E g \in Grants : Contract!Revoke(g)) \/ UNCHANGED contractVars
<1>1. UNCHANGED <<mandate, received, result, charges>>
  BY DEF Revert, Crash, Chain, RevokeDelegation, SetPause, Tick, railVars, vars, chainVars, budgetVars
<1>2. (\E g \in Grants : revoked' = revoked \union {g}) \/ revoked' = revoked
  BY DEF Revert, Crash, Chain, RevokeDelegation, SetPause, Tick, railVars, vars, chainVars, budgetVars
<1>3. Paid' = Paid
  BY <1>1 DEF Paid
<1> QED
  BY <1>1, <1>2, <1>3 DEF Contract!Revoke, contractVars

(* The rail implements PaymentContract: retries, timeouts, crashes of the   *)
(* worker and late transactions never show in what is paid and answered.    *)
THEOREM RailImplementsContract == Spec => RailKeepsContract
<1>1. Init => AnsweredOnce /\ Contract!Init
  BY DEF Init, RailInit, ChainInit, AnsweredOnce, Contract!Init, Paid
<1>2. Inv /\ AnsweredOnce /\ [Next]_vars => AnsweredOnce'
  BY AnsweredOnceKept DEF Inv
<1>3. ASSUME Inv, AnsweredOnce, [Next]_vars
      PROVE  [Contract!Next]_<<mandate, Paid, received, revoked, result>>
  <2>1. ASSUME NEW a \in Attempts, Step(a)
        PROVE  (\E c \in Attempts : Contract!Answer(c, result'[c])) \/ UNCHANGED contractVars
    BY <1>3, <2>1, StepAnswers
  <2>2. ASSUME NEW a \in Attempts, Land(a)
        PROVE  \E m \in Mandates : Contract!Pay(m)
    BY <1>3, <2>2, LandPays DEF Inv, TypeOK
  <2> QED
    BY <1>3, <2>1, <2>2, OthersKeepContract DEF Next, Contract!Next, contractVars
<1> QED
  BY <1>1, <1>2, <1>3, RailInvariance, PTL DEF Spec, RailKeepsContract, Contract!Spec

=============================================================================
