--------------------------- MODULE PaymentEnforcer ---------------------------
(***************************************************************************)
(* On-chain settlement of payment delegations ("grants"): what              *)
(* DelegationManager.redeemDelegation does with a chain of one delegation   *)
(* whose caveat is the PaymentEnforcer and whose call is an ERC-20 transfer *)
(* to the treasury.  A redemption is one transaction: either every check    *)
(* passes and the nonce, the budget and the money move together, or it      *)
(* reverts and nothing changes.                                             *)
(***************************************************************************)
EXTENDS Integers, Sequences, FiniteSets

CONSTANTS
  Grants,        \* payment delegations, each standing for (delegator, hash)
  Mandates,      \* one-shot payment mandates
  Nonces,
  GrantOf,       \* the delegation a mandate is charged to
  NonceOf,       \* the quote nonce, the enforcer's args
  AmountOf,      \* the exact amount
  MaxPerCharge, MaxAggregate, MaxPerWindow, WindowSeconds, \* the caveat's terms
  Funds,         \* the delegator's token balance per grant at the start
  MaxTime        \* bound on block.timestamp

ASSUME ChargeAssumption ==
  /\ GrantOf \in [Mandates -> Grants]
  /\ NonceOf \in [Mandates -> Nonces]
  /\ AmountOf \in [Mandates -> Nat]
  /\ MaxPerCharge \in [Grants -> Nat]
  /\ MaxAggregate \in [Grants -> Nat]
  /\ MaxPerWindow \in [Grants -> Nat]
  /\ WindowSeconds \in [Grants -> Nat]
  /\ Funds \in [Grants -> Nat]
  /\ MaxTime \in Nat

VARIABLES
  nonceUsed,      \* _nonceUsed, per grant the set of consumed nonces
  spent,          \* Budget.spent
  windowStart,    \* Budget.windowStart, 0 before the first charge
  callsInWindow,  \* Budget.callsInWindow
  received,       \* what the treasury got from each grant
  charges,        \* history: the PaymentCharged events
  revoked,        \* DelegationManager._revoked
  systemPaused,   \* the governance pause
  now             \* block.timestamp

budgetVars == <<nonceUsed, spent, windowStart, callsInWindow, received, charges>>
chainVars  == <<budgetVars, revoked, systemPaused, now>>

Charge == [mandate : Mandates, at : Nat]

ChainTypeOK ==
  /\ nonceUsed \in [Grants -> SUBSET Nonces]
  /\ spent \in [Grants -> Nat]
  /\ windowStart \in [Grants -> Nat]
  /\ callsInWindow \in [Grants -> Nat]
  /\ received \in [Grants -> Nat]
  /\ charges \in Seq(Charge)
  /\ revoked \subseteq Grants
  /\ systemPaused \in BOOLEAN
  /\ now \in Nat

ChainInit ==
  /\ nonceUsed = [g \in Grants |-> {}]
  /\ spent = [g \in Grants |-> 0]
  /\ windowStart = [g \in Grants |-> 0]
  /\ callsInWindow = [g \in Grants |-> 0]
  /\ received = [g \in Grants |-> 0]
  /\ charges = <<>>
  /\ revoked = {}
  /\ systemPaused = FALSE
  /\ now = 1

-----------------------------------------------------------------------------
(* The terms a delegation must carry.                                       *)
ValidTerms(g) ==
  /\ MaxPerCharge[g] # 0 /\ MaxAggregate[g] >= MaxPerCharge[g]
  /\ MaxPerWindow[g] # 0 /\ WindowSeconds[g] # 0

(* _validateDelegation and the pause gate of redeemDelegation.              *)
DelegationLive(g) == ~systemPaused /\ g \notin revoked

NonceFresh_NeverChecked(g, n) == TRUE
NonceFresh(g, n) == n \notin nonceUsed[g]

WithinAggregate_ChecksOldSpent(g, amount) == spent[g] <= MaxAggregate[g]
WithinAggregate(g, amount) == spent[g] + amount <= MaxAggregate[g]

(* The frequency window rolls when it has expired.                          *)
WindowExpired_Early(g) == windowStart[g] = 0 \/ now >= windowStart[g]
WindowExpired(g) == windowStart[g] = 0 \/ now >= windowStart[g] + WindowSeconds[g]

NextCalls(g) == IF WindowExpired(g) THEN 1 ELSE callsInWindow[g] + 1

(* beforeHook accepts the charge and the transfer succeeds.                 *)
Redeemable(m) ==
  LET g == GrantOf[m] IN
  /\ DelegationLive(g)
  /\ ValidTerms(g)
  /\ AmountOf[m] <= MaxPerCharge[g]
  /\ NonceFresh(g, NonceOf[m])
  /\ WithinAggregate(g, AmountOf[m])
  /\ NextCalls(g) <= MaxPerWindow[g]
  /\ received[g] + AmountOf[m] <= Funds[g]

(* A redemption that lands.                                                 *)
RedeemDelegation(m) ==
  LET g == GrantOf[m] IN
  /\ Redeemable(m)
  /\ nonceUsed' = [nonceUsed EXCEPT ![g] = @ \union {NonceOf[m]}]
  /\ spent' = [spent EXCEPT ![g] = @ + AmountOf[m]]
  /\ windowStart' = [windowStart EXCEPT ![g] = IF WindowExpired(g) THEN now ELSE @]
  /\ callsInWindow' = [callsInWindow EXCEPT ![g] = NextCalls(g)]
  /\ received' = [received EXCEPT ![g] = @ + AmountOf[m]]
  /\ charges' = Append(charges, [mandate |-> m, at |-> now])
  /\ UNCHANGED <<revoked, systemPaused, now>>

(* revokeDelegationByOwner is not gated by the pause and is irreversible.   *)
RevokeDelegation(g) ==
  /\ revoked' = revoked \union {g}
  /\ UNCHANGED <<budgetVars, systemPaused, now>>

SetPause(p) ==
  /\ systemPaused # p
  /\ systemPaused' = p
  /\ UNCHANGED <<budgetVars, revoked, now>>

Tick ==
  /\ now < MaxTime
  /\ now' = now + 1
  /\ UNCHANGED <<budgetVars, revoked, systemPaused>>

-----------------------------------------------------------------------------
(* Properties of the chain alone *)

ChargedTo(g) == {i \in DOMAIN charges : GrantOf[charges[i].mandate] = g}

(* A nonce of a grant pays once: however many attempts, retries and         *)
(* late transactions there are, no mandate and no nonce is charged twice.   *)
ChargedOnce ==
  \A i, j \in DOMAIN charges :
    LET a == charges[i].mandate  b == charges[j].mandate IN
    GrantOf[a] = GrantOf[b] /\ NonceOf[a] = NonceOf[b] => i = j

(* The treasury never receives more from a grant than its aggregate cap,    *)
(* and the budget the enforcer keeps is exactly the money that moved.       *)
SpendWithinCap ==
  \A g \in Grants : spent[g] = received[g] /\ received[g] <= MaxAggregate[g]

(* The frequency cap counts fixed windows, each opened by a charge, so a    *)
(* period of WindowSeconds may straddle two of them: it holds the late      *)
(* charges of one and the charges of the next, one less than twice the cap. *)
FrequencyBounded ==
  \A g \in Grants, t \in 1..MaxTime : ChargedTo(g) # {} =>
    Cardinality({i \in ChargedTo(g) : charges[i].at \in t..(t + WindowSeconds[g] - 1)})
      <= 2 * MaxPerWindow[g] - 1
=============================================================================
