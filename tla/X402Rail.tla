------------------------------ MODULE X402Rail ------------------------------
(***************************************************************************)
(* The x402 payment rail: settle() calls running concurrently over one      *)
(* nullifier store, each ending in a redemption that the chain may include  *)
(* late or never.                                                           *)
(*                                                                          *)
(* A nullifier hashes the mandate with its payer, payee, asset, nonce and   *)
(* resource, so there is one per mandate.  A call is interrupted at every   *)
(* await: after the revocation read, after the reservation, after the       *)
(* simulation and while the redemption is out.                              *)
(***************************************************************************)
EXTENDS PaymentEnforcer

CONSTANTS
  Attempts,       \* the settle() calls
  ExpiresAt,      \* mandate.expiresAt
  Referenced,     \* mandates with a delegationRef, whose revocation is read
  HasTimeout,     \* deps.settlementTimeoutMs is configured
  StoreSurvives,  \* whether the nullifier store may outlive the worker
  MaxCrashes      \* bound on worker crashes

ASSUME RailAssumption ==
  /\ ExpiresAt \in [Mandates -> Nat]
  /\ Referenced \subseteq Mandates
  /\ HasTimeout \in BOOLEAN
  /\ StoreSurvives \subseteq BOOLEAN
  /\ MaxCrashes \in Nat

VARIABLES
  row,      \* the nullifier store: NonceState per mandate
  pc,       \* where each settle() call is
  mandate,  \* its mandate
  result,   \* what it returned
  tx,       \* the redemption it submitted
  crashes

railVars == <<row, pc, mandate, result, tx, crashes>>
vars == <<chainVars, railVars>>

NonceState == {"unseen", "reserved", "settling", "settled", "failed_retryable"}
Place == {"idle", "verified", "reserved", "simulated", "submitted", "returned", "dead"}
Result == {"none", "ok", "idempotent", "failed", "threw"}
TxState == {"none", "sent", "landed", "reverted"}

Goto(a, p) == pc' = [pc EXCEPT ![a] = p]
Return(a, r) == Goto(a, "returned") /\ result' = [result EXCEPT ![a] = r]
Mark(m, s) == row' = [row EXCEPT ![m] = s]

(* markFailed, which settle() always calls with retryable = true.           *)
MarkFailed(m) == row' = [row EXCEPT ![m] = "failed_retryable"]

RailInit ==
  /\ row = [m \in Mandates |-> "unseen"]
  /\ pc = [a \in Attempts |-> "idle"]
  /\ mandate \in [Attempts -> Mandates]
  /\ result = [a \in Attempts |-> "none"]
  /\ tx = [a \in Attempts |-> "none"]
  /\ crashes = 0

-----------------------------------------------------------------------------
(* settle(): verify and read the revocation.  The mandates are closed ones  *)
(* that match their quote and are already valid.                            *)
Verify(a) ==
  LET m == mandate[a] IN
  /\ pc[a] = "idle"
  /\ IF ExpiresAt[m] <= now \/ (m \in Referenced /\ GrantOf[m] \in revoked)
     THEN Return(a, "failed")
     ELSE Goto(a, "verified") /\ UNCHANGED result
  /\ UNCHANGED <<chainVars, row, mandate, tx, crashes>>

(* nonceStore.reserve: one atomic claim.                                    *)
Claimable(s) == s \in {"unseen", "failed_retryable"}

Reserve(a) ==
  LET m == mandate[a] IN
  /\ pc[a] = "verified"
  /\ IF Claimable(row[m])
     THEN Mark(m, "reserved") /\ Goto(a, "reserved") /\ UNCHANGED result
     ELSE /\ Return(a, IF row[m] = "settled" THEN "idempotent" ELSE "failed")
          /\ UNCHANGED row
  /\ UNCHANGED <<chainVars, mandate, tx, crashes>>

(* deps.simulate sees the chain as it is now.  It may also find the gas     *)
(* above the cap; without a simulator the call goes straight on.            *)
SimulationPasses(a) ==
  /\ pc[a] = "reserved"
  /\ Goto(a, "simulated")
  /\ UNCHANGED <<chainVars, row, mandate, result, tx, crashes>>

SimulationRefuses(a) ==
  /\ pc[a] = "reserved"
  /\ MarkFailed(mandate[a])
  /\ Return(a, "failed")
  /\ UNCHANGED <<chainVars, mandate, tx, crashes>>

(* markSettling, then submitRedemption.                                     *)
Submit(a) ==
  /\ pc[a] = "simulated"
  /\ Mark(mandate[a], "settling")
  /\ tx' = [tx EXCEPT ![a] = "sent"]
  /\ Goto(a, "submitted")
  /\ UNCHANGED <<chainVars, mandate, result, crashes>>

(* The submission resolved: the transaction is in a block.  markSettled.    *)
Confirmed_WhenSent(a) == tx[a] \in {"sent", "landed"}
Confirmed(a) == tx[a] = "landed"

Settle(a) ==
  /\ pc[a] = "submitted"
  /\ Confirmed(a)
  /\ Mark(mandate[a], "settled")
  /\ Return(a, "ok")
  /\ UNCHANGED <<chainVars, mandate, tx, crashes>>

(* The catch of settle(): the submission reverted, it timed out (the        *)
(* transaction stays out), or markSettled itself failed.                    *)
GivesUp_OnRevertOnly(a) == tx[a] = "reverted"
GivesUp(a) == tx[a] \in {"reverted", "landed"} \/ HasTimeout

Fail(a) ==
  /\ pc[a] = "submitted"
  /\ GivesUp(a)
  /\ MarkFailed(mandate[a])
  /\ Return(a, "failed")
  /\ UNCHANGED <<chainVars, mandate, tx, crashes>>

(* An await outside the try rejects (the store, the simulator's RPC), or    *)
(* markFailed does inside the catch: the call throws and the row stays as   *)
(* it is.                                                                   *)
Throws(a) ==
  /\ \/ pc[a] \in {"verified", "reserved", "simulated"}
     \/ pc[a] = "submitted" /\ GivesUp(a)
  /\ Return(a, "threw")
  /\ UNCHANGED <<chainVars, row, mandate, tx, crashes>>

-----------------------------------------------------------------------------
(* The chain includes a submitted redemption, or it reverts there.          *)
Land(a) ==
  /\ tx[a] = "sent"
  /\ RedeemDelegation(mandate[a])
  /\ tx' = [tx EXCEPT ![a] = "landed"]
  /\ UNCHANGED <<row, pc, mandate, result, crashes>>

Revert(a) ==
  /\ tx[a] = "sent"
  /\ ~Redeemable(mandate[a])
  /\ tx' = [tx EXCEPT ![a] = "reverted"]
  /\ UNCHANGED <<chainVars, row, pc, mandate, result, crashes>>

(* The worker dies: its calls vanish, its transactions do not, and the      *)
(* store survives if it is a durable one.                                   *)
Crash ==
  /\ crashes < MaxCrashes
  /\ crashes' = crashes + 1
  /\ pc' = [a \in Attempts |-> IF pc[a] \in {"idle", "returned"} THEN pc[a] ELSE "dead"]
  /\ \E keep \in StoreSurvives :
       row' = IF keep THEN row ELSE [m \in Mandates |-> "unseen"]
  /\ UNCHANGED <<chainVars, mandate, result, tx>>

Chain ==
  \/ \E g \in Grants : RevokeDelegation(g)
  \/ \E p \in BOOLEAN : SetPause(p)
  \/ Tick

Step(a) ==
  \/ Verify(a) \/ Reserve(a)
  \/ SimulationPasses(a) \/ SimulationRefuses(a)
  \/ Submit(a) \/ Settle(a) \/ Fail(a) \/ Throws(a)

Init == ChainInit /\ RailInit

Next ==
  \/ \E a \in Attempts : Step(a) \/ Land(a) \/ Revert(a)
  \/ Crash
  \/ Chain /\ UNCHANGED railVars

Spec == Init /\ [][Next]_vars

(* A started call keeps running: promises resolve and timers fire.  Nothing *)
(* is assumed of the chain.                                                 *)
FairSpec == Spec /\ \A a \in Attempts : WF_vars(pc[a] # "idle" /\ Step(a))

-----------------------------------------------------------------------------
(* Properties *)

(* The type invariant of the chain, the nullifier store and the calls.  No  *)
(* call of settle() leaves a row in failed_terminal, the remaining state of *)
(* the source's NonceState.                                                 *)
TypeOK ==
  /\ ChainTypeOK
  /\ row \in [Mandates -> NonceState]
  /\ pc \in [Attempts -> Place]
  /\ mandate \in [Attempts -> Mandates]
  /\ result \in [Attempts -> Result]
  /\ tx \in [Attempts -> TxState]
  /\ crashes \in Nat

InFlight(a) == pc[a] \in {"reserved", "simulated", "submitted"}

(* PAY-RAIL-5: concurrent duplicates are blocked at the reservation: one    *)
(* call at a time works on a mandate, and its row says so.                  *)
SingleFlight ==
  /\ \A a, b \in Attempts :
       InFlight(a) /\ InFlight(b) /\ mandate[a] = mandate[b] => a = b
  /\ \A a \in Attempts : InFlight(a) => ~Claimable(row[mandate[a]])

WasCharged(m) == \E i \in DOMAIN charges : charges[i].mandate = m

(* A receipt is true: a settled row and a successful answer exist only for  *)
(* mandates the chain has charged.                                          *)
ReceiptMeansPaid ==
  /\ \A m \in Mandates : row[m] = "settled" => WasCharged(m)
  /\ \A a \in Attempts : result[a] \in {"ok", "idempotent"} => WasCharged(mandate[a])

(* PAY-DEL-3: the revocation settle() read may be stale when its redemption *)
(* lands, yet no charge lands on a revoked grant.                           *)
NoChargeAfterRevoke ==
  [][\A i \in DOMAIN charges' \ DOMAIN charges :
       GrantOf[charges'[i].mandate] \notin revoked]_vars

(* RailKeepsContract: the rail implements PaymentContract: whatever the     *)
(* calls, the store, the chain and the crashes do to each other, the money  *)
(* of a quote moves once, within the cap and on a live grant, and settle()  *)
(* answers a call once, ok or idempotent only when the money has moved.     *)
Paid == {charges[i].mandate : i \in DOMAIN charges}
Contract == INSTANCE PaymentContract WITH Calls <- Attempts, paid <- Paid
RailKeepsContract == Contract!Spec

(* With a settlement timeout every call that runs comes to an end, whatever *)
(* the chain does with its transaction.                                     *)
EveryCallReturns ==
  \A a \in Attempts : pc[a] # "idle" ~> pc[a] \in {"returned", "dead"}
=============================================================================
