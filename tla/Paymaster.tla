----------------------------- MODULE Paymaster -----------------------------
(***************************************************************************)
(* SmartAgentPaymaster behind governance: the mirrored pause flag, the      *)
(* sponsorship modes and the ways its EntryPoint deposit can be spent.      *)
(*                                                                          *)
(* A validation reads the mirror only; the mirror follows governance when   *)
(* somebody syncs it.  The EntryPoint and the inherited BasePaymaster and   *)
(* Ownable2Step are external.                                               *)
(***************************************************************************)
EXTENDS Governance

CONSTANTS
  Senders, Verifiers, Payees,
  WithdrawalDelay,  \* DEPOSIT_WITHDRAWAL_TIMELOCK
  MaxDeposit        \* bound on the deposit

Amounts == 1 .. MaxDeposit

(* The governed calls of the paymaster, and the owner's.                    *)
PaymasterCall ==
  [fn : {"setDevMode", "setPauseMirror"}, flag : BOOLEAN]
    \union [fn : {"setAccepted"}, senders : SUBSET Senders, flag : BOOLEAN]
    \union [fn : {"setVerifyingSigner"}, who : Verifiers \union {None}]
    \union [fn : {"scheduleDepositWithdrawal"}, to : Payees \union {None}, amount : 0 .. MaxDeposit]
    \union [fn : {"withdrawTo"}, to : Payees, amount : Amounts]
    \union [fn : {"executeDepositWithdrawal", "cancelDepositWithdrawal", "acceptOwnership"}]

PendingWithdrawal == [to : Payees, amount : Amounts, eta : Nat]

ASSUME PaymasterAssumption ==
  /\ WithdrawalDelay \in Nat \ {0} /\ MaxDeposit \in Nat
  /\ None \notin PendingWithdrawal /\ None \notin Verifiers
  /\ Calls \subseteq GovernanceCall \union PaymasterCall

VARIABLES
  dev, acceptList, verifyingSigner,
  pausedMirror,
  pendingWithdrawal,
  deposit,   \* EntryPoint: the paymaster's balance
  owner,     \* Ownable: the deployer, until the timelock accepts
  paid,      \* history: withdrawn from the deposit, per payee
  drift,     \* history: the flag, or the mirror by itself, changed after the last sync
  noticedAt  \* history: when the pending withdrawal became public; 0 without one

treasury == <<pendingWithdrawal, deposit, owner, paid, noticedAt>>
mode == <<dev, acceptList, verifyingSigner>>
mirrorVars == <<pausedMirror, drift>>
paymasterVars == <<treasury, mode, mirrorVars>>
vars == <<governanceVars, paymasterVars>>

Init ==
  /\ GovernanceInit
  /\ dev \in BOOLEAN /\ verifyingSigner \in Verifiers \union {None}
  /\ acceptList = {}
  /\ pausedMirror = FALSE
  /\ pendingWithdrawal = None
  /\ deposit = MaxDeposit
  /\ owner = "deployer"
  /\ paid = [p \in Payees |-> 0]
  /\ drift = FALSE
  /\ noticedAt = 0

-----------------------------------------------------------------------------
(* Governed setters *)

SetDevMode(o) ==
  /\ Execute(o, "setDevMode")
  /\ dev' = operations[o].call.flag
  /\ UNCHANGED <<treasury, acceptList, verifyingSigner, mirrorVars>>

(* setAccepted and setAcceptedBatch *)
SetAccepted(o) ==
  LET c == operations[o].call IN
  /\ Execute(o, "setAccepted")
  /\ acceptList' = IF c.flag THEN acceptList \union c.senders ELSE acceptList \ c.senders
  /\ UNCHANGED <<treasury, dev, verifyingSigner, mirrorVars>>

SetVerifyingSigner(o) ==
  /\ Execute(o, "setVerifyingSigner")
  /\ verifyingSigner' = operations[o].call.who
  /\ UNCHANGED <<treasury, dev, acceptList, mirrorVars>>

-----------------------------------------------------------------------------
(* The pause mirror *)

SetPauseMirror(o) ==
  /\ Execute(o, "setPauseMirror")
  /\ pausedMirror' = operations[o].call.flag
  /\ drift' = TRUE
  /\ UNCHANGED <<treasury, mode>>

SyncPauseFromGovernance ==
  /\ pausedMirror' = paused
  /\ drift' = FALSE
  /\ UNCHANGED <<governanceVars, treasury, mode>>

(* Governance's flag moves, the mirror does not.                            *)
FlagChanges ==
  /\ \/ \E g \in Guardians : Pause(g)
     \/ \E o \in Operations : Unpause(o)
  /\ drift' = TRUE
  /\ UNCHANGED <<treasury, mode, pausedMirror>>

-----------------------------------------------------------------------------
(* The deposit *)

ValidWithdrawal_ZeroAllowed(c) == c.to # None
ValidWithdrawal(c) == c.to # None /\ c.amount # 0

(* Overwrites the withdrawal that was pending.                              *)
ScheduleDepositWithdrawal(o) ==
  LET c == operations[o].call IN
  /\ Execute(o, "scheduleDepositWithdrawal")
  /\ ValidWithdrawal(c)
  /\ pendingWithdrawal' = [to |-> c.to, amount |-> c.amount, eta |-> now + WithdrawalDelay]
  /\ noticedAt' = ScheduledAt(o)
  /\ UNCHANGED <<deposit, owner, paid, mode, mirrorVars>>

WithdrawalReady_OneEarly == now + 1 >= pendingWithdrawal.eta
WithdrawalReady == now >= pendingWithdrawal.eta

(* EntryPoint.withdrawTo reverts beyond the deposit.                        *)
WithdrawTo(to, amount) ==
  /\ amount <= deposit
  /\ deposit' = deposit - amount
  /\ paid' = [paid EXCEPT ![to] = @ + amount]

ExecuteDepositWithdrawal(o) ==
  /\ Execute(o, "executeDepositWithdrawal")
  /\ pendingWithdrawal # None
  /\ WithdrawalReady
  /\ WithdrawTo(pendingWithdrawal.to, pendingWithdrawal.amount)
  /\ pendingWithdrawal' = None
  /\ noticedAt' = 0
  /\ UNCHANGED <<owner, mode, mirrorVars>>

CancelDepositWithdrawal(o) ==
  /\ Execute(o, "cancelDepositWithdrawal")
  /\ pendingWithdrawal # None
  /\ pendingWithdrawal' = None
  /\ noticedAt' = 0
  /\ UNCHANGED <<deposit, owner, paid, mode, mirrorVars>>

(* The inherited withdrawTo of the owner: at once while the deployer owns   *)
(* the contract, through the timelock later.                                *)
OwnerWithdraw(to, amount) ==
  /\ owner = "deployer"
  /\ WithdrawTo(to, amount)
  /\ UNCHANGED <<governanceVars, pendingWithdrawal, owner, noticedAt, mode, mirrorVars>>

TimelockWithdraw(o) ==
  /\ Execute(o, "withdrawTo")
  /\ owner = "timelock"
  /\ WithdrawTo(operations[o].call.to, operations[o].call.amount)
  /\ UNCHANGED <<pendingWithdrawal, owner, noticedAt, mode, mirrorVars>>

AcceptOwnership(o) ==
  /\ Execute(o, "acceptOwnership")
  /\ owner = "deployer"
  /\ owner' = "timelock"
  /\ UNCHANGED <<pendingWithdrawal, deposit, paid, noticedAt, mode, mirrorVars>>

-----------------------------------------------------------------------------
(* Sponsorship *)

(* Who signed the paymaster data: nobody, or the holder of a verifier key.  *)
Envelope == Verifiers \union {None}

(* _validatePaymasterUserOp; the validity window of an envelope is checked  *)
(* by the EntryPoint.                                                       *)
ValidatePaymasterUserOp_IgnoresPause(s, signedBy) ==
  \/ dev
  \/ verifyingSigner # None /\ signedBy = verifyingSigner
  \/ verifyingSigner = None /\ s \in acceptList
ValidatePaymasterUserOp(s, signedBy) ==
  /\ ~pausedMirror
  /\ \/ dev
     \/ verifyingSigner # None /\ signedBy = verifyingSigner
     \/ verifyingSigner = None /\ s \in acceptList

Sponsor(s, signedBy) ==
  /\ deposit > 0
  /\ ValidatePaymasterUserOp(s, signedBy)
  /\ deposit' = deposit - 1
  /\ UNCHANGED <<governanceVars, pendingWithdrawal, owner, paid, noticedAt, mode, mirrorVars>>

Governed(o) ==
  \/ SetDevMode(o) \/ SetAccepted(o) \/ SetVerifyingSigner(o) \/ SetPauseMirror(o)
  \/ ScheduleDepositWithdrawal(o) \/ ExecuteDepositWithdrawal(o) \/ CancelDepositWithdrawal(o)
  \/ TimelockWithdraw(o) \/ AcceptOwnership(o)

Next ==
  \/ GovernanceNext /\ UNCHANGED paymasterVars
  \/ FlagChanges
  \/ SyncPauseFromGovernance
  \/ \E o \in Operations : Governed(o)
  \/ \E p \in Payees, a \in Amounts : OwnerWithdraw(p, a)
  \/ \E s \in Senders, v \in Envelope : Sponsor(s, v)

Spec == Init /\ [][Next]_vars

-----------------------------------------------------------------------------
(* Properties *)

TypeOK ==
  /\ GovernanceTypeOK
  /\ dev \in BOOLEAN
  /\ acceptList \subseteq Senders
  /\ verifyingSigner \in Verifiers \union {None}
  /\ pausedMirror \in BOOLEAN
  /\ pendingWithdrawal \in PendingWithdrawal \union {None}
  /\ deposit \in 0 .. MaxDeposit
  /\ owner \in {"deployer", "timelock"}
  /\ paid \in [Payees -> Nat]
  /\ drift \in BOOLEAN
  /\ noticedAt \in Nat

(* Once the timelock owns the paymaster, no withdrawal surprises anybody:   *)
(* what leaves the deposit was public in the timelock for its whole delay,  *)
(* and on the governance path it was the pending withdrawal, paid once and  *)
(* public for both delays, although scheduling overwrites and cancelling    *)
(* races executing.                                                         *)
NoSurpriseWithdrawal ==
  [][paid' # paid /\ owner = "timelock" =>
       \/ /\ pendingWithdrawal # None /\ pendingWithdrawal' = None
          /\ paid' = [paid EXCEPT ![pendingWithdrawal.to] = @ + pendingWithdrawal.amount]
          /\ now >= noticedAt + TimelockDelay + WithdrawalDelay
       \/ \E o \in Operations :
            /\ operations[o] # None /\ operations'[o] = None
            /\ operations[o].call.fn = "withdrawTo"
            /\ now >= ScheduledAt(o) + TimelockDelay]_vars

(* While the system is paused no gas is sponsored, once somebody has synced *)
(* the mirror, unless governance itself wrote the mirror afterwards.        *)
SponsorshipStops ==
  [][deposit' < deposit /\ paid' = paid /\ paused => drift]_vars
=============================================================================
