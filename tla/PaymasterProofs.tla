--------------------------- MODULE PaymasterProofs ---------------------------
(***************************************************************************)
(* Proofs about governance and the paymaster, for any guardians, calls,     *)
(* delays and deposit.                                                      *)
(***************************************************************************)
EXTENDS Paymaster, TLAPS

(* Every operation in the timelock was scheduled for a full delay later.    *)
OperationsWait == \A o \in Operations : operations[o] # None => operations[o].ready >= TimelockDelay

(* A pending withdrawal is due both delays after it became public.          *)
WithdrawalWaits ==
  pendingWithdrawal # None =>
    pendingWithdrawal.eta >= noticedAt + TimelockDelay + WithdrawalDelay

(* Without drift the mirror shows governance's flag.                        *)
MirrorFollows == ~drift => pausedMirror = paused

Inv == TypeOK /\ OperationsWait /\ WithdrawalWaits /\ MirrorFollows

-----------------------------------------------------------------------------
(* What a governed call carries.                                            *)
LEMMA CallFields ==
  ASSUME NEW c \in Calls
  PROVE  /\ c.fn = "setGuardian" => c.who \in Guardians
         /\ c.fn \in {"setDevMode", "setPauseMirror"} => c.flag \in BOOLEAN
         /\ c.fn = "setAccepted" => c.senders \subseteq Senders
         /\ c.fn = "setVerifyingSigner" => c.who \in Verifiers \union {None}
         /\ c.fn = "scheduleDepositWithdrawal" =>
              c.to \in Payees \union {None} /\ c.amount \in 0 .. MaxDeposit
         /\ c.fn = "withdrawTo" => c.to \in Payees /\ c.amount \in Amounts
<1>1. c \in GovernanceCall \union PaymasterCall
  BY PaymasterAssumption
<1>2. CASE c \in GovernanceCall
  BY <1>2 DEF GovernanceCall
<1>3. CASE c \in PaymasterCall
  BY <1>3 DEF PaymasterCall
<1> QED
  BY <1>1, <1>2, <1>3

(* The operation the timelock runs, and the timelock after it.              *)
LEMMA RunsFacts ==
  ASSUME GovernanceTypeOK, OperationsWait, NEW o \in Operations, NEW fn, Runs(o, fn)
  PROVE  /\ operations[o] # None /\ operations'[o] = None
         /\ operations[o].call \in Calls /\ operations[o].call.fn = fn
         /\ operations[o].ready \in Nat /\ operations[o].ready >= TimelockDelay
         /\ operations[o].ready <= now /\ now' = now
         /\ operations' \in [Operations -> Operation \union {None}]
         /\ OperationsWait'
BY DEF GovernanceTypeOK, OperationsWait, Runs, OperationReady, Operation

(* The governed calls that leave governance itself alone.                   *)
LEMMA ExecuteFacts ==
  ASSUME GovernanceTypeOK, OperationsWait, NEW o \in Operations, NEW fn, Execute(o, fn)
  PROVE  /\ GovernanceTypeOK' /\ OperationsWait'
         /\ UNCHANGED <<now, paused, guardian, pausedAt>>
         /\ operations[o] # None /\ operations'[o] = None
         /\ operations[o].call \in Calls /\ operations[o].call.fn = fn
         /\ operations[o].ready \in Nat /\ operations[o].ready >= TimelockDelay
         /\ operations[o].ready <= now
<1>1. Runs(o, fn) /\ UNCHANGED <<now, paused, guardian, pausedAt>>
  BY DEF Execute, Runs
<1> QED
  BY <1>1, RunsFacts DEF GovernanceTypeOK

-----------------------------------------------------------------------------
(* Initially the timelock is empty and the mirror agrees.                   *)
LEMMA InitInv == Init => Inv
<1> USE PaymasterAssumption, GovernanceAssumption DEF Init, GovernanceInit
<1> SUFFICES ASSUME Init PROVE Inv
  OBVIOUS
<1>1. GovernanceTypeOK /\ OperationsWait
  BY DEF GovernanceTypeOK, OperationsWait
<1>2. TypeOK
  <2>1. deposit \in 0 .. MaxDeposit /\ paid \in [Payees -> Nat] /\ noticedAt \in Nat
    OBVIOUS
  <2>2. pendingWithdrawal \in PendingWithdrawal \union {None} /\ acceptList \subseteq Senders
    OBVIOUS
  <2>3. dev \in BOOLEAN /\ pausedMirror \in BOOLEAN /\ drift \in BOOLEAN
    OBVIOUS
  <2> QED
    BY <1>1, <2>1, <2>2, <2>3 DEF TypeOK
<1>3. WithdrawalWaits /\ MirrorFollows
  BY DEF WithdrawalWaits, MirrorFollows
<1> QED
  BY <1>1, <1>2, <1>3 DEF Inv

(* Steps of governance that leave the flag alone.                           *)
LEMMA GovernanceKeepsInv ==
  ASSUME Inv, GovernanceNext, UNCHANGED paymasterVars
  PROVE  Inv' /\ paused' = paused
<1> USE GovernanceAssumption DEF Inv, paymasterVars, treasury, mode, mirrorVars
<1>1. /\ GovernanceTypeOK' /\ OperationsWait' /\ paused' = paused
  <2>1. ASSUME NEW o \in Operations, NEW c \in Calls, ScheduleOperation(o, c)
        PROVE  GovernanceTypeOK' /\ OperationsWait' /\ paused' = paused
    <3>1. [call |-> c, ready |-> now + TimelockDelay] \in Operation
      BY DEF TypeOK, GovernanceTypeOK, Operation
    <3>2. now + TimelockDelay >= TimelockDelay
      BY DEF TypeOK, GovernanceTypeOK
    <3> QED
      BY <2>1, <3>1, <3>2 DEF ScheduleOperation, TypeOK, GovernanceTypeOK, OperationsWait
  <2>2. ASSUME NEW o \in Operations, CancelOperation(o)
        PROVE  GovernanceTypeOK' /\ OperationsWait' /\ paused' = paused
    BY <2>2 DEF CancelOperation, TypeOK, GovernanceTypeOK, OperationsWait
  <2>3. ASSUME NEW o \in Operations, SetGuardian(o)
        PROVE  GovernanceTypeOK' /\ OperationsWait' /\ paused' = paused
    <3>1. Runs(o, "setGuardian") /\ GovernanceTypeOK
      BY <2>3 DEF SetGuardian, TypeOK
    <3>2. guardian' \in Guardians
      BY <2>3, <3>1, RunsFacts, CallFields DEF SetGuardian
    <3> QED
      BY <2>3, <3>1, <3>2, RunsFacts DEF SetGuardian, GovernanceTypeOK
  <2>4. ASSUME Tick
        PROVE  GovernanceTypeOK' /\ OperationsWait' /\ paused' = paused
    BY <2>4 DEF Tick, TypeOK, GovernanceTypeOK, OperationsWait
  <2> QED
    BY <2>1, <2>2, <2>3, <2>4 DEF GovernanceNext
<1>2. TypeOK' /\ WithdrawalWaits' /\ MirrorFollows'
  BY <1>1 DEF TypeOK, WithdrawalWaits, MirrorFollows
<1> QED
  BY <1>1, <1>2

(* The guardian pauses, or the timelock unpauses.                           *)
LEMMA FlagChangesKeepsInv ==
  ASSUME Inv, FlagChanges
  PROVE  Inv'
<1> USE GovernanceAssumption DEF Inv
<1>1. /\ GovernanceTypeOK' /\ OperationsWait'
  <2>1. ASSUME NEW g \in Guardians, Pause(g)
        PROVE  GovernanceTypeOK' /\ OperationsWait'
    BY <2>1 DEF Pause, TypeOK, GovernanceTypeOK, OperationsWait
  <2>2. ASSUME NEW o \in Operations, Unpause(o)
        PROVE  GovernanceTypeOK' /\ OperationsWait'
    <3>1. Runs(o, "unpause") /\ GovernanceTypeOK
      BY <2>2 DEF Unpause, TypeOK
    <3> QED
      BY <2>2, <3>1, RunsFacts DEF Unpause, GovernanceTypeOK
  <2> QED
    BY <2>1, <2>2 DEF FlagChanges
<1> QED
  BY <1>1 DEF FlagChanges, treasury, mode, TypeOK, WithdrawalWaits, MirrorFollows

(* The governed calls of the paymaster.                                     *)
LEMMA GovernedKeepsInv ==
  ASSUME Inv, NEW o \in Operations, Governed(o)
  PROVE  Inv'
<1> USE PaymasterAssumption, GovernanceAssumption
<1>0. TypeOK /\ GovernanceTypeOK /\ OperationsWait /\ WithdrawalWaits /\ MirrorFollows
  BY DEF Inv, TypeOK
<1>1. CASE SetDevMode(o)
  <2>1. Execute(o, "setDevMode") /\ dev' \in BOOLEAN
    BY <1>0, <1>1, ExecuteFacts, CallFields DEF SetDevMode
  <2>2. GovernanceTypeOK' /\ OperationsWait' /\ UNCHANGED <<now, paused>>
    BY <1>0, <2>1, ExecuteFacts
  <2> QED
    BY <1>0, <1>1, <2>1, <2>2
       DEF SetDevMode, treasury, mirrorVars, Inv, TypeOK, WithdrawalWaits, MirrorFollows
<1>2. CASE SetAccepted(o)
  <2>1. Execute(o, "setAccepted")
    BY <1>2 DEF SetAccepted
  <2>2. GovernanceTypeOK' /\ OperationsWait' /\ UNCHANGED <<now, paused>>
    BY <1>0, <2>1, ExecuteFacts
  <2>3. acceptList' \subseteq Senders
    BY <1>0, <1>2, <2>1, ExecuteFacts, CallFields DEF SetAccepted, TypeOK
  <2> QED
    BY <1>0, <1>2, <2>2, <2>3
       DEF SetAccepted, treasury, mirrorVars, Inv, TypeOK, WithdrawalWaits, MirrorFollows
<1>3. CASE SetVerifyingSigner(o)
  <2>1. Execute(o, "setVerifyingSigner")
    BY <1>3 DEF SetVerifyingSigner
  <2>2. GovernanceTypeOK' /\ OperationsWait' /\ UNCHANGED <<now, paused>>
    BY <1>0, <2>1, ExecuteFacts
  <2>3. verifyingSigner' \in Verifiers \union {None}
    BY <1>0, <1>3, <2>1, ExecuteFacts, CallFields DEF SetVerifyingSigner
  <2> QED
    BY <1>0, <1>3, <2>2, <2>3
       DEF SetVerifyingSigner, treasury, mirrorVars, Inv, TypeOK, WithdrawalWaits, MirrorFollows
<1>4. CASE SetPauseMirror(o)
  <2>1. Execute(o, "setPauseMirror") /\ pausedMirror' \in BOOLEAN
    BY <1>0, <1>4, ExecuteFacts, CallFields DEF SetPauseMirror
  <2>2. GovernanceTypeOK' /\ OperationsWait'
    BY <1>0, <2>1, ExecuteFacts
  <2> QED
    BY <1>0, <1>4, <2>1, <2>2
       DEF SetPauseMirror, treasury, mode, Inv, TypeOK, WithdrawalWaits, MirrorFollows
<1>5. CASE ScheduleDepositWithdrawal(o)
  <2> DEFINE c == operations[o].call
  <2>1. Execute(o, "scheduleDepositWithdrawal") /\ c.to # None /\ c.amount # 0
    BY <1>5 DEF ScheduleDepositWithdrawal, ValidWithdrawal
  <2>2. GovernanceTypeOK' /\ OperationsWait' /\ UNCHANGED <<now, paused>>
    BY <1>0, <2>1, ExecuteFacts
  <2>3. /\ c.to \in Payees /\ c.amount \in Amounts /\ now \in Nat
        /\ operations[o].ready \in Nat /\ operations[o].ready >= TimelockDelay
        /\ operations[o].ready <= now
    <3>1. c \in Calls /\ c.fn = "scheduleDepositWithdrawal"
      BY <1>0, <2>1, ExecuteFacts
    <3>2. c.to \in Payees \union {None} /\ c.amount \in 0 .. MaxDeposit
      BY <3>1, CallFields
    <3>3. c.to \in Payees /\ c.amount \in Amounts /\ now \in Nat
      BY <1>0, <2>1, <3>2 DEF Amounts, GovernanceTypeOK
    <3> QED
      BY <1>0, <2>1, <3>3, ExecuteFacts
  <2>4. [to |-> c.to, amount |-> c.amount, eta |-> now + WithdrawalDelay] \in PendingWithdrawal
    BY <2>3 DEF PendingWithdrawal
  <2>5. noticedAt' \in Nat /\ noticedAt' + TimelockDelay <= now
    BY <1>5, <2>3 DEF ScheduleDepositWithdrawal, ScheduledAt
  <2>6. WithdrawalWaits'
    BY <1>5, <2>3, <2>5 DEF ScheduleDepositWithdrawal, WithdrawalWaits
  <2> QED
    BY <1>0, <1>5, <2>2, <2>4, <2>5, <2>6
       DEF ScheduleDepositWithdrawal, mode, mirrorVars, Inv, TypeOK, MirrorFollows
<1>6. CASE ExecuteDepositWithdrawal(o)
  <2>1. Execute(o, "executeDepositWithdrawal")
    BY <1>6 DEF ExecuteDepositWithdrawal
  <2>2. GovernanceTypeOK' /\ OperationsWait' /\ UNCHANGED <<now, paused>>
    BY <1>0, <2>1, ExecuteFacts
  <2>3. deposit' \in 0 .. MaxDeposit /\ paid' \in [Payees -> Nat]
    BY <1>0, <1>6 DEF ExecuteDepositWithdrawal, WithdrawTo, TypeOK, PendingWithdrawal, Amounts
  <2> QED
    BY <1>0, <1>6, <2>2, <2>3
       DEF ExecuteDepositWithdrawal, mode, mirrorVars, Inv, TypeOK, WithdrawalWaits, MirrorFollows
<1>7. CASE CancelDepositWithdrawal(o)
  <2>1. Execute(o, "cancelDepositWithdrawal")
    BY <1>7 DEF CancelDepositWithdrawal
  <2>2. GovernanceTypeOK' /\ OperationsWait' /\ UNCHANGED <<now, paused>>
    BY <1>0, <2>1, ExecuteFacts
  <2> QED
    BY <1>0, <1>7, <2>2
       DEF CancelDepositWithdrawal, mode, mirrorVars, Inv, TypeOK, WithdrawalWaits, MirrorFollows
<1>8. CASE TimelockWithdraw(o)
  <2> DEFINE c == operations[o].call
  <2>1. Execute(o, "withdrawTo")
    BY <1>8 DEF TimelockWithdraw
  <2>2. GovernanceTypeOK' /\ OperationsWait' /\ UNCHANGED <<now, paused>>
    BY <1>0, <2>1, ExecuteFacts
  <2>3. c.to \in Payees /\ c.amount \in Amounts
    BY <1>0, <2>1, ExecuteFacts, CallFields
  <2>4. deposit' \in 0 .. MaxDeposit /\ paid' \in [Payees -> Nat]
    BY <1>0, <1>8, <2>3 DEF TimelockWithdraw, WithdrawTo, TypeOK, Amounts
  <2> QED
    BY <1>0, <1>8, <2>2, <2>4
       DEF TimelockWithdraw, mode, mirrorVars, Inv, TypeOK, WithdrawalWaits, MirrorFollows
<1>9. CASE AcceptOwnership(o)
  <2>1. Execute(o, "acceptOwnership")
    BY <1>9 DEF AcceptOwnership
  <2>2. GovernanceTypeOK' /\ OperationsWait' /\ UNCHANGED <<now, paused>>
    BY <1>0, <2>1, ExecuteFacts
  <2> QED
    BY <1>0, <1>9, <2>2
       DEF AcceptOwnership, mode, mirrorVars, Inv, TypeOK, WithdrawalWaits, MirrorFollows
<1> QED
  BY <1>1, <1>2, <1>3, <1>4, <1>5, <1>6, <1>7, <1>8, <1>9 DEF Governed

(* The owner's withdrawal and a sponsored operation.                        *)
LEMMA SpendingKeepsInv ==
  ASSUME Inv,
         \/ \E p \in Payees, a \in Amounts : OwnerWithdraw(p, a)
         \/ \E s \in Senders, v \in Envelope : Sponsor(s, v)
  PROVE  Inv'
<1> USE PaymasterAssumption DEF governanceVars, mode, mirrorVars
<1>0. TypeOK /\ GovernanceTypeOK /\ OperationsWait /\ WithdrawalWaits /\ MirrorFollows
  BY DEF Inv, TypeOK
<1>1. ASSUME NEW p \in Payees, NEW a \in Amounts, OwnerWithdraw(p, a)
      PROVE  Inv'
  <2>1. deposit' \in 0 .. MaxDeposit /\ paid' \in [Payees -> Nat]
    BY <1>0, <1>1 DEF OwnerWithdraw, WithdrawTo, TypeOK, Amounts
  <2> QED
    BY <1>0, <1>1, <2>1
       DEF OwnerWithdraw, Inv, TypeOK, GovernanceTypeOK, OperationsWait, WithdrawalWaits, MirrorFollows
<1>2. ASSUME NEW s \in Senders, NEW v \in Envelope, Sponsor(s, v)
      PROVE  Inv'
  <2>1. deposit' \in 0 .. MaxDeposit
    BY <1>0, <1>2 DEF Sponsor, TypeOK
  <2> QED
    BY <1>0, <1>2, <2>1
       DEF Sponsor, Inv, TypeOK, GovernanceTypeOK, OperationsWait, WithdrawalWaits, MirrorFollows
<1> QED
  BY <1>1, <1>2

(* Every step keeps the invariant.                                          *)
LEMMA NextInv == Inv /\ [Next]_vars => Inv'
<1> SUFFICES ASSUME Inv, [Next]_vars PROVE Inv'
  OBVIOUS
<1>1. CASE UNCHANGED vars
  BY <1>1
     DEF vars, governanceVars, paymasterVars, treasury, mode, mirrorVars, Inv, TypeOK,
         GovernanceTypeOK, OperationsWait, WithdrawalWaits, MirrorFollows
<1>2. CASE SyncPauseFromGovernance
  BY <1>2
     DEF SyncPauseFromGovernance, governanceVars, treasury, mode, Inv, TypeOK,
         GovernanceTypeOK, OperationsWait, WithdrawalWaits, MirrorFollows
<1> QED
  BY <1>1, <1>2, GovernanceKeepsInv, FlagChangesKeepsInv, GovernedKeepsInv, SpendingKeepsInv DEF Next

(* The invariant the theorems below rest on.                                *)
LEMMA InvHolds == Spec => []Inv
BY InitInv, NextInv, PTL DEF Spec

-----------------------------------------------------------------------------
(* Governance and the paymaster keep their types under every order of       *)
(* scheduling, pausing, withdrawing and sponsoring.                         *)
THEOREM TypeCorrect == Spec => []TypeOK
<1>1. Inv => TypeOK
  BY DEF Inv
<1> QED
  BY <1>1, InvHolds, PTL

(* Only an unpause out of the timelock ends a pause, so it ends early only  *)
(* by an operation that was scheduled before the pause began                *)
(* (AgenticGovernance.unpause behind the TimelockController).               *)
THEOREM PauseHoldsForTheDelay == Spec => PauseHolds
<1> USE GovernanceAssumption
<1> DEFINE Ended ==
      paused /\ ~paused' =>
        \/ now >= pausedAt + TimelockDelay
        \/ \E o \in Operations :
             /\ operations[o] # None /\ operations'[o] = None
             /\ operations[o].call.fn = "unpause"
             /\ ScheduledAt(o) <= pausedAt
<1>1. Inv /\ [Next]_vars => [Ended]_governanceVars
  <2> SUFFICES ASSUME Inv, [Next]_vars, paused, ~paused'
               PROVE  \/ now >= pausedAt + TimelockDelay
                      \/ \E o \in Operations :
                           /\ operations[o] # None /\ operations'[o] = None
                           /\ operations[o].call.fn = "unpause"
                           /\ ScheduledAt(o) <= pausedAt
    OBVIOUS
  <2>0. TypeOK /\ GovernanceTypeOK /\ OperationsWait
    BY DEF Inv, TypeOK
  <2>1. ASSUME NEW o \in Operations, Governed(o) PROVE FALSE
    BY <2>1
       DEF Governed, SetDevMode, SetAccepted, SetVerifyingSigner, SetPauseMirror,
           ScheduleDepositWithdrawal, ExecuteDepositWithdrawal, CancelDepositWithdrawal,
           TimelockWithdraw, AcceptOwnership, Execute
  <2>2. \E o \in Operations : Unpause(o)
    BY <2>1, GovernanceKeepsInv
       DEF Next, FlagChanges, Pause, SyncPauseFromGovernance, OwnerWithdraw, Sponsor, vars,
           governanceVars
  <2>3. PICK o \in Operations : Unpause(o)
    BY <2>2
  <2>4. Runs(o, "unpause")
    BY <2>3 DEF Unpause
  <2>5. /\ operations[o] # None /\ operations'[o] = None /\ operations[o].call.fn = "unpause"
        /\ operations[o].ready \in Nat /\ operations[o].ready <= now
    BY <2>0, <2>4, RunsFacts
  <2>6. now >= pausedAt + TimelockDelay \/ ScheduledAt(o) <= pausedAt
    BY <2>0, <2>5 DEF GovernanceTypeOK, ScheduledAt
  <2> QED
    BY <2>5, <2>6
<1> QED
  BY <1>1, InvHolds, PTL DEF Spec, PauseHolds

(* Nothing leaves the deposit by surprise once the timelock owns the        *)
(* paymaster: the delays of both paths are served in full                   *)
(* (scheduleDepositWithdrawal, executeDepositWithdrawal, withdrawTo).       *)
THEOREM WithdrawalsAreAnnounced == Spec => NoSurpriseWithdrawal
<1> USE GovernanceAssumption, PaymasterAssumption
<1> DEFINE Announced ==
      paid' # paid /\ owner = "timelock" =>
        \/ /\ pendingWithdrawal # None /\ pendingWithdrawal' = None
           /\ paid' = [paid EXCEPT ![pendingWithdrawal.to] = @ + pendingWithdrawal.amount]
           /\ now >= noticedAt + TimelockDelay + WithdrawalDelay
        \/ \E o \in Operations :
             /\ operations[o] # None /\ operations'[o] = None
             /\ operations[o].call.fn = "withdrawTo"
             /\ now >= ScheduledAt(o) + TimelockDelay
<1>1. Inv /\ [Next]_vars => [Announced]_vars
  <2> SUFFICES ASSUME Inv, Next, paid' # paid, owner = "timelock"
               PROVE  Announced
    OBVIOUS
  <2>0. TypeOK /\ GovernanceTypeOK /\ OperationsWait /\ WithdrawalWaits
    BY DEF Inv, TypeOK
  <2>1. PICK o \in Operations : ExecuteDepositWithdrawal(o) \/ TimelockWithdraw(o)
    BY DEF Next, paymasterVars, treasury, FlagChanges, SyncPauseFromGovernance, Governed,
           SetDevMode, SetAccepted, SetVerifyingSigner, SetPauseMirror, ScheduleDepositWithdrawal,
           CancelDepositWithdrawal, AcceptOwnership, OwnerWithdraw, Sponsor
  <2>2. CASE ExecuteDepositWithdrawal(o)
    <3>1. pendingWithdrawal \in PendingWithdrawal /\ now \in Nat /\ noticedAt \in Nat
      BY <2>0, <2>2 DEF ExecuteDepositWithdrawal, TypeOK, GovernanceTypeOK
    <3>2. now >= noticedAt + TimelockDelay + WithdrawalDelay
      BY <2>0, <2>2, <3>1
         DEF ExecuteDepositWithdrawal, WithdrawalReady, WithdrawalWaits, PendingWithdrawal
    <3> QED
      BY <2>2, <3>2 DEF ExecuteDepositWithdrawal, WithdrawTo
  <2>3. CASE TimelockWithdraw(o)
    <3>1. Execute(o, "withdrawTo")
      BY <2>3 DEF TimelockWithdraw
    <3>2. /\ operations[o] # None /\ operations'[o] = None /\ operations[o].call.fn = "withdrawTo"
          /\ operations[o].ready \in Nat /\ operations[o].ready <= now
      BY <2>0, <3>1, ExecuteFacts
    <3>3. now >= ScheduledAt(o) + TimelockDelay
      BY <2>0, <3>2 DEF GovernanceTypeOK, ScheduledAt
    <3> QED
      BY <3>2, <3>3
  <2> QED
    BY <2>1, <2>2, <2>3
<1> QED
  BY <1>1, InvHolds, PTL DEF Spec, NoSurpriseWithdrawal

(* A synced mirror stops sponsorship while governance is paused             *)
(* (syncPauseFromGovernance, _validatePaymasterUserOp).                     *)
THEOREM PausedMeansUnsponsored == Spec => SponsorshipStops
<1> USE PaymasterAssumption
<1> DEFINE Stops == deposit' < deposit /\ paid' = paid /\ paused => drift
<1>1. Inv /\ [Next]_vars => [Stops]_vars
  <2> SUFFICES ASSUME Inv, Next, deposit' < deposit, paid' = paid, paused, ~drift
               PROVE  FALSE
    OBVIOUS
  <2>0. TypeOK /\ GovernanceTypeOK /\ OperationsWait /\ MirrorFollows
    BY DEF Inv, TypeOK
  <2>1. ~(deposit' = deposit) /\ deposit \in Nat
    BY <2>0 DEF TypeOK
  <2>2. ASSUME NEW to \in Payees, NEW amount \in Amounts, WithdrawTo(to, amount)
        PROVE  FALSE
    BY <2>0, <2>2 DEF WithdrawTo, TypeOK, Amounts
  <2>3. ASSUME NEW p \in Payees, NEW a \in Amounts, OwnerWithdraw(p, a)
        PROVE  FALSE
    BY <2>2, <2>3 DEF OwnerWithdraw
  <2>4. ASSUME NEW o \in Operations, ExecuteDepositWithdrawal(o)
        PROVE  FALSE
    BY <2>0, <2>2, <2>4 DEF ExecuteDepositWithdrawal, TypeOK, PendingWithdrawal
  <2>5. ASSUME NEW o \in Operations, TimelockWithdraw(o)
        PROVE  FALSE
    <3>1. Execute(o, "withdrawTo")
      BY <2>5 DEF TimelockWithdraw
    <3>2. operations[o].call.to \in Payees /\ operations[o].call.amount \in Amounts
      BY <2>0, <3>1, ExecuteFacts, CallFields, ZenonT(60)
    <3> QED
      BY <2>2, <2>5, <3>2 DEF TimelockWithdraw
  <2>6. ASSUME NEW s \in Senders, NEW v \in Envelope, Sponsor(s, v)
        PROVE  FALSE
    BY <2>0, <2>6 DEF Sponsor, ValidatePaymasterUserOp, MirrorFollows
  <2> QED
    BY <2>1, <2>3, <2>4, <2>5, <2>6
       DEF Next, paymasterVars, treasury, FlagChanges, SyncPauseFromGovernance, Governed,
           SetDevMode, SetAccepted, SetVerifyingSigner, SetPauseMirror, ScheduleDepositWithdrawal,
           CancelDepositWithdrawal, AcceptOwnership
<1> QED
  BY <1>1, InvHolds, PTL DEF Spec, SponsorshipStops

=============================================================================
