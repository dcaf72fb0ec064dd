---------------------------- MODULE CustodyPolicy ----------------------------
(***************************************************************************)
(* The CustodyPolicy module installed on one AgentAccount: per-tier         *)
(* approvals, safety delays, trustees, and the schedule / apply / cancel    *)
(* life of a custody change.                                                *)
(*                                                                          *)
(* Rules read off the contract:                                             *)
(*   - scheduling and applying each need a quorum of the tier, of           *)
(*     custodians, or of trustees for RecoverAccount;                       *)
(*   - tier and threshold are recomputed from the CURRENT configuration     *)
(*     when a change is applied or cancelled, the eta is fixed when it is   *)
(*     scheduled;                                                           *)
(*   - a reverting handler undoes the whole call.                           *)
(*                                                                          *)
(* A set of signatures is the set of its signers: a slot verifies for one   *)
(* address, and the strictly ascending order makes signers distinct.        *)
(* Signatures are over (action, args, changeId[, eta]), so those for one    *)
(* step of one change are good for nothing else.                            *)
(***************************************************************************)
EXTENDS AgentAccount, Sequences

CONSTANTS
  Changes,         \* the custody changes that may be scheduled
  InitParams,      \* what createAgentAccount may be called with
  InstallConfigs,  \* init data an owner may install the policy with
  DefaultDelays,   \* the factory's safety delays for T4, T5, T6
  CancelWindow,    \* RECOVERY_PRIMARY_CANCEL_WINDOW (24 hours)
  MaxChanges       \* bound on nextChangeId

Tiers == 1..6

(* The arguments decode to what each action expects.                        *)
WellFormedChange(ch) ==
  /\ ch.action \in {"AddCustodian", "RemoveCustodian", "AddTrustee", "RemoveTrustee"}
       => ch.arg \in Address
  /\ ch.action \in {"AddPasskeyCredential", "RemovePasskeyCredential"}
       => ch.arg \in Credentials
  /\ ch.action \in {"ChangeCustodyMode", "ChangeValueCeiling", "SetRecoveryApprovals"}
       => ch.arg \in Nat
  /\ ch.action = "ChangeApprovalsRequired" => ch.arg \in [tier : Nat, count : Nat]
  /\ ch.action = "RotateAllCustodians"
       => ch.arg \in [add : SUBSET Address, remove : SUBSET Address]
  /\ ch.action = "RecoverAccount"
       => ch.arg \in [addOwners : SUBSET Address, addPasskeys : SUBSET Credentials,
                      removeOwners : SUBSET Address, removePasskeys : SUBSET Credentials]
  /\ ch.action = "ApplySystemUpdate" => ch.arg \in Implementations
  /\ ch.action = "RotateDelegationManager" => ch.arg \in Managers

InstallConfig ==
  [mode : Nat, recoveryApprovals : Nat, trustees : SUBSET Address,
   thresholds : [Tiers -> Nat], timelocks : [Tiers -> Nat], ceiling : Nat]

InitParam ==
  [custodians : SUBSET Address, passkeys : SUBSET Credentials, mode : Nat,
   trustees : SUBSET Address, timelocks : [Tiers -> Nat]]

(* A ScheduledChange struct, with the signers that proposed it.             *)
ScheduledChange ==
  [change : Changes, proposedAt : Nat, eta : Nat, executed : BOOLEAN,
   cancelled : BOOLEAN, proposers : SUBSET Address]

ASSUME PolicyAssumption ==
  /\ \A ch \in Changes : WellFormedChange(ch)
  /\ InitParams \subseteq InitParam
  /\ InstallConfigs \subseteq InstallConfig
  /\ DefaultDelays \in [4..6 -> Nat \ {0}]
  /\ CancelWindow \in Nat
  /\ MaxChanges \in Nat

VARIABLES
  installed, permanentlyUninstalled, mode, recoveryApprovals,
  approvals,      \* approvalsRequiredByTier
  delays,         \* safetyDelayByTier
  trustees, trusteeCount,
  ceiling,        \* t3HighValueCeiling
  pending         \* pending[1..nextChangeId], with proposerCustodians

configVars == <<installed, permanentlyUninstalled, mode, recoveryApprovals,
                approvals, delays, trustees, trusteeCount, ceiling>>
policyVars == <<configVars, pending>>
vars == <<accountVars, policyVars>>

nextChangeId == Len(pending)

-----------------------------------------------------------------------------
(* Tiers and thresholds *)

TierFor(action) ==
  CASE action = "RecoverAccount" -> 6
    [] action \in {"ApplySystemUpdate", "RotateDelegationManager",
                   "RotatePaymaster", "RotateSessionIssuer"} -> 5
    [] OTHER -> 4

ApprovalsValue(t) == IF approvals[t] = 0 THEN 1 ELSE approvals[t]

(* ChangeApprovalsRequired needs the tier it modifies, and T5 to lower one. *)
EffectiveTierFor(ch) ==
  IF ch.action = "ChangeApprovalsRequired" /\ ch.arg.tier \in 1..5
  THEN IF ch.arg.tier = 5 \/ ch.arg.count < ApprovalsValue(ch.arg.tier) THEN 5 ELSE 4
  ELSE TierFor(ch.action)

IsRecovery(ch) == ch.action = "RecoverAccount"

RequiredApprovals(ch) ==
  IF IsRecovery(ch) THEN recoveryApprovals ELSE ApprovalsValue(EffectiveTierFor(ch))

DefaultApprovals(n, t) ==
  CASE t = 4 /\ n <= 3 -> n
    [] t = 4 /\ n \in 4..6 -> n - 1
    [] t = 4 /\ n > 6 -> n - 2
    [] t = 5 /\ n <= 5 -> n
    [] t = 5 /\ n > 5 -> n - 1
    [] OTHER -> 0

(* A slot of the account itself is an ERC-1271 signature, which one current *)
(* signer of the account can make; any other address signs for itself.      *)
SlotVerifies(s) == s = Self => \E k \in Address : ValidateSig(k)

(* _verifyQuorum: exactly n distinct signers, each a trustee (guardianMode) *)
(* or a custodian of the account at this moment.                            *)
VerifyQuorum(signers, n, guardianMode) ==
  /\ Cardinality(signers) = n
  /\ \A s \in signers :
       /\ SlotVerifies(s)
       /\ IF guardianMode THEN s \in trustees ELSE IsCustodian(s)

-----------------------------------------------------------------------------
(* Install and uninstall *)

(* One install per account, ever.                                           *)
MayInstall == ~installed /\ ~permanentlyUninstalled

(* The modes are single, hybrid, threshold and org.                         *)
ValidMode(m) == m <= 3

(* onInstall(cfg), called by the account when it has n custodians.          *)
OnInstall(cfg, n) ==
  /\ MayInstall
  /\ ValidMode(cfg.mode)
  /\ cfg.recoveryApprovals <= Cardinality(cfg.trustees)
  /\ installed' = TRUE
  /\ mode' = cfg.mode
  /\ recoveryApprovals' = cfg.recoveryApprovals
  /\ ceiling' = cfg.ceiling
  /\ trustees' = cfg.trustees
  /\ trusteeCount' = Cardinality(cfg.trustees)
  /\ approvals' = [t \in Tiers |->
       IF cfg.thresholds[t] = 0
       THEN DefaultApprovals(IF n > 255 THEN 255 ELSE n, t)
       ELSE cfg.thresholds[t]]
  /\ delays' = cfg.timelocks
  /\ cfg.mode >= 1 => approvals'[4] # 0 /\ approvals'[5] # 0
  /\ UNCHANGED <<permanentlyUninstalled, pending>>

OnUninstall ==
  /\ installed
  /\ installed' = FALSE
  /\ permanentlyUninstalled' = TRUE
  /\ UNCHANGED <<mode, recoveryApprovals, approvals, delays, trustees,
                 trusteeCount, ceiling, pending>>

(* The factory: validated parameters, thresholds from the default matrix,   *)
(* a majority of the trustees for recovery (cast to uint8).                 *)
ValidInitParams(p) ==
  /\ p.mode <= 3
  /\ p.custodians # {} \/ p.passkeys # {}
  /\ Cardinality(p.custodians) <= 32
  /\ Cardinality(p.trustees) >= p.mode

FactoryConfig(p) ==
  LET n == Cardinality(p.custodians) + Cardinality(p.passkeys) IN
  [mode |-> p.mode,
   recoveryApprovals |-> (Cardinality(p.trustees) \div 2 + 1) % 256,
   trustees |-> p.trustees,
   thresholds |-> [t \in Tiers |-> IF t = 6 THEN 0 ELSE DefaultApprovals(n, t)],
   timelocks |-> [t \in Tiers |->
     IF t \in 4..6 /\ p.timelocks[t] = 0 THEN DefaultDelays[t]
     ELSE IF t \in 4..6 THEN p.timelocks[t] ELSE 0],
   ceiling |-> 0]

CreateAgentAccount(p) ==
  /\ ~paused
  /\ ValidInitParams(p)
  /\ Initialize(p.custodians, p.passkeys)
  /\ IF p.mode > 0
     THEN /\ policyTypes' = {"EXECUTOR"}
          /\ factoryInitConsumed' = TRUE
          /\ OnInstall(FactoryConfig(p), Cardinality(p.custodians) + Cardinality(p.passkeys))
     ELSE UNCHANGED <<policyTypes, factoryInitConsumed, policyVars>>
  /\ UNCHANGED chainVars

(* installModule(type, custodyPolicy, cfg) by an owner's userOp.            *)
OwnerInstallModule ==
  /\ UserOp("installModule")
  /\ \E type \in ModuleTypes, cfg \in InstallConfigs :
       /\ type \notin policyTypes
       /\ policyTypes' = policyTypes \union {type}
       /\ OnInstall(cfg, CustodianCount)
  /\ UNCHANGED <<deployed, factoryInitConsumed, signerVars, sessionVars, upgradeVars>>

OwnerUninstallModule ==
  /\ UserOp("uninstallModule")
  /\ \E type \in policyTypes : policyTypes' = policyTypes \ {type}
  /\ OnUninstall
  /\ UNCHANGED <<deployed, factoryInitConsumed, signerVars, sessionVars, upgradeVars>>

(* The policy knows its account by msg.sender only, so the account may also *)
(* call the two lifecycle functions itself, without its module table.       *)
OwnerCallOnInstall ==
  /\ UserOp("onInstall")
  /\ \E cfg \in InstallConfigs : OnInstall(cfg, CustodianCount)
  /\ UNCHANGED <<moduleVars, signerVars, sessionVars, upgradeVars>>

OwnerCallOnUninstall ==
  /\ UserOp("onUninstall")
  /\ OnUninstall
  /\ UNCHANGED <<moduleVars, signerVars, sessionVars, upgradeVars>>

-----------------------------------------------------------------------------
(* Handlers: what applying a change does.  Handlers of account state go     *)
(* through executeFromModule; the others only write the configuration.      *)

(* Add and then remove signers, skipping external custodians that are       *)
(* already there or already gone.  Passkeys are not skipped, and an address *)
(* that is a custodian without being external cannot be removed.            *)
ReplaceSigners(addOwners, addPasskeys, removeOwners, removePasskeys) ==
  LET new  == {o \in addOwners : ~IsCustodian(o)}
      ext  == externalCustodians \union new
      keys == passkeys \union addPasskeys
      gone == {o \in removeOwners : o = Self \/ o \in ext \/ o \in keys}
      nExt == externalCustodianCount + Cardinality(new) - Cardinality(gone)
      nKey == passkeyCount + Cardinality(addPasskeys)
  IN /\ new \union addPasskeys \union gone \union removePasskeys # {} => ExecuteFromModule
     /\ \A o \in new : ~IsAgenticPrimitivesAgent(o)
     /\ addPasskeys \intersect (passkeys \union ext) = {}
     /\ gone \subseteq ext
     /\ gone # {} /\ nKey = 0 => nExt >= 1
     /\ removePasskeys \subseteq keys
     /\ removePasskeys # {} => nExt + nKey - Cardinality(removePasskeys) >= 1
     /\ externalCustodians' = ext \ gone
     /\ externalCustodianCount' = nExt
     /\ passkeys' = keys \ removePasskeys
     /\ passkeyCount' = nKey - Cardinality(removePasskeys)
     /\ UNCHANGED <<moduleVars, sessionVars, upgradeVars, configVars>>

ApplyAddCustodian(o) == ExecuteFromModule /\ AddCustodian(o) /\ UNCHANGED configVars
ApplyRemoveCustodian(o) == ExecuteFromModule /\ RemoveCustodian(o) /\ UNCHANGED configVars
ApplyAddPasskey(c) == ExecuteFromModule /\ AddPasskey(c) /\ UNCHANGED configVars
ApplyRemovePasskey(c) == ExecuteFromModule /\ RemovePasskey(c) /\ UNCHANGED configVars

ApplyRotateAllCustodians(add, remove) ==
  /\ add \union remove # {}
  /\ ReplaceSigners(add, {}, remove, {})

ApplyRecoverAccount(r) ==
  ReplaceSigners(r.addOwners, r.addPasskeys, r.removeOwners, r.removePasskeys)

ApplySystemUpdate(impl) ==
  /\ ExecuteFromModule
  /\ UpgradeToAndCall(impl, TRUE)
  /\ UNCHANGED <<pendingUpgrade, configVars>>

ApplyRotateDelegationManager(dm) ==
  ExecuteFromModule /\ SetDelegationManager(dm) /\ UNCHANGED configVars

UnchangedAccount == UNCHANGED <<signerVars, moduleVars, sessionVars, upgradeVars>>

ApplyAddTrustee(g) ==
  /\ g \notin trustees
  /\ trustees' = trustees \union {g}
  /\ trusteeCount' = trusteeCount + 1
  /\ UnchangedAccount
  /\ UNCHANGED <<installed, permanentlyUninstalled, mode, recoveryApprovals,
                 approvals, delays, ceiling>>

(* Recovery would be out of reach with one trustee fewer.                   *)
TrusteeNeeded_OffByOne == recoveryApprovals > 0 /\ trusteeCount < recoveryApprovals
TrusteeNeeded == recoveryApprovals > 0 /\ trusteeCount - 1 < recoveryApprovals

ApplyRemoveTrustee(g) ==
  /\ g \in trustees
  /\ ~TrusteeNeeded
  /\ trustees' = trustees \ {g}
  /\ trusteeCount' = trusteeCount - 1
  /\ UnchangedAccount
  /\ UNCHANGED <<installed, permanentlyUninstalled, mode, recoveryApprovals,
                 approvals, delays, ceiling>>

ApplyChangeMode(newMode) ==
  /\ ValidMode(newMode)
  /\ ~(newMode = 0 /\ trusteeCount > 0)
  /\ mode' = newMode
  /\ UnchangedAccount
  /\ UNCHANGED <<installed, permanentlyUninstalled, recoveryApprovals,
                 approvals, delays, trustees, trusteeCount, ceiling>>

ApplyChangeValueCeiling(newCeiling) ==
  /\ ceiling' = newCeiling
  /\ UnchangedAccount
  /\ UNCHANGED <<installed, permanentlyUninstalled, mode, recoveryApprovals,
                 approvals, delays, trustees, trusteeCount>>

ValidRecoveryApprovals_ZeroAllowed(newThr) == newThr <= trusteeCount
ValidRecoveryApprovals(newThr) == newThr # 0 /\ newThr <= trusteeCount

ApplySetRecoveryApprovals(newThr) ==
  /\ ValidRecoveryApprovals(newThr)
  /\ recoveryApprovals' = newThr
  /\ UnchangedAccount
  /\ UNCHANGED <<installed, permanentlyUninstalled, mode, approvals, delays,
                 trustees, trusteeCount, ceiling>>

ValidApprovals(count) == count # 0 /\ count <= CustodianCount

ApplyChangeApprovalsRequired(tier, count) ==
  /\ tier \in 1..5
  /\ ValidApprovals(count)
  /\ approvals' = [approvals EXCEPT ![tier] = count]
  /\ UnchangedAccount
  /\ UNCHANGED <<installed, permanentlyUninstalled, mode, recoveryApprovals,
                 delays, trustees, trusteeCount, ceiling>>

(* _applyCustodyChange.  RotatePaymaster and RotateSessionIssuer revert.    *)
ApplyChange(ch) ==
  \/ ch.action = "AddCustodian" /\ ApplyAddCustodian(ch.arg)
  \/ ch.action = "RemoveCustodian" /\ ApplyRemoveCustodian(ch.arg)
  \/ ch.action = "AddPasskeyCredential" /\ ApplyAddPasskey(ch.arg)
  \/ ch.action = "RemovePasskeyCredential" /\ ApplyRemovePasskey(ch.arg)
  \/ ch.action = "AddTrustee" /\ ApplyAddTrustee(ch.arg)
  \/ ch.action = "RemoveTrustee" /\ ApplyRemoveTrustee(ch.arg)
  \/ ch.action = "ChangeCustodyMode" /\ ApplyChangeMode(ch.arg)
  \/ ch.action = "RotateAllCustodians"
     /\ ApplyRotateAllCustodians(ch.arg.add, ch.arg.remove)
  \/ ch.action = "ChangeValueCeiling" /\ ApplyChangeValueCeiling(ch.arg)
  \/ ch.action = "SetRecoveryApprovals" /\ ApplySetRecoveryApprovals(ch.arg)
  \/ ch.action = "ChangeApprovalsRequired"
     /\ ApplyChangeApprovalsRequired(ch.arg.tier, ch.arg.count)
  \/ ch.action = "RecoverAccount" /\ ApplyRecoverAccount(ch.arg)
  \/ ch.action = "ApplySystemUpdate" /\ ApplySystemUpdate(ch.arg)
  \/ ch.action = "RotateDelegationManager" /\ ApplyRotateDelegationManager(ch.arg)

-----------------------------------------------------------------------------
(* Schedule, apply, cancel *)

(* Neither applied nor cancelled.                                           *)
Live_EvenIfCancelled(id) == ~pending[id].executed
Live(id) == ~pending[id].executed /\ ~pending[id].cancelled

(* The safety delay has passed.                                             *)
Matured_OneEarly(id) == now + 1 >= pending[id].eta
Matured(id) == now >= pending[id].eta

(* whenAccountNotPaused and installed, the gate of schedule and apply.      *)
PolicyActive == ~paused /\ installed

ScheduleCustodyChange(ch, signers) ==
  LET tier == EffectiveTierFor(ch) IN
  /\ PolicyActive
  /\ tier \in {5, 6} => delays[tier] # 0
  /\ IsRecovery(ch) => trusteeCount # 0 /\ recoveryApprovals # 0
  /\ nextChangeId < MaxChanges
  /\ VerifyQuorum(signers, RequiredApprovals(ch), IsRecovery(ch))
  /\ pending' = Append(pending,
       [change |-> ch, proposedAt |-> now, eta |-> now + delays[tier],
        executed |-> FALSE, cancelled |-> FALSE, proposers |-> signers])
  /\ UNCHANGED <<accountVars, configVars>>

ApplyCustodyChange(id, signers) ==
  LET ch == pending[id].change IN
  /\ PolicyActive
  /\ Live(id)
  /\ Matured(id)
  /\ VerifyQuorum(signers, RequiredApprovals(ch), IsRecovery(ch))
  /\ mode = 3 /\ ~IsRecovery(ch) => signers \intersect pending[id].proposers = {}
  /\ pending' = [pending EXCEPT ![id].executed = TRUE]
  /\ ApplyChange(ch)
  /\ UNCHANGED chainVars

(* Who may cancel: for a recovery, the custodians' T4 quorum inside the     *)
(* window and the trustees after it; otherwise the tier's quorum.           *)
CancelQuorum(id, signers) ==
  LET ch == pending[id].change
      inOwnerCancelWindow == now < pending[id].proposedAt + CancelWindow IN
  IF IsRecovery(ch)
  THEN IF inOwnerCancelWindow
       THEN VerifyQuorum(signers, ApprovalsValue(4), FALSE)
       ELSE VerifyQuorum(signers, recoveryApprovals, TRUE)
  ELSE VerifyQuorum(signers, ApprovalsValue(EffectiveTierFor(ch)), FALSE)

CancelScheduledChange(id, signers) ==
  /\ installed
  /\ Live(id)
  /\ CancelQuorum(id, signers)
  /\ pending' = [pending EXCEPT ![id].cancelled = TRUE]
  /\ UNCHANGED <<accountVars, configVars>>

-----------------------------------------------------------------------------
Init ==
  /\ AccountInit
  /\ installed = FALSE /\ permanentlyUninstalled = FALSE
  /\ mode = 0 /\ recoveryApprovals = 0 /\ ceiling = 0
  /\ approvals = [t \in Tiers |-> 0]
  /\ delays = [t \in Tiers |-> 0]
  /\ trustees = {} /\ trusteeCount = 0
  /\ pending = <<>>

Create == \E p \in InitParams : CreateAgentAccount(p)
Schedule == \E ch \in Changes, S \in SUBSET Address : ScheduleCustodyChange(ch, S)
Apply == \E id \in DOMAIN pending, S \in SUBSET Address : ApplyCustodyChange(id, S)
Cancel == \E id \in DOMAIN pending, S \in SUBSET Address : CancelScheduledChange(id, S)

Next ==
  \/ Create
  \/ OwnerInstallModule \/ OwnerUninstallModule
  \/ OwnerCallOnInstall \/ OwnerCallOnUninstall
  \/ Schedule \/ Apply \/ Cancel
  \/ AccountNext /\ UNCHANGED policyVars

Spec == Init /\ [][Next]_vars

-----------------------------------------------------------------------------
(* Properties *)

(* The type invariant of the account and of the policy's Config and         *)
(* ScheduledChange structs.                                                 *)
TypeOK ==
  /\ AccountTypeOK
  /\ installed \in BOOLEAN /\ permanentlyUninstalled \in BOOLEAN
  /\ mode \in 0..3
  /\ recoveryApprovals \in Nat
  /\ approvals \in [Tiers -> Nat]
  /\ delays \in [Tiers -> Nat]
  /\ trustees \subseteq Address
  /\ trusteeCount \in Nat
  /\ ceiling \in Nat
  /\ pending \in Seq(ScheduledChange)

(* SignerRemains: the two counters count the custodians exactly, a deployed *)
(* account always keeps one, and somebody can sign for it: no sequence of   *)
(* additions, removals, rotations and recoveries, by userOp or by custody   *)
(* change, locks everybody out.  The condition is needed: an external       *)
(* custodian without an ECDSA key (the PIA of a passkey, a contract wallet) *)
(* counts like any other, and after the rest is removed nobody can sign.    *)
SignersCounted ==
  /\ externalCustodianCount = Cardinality(externalCustodians)
  /\ passkeyCount = Cardinality(passkeys)
SomeCustodian == deployed => externalCustodians \union passkeys # {}
SomeSigner ==
  deployed /\ externalCustodians \subseteq EcdsaKeys => \E s \in Address : ValidateSig(s)
SignerRemains == SignersCounted /\ SomeCustodian /\ SomeSigner

(* CP-2: whatever mix of AddTrustee, RemoveTrustee and SetRecoveryApprovals *)
(* is applied, the trustees can always meet the recovery threshold.         *)
RecoveryReachable ==
  /\ trusteeCount = Cardinality(trustees)
  /\ recoveryApprovals <= trusteeCount

(* C-9: once trustees can recover an account, no custody change turns       *)
(* recovery off again.                                                      *)
RecoveryNeverDisabled == [][recoveryApprovals > 0 => recoveryApprovals' > 0]_vars

(* CP-1: on every installed policy the admin and the critical tier have an  *)
(* explicit quorum, so the 1-of-n fallback of _approvalsValue never decides *)
(* a custody change.                                                        *)
NoFallbackQuorum == installed => approvals[4] >= 1 /\ approvals[5] >= 1

(* A change that could still be applied always needs at least one signature *)
(* under the configuration of the moment: the threshold that is read again  *)
(* at apply time never degenerates to an empty quorum.                      *)
LiveChangeNeedsApproval ==
  \A id \in DOMAIN pending : Live(id) => RequiredApprovals(pending[id].change) >= 1

(* No change takes effect before its eta, and a critical change or a        *)
(* recovery never in the instant it was scheduled.                          *)
NotBeforeEta ==
  \A id \in DOMAIN pending :
    LET ch == pending[id] IN
    /\ ch.executed => now >= ch.eta
    /\ TierFor(ch.change.action) >= 5 => ch.eta > ch.proposedAt

(* Where the recovery delay covers it, a recovery is never applied inside   *)
(* the window in which the custodians alone can veto it.                    *)
OwnersKeepCancelWindow ==
  \A id \in DOMAIN pending :
    /\ IsRecovery(pending[id].change) /\ pending[id].executed
    /\ delays[6] >= CancelWindow
    => now >= pending[id].proposedAt + CancelWindow

(* The history of changes is append-only: an entry keeps its contents and   *)
(* its proposers, is applied or cancelled at most once and never both.      *)
ChangeHistoryFinal ==
  [][\A id \in DOMAIN pending :
       /\ id \in DOMAIN pending'
       /\ pending[id].executed \/ pending[id].cancelled => pending'[id] = pending[id]
       /\ pending'[id] \in
            {pending[id],
             [pending[id] EXCEPT !.executed = TRUE],
             [pending[id] EXCEPT !.cancelled = TRUE]}]_vars

(* RulesChangeByQuorum: while a policy is in force its rules (trustees,     *)
(* thresholds, delays, mode) change in no other way than by a live change   *)
(* that somebody scheduled, that has matured, and that a quorum of the      *)
(* custodians of the moment applies: no userOp, install or recovery touches *)
(* them.  In org mode nobody who scheduled the change is in that quorum.    *)
RulesChangeByQuorum ==
  [][installed /\ installed' /\ configVars' # configVars =>
       \E id \in DOMAIN pending, S \in (SUBSET Address) \ {{}} :
         /\ Live(id) /\ Matured(id) /\ pending'[id].executed
         /\ pending[id].proposers # {}
         /\ VerifyQuorum(S, RequiredApprovals(pending[id].change), FALSE)
         /\ mode = 3 => S \intersect pending[id].proposers = {}]_vars

(* C-11: uninstalling is for good.  The stale trustees, thresholds and      *)
(* pending changes are never used, changed or installed over again.         *)
UninstallIsFinal == [][permanentlyUninstalled => UNCHANGED policyVars]_vars

(* The policy sits in at most one slot of the account's module table, and   *)
(* while it sits there it is either in force or retired for good: a failed  *)
(* install or a lifecycle call that bypasses the table leaves no slot whose *)
(* policy was never configured.                                             *)
PolicyAttachment ==
  /\ Cardinality(policyTypes) <= 1
  /\ policyTypes # {} => installed \/ permanentlyUninstalled

(* CA-1: the implementation changes at once only while no upgrade timelock  *)
(* is configured.  Otherwise it is the matured entry of the owner queue, or *)
(* a custody change that waited its T5 delay.                               *)
ImplementationChangesDelayed ==
  [][implementation' # implementation =>
       \/ upgradeTimelock = 0
       \/ /\ pendingUpgrade # NoUpgrade
          /\ pendingUpgrade.impl = implementation' /\ pendingUpgrade.readyAt <= now
       \/ \E id \in DOMAIN pending :
            /\ pending'[id].executed /\ ~pending[id].executed
            /\ now >= pending[id].proposedAt + delays[5]]_vars

(* R6.5/R6.6: while governance pauses the system, nobody's signers,         *)
(* modules, manager, implementation or custody configuration change; the    *)
(* only thing left is cancelling.                                           *)
PauseFreezes ==
  [][paused => /\ UNCHANGED <<signerVars, moduleVars, sessionVars, configVars, implementation>>
               /\ \A id \in DOMAIN pending' :
                    id \in DOMAIN pending /\ pending'[id].executed = pending[id].executed]_vars
=============================================================================
