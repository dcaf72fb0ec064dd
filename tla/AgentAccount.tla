---------------------------- MODULE AgentAccount ----------------------------
(***************************************************************************)
(* The custody-relevant state of one AgentAccount contract: who can sign    *)
(* for it, which executor module is installed, which implementation and     *)
(* DelegationManager it points at, and the owner upgrade queue.             *)
(*                                                                          *)
(* A credential stands for its Passkey-Identity-Address (PIA): the PIA is   *)
(* derived from the public key, so one value serves as both.                *)
(*                                                                          *)
(* Every privileged operation is `onlySelf`.  Two callers reach it:         *)
(*   - `execute`, for a userOp signed by ONE signer (or the                 *)
(*     DelegationManager), modelled by Execute(A);                          *)
(*   - `executeFromModule`, for the installed CustodyPolicy, modelled by    *)
(*     ExecuteFromModule(A).                                                *)
(***************************************************************************)
EXTENDS Integers, FiniteSets

CONSTANTS
  Externals,        \* EOAs and third-party wallets
  EcdsaKeys,        \* those of them that sign with an ECDSA key of their own
  Credentials,      \* WebAuthn credentials, each standing for its PIA
  AgentAccounts,    \* addresses that advertise IAgenticPrimitivesAgentAccount
  Self,             \* the address of this account
  Implementations,  \* UUPS implementation addresses
  Managers,         \* DelegationManager contracts
  Sessions,         \* session-delegation hashes
  Timelocks,        \* values an owner may give the upgrade timelock
  MaxUpgradeTimelock, \* MAX_UPGRADE_TIMELOCK (30 days)
  NoUpgrade,        \* the empty upgrade queue (readyAt == 0)
  SelfOps,          \* the self-only calls that owner-signed userOps make
  MaxTime           \* bound on block.timestamp

Address == Externals \union Credentials \union AgentAccounts

AllSelfOps ==
  {"addCustodian", "removeCustodian", "addPasskey", "removePasskey",
   "installModule", "uninstallModule", "onInstall", "onUninstall",
   "setDelegationManager",
   "acceptSessionDelegation", "setUpgradeTimelock", "scheduleUpgrade",
   "upgradeToAndCall"}

ASSUME AccountAssumption ==
  /\ IsFiniteSet(Externals) /\ IsFiniteSet(Credentials)
  /\ IsFiniteSet(AgentAccounts)
  /\ EcdsaKeys \subseteq Externals
  /\ Self \in AgentAccounts
  /\ Externals \intersect Credentials = {}
  /\ Externals \intersect AgentAccounts = {}
  /\ Credentials \intersect AgentAccounts = {}
  /\ Timelocks \subseteq Nat
  /\ MaxUpgradeTimelock \in Nat
  /\ NoUpgrade \notin [impl : Implementations, readyAt : Nat]
  /\ SelfOps \subseteq AllSelfOps
  /\ MaxTime \in Nat

VARIABLES
  externalCustodians,      \* _externalCustodians
  externalCustodianCount,  \* _externalCustodianCount
  passkeys,                \* the registered credentials
  passkeyCount,            \* PasskeyStorage.count
  deployed,                \* the initializer has run
  policyTypes,             \* {t : installed[t][custodyPolicy]}
  factoryInitConsumed,     \* _factoryInitConsumed
  delegationManager,       \* _delegationManager
  acceptedSessions,        \* _acceptedSessionDelegations
  implementation,          \* the ERC-1967 implementation slot
  upgradeTimelock,         \* _upgradeTimelock
  pendingUpgrade,          \* _pendingUpgrade
  paused,                  \* AgenticGovernance.isPaused()
  now                      \* block.timestamp

signerVars  == <<externalCustodians, externalCustodianCount, passkeys, passkeyCount>>
moduleVars  == <<deployed, policyTypes, factoryInitConsumed>>
sessionVars == <<delegationManager, acceptedSessions>>
upgradeVars == <<implementation, upgradeTimelock, pendingUpgrade>>
chainVars   == <<paused, now>>
accountVars == <<signerVars, moduleVars, sessionVars, upgradeVars, chainVars>>

(* The module types installModule supports; FALLBACK is refused. *)
ModuleTypes == {"VALIDATOR", "EXECUTOR", "HOOK"}

AccountTypeOK ==
  /\ externalCustodians \subseteq Externals \union Credentials
  /\ externalCustodianCount \in Nat
  /\ passkeys \subseteq Credentials
  /\ passkeyCount \in Nat
  /\ deployed \in BOOLEAN
  /\ policyTypes \subseteq ModuleTypes
  /\ factoryInitConsumed \in BOOLEAN
  /\ delegationManager \in Managers
  /\ acceptedSessions \subseteq Sessions
  /\ implementation \in Implementations
  /\ upgradeTimelock \in Nat
  /\ pendingUpgrade \in [impl : Implementations, readyAt : Nat] \union {NoUpgrade}
  /\ paused \in BOOLEAN
  /\ now \in Nat

-----------------------------------------------------------------------------
(* Views *)

IsAgenticPrimitivesAgent(a) == a \in AgentAccounts

IsCustodian(a) == a = Self \/ a \in externalCustodians \/ a \in passkeys

CustodianCount == externalCustodianCount + passkeyCount

(* _validateSig: one ECDSA key among the external custodians or one         *)
(* registered passkey suffices.  The PIA of a passkey and a contract wallet *)
(* may be external custodians too, but have no ECDSA key to sign with.      *)
ValidateSig(s) == s \in externalCustodians \intersect EcdsaKeys \/ s \in passkeys

-----------------------------------------------------------------------------
(* Before the factory deploys the proxy the account has no state.          *)
AccountInit ==
  /\ externalCustodians = {} /\ externalCustodianCount = 0
  /\ passkeys = {} /\ passkeyCount = 0
  /\ deployed = FALSE
  /\ policyTypes = {}
  /\ factoryInitConsumed = FALSE
  /\ delegationManager \in Managers
  /\ acceptedSessions = {}
  /\ implementation \in Implementations
  /\ upgradeTimelock = 0
  /\ pendingUpgrade = NoUpgrade
  /\ paused = FALSE
  /\ now = 0

(* initialize: external custodians and at most one passkey, at least one   *)
(* signer, no AgentAccount among them, the passkey's PIA not external.     *)
Initialize(ext, keys) ==
  /\ ~deployed
  /\ ext # {} \/ keys # {}
  /\ \A c \in ext : ~IsAgenticPrimitivesAgent(c)
  /\ Cardinality(keys) <= 1
  /\ keys \intersect ext = {}
  /\ deployed' = TRUE
  /\ externalCustodians' = ext
  /\ externalCustodianCount' = Cardinality(ext)
  /\ passkeys' = keys
  /\ passkeyCount' = Cardinality(keys)
  /\ UNCHANGED <<sessionVars, upgradeVars>>

-----------------------------------------------------------------------------
(* The onlySelf functions.  Each leaves chainVars to its caller.           *)

AddCustodian(o) ==
  /\ ~paused
  /\ o \notin externalCustodians
  /\ ~IsAgenticPrimitivesAgent(o)
  /\ externalCustodians' = externalCustodians \union {o}
  /\ externalCustodianCount' = externalCustodianCount + 1
  /\ UNCHANGED <<passkeys, passkeyCount, moduleVars, sessionVars, upgradeVars>>

(* removeCustodian refuses the last external custodian of an account        *)
(* without passkeys.                                                        *)
IsLastCustodian_OffByOne == externalCustodianCount = 0 /\ passkeyCount = 0
IsLastCustodian == externalCustodianCount = 1 /\ passkeyCount = 0

RemoveCustodian(o) ==
  /\ o \in externalCustodians
  /\ ~IsLastCustodian
  /\ externalCustodians' = externalCustodians \ {o}
  /\ externalCustodianCount' = externalCustodianCount - 1
  /\ UNCHANGED <<passkeys, passkeyCount, moduleVars, sessionVars, upgradeVars>>

AddPasskey(c) ==
  /\ c \notin passkeys
  /\ c \notin externalCustodians
  /\ passkeys' = passkeys \union {c}
  /\ passkeyCount' = passkeyCount + 1
  /\ UNCHANGED <<externalCustodians, externalCustodianCount,
                 moduleVars, sessionVars, upgradeVars>>

RemovePasskey(c) ==
  /\ c \in passkeys
  /\ externalCustodianCount + passkeyCount # 1
  /\ passkeys' = passkeys \ {c}
  /\ passkeyCount' = passkeyCount - 1
  /\ UNCHANGED <<externalCustodians, externalCustodianCount,
                 moduleVars, sessionVars, upgradeVars>>

SetDelegationManager(dm) ==
  /\ delegationManager' = dm
  /\ UNCHANGED <<acceptedSessions, signerVars, moduleVars, upgradeVars>>

AcceptSessionDelegation(h) ==
  /\ h \notin acceptedSessions
  /\ acceptedSessions' = acceptedSessions \union {h}
  /\ UNCHANGED <<delegationManager, signerVars, moduleVars, upgradeVars>>

SetUpgradeTimelock(secs) ==
  /\ secs <= MaxUpgradeTimelock
  /\ upgradeTimelock' = secs
  /\ UNCHANGED <<implementation, pendingUpgrade, signerVars, moduleVars, sessionVars>>

ScheduleUpgrade(impl) ==
  /\ upgradeTimelock # 0
  /\ pendingUpgrade' = [impl |-> impl, readyAt |-> now + upgradeTimelock]
  /\ UNCHANGED <<implementation, upgradeTimelock, signerVars, moduleVars, sessionVars>>

(* upgradeToAndCall with _authorizeUpgrade; authorizedCtx is the transient *)
(* flag that executeFromModule and executePendingUpgrade raise.            *)
AuthorizeUpgrade_Ungated(authorizedCtx) == TRUE
AuthorizeUpgrade(authorizedCtx) == upgradeTimelock = 0 \/ authorizedCtx

UpgradeToAndCall(impl, authorizedCtx) ==
  /\ AuthorizeUpgrade(authorizedCtx)
  /\ implementation' = impl
  /\ UNCHANGED <<upgradeTimelock, signerVars, moduleVars, sessionVars>>

-----------------------------------------------------------------------------
(* Callers *)

(* execute / executeBatch of a userOp: not paused, one valid signature,    *)
(* and every HOOK module answers preCheck, which CustodyPolicy does not    *)
(* implement.  (A delegation the account pre-approved by hash outlives its *)
(* signers; left out.)                                                     *)
Execute ==
  /\ deployed
  /\ ~paused
  /\ \E s \in Address : ValidateSig(s)
  /\ "HOOK" \notin policyTypes
  /\ UNCHANGED chainVars

(* executeFromModule: not paused, the caller an installed EXECUTOR.        *)
ExecuteFromModule ==
  /\ ~paused
  /\ "EXECUTOR" \in policyTypes

(* An owner-signed userOp that calls one onlySelf function.                *)
UserOp(op) == op \in SelfOps /\ Execute

OwnerAddCustodian == UserOp("addCustodian") /\ \E o \in Address : AddCustodian(o)
OwnerRemoveCustodian == UserOp("removeCustodian") /\ \E o \in Address : RemoveCustodian(o)
OwnerAddPasskey == UserOp("addPasskey") /\ \E c \in Credentials : AddPasskey(c)
OwnerRemovePasskey == UserOp("removePasskey") /\ \E c \in Credentials : RemovePasskey(c)
OwnerSetDelegationManager ==
  UserOp("setDelegationManager") /\ \E dm \in Managers : SetDelegationManager(dm)
OwnerAcceptSession ==
  UserOp("acceptSessionDelegation") /\ \E h \in Sessions : AcceptSessionDelegation(h)
OwnerSetUpgradeTimelock ==
  UserOp("setUpgradeTimelock") /\ \E t \in Timelocks : SetUpgradeTimelock(t)
OwnerScheduleUpgrade ==
  UserOp("scheduleUpgrade") /\ \E i \in Implementations : ScheduleUpgrade(i)
OwnerUpgrade ==
  /\ UserOp("upgradeToAndCall")
  /\ \E i \in Implementations : UpgradeToAndCall(i, FALSE)
  /\ UNCHANGED pendingUpgrade

(* executePendingUpgrade: permissionless once the delay has passed; the    *)
(* queue is cleared before the upgrade fires.                              *)
ExecutePendingUpgrade ==
  /\ ~paused
  /\ pendingUpgrade # NoUpgrade
  /\ now >= pendingUpgrade.readyAt
  /\ pendingUpgrade' = NoUpgrade
  /\ UpgradeToAndCall(pendingUpgrade.impl, TRUE)
  /\ UNCHANGED chainVars

(* cancelPendingUpgrade: one external custodian's ECDSA signature, not     *)
(* gated by the pause and not able to use a passkey.                       *)
CancelPendingUpgrade ==
  /\ pendingUpgrade # NoUpgrade
  /\ externalCustodians \intersect EcdsaKeys # {}
  /\ pendingUpgrade' = NoUpgrade
  /\ UNCHANGED <<implementation, upgradeTimelock, signerVars, moduleVars,
                 sessionVars, chainVars>>

(* The chain: blocks advance, governance raises and lifts the pause.       *)
Tick ==
  /\ now < MaxTime
  /\ now' = now + 1
  /\ UNCHANGED <<signerVars, moduleVars, sessionVars, upgradeVars, paused>>

Pause ==
  /\ ~paused /\ paused' = TRUE
  /\ UNCHANGED <<signerVars, moduleVars, sessionVars, upgradeVars, now>>

Unpause ==
  /\ paused /\ paused' = FALSE
  /\ UNCHANGED <<signerVars, moduleVars, sessionVars, upgradeVars, now>>

(* What the account and the chain do without touching the custody policy.  *)
AccountNext ==
  \/ OwnerAddCustodian \/ OwnerRemoveCustodian
  \/ OwnerAddPasskey \/ OwnerRemovePasskey
  \/ OwnerSetDelegationManager \/ OwnerAcceptSession
  \/ OwnerSetUpgradeTimelock \/ OwnerScheduleUpgrade \/ OwnerUpgrade
  \/ ExecutePendingUpgrade \/ CancelPendingUpgrade
  \/ Tick \/ Pause \/ Unpause
=============================================================================
