------------------------ MODULE CustodyPolicyProofs ------------------------
(***************************************************************************)
(* Proofs about CustodyPolicy, for every set of addresses, changes,         *)
(* install configurations and delays.                                       *)
(***************************************************************************)
EXTENDS CustodyPolicy, FiniteSetTheorems, TLAPS

(* The default matrix gives a natural number for every count and tier.      *)
LEMMA DefaultApprovalsType ==
  ASSUME NEW n \in Nat, NEW t \in Tiers
  PROVE  DefaultApprovals(n, t) \in Nat
BY DEF DefaultApprovals, Tiers

(* Every address set in the model is finite.                                *)
LEMMA AddressFinite == IsFiniteSet(Address)
BY AccountAssumption, FS_Union DEF Address

(* Subsets of the address set are finite, with a natural cardinality.       *)
LEMMA SubsetFinite ==
  ASSUME NEW S, S \subseteq Address
  PROVE  IsFiniteSet(S) /\ Cardinality(S) \in Nat
BY AddressFinite, FS_Subset, FS_CardinalityType

(* The cardinality of a disjoint union is the sum.                          *)
LEMMA DisjointUnion ==
  ASSUME NEW S, NEW U, S \subseteq Address, U \subseteq Address, S \intersect U = {}
  PROVE  Cardinality(S \union U) = Cardinality(S) + Cardinality(U)
<1>1. IsFiniteSet(S) /\ IsFiniteSet(U)
  BY SubsetFinite
<1>2. Cardinality(S \union U) = Cardinality(S) + Cardinality(U) - Cardinality(S \intersect U)
  BY <1>1, FS_Union
<1>3. Cardinality(S) \in Nat /\ Cardinality(U) \in Nat
  BY <1>1, FS_CardinalityType
<1>4. Cardinality(S \intersect U) = 0
  BY FS_EmptySet, Zenon
<1> QED
  BY <1>2, <1>3, <1>4

(* A subset taken away is taken off the cardinality.                        *)
LEMMA NestedDifference ==
  ASSUME NEW S, NEW U, S \subseteq Address, U \subseteq S
  PROVE  Cardinality(S \ U) = Cardinality(S) - Cardinality(U)
<1>1. IsFiniteSet(S) /\ S \intersect U = U
  BY SubsetFinite
<1> QED
  BY <1>1, FS_Difference

-----------------------------------------------------------------------------
(* Signers *)

(* The signer sets hold only wallets and credentials, are counted, and are  *)
(* not empty once the account exists.                                       *)
SignerInv ==
  /\ deployed \in BOOLEAN
  /\ externalCustodians \subseteq Externals \union Credentials
  /\ passkeys \subseteq Credentials
  /\ SignersCounted /\ SomeCustodian

(* What the signer invariant says of the two sets and their counters.       *)
LEMMA SignerInvFacts ==
  ASSUME SignerInv
  PROVE  /\ externalCustodians \subseteq Address /\ passkeys \subseteq Address
         /\ IsFiniteSet(externalCustodians) /\ IsFiniteSet(passkeys)
         /\ externalCustodianCount \in Nat /\ passkeyCount \in Nat
         /\ externalCustodianCount = 0 <=> externalCustodians = {}
         /\ passkeyCount = 0 <=> passkeys = {}
         /\ deployed => CustodianCount >= 1
<1>1. externalCustodians \subseteq Address /\ passkeys \subseteq Address
  BY DEF SignerInv, Address
<1>2. IsFiniteSet(externalCustodians) /\ IsFiniteSet(passkeys)
  BY <1>1, SubsetFinite
<1>3. /\ externalCustodianCount \in Nat /\ passkeyCount \in Nat
      /\ externalCustodianCount = 0 <=> externalCustodians = {}
      /\ passkeyCount = 0 <=> passkeys = {}
  BY <1>2, FS_CardinalityType, FS_EmptySet DEF SignerInv, SignersCounted
<1>4. deployed => CustodianCount >= 1
  BY <1>3 DEF SignerInv, SomeCustodian, CustodianCount
<1> QED
  BY <1>1, <1>2, <1>3, <1>4

(* addCustodian keeps the counters exact.                                   *)
LEMMA AddCustodianSigners ==
  ASSUME SignerInv, NEW o \in Address, AddCustodian(o)
  PROVE  SignerInv'
<1>1. Cardinality(externalCustodians \union {o}) = externalCustodianCount + 1
  BY SignerInvFacts, FS_AddElement DEF SignerInv, SignersCounted, AddCustodian
<1> QED
  BY <1>1 DEF AddCustodian, IsAgenticPrimitivesAgent, SignerInv, SignersCounted,
              SomeCustodian, Address, moduleVars

(* removeCustodian keeps them exact and never takes the last signer.        *)
LEMMA RemoveCustodianSigners ==
  ASSUME SignerInv, NEW o, RemoveCustodian(o)
  PROVE  SignerInv'
<1>1. /\ IsFiniteSet(externalCustodians \ {o})
      /\ Cardinality(externalCustodians \ {o}) = externalCustodianCount - 1
  BY SignerInvFacts, FS_RemoveElement DEF SignerInv, SignersCounted, RemoveCustodian
<1>2. (externalCustodians \ {o}) \union passkeys # {}
  <2> SUFFICES ASSUME externalCustodians \ {o} = {}, passkeys = {} PROVE FALSE
    OBVIOUS
  <2>1. externalCustodianCount = 1 /\ passkeyCount = 0
    BY <1>1, SignerInvFacts, FS_EmptySet
  <2> QED
    BY <2>1 DEF RemoveCustodian, IsLastCustodian
<1> QED
  BY <1>1, <1>2 DEF RemoveCustodian, SignerInv, SignersCounted, SomeCustodian, moduleVars

(* addPasskey keeps the counters exact.                                     *)
LEMMA AddPasskeySigners ==
  ASSUME SignerInv, NEW c \in Credentials, AddPasskey(c)
  PROVE  SignerInv'
<1>1. Cardinality(passkeys \union {c}) = passkeyCount + 1
  BY SignerInvFacts, FS_AddElement DEF SignerInv, SignersCounted, AddPasskey
<1> QED
  BY <1>1 DEF AddPasskey, SignerInv, SignersCounted, SomeCustodian, moduleVars

(* removePasskey keeps them exact and never takes the last signer.          *)
LEMMA RemovePasskeySigners ==
  ASSUME SignerInv, NEW c, RemovePasskey(c)
  PROVE  SignerInv'
<1>1. /\ IsFiniteSet(passkeys \ {c})
      /\ Cardinality(passkeys \ {c}) = passkeyCount - 1
  BY SignerInvFacts, FS_RemoveElement DEF SignerInv, SignersCounted, RemovePasskey
<1>2. externalCustodians \union (passkeys \ {c}) # {}
  <2> SUFFICES ASSUME externalCustodians = {}, passkeys \ {c} = {} PROVE FALSE
    OBVIOUS
  <2>1. externalCustodianCount = 0 /\ passkeyCount = 1
    BY <1>1, SignerInvFacts, FS_EmptySet
  <2> QED
    BY <2>1 DEF RemovePasskey
<1> QED
  BY <1>1, <1>2 DEF RemovePasskey, SignerInv, SignersCounted, SomeCustodian, moduleVars

(* Rotation and recovery: additions first, then removals, the last signer   *)
(* never removed.                                                           *)
LEMMA ReplaceSignersSigners ==
  ASSUME SignerInv,
         NEW aO \in SUBSET Address, NEW aP \in SUBSET Credentials,
         NEW rO \in SUBSET Address, NEW rP \in SUBSET Credentials,
         ReplaceSigners(aO, aP, rO, rP)
  PROVE  SignerInv'
<1> DEFINE new  == {o \in aO : ~IsCustodian(o)}
           ext  == externalCustodians \union new
           keys == passkeys \union aP
           gone == {o \in rO : o = Self \/ o \in ext \/ o \in keys}
           nExt == externalCustodianCount + Cardinality(new) - Cardinality(gone)
           nKey == passkeyCount + Cardinality(aP)
<1>1. /\ \A o \in new : ~IsAgenticPrimitivesAgent(o)
      /\ aP \intersect (passkeys \union ext) = {}
      /\ gone \subseteq ext
      /\ gone # {} /\ nKey = 0 => nExt >= 1
      /\ rP \subseteq keys
      /\ rP # {} => nExt + nKey - Cardinality(rP) >= 1
      /\ externalCustodians' = ext \ gone
      /\ externalCustodianCount' = nExt
      /\ passkeys' = keys \ rP
      /\ passkeyCount' = nKey - Cardinality(rP)
      /\ deployed' = deployed
  BY DEF ReplaceSigners, moduleVars
<1>2. ext \subseteq Externals \union Credentials /\ keys \subseteq Credentials
  BY <1>1 DEF SignerInv, IsAgenticPrimitivesAgent, Address
<1>3. /\ ext \subseteq Address /\ keys \subseteq Address /\ new \subseteq Address
      /\ aP \subseteq Address /\ rP \subseteq Address
  BY <1>2 DEF Address
<1>4. Cardinality(ext) = externalCustodianCount + Cardinality(new)
  <2>1. externalCustodians \intersect new = {}
    BY DEF IsCustodian
  <2> QED
    BY <2>1, <1>3, SignerInvFacts, DisjointUnion DEF SignerInv, SignersCounted
<1>5. Cardinality(keys) = nKey
  BY <1>1, <1>3, SignerInvFacts, DisjointUnion DEF SignerInv, SignersCounted
<1> HIDE DEF new, ext, keys, gone
<1>6. Cardinality(externalCustodians') = externalCustodianCount'
  <2>1. Cardinality(ext \ gone) = Cardinality(ext) - Cardinality(gone)
    BY <1>1, <1>3, NestedDifference
  <2>2. Cardinality(ext) \in Nat /\ Cardinality(gone) \in Nat /\ Cardinality(new) \in Nat
    <3>1. gone \subseteq Address
      BY <1>1, <1>3
    <3> QED
      BY <3>1, <1>3, SubsetFinite
  <2> QED
    BY <1>1, <1>4, <2>1, <2>2, SignerInvFacts
<1>7. Cardinality(passkeys') = passkeyCount'
  BY <1>1, <1>3, <1>5, NestedDifference
<1>8. deployed => externalCustodians' \union passkeys' # {}
  <2> SUFFICES ASSUME deployed, externalCustodians' = {}, passkeys' = {} PROVE FALSE
    OBVIOUS
  <2>1. externalCustodianCount' = 0 /\ passkeyCount' = 0
    BY <1>6, <1>7, FS_EmptySet
  <2>2. rP = {}
    BY <1>1, <2>1
  <2>3. keys = {} /\ nKey = 0
    BY <1>1, <1>5, <2>2, FS_EmptySet
  <2>4. gone = {}
    BY <1>1, <2>1, <2>3
  <2>5. externalCustodians = {} /\ passkeys = {}
    BY <1>1, <2>3, <2>4 DEF ext, keys
  <2> QED
    BY <2>5 DEF SignerInv, SomeCustodian
<1> QED
  BY <1>1, <1>2, <1>6, <1>7, <1>8 DEF SignerInv, SignersCounted, SomeCustodian

(* An account that is not deployed satisfies the signer invariant.          *)
LEMMA SignerInvInit == Init => SignerInv
BY FS_EmptySet DEF Init, AccountInit, SignerInv, SignersCounted, SomeCustodian

(* Steps that leave the signers alone.                                      *)
LEMMA SignerInvFrame ==
  ASSUME SignerInv, UNCHANGED signerVars, UNCHANGED deployed
  PROVE  SignerInv'
BY DEF signerVars, SignerInv, SignersCounted, SomeCustodian

(* Applying a custody change keeps the signers safe, whatever the change.   *)
LEMMA SignerInvApply ==
  ASSUME SignerInv, NEW ch \in Changes, ApplyChange(ch)
  PROVE  SignerInv'
<1> USE DEF WellFormedChange
<1>w. WellFormedChange(ch)
  BY PolicyAssumption
<1>1. CASE ch.action = "AddCustodian" /\ ApplyAddCustodian(ch.arg)
  BY <1>1, <1>w, AddCustodianSigners DEF ApplyAddCustodian
<1>2. CASE ch.action = "RemoveCustodian" /\ ApplyRemoveCustodian(ch.arg)
  BY <1>2, <1>w, RemoveCustodianSigners DEF ApplyRemoveCustodian
<1>3. CASE ch.action = "AddPasskeyCredential" /\ ApplyAddPasskey(ch.arg)
  BY <1>3, <1>w, AddPasskeySigners DEF ApplyAddPasskey
<1>4. CASE ch.action = "RemovePasskeyCredential" /\ ApplyRemovePasskey(ch.arg)
  BY <1>4, <1>w, RemovePasskeySigners DEF ApplyRemovePasskey
<1>5. CASE /\ ch.action = "RotateAllCustodians"
           /\ ApplyRotateAllCustodians(ch.arg.add, ch.arg.remove)
  BY <1>5, <1>w, ReplaceSignersSigners DEF ApplyRotateAllCustodians
<1>6. CASE ch.action = "RecoverAccount" /\ ApplyRecoverAccount(ch.arg)
  BY <1>6, <1>w, ReplaceSignersSigners DEF ApplyRecoverAccount
<1>7. CASE UNCHANGED signerVars /\ UNCHANGED deployed
  BY <1>7, SignerInvFrame
<1>8. ASSUME \/ ch.action = "AddTrustee" /\ ApplyAddTrustee(ch.arg)
             \/ ch.action = "RemoveTrustee" /\ ApplyRemoveTrustee(ch.arg)
             \/ ch.action = "ChangeCustodyMode" /\ ApplyChangeMode(ch.arg)
             \/ ch.action = "ChangeValueCeiling" /\ ApplyChangeValueCeiling(ch.arg)
             \/ ch.action = "SetRecoveryApprovals" /\ ApplySetRecoveryApprovals(ch.arg)
             \/ ch.action = "ChangeApprovalsRequired"
                /\ ApplyChangeApprovalsRequired(ch.arg.tier, ch.arg.count)
             \/ ch.action = "ApplySystemUpdate" /\ ApplySystemUpdate(ch.arg)
             \/ ch.action = "RotateDelegationManager" /\ ApplyRotateDelegationManager(ch.arg)
      PROVE  UNCHANGED signerVars /\ UNCHANGED deployed
  BY <1>8 DEF ApplyAddTrustee, ApplyRemoveTrustee, ApplyChangeMode, ApplyChangeValueCeiling,
     ApplySetRecoveryApprovals, ApplyChangeApprovalsRequired, ApplySystemUpdate,
     ApplyRotateDelegationManager, UpgradeToAndCall, SetDelegationManager,
     UnchangedAccount, moduleVars
<1> QED
  BY <1>1, <1>2, <1>3, <1>4, <1>5, <1>6, <1>7, <1>8 DEF ApplyChange

-----------------------------------------------------------------------------
(* Configuration *)

(* The configuration is well-typed, its trustees are counted and reach the  *)
(* recovery threshold, and an installed policy has explicit quorums.        *)
ConfigInv ==
  /\ installed \in BOOLEAN /\ permanentlyUninstalled \in BOOLEAN
  /\ mode \in 0..3
  /\ recoveryApprovals \in Nat
  /\ approvals \in [Tiers -> Nat]
  /\ delays \in [Tiers -> Nat]
  /\ trustees \subseteq Address
  /\ trusteeCount \in Nat
  /\ ceiling \in Nat
  /\ RecoveryReachable
  /\ NoFallbackQuorum

(* A policy that is not installed has an empty configuration.               *)
LEMMA ConfigInvInit == Init => ConfigInv
<1> SUFFICES ASSUME Init PROVE ConfigInv
  OBVIOUS
<1>1. installed = FALSE /\ permanentlyUninstalled = FALSE
  BY DEF Init
<1>2. installed \in BOOLEAN /\ permanentlyUninstalled \in BOOLEAN /\ NoFallbackQuorum
  BY <1>1 DEF NoFallbackQuorum
<1>3. RecoveryReachable
  BY FS_EmptySet DEF Init, RecoveryReachable
<1> QED
  BY <1>2, <1>3 DEF Init, ConfigInv, Tiers

(* Steps that leave the configuration alone.                                *)
LEMMA ConfigInvFrame ==
  ASSUME ConfigInv, UNCHANGED configVars
  PROVE  ConfigInv'
BY DEF configVars, ConfigInv, RecoveryReachable, NoFallbackQuorum

(* What the factory builds from its parameters is a legal configuration.    *)
LEMMA FactoryConfigType ==
  ASSUME NEW p \in InitParams
  PROVE  FactoryConfig(p) \in InstallConfig
<1> p \in InitParam
  BY PolicyAssumption
<1> DEFINE n == Cardinality(p.custodians) + Cardinality(p.passkeys)
           k == Cardinality(p.trustees)
<1>1. n \in Nat /\ k \in Nat
  <2>1. p.custodians \subseteq Address /\ p.passkeys \subseteq Address /\ p.trustees \subseteq Address
    BY DEF InitParam, Address
  <2> QED
    BY <2>1, SubsetFinite
<1> HIDE DEF n, k
<1>2. (k \div 2 + 1) % 256 \in Nat
  BY <1>1
<1>3. [t \in Tiers |-> IF t = 6 THEN 0 ELSE DefaultApprovals(n, t)] \in [Tiers -> Nat]
  BY <1>1, DefaultApprovalsType
<1>4. [t \in Tiers |->
         IF t \in 4..6 /\ p.timelocks[t] = 0 THEN DefaultDelays[t]
         ELSE IF t \in 4..6 THEN p.timelocks[t] ELSE 0] \in [Tiers -> Nat]
  BY PolicyAssumption DEF InitParam, Tiers
<1>5. p.mode \in Nat /\ p.trustees \in SUBSET Address
  BY DEF InitParam
<1> QED
  BY <1>2, <1>3, <1>4, <1>5 DEF FactoryConfig, InstallConfig, n, k

(* The default matrix gives both custody tiers a quorum of at least one.    *)
LEMMA DefaultQuorums ==
  ASSUME NEW n \in Nat \ {0}
  PROVE  DefaultApprovals(n, 4) >= 1 /\ DefaultApprovals(n, 5) >= 1
BY DEF DefaultApprovals

(* onInstall leaves explicit quorums and a reachable recovery threshold.    *)
LEMMA ConfigInvInstall ==
  ASSUME ConfigInv, NEW cfg \in InstallConfig, NEW n \in Nat \ {0}, OnInstall(cfg, n)
  PROVE  ConfigInv'
<1> DEFINE m == IF n > 255 THEN 255 ELSE n
           thr == [t \in Tiers |-> IF cfg.thresholds[t] = 0 THEN DefaultApprovals(m, t)
                                   ELSE cfg.thresholds[t]]
<1>1. /\ cfg.mode \in 0..3 /\ cfg.recoveryApprovals \in Nat /\ cfg.ceiling \in Nat
      /\ cfg.trustees \subseteq Address
      /\ cfg.thresholds \in [Tiers -> Nat] /\ cfg.timelocks \in [Tiers -> Nat]
  BY DEF InstallConfig, OnInstall, ValidMode
<1>2. /\ installed' = TRUE /\ mode' = cfg.mode /\ recoveryApprovals' = cfg.recoveryApprovals
      /\ ceiling' = cfg.ceiling /\ trustees' = cfg.trustees /\ delays' = cfg.timelocks
      /\ trusteeCount' = Cardinality(cfg.trustees)
      /\ cfg.recoveryApprovals <= Cardinality(cfg.trustees)
      /\ permanentlyUninstalled' = permanentlyUninstalled
      /\ approvals' = thr
  BY DEF OnInstall
<1>3. m \in Nat \ {0}
  OBVIOUS
<1> HIDE DEF m
<1>4. thr \in [Tiers -> Nat]
  BY <1>1, <1>3, DefaultApprovalsType
<1>5. thr[4] >= 1 /\ thr[5] >= 1
  BY <1>1, <1>3, DefaultQuorums DEF Tiers
<1> HIDE DEF thr
<1>6. Cardinality(cfg.trustees) \in Nat
  BY <1>1, SubsetFinite
<1>7. RecoveryReachable' /\ NoFallbackQuorum'
  BY <1>2, <1>5 DEF RecoveryReachable, NoFallbackQuorum
<1>8. installed' \in BOOLEAN /\ permanentlyUninstalled' \in BOOLEAN
  BY <1>2 DEF ConfigInv
<1> QED
  BY <1>1, <1>2, <1>4, <1>6, <1>7, <1>8 DEF ConfigInv

(* onUninstall keeps the configuration as it was.                           *)
LEMMA ConfigInvUninstall ==
  ASSUME ConfigInv, OnUninstall
  PROVE  ConfigInv'
<1>1. installed' = FALSE /\ permanentlyUninstalled' = TRUE
  BY DEF OnUninstall
<1>2. installed' \in BOOLEAN /\ permanentlyUninstalled' \in BOOLEAN /\ NoFallbackQuorum'
  BY <1>1 DEF NoFallbackQuorum
<1> QED
  BY <1>2 DEF OnUninstall, ConfigInv, RecoveryReachable

(* Every handler keeps the configuration invariant.                         *)
LEMMA ConfigInvApply ==
  ASSUME ConfigInv, SignerInv, NEW ch \in Changes, ApplyChange(ch)
  PROVE  ConfigInv'
<1>w. WellFormedChange(ch)
  BY PolicyAssumption
<1>f. IsFiniteSet(trustees) /\ trusteeCount = Cardinality(trustees) /\ recoveryApprovals <= trusteeCount
  BY SubsetFinite DEF ConfigInv, RecoveryReachable
<1>1. CASE UNCHANGED configVars
  BY <1>1, ConfigInvFrame
<1>2. CASE ch.action = "AddTrustee" /\ ApplyAddTrustee(ch.arg)
  <2>1. /\ ch.arg \in Address /\ ch.arg \notin trustees
        /\ trustees' = trustees \union {ch.arg} /\ trusteeCount' = trusteeCount + 1
        /\ UNCHANGED <<installed, permanentlyUninstalled, mode, recoveryApprovals,
                       approvals, delays, ceiling>>
    BY <1>2, <1>w DEF WellFormedChange, ApplyAddTrustee
  <2>2. Cardinality(trustees') = trusteeCount'
    BY <2>1, <1>f, FS_AddElement
  <2> QED
    BY <2>1, <2>2, <1>f DEF ConfigInv, RecoveryReachable, NoFallbackQuorum
<1>3. CASE ch.action = "RemoveTrustee" /\ ApplyRemoveTrustee(ch.arg)
  <2>1. /\ ch.arg \in trustees /\ ~TrusteeNeeded
        /\ trustees' = trustees \ {ch.arg} /\ trusteeCount' = trusteeCount - 1
        /\ UNCHANGED <<installed, permanentlyUninstalled, mode, recoveryApprovals,
                       approvals, delays, ceiling>>
    BY <1>3 DEF ApplyRemoveTrustee
  <2>2. Cardinality(trustees') = trusteeCount' /\ trusteeCount' \in Nat
    <3>1. trustees' \subseteq Address
      BY <2>1 DEF ConfigInv
    <3>2. Cardinality(trustees') = trusteeCount'
      BY <2>1, <1>f, FS_RemoveElement
    <3> QED
      BY <3>1, <3>2, SubsetFinite
  <2>3. recoveryApprovals' <= trusteeCount'
    BY <2>1, <2>2 DEF ConfigInv, TrusteeNeeded
  <2> QED
    BY <2>1, <2>2, <2>3 DEF ConfigInv, RecoveryReachable, NoFallbackQuorum
<1>4. CASE ch.action = "ChangeCustodyMode" /\ ApplyChangeMode(ch.arg)
  BY <1>4, <1>w DEF WellFormedChange, ApplyChangeMode, ValidMode, ConfigInv, RecoveryReachable,
     NoFallbackQuorum
<1>5. CASE ch.action = "ChangeValueCeiling" /\ ApplyChangeValueCeiling(ch.arg)
  BY <1>5, <1>w DEF WellFormedChange, ApplyChangeValueCeiling, ConfigInv, RecoveryReachable,
     NoFallbackQuorum
<1>6. CASE ch.action = "SetRecoveryApprovals" /\ ApplySetRecoveryApprovals(ch.arg)
  BY <1>6, <1>w DEF WellFormedChange, ApplySetRecoveryApprovals, ValidRecoveryApprovals,
     ConfigInv, RecoveryReachable, NoFallbackQuorum
<1>7. CASE /\ ch.action = "ChangeApprovalsRequired"
           /\ ApplyChangeApprovalsRequired(ch.arg.tier, ch.arg.count)
  BY <1>7, <1>w DEF WellFormedChange, ApplyChangeApprovalsRequired, ValidApprovals,
     ConfigInv, RecoveryReachable, NoFallbackQuorum, Tiers
<1>8. ASSUME \/ ApplyAddCustodian(ch.arg) \/ ApplyRemoveCustodian(ch.arg)
             \/ ApplyAddPasskey(ch.arg) \/ ApplyRemovePasskey(ch.arg)
             \/ ApplyRotateAllCustodians(ch.arg.add, ch.arg.remove)
             \/ ApplyRecoverAccount(ch.arg)
             \/ ApplySystemUpdate(ch.arg) \/ ApplyRotateDelegationManager(ch.arg)
      PROVE  UNCHANGED configVars
  BY <1>8 DEF ApplyAddCustodian, ApplyRemoveCustodian, ApplyAddPasskey, ApplyRemovePasskey,
     ApplyRotateAllCustodians, ApplyRecoverAccount, ReplaceSigners, ApplySystemUpdate,
     ApplyRotateDelegationManager
<1> QED
  BY <1>1, <1>2, <1>3, <1>4, <1>5, <1>6, <1>7, <1>8 DEF ApplyChange

-----------------------------------------------------------------------------
(* The rest of the account *)

(* Types of what is neither a signer nor policy configuration.              *)
RestInv ==
  /\ policyTypes \subseteq ModuleTypes
  /\ factoryInitConsumed \in BOOLEAN
  /\ delegationManager \in Managers
  /\ acceptedSessions \subseteq Sessions
  /\ implementation \in Implementations
  /\ upgradeTimelock \in Nat
  /\ pendingUpgrade \in [impl : Implementations, readyAt : Nat] \union {NoUpgrade}
  /\ paused \in BOOLEAN
  /\ now \in Nat

(* The account, upgrade queue and chain start well typed.                   *)
LEMMA RestInvInit == Init => RestInv
<1> SUFFICES ASSUME Init PROVE RestInv
  OBVIOUS
<1>1. factoryInitConsumed = FALSE /\ paused = FALSE
  BY DEF Init, AccountInit
<1>2. factoryInitConsumed \in BOOLEAN /\ paused \in BOOLEAN
  BY <1>1
<1> QED
  BY <1>2 DEF Init, AccountInit, RestInv

(* Steps that leave the rest of the account alone.                          *)
LEMMA RestInvFrame ==
  ASSUME RestInv, UNCHANGED <<moduleVars, sessionVars, upgradeVars, chainVars>>
  PROVE  RestInv'
BY DEF RestInv, moduleVars, sessionVars, upgradeVars, chainVars

(* No custody change disturbs the module table, the sessions or the queue.  *)
LEMMA RestInvApply ==
  ASSUME RestInv, NEW ch \in Changes, ApplyChange(ch), UNCHANGED chainVars
  PROVE  RestInv'
<1>w. WellFormedChange(ch)
  BY PolicyAssumption
<1>1. CASE UNCHANGED <<moduleVars, sessionVars, upgradeVars>>
  BY <1>1, RestInvFrame
<1>2. CASE ch.action = "ApplySystemUpdate" /\ ApplySystemUpdate(ch.arg)
  BY <1>2, <1>w DEF WellFormedChange, ApplySystemUpdate, UpgradeToAndCall, RestInv,
     moduleVars, sessionVars, chainVars
<1>3. CASE ch.action = "RotateDelegationManager" /\ ApplyRotateDelegationManager(ch.arg)
  BY <1>3, <1>w DEF WellFormedChange, ApplyRotateDelegationManager, SetDelegationManager, RestInv,
     moduleVars, upgradeVars, chainVars
<1>4. ASSUME \/ ApplyAddCustodian(ch.arg) \/ ApplyRemoveCustodian(ch.arg)
             \/ ApplyAddPasskey(ch.arg) \/ ApplyRemovePasskey(ch.arg)
             \/ ApplyRotateAllCustodians(ch.arg.add, ch.arg.remove)
             \/ ApplyRecoverAccount(ch.arg)
             \/ ApplyAddTrustee(ch.arg) \/ ApplyRemoveTrustee(ch.arg)
             \/ ApplyChangeMode(ch.arg) \/ ApplyChangeValueCeiling(ch.arg)
             \/ ApplySetRecoveryApprovals(ch.arg)
             \/ ApplyChangeApprovalsRequired(ch.arg.tier, ch.arg.count)
      PROVE  UNCHANGED <<moduleVars, sessionVars, upgradeVars>>
  BY <1>4 DEF ApplyAddCustodian, ApplyRemoveCustodian, ApplyAddPasskey, ApplyRemovePasskey,
     AddCustodian, RemoveCustodian, AddPasskey, RemovePasskey,
     ApplyRotateAllCustodians, ApplyRecoverAccount, ReplaceSigners,
     ApplyAddTrustee, ApplyRemoveTrustee, ApplyChangeMode, ApplyChangeValueCeiling,
     ApplySetRecoveryApprovals, ApplyChangeApprovalsRequired, UnchangedAccount
<1> QED
  BY <1>1, <1>2, <1>3, <1>4 DEF ApplyChange

(* What an owner's userOp, the upgrade queue and the chain do.              *)
LEMMA RestInvAccountNext ==
  ASSUME RestInv, AccountNext
  PROVE  RestInv'
<1> USE AccountAssumption DEF UserOp, Execute, RestInv, signerVars, moduleVars, sessionVars,
        upgradeVars, chainVars
<1>1. CASE OwnerAddCustodian
  BY <1>1 DEF OwnerAddCustodian, AddCustodian
<1>2. CASE OwnerRemoveCustodian
  BY <1>2 DEF OwnerRemoveCustodian, RemoveCustodian
<1>3. CASE OwnerAddPasskey
  BY <1>3 DEF OwnerAddPasskey, AddPasskey
<1>4. CASE OwnerRemovePasskey
  BY <1>4 DEF OwnerRemovePasskey, RemovePasskey
<1>5. CASE OwnerSetDelegationManager
  BY <1>5 DEF OwnerSetDelegationManager, SetDelegationManager
<1>6. CASE OwnerAcceptSession
  BY <1>6 DEF OwnerAcceptSession, AcceptSessionDelegation
<1>7. CASE OwnerSetUpgradeTimelock
  BY <1>7 DEF OwnerSetUpgradeTimelock, SetUpgradeTimelock
<1>8. CASE OwnerScheduleUpgrade
  BY <1>8 DEF OwnerScheduleUpgrade, ScheduleUpgrade
<1>9. CASE OwnerUpgrade
  BY <1>9 DEF OwnerUpgrade, UpgradeToAndCall
<1>10. CASE ExecutePendingUpgrade
  BY <1>10 DEF ExecutePendingUpgrade, UpgradeToAndCall
<1>11. CASE CancelPendingUpgrade
  BY <1>11 DEF CancelPendingUpgrade
<1>12. CASE Tick
  BY <1>12 DEF Tick
<1>13. CASE Pause
  <2>1. paused' \in BOOLEAN
    BY <1>13 DEF Pause
  <2> QED
    BY <1>13, <2>1 DEF Pause
<1>14. CASE Unpause
  <2>1. paused' \in BOOLEAN
    BY <1>14 DEF Unpause
  <2> QED
    BY <1>14, <2>1 DEF Unpause
<1> QED
  BY <1>1, <1>2, <1>3, <1>4, <1>5, <1>6, <1>7, <1>8, <1>9, <1>10, <1>11, <1>12, <1>13, <1>14
  DEF AccountNext

(* The owner userOps on the signer sets keep a signer.                      *)
LEMMA SignerInvAccountNext ==
  ASSUME SignerInv, AccountNext
  PROVE  SignerInv'
<1>1. CASE OwnerAddCustodian
  BY <1>1, AddCustodianSigners DEF OwnerAddCustodian
<1>2. CASE OwnerRemoveCustodian
  BY <1>2, RemoveCustodianSigners DEF OwnerRemoveCustodian
<1>3. CASE OwnerAddPasskey
  BY <1>3, AddPasskeySigners DEF OwnerAddPasskey
<1>4. CASE OwnerRemovePasskey
  BY <1>4, RemovePasskeySigners DEF OwnerRemovePasskey
<1>5. ASSUME AccountNext, ~OwnerAddCustodian, ~OwnerRemoveCustodian,
             ~OwnerAddPasskey, ~OwnerRemovePasskey
      PROVE  UNCHANGED signerVars /\ UNCHANGED deployed
  BY <1>5 DEF AccountNext, OwnerSetDelegationManager, OwnerAcceptSession,
     OwnerSetUpgradeTimelock, OwnerScheduleUpgrade, OwnerUpgrade, ExecutePendingUpgrade,
     CancelPendingUpgrade, Tick, Pause, Unpause, SetDelegationManager, AcceptSessionDelegation,
     SetUpgradeTimelock, ScheduleUpgrade, UpgradeToAndCall, moduleVars
<1> QED
  BY <1>1, <1>2, <1>3, <1>4, <1>5, SignerInvFrame

-----------------------------------------------------------------------------
(* Scheduled changes *)

(* What a scheduled change keeps to for ever: it is executed only after its *)
(* eta, the eta is that of its tier under delays that no longer change, and *)
(* a recovery exists only while recovery is configured.                     *)
ChangeInv(c) ==
  /\ c.executed => now >= c.eta
  /\ TierFor(c.change.action) >= 5 => c.eta > c.proposedAt
  /\ c.change.action # "ChangeApprovalsRequired"
       => c.eta = c.proposedAt + delays[TierFor(c.change.action)]
  /\ IsRecovery(c.change) => recoveryApprovals >= 1

(* Only a policy that is or was installed holds changes, a recovery         *)
(* threshold or a slot of the account's module table.                       *)
PendingInv ==
  /\ pending \in Seq(ScheduledChange)
  /\ permanentlyUninstalled => ~installed
  /\ pending # <<>> \/ recoveryApprovals > 0 \/ policyTypes # {}
       => installed \/ permanentlyUninstalled
  /\ Cardinality(policyTypes) <= 1
  /\ \A id \in DOMAIN pending : ChangeInv(pending[id])

Inv == SignerInv /\ ConfigInv /\ RestInv /\ PendingInv

(* There is no history before an install.                                   *)
LEMMA PendingInvInit == Init => PendingInv
<1> SUFFICES ASSUME Init PROVE PendingInv
  OBVIOUS
<1>1. permanentlyUninstalled => ~installed
  BY DEF Init
<1>2. Cardinality(policyTypes) <= 1
  BY FS_EmptySet DEF Init, AccountInit
<1> QED
  BY <1>1, <1>2 DEF Init, AccountInit, PendingInv

(* Steps that leave the policy alone while time passes.                     *)
LEMMA PendingInvFrame ==
  ASSUME Inv, UNCHANGED policyVars, UNCHANGED policyTypes, now' \in Nat, now' >= now
  PROVE  PendingInv'
<1>1. ASSUME NEW id \in DOMAIN pending PROVE ChangeInv(pending[id])'
  <2>1. ChangeInv(pending[id]) /\ pending[id] \in ScheduledChange /\ now \in Nat
    BY DEF Inv, PendingInv, RestInv
  <2> QED
    BY <2>1 DEF ChangeInv, policyVars, configVars, ScheduledChange, IsRecovery
<1> QED
  BY <1>1 DEF Inv, PendingInv, policyVars, configVars

(* A freshly installed policy has no history.                               *)
LEMMA PendingInvInstall ==
  ASSUME Inv, NEW cfg \in InstallConfig, NEW n \in Nat, OnInstall(cfg, n),
         Cardinality(policyTypes') <= 1
  PROVE  PendingInv'
<1>1. pending = <<>> /\ ~installed /\ ~permanentlyUninstalled
  BY DEF Inv, PendingInv, OnInstall, MayInstall
<1>2. pending' = <<>> /\ installed' /\ permanentlyUninstalled' = permanentlyUninstalled
  BY <1>1 DEF OnInstall
<1>3. permanentlyUninstalled' => ~installed'
  BY <1>1, <1>2
<1> QED
  BY <1>2, <1>3 DEF PendingInv

(* An uninstall leaves the history as it was.                               *)
LEMMA PendingInvUninstall ==
  ASSUME Inv, OnUninstall, UNCHANGED chainVars,
         policyTypes' \subseteq policyTypes, Cardinality(policyTypes') <= 1
  PROVE  PendingInv'
<1>1. ~installed' /\ permanentlyUninstalled'
  BY DEF OnUninstall
<1>2. UNCHANGED <<pending, delays, recoveryApprovals, now>>
  BY DEF OnUninstall, chainVars
<1>3. ASSUME NEW id \in DOMAIN pending' PROVE ChangeInv(pending[id])'
  BY <1>2, <1>3 DEF Inv, PendingInv, ChangeInv, IsRecovery
<1>4. pending' \in Seq(ScheduledChange)
  BY <1>2 DEF Inv, PendingInv
<1> QED
  BY <1>1, <1>3, <1>4 DEF PendingInv

(* Scheduling appends a change that satisfies ChangeInv.                    *)
LEMMA PendingInvSchedule ==
  ASSUME Inv, NEW ch \in Changes, NEW S \in SUBSET Address, ScheduleCustodyChange(ch, S)
  PROVE  PendingInv'
<1> DEFINE tier == EffectiveTierFor(ch)
           c == [change |-> ch, proposedAt |-> now, eta |-> now + delays[tier],
                 executed |-> FALSE, cancelled |-> FALSE, proposers |-> S]
<1>1. /\ installed
      /\ tier \in {5, 6} => delays[tier] # 0
      /\ IsRecovery(ch) => recoveryApprovals # 0
      /\ pending' = Append(pending, c)
      /\ UNCHANGED <<accountVars, configVars>>
  BY DEF ScheduleCustodyChange, PolicyActive
<1>2. /\ tier \in Tiers
      /\ ch.action # "ChangeApprovalsRequired" => tier = TierFor(ch.action)
      /\ TierFor(ch.action) >= 5 => tier = TierFor(ch.action) /\ tier \in {5, 6}
  BY DEF EffectiveTierFor, TierFor, Tiers
<1> HIDE DEF tier
<1>3. now \in Nat /\ delays \in [Tiers -> Nat] /\ recoveryApprovals \in Nat /\ delays[tier] \in Nat
  BY <1>2 DEF Inv, RestInv, ConfigInv
<1>4. c \in ScheduledChange
  BY <1>3 DEF ScheduledChange
<1>5. ChangeInv(c)
  BY <1>1, <1>2, <1>3 DEF ChangeInv, IsRecovery
<1>6. pending \in Seq(ScheduledChange)
  BY DEF Inv, PendingInv
<1>7. pending' \in Seq(ScheduledChange)
  BY <1>1, <1>4, <1>6
<1>8. ASSUME NEW id \in DOMAIN pending' PROVE ChangeInv(pending'[id])
  <2>1. CASE id \in DOMAIN pending
    BY <1>1, <1>4, <1>6, <2>1 DEF Inv, PendingInv
  <2>2. CASE id \notin DOMAIN pending
    <3>1. id = Len(pending) + 1
      BY <1>1, <1>4, <1>6, <2>2
    <3>2. pending'[id] = c
      BY <1>1, <1>4, <1>6, <3>1
    <3> QED
      BY <3>2, <1>5
  <2> QED
    BY <2>1, <2>2
<1>9. UNCHANGED <<now, delays, recoveryApprovals, installed, permanentlyUninstalled, policyTypes>>
  BY <1>1 DEF accountVars, chainVars, configVars, moduleVars
<1>10. ASSUME NEW id \in DOMAIN pending' PROVE ChangeInv(pending[id])'
  BY <1>8, <1>9 DEF ChangeInv, IsRecovery
<1>11. permanentlyUninstalled' => ~installed'
  BY <1>9 DEF Inv, PendingInv
<1>12. installed' /\ Cardinality(policyTypes') <= 1
  BY <1>1, <1>9 DEF Inv, PendingInv
<1> QED
  BY <1>7, <1>10, <1>11, <1>12 DEF PendingInv

(* What no handler touches, and that recovery is never switched off.        *)
LEMMA ApplyChangeFrame ==
  ASSUME Inv, NEW ch \in Changes, ApplyChange(ch)
  PROVE  /\ UNCHANGED <<installed, permanentlyUninstalled, delays, policyTypes>>
         /\ recoveryApprovals >= 1 => recoveryApprovals' >= 1
         /\ recoveryApprovals = 0 => recoveryApprovals' = 0 \/ recoveryApprovals' >= 1
<1>1. CASE ch.action = "SetRecoveryApprovals" /\ ApplySetRecoveryApprovals(ch.arg)
  <2>1. ch.arg \in Nat
    BY <1>1, PolicyAssumption DEF WellFormedChange
  <2> QED
    BY <1>1, <2>1 DEF ApplySetRecoveryApprovals, ValidRecoveryApprovals, UnchangedAccount, moduleVars
<1>2. CASE UNCHANGED <<installed, permanentlyUninstalled, delays, policyTypes, recoveryApprovals>>
  BY <1>2
<1>3. ASSUME \/ ApplyAddTrustee(ch.arg) \/ ApplyRemoveTrustee(ch.arg)
             \/ ApplyChangeMode(ch.arg) \/ ApplyChangeValueCeiling(ch.arg)
             \/ ApplyChangeApprovalsRequired(ch.arg.tier, ch.arg.count)
      PROVE  UNCHANGED <<installed, permanentlyUninstalled, delays, policyTypes, recoveryApprovals>>
  BY <1>3 DEF ApplyAddTrustee, ApplyRemoveTrustee, ApplyChangeMode, ApplyChangeValueCeiling,
     ApplyChangeApprovalsRequired, UnchangedAccount, moduleVars
<1>4. ASSUME \/ ApplyAddCustodian(ch.arg) \/ ApplyRemoveCustodian(ch.arg)
             \/ ApplyAddPasskey(ch.arg) \/ ApplyRemovePasskey(ch.arg)
             \/ ApplyRotateAllCustodians(ch.arg.add, ch.arg.remove)
             \/ ApplyRecoverAccount(ch.arg)
             \/ ApplySystemUpdate(ch.arg) \/ ApplyRotateDelegationManager(ch.arg)
      PROVE  UNCHANGED <<installed, permanentlyUninstalled, delays, policyTypes, recoveryApprovals>>
  BY <1>4 DEF ApplyAddCustodian, ApplyRemoveCustodian, ApplyAddPasskey, ApplyRemovePasskey,
     AddCustodian, RemoveCustodian, AddPasskey, RemovePasskey,
     ApplyRotateAllCustodians, ApplyRecoverAccount, ReplaceSigners, ApplySystemUpdate,
     ApplyRotateDelegationManager, SetDelegationManager, UpgradeToAndCall, configVars, moduleVars
<1> QED
  BY <1>1, <1>2, <1>3, <1>4 DEF ApplyChange

(* Marking one change of the history, at an instant where it may be marked. *)
LEMMA PendingInvMark ==
  ASSUME Inv, NEW id \in DOMAIN pending, NEW e \in BOOLEAN, NEW k \in BOOLEAN,
         e /\ ~pending[id].executed => now >= pending[id].eta,
         pending' = [pending EXCEPT ![id] = [pending[id] EXCEPT !.executed = e, !.cancelled = k]],
         UNCHANGED <<now, delays, installed, permanentlyUninstalled, policyTypes>>,
         recoveryApprovals >= 1 => recoveryApprovals' >= 1,
         recoveryApprovals = 0 => recoveryApprovals' = 0 \/ recoveryApprovals' >= 1
  PROVE  PendingInv'
<1> DEFINE c == [pending[id] EXCEPT !.executed = e, !.cancelled = k]
<1>1. pending \in Seq(ScheduledChange) /\ pending[id] \in ScheduledChange /\ ChangeInv(pending[id])
  BY DEF Inv, PendingInv
<1>2. c \in ScheduledChange
  BY <1>1 DEF ScheduledChange
<1>3. /\ c.change = pending[id].change /\ c.eta = pending[id].eta
      /\ c.proposedAt = pending[id].proposedAt /\ c.executed = e
  BY <1>1 DEF ScheduledChange
<1>4. ChangeInv(c)
  BY <1>1, <1>3 DEF ChangeInv, IsRecovery
<1> HIDE DEF c
<1>5. pending' \in Seq(ScheduledChange) /\ DOMAIN pending' = DOMAIN pending
  BY <1>1, <1>2 DEF c
<1>6. ASSUME NEW j \in DOMAIN pending' PROVE ChangeInv(pending'[j])
  BY <1>1, <1>4, <1>5 DEF Inv, PendingInv, c
<1>7. ASSUME NEW j \in DOMAIN pending' PROVE ChangeInv(pending[j])'
  BY <1>6 DEF ChangeInv, IsRecovery
<1>8. installed \/ permanentlyUninstalled
  BY DEF Inv, PendingInv
<1>9. permanentlyUninstalled' => ~installed'
  BY DEF Inv, PendingInv
<1>10. Cardinality(policyTypes') <= 1
  BY DEF Inv, PendingInv
<1> QED
  BY <1>5, <1>7, <1>8, <1>9, <1>10 DEF PendingInv

(* Applying marks one change, at a time its eta allows.                     *)
LEMMA PendingInvApply ==
  ASSUME Inv, NEW id \in DOMAIN pending, NEW S, ApplyCustodyChange(id, S)
  PROVE  PendingInv'
<1>1. pending \in Seq(ScheduledChange) /\ pending[id] \in ScheduledChange
  BY DEF Inv, PendingInv
<1>2. pending[id].change \in Changes /\ pending[id].cancelled \in BOOLEAN
  BY <1>1 DEF ScheduledChange
<1>3. /\ ApplyChange(pending[id].change)
      /\ now >= pending[id].eta
      /\ now' = now
      /\ pending' = [pending EXCEPT ![id].executed = TRUE]
  BY DEF ApplyCustodyChange, Matured, chainVars
<1>4. pending' = [pending EXCEPT ![id] = [pending[id] EXCEPT !.executed = TRUE,
                                                            !.cancelled = pending[id].cancelled]]
  BY <1>1, <1>3 DEF ScheduledChange
<1> QED
  BY <1>2, <1>3, <1>4, ApplyChangeFrame, PendingInvMark

(* Cancelling marks one change that was neither applied nor cancelled.      *)
LEMMA PendingInvCancel ==
  ASSUME Inv, NEW id \in DOMAIN pending, NEW S, CancelScheduledChange(id, S)
  PROVE  PendingInv'
<1>1. pending \in Seq(ScheduledChange) /\ pending[id] \in ScheduledChange
  BY DEF Inv, PendingInv
<1>2. pending[id].executed \in BOOLEAN
  BY <1>1 DEF ScheduledChange
<1>3. pending' = [pending EXCEPT ![id].cancelled = TRUE] /\ UNCHANGED <<accountVars, configVars>>
  BY DEF CancelScheduledChange
<1>4. pending' = [pending EXCEPT ![id] = [pending[id] EXCEPT !.executed = pending[id].executed,
                                                            !.cancelled = TRUE]]
  BY <1>1, <1>3 DEF ScheduledChange
<1>5. /\ UNCHANGED <<now, delays, installed, permanentlyUninstalled, policyTypes>>
      /\ recoveryApprovals' = recoveryApprovals
  BY <1>3 DEF accountVars, chainVars, configVars, moduleVars
<1> QED
  BY <1>2, <1>4, <1>5, PendingInvMark

-----------------------------------------------------------------------------
(* The inductive invariant *)

(* The initial states satisfy the inductive invariant.                      *)
LEMMA InvInit == Init => Inv
BY SignerInvInit, ConfigInvInit, RestInvInit, PendingInvInit DEF Inv

(* The factory deploys an account with a signer and, unless it is a single- *)
(* mode account, a configured policy.                                       *)
LEMMA InvCreate ==
  ASSUME Inv, NEW p \in InitParams, CreateAgentAccount(p)
  PROVE  Inv'
<1> DEFINE ext == p.custodians
           keys == p.passkeys
           n == Cardinality(ext) + Cardinality(keys)
<1> p \in InitParam
  BY PolicyAssumption
<1>1. /\ Initialize(ext, keys) /\ UNCHANGED chainVars
      /\ \/ /\ policyTypes' = {"EXECUTOR"} /\ factoryInitConsumed' = TRUE
            /\ OnInstall(FactoryConfig(p), n)
         \/ UNCHANGED <<policyTypes, factoryInitConsumed, policyVars>>
  BY DEF CreateAgentAccount
<1>2. /\ ext \subseteq Externals \union Credentials /\ keys \subseteq Credentials
      /\ ext \union keys # {}
      /\ deployed' = TRUE /\ externalCustodians' = ext /\ passkeys' = keys
      /\ externalCustodianCount' = Cardinality(ext) /\ passkeyCount' = Cardinality(keys)
      /\ UNCHANGED <<sessionVars, upgradeVars>>
  BY <1>1 DEF Initialize, IsAgenticPrimitivesAgent, Address, InitParam
<1>3. SignerInv'
  BY <1>2 DEF SignerInv, SignersCounted, SomeCustodian
<1>4. n \in Nat \ {0}
  <2>1. ext \subseteq Address /\ keys \subseteq Address
    BY <1>2 DEF Address
  <2>2. IsFiniteSet(ext) /\ IsFiniteSet(keys) /\ Cardinality(ext) \in Nat /\ Cardinality(keys) \in Nat
    BY <2>1, SubsetFinite
  <2>3. Cardinality(ext) # 0 \/ Cardinality(keys) # 0
    BY <1>2, <2>2, FS_EmptySet
  <2> QED
    BY <2>2, <2>3
<1> HIDE DEF n
<1>5. CASE /\ policyTypes' = {"EXECUTOR"} /\ factoryInitConsumed' = TRUE
           /\ OnInstall(FactoryConfig(p), n)
  <2>1. ConfigInv'
    BY <1>4, <1>5, FactoryConfigType, ConfigInvInstall DEF Inv
  <2>2. Cardinality(policyTypes') <= 1
    BY <1>5, FS_Singleton
  <2>3. PendingInv'
    BY <1>4, <1>5, <2>2, FactoryConfigType, PendingInvInstall
  <2>4. factoryInitConsumed' \in BOOLEAN
    BY <1>5
  <2>5. RestInv'
    BY <1>1, <1>2, <1>5, <2>4 DEF Inv, RestInv, ModuleTypes, sessionVars, upgradeVars, chainVars
  <2> QED
    BY <1>3, <2>1, <2>3, <2>5 DEF Inv
<1>6. CASE UNCHANGED <<policyTypes, factoryInitConsumed, policyVars>>
  <2>1. ConfigInv'
    BY <1>6, ConfigInvFrame DEF Inv, policyVars
  <2>2. PendingInv'
    BY <1>1, <1>6, PendingInvFrame DEF chainVars, Inv, RestInv
  <2>3. RestInv'
    BY <1>1, <1>2, <1>6 DEF Inv, RestInv, sessionVars, upgradeVars, chainVars
  <2> QED
    BY <1>3, <2>1, <2>2, <2>3 DEF Inv
<1> QED
  BY <1>1, <1>5, <1>6 DEF n

(* Installing and uninstalling, as a module or behind the module table.     *)
LEMMA InvLifecycle ==
  ASSUME Inv,
         \/ OwnerInstallModule \/ OwnerUninstallModule
         \/ OwnerCallOnInstall \/ OwnerCallOnUninstall
  PROVE  Inv'
<1> USE DEF UserOp, Execute
<1>n. deployed => CustodianCount \in Nat \ {0}
  BY SignerInvFacts DEF Inv, CustodianCount
<1>1. /\ UNCHANGED <<deployed, factoryInitConsumed, signerVars, sessionVars, upgradeVars, chainVars>>
      /\ deployed
  BY DEF OwnerInstallModule, OwnerUninstallModule, OwnerCallOnInstall, OwnerCallOnUninstall, moduleVars
<1>2. SignerInv'
  BY <1>1, SignerInvFrame DEF Inv
<1>3. ASSUME policyTypes' \subseteq ModuleTypes PROVE RestInv'
  BY <1>1, <1>3 DEF Inv, RestInv, sessionVars, upgradeVars, chainVars
<1>4. CASE OwnerInstallModule
  <2> PICK type \in ModuleTypes, cfg \in InstallConfigs :
        policyTypes' = policyTypes \union {type} /\ OnInstall(cfg, CustodianCount)
    BY <1>4 DEF OwnerInstallModule
  <2>1. cfg \in InstallConfig
    BY PolicyAssumption
  <2>2. policyTypes = {}
    BY DEF OnInstall, MayInstall, Inv, PendingInv
  <2>3. policyTypes' = {type}
    BY <2>2
  <2>4. Cardinality(policyTypes') <= 1
    BY <2>3, FS_Singleton
  <2>5. ConfigInv' /\ PendingInv'
    BY <1>n, <1>1, <2>1, <2>4, ConfigInvInstall, PendingInvInstall DEF Inv
  <2> QED
    BY <1>2, <1>3, <2>3, <2>5 DEF Inv
<1>5. CASE OwnerCallOnInstall
  <2> PICK cfg \in InstallConfigs : OnInstall(cfg, CustodianCount)
    BY <1>5 DEF OwnerCallOnInstall
  <2>1. cfg \in InstallConfig
    BY PolicyAssumption
  <2>2. policyTypes' = policyTypes
    BY <1>5 DEF OwnerCallOnInstall, moduleVars
  <2>3. ConfigInv' /\ PendingInv'
    BY <1>n, <1>1, <2>1, <2>2, ConfigInvInstall, PendingInvInstall DEF Inv, PendingInv
  <2> QED
    BY <1>2, <1>3, <2>2, <2>3 DEF Inv, RestInv
<1>6. CASE OwnerUninstallModule
  <2> PICK type \in policyTypes : policyTypes' = policyTypes \ {type}
    BY <1>6 DEF OwnerUninstallModule
  <2>1. OnUninstall
    BY <1>6 DEF OwnerUninstallModule
  <2>2. Cardinality(policyTypes') <= 1
    <3>f. IsFiniteSet(ModuleTypes)
      <4>1. IsFiniteSet({"VALIDATOR"}) /\ IsFiniteSet({"EXECUTOR"}) /\ IsFiniteSet({"HOOK"})
        BY FS_Singleton
      <4>2. IsFiniteSet({"VALIDATOR"} \union {"EXECUTOR"})
        BY <4>1, FS_Union
      <4>3. IsFiniteSet(({"VALIDATOR"} \union {"EXECUTOR"}) \union {"HOOK"})
        BY <4>1, <4>2, FS_Union
      <4>4. ({"VALIDATOR"} \union {"EXECUTOR"}) \union {"HOOK"} = ModuleTypes
        BY DEF ModuleTypes
      <4> QED
        BY <4>3, <4>4
    <3>1. IsFiniteSet(policyTypes)
      BY <3>f, FS_Subset DEF Inv, RestInv
    <3>2. Cardinality(policyTypes') = Cardinality(policyTypes) - 1 /\ Cardinality(policyTypes) \in Nat
      BY <3>1, FS_RemoveElement, FS_CardinalityType
    <3> QED
      BY <3>2 DEF Inv, PendingInv
  <2>3. ConfigInv' /\ PendingInv'
    BY <1>1, <2>1, <2>2, ConfigInvUninstall, PendingInvUninstall DEF Inv
  <2> QED
    BY <1>2, <1>3, <2>3 DEF Inv, RestInv
<1>7. CASE OwnerCallOnUninstall
  <2>1. OnUninstall /\ policyTypes' = policyTypes
    BY <1>7 DEF OwnerCallOnUninstall, moduleVars
  <2>2. ConfigInv' /\ PendingInv'
    BY <1>1, <2>1, ConfigInvUninstall, PendingInvUninstall DEF Inv, PendingInv
  <2> QED
    BY <1>2, <1>3, <2>1, <2>2 DEF Inv, RestInv
<1> QED
  BY <1>4, <1>5, <1>6, <1>7

(* Every step preserves the inductive invariant.                            *)
LEMMA InvNext ==
  ASSUME Inv, [Next]_vars
  PROVE  Inv'
<1>1. CASE Create
  BY <1>1, InvCreate DEF Create
<1>2. CASE OwnerInstallModule \/ OwnerUninstallModule \/ OwnerCallOnInstall \/ OwnerCallOnUninstall
  BY <1>2, InvLifecycle
<1>3. CASE Schedule
  <2> PICK ch \in Changes, S \in SUBSET Address : ScheduleCustodyChange(ch, S)
    BY <1>3 DEF Schedule
  <2>1. UNCHANGED <<accountVars, configVars>>
    BY DEF ScheduleCustodyChange
  <2>2. SignerInv' /\ ConfigInv' /\ RestInv'
    BY <2>1, SignerInvFrame, ConfigInvFrame, RestInvFrame DEF Inv, accountVars, moduleVars
  <2> QED
    BY <2>2, PendingInvSchedule DEF Inv
<1>4. CASE Apply
  <2> PICK id \in DOMAIN pending, S \in SUBSET Address : ApplyCustodyChange(id, S)
    BY <1>4 DEF Apply
  <2>1. ApplyChange(pending[id].change) /\ UNCHANGED chainVars
    BY DEF ApplyCustodyChange
  <2>2. pending[id].change \in Changes
    <3>1. pending[id] \in ScheduledChange
      BY DEF Inv, PendingInv
    <3> QED
      BY <3>1 DEF ScheduledChange
  <2>3. SignerInv' /\ ConfigInv' /\ RestInv'
    BY <2>1, <2>2, SignerInvApply, ConfigInvApply, RestInvApply DEF Inv
  <2> QED
    BY <2>3, PendingInvApply DEF Inv
<1>5. CASE Cancel
  <2> PICK id \in DOMAIN pending, S \in SUBSET Address : CancelScheduledChange(id, S)
    BY <1>5 DEF Cancel
  <2>1. UNCHANGED <<accountVars, configVars>>
    BY DEF CancelScheduledChange
  <2>2. SignerInv' /\ ConfigInv' /\ RestInv'
    BY <2>1, SignerInvFrame, ConfigInvFrame, RestInvFrame DEF Inv, accountVars, moduleVars
  <2> QED
    BY <2>2, PendingInvCancel DEF Inv
<1>6. CASE AccountNext /\ UNCHANGED policyVars
  <2>1. SignerInv' /\ RestInv'
    BY <1>6, SignerInvAccountNext, RestInvAccountNext DEF Inv
  <2>2. ConfigInv'
    BY <1>6, ConfigInvFrame DEF Inv, policyVars
  <2>3. policyTypes' = policyTypes /\ (now' = now \/ now' = now + 1)
    BY <1>6 DEF AccountNext, OwnerAddCustodian, OwnerRemoveCustodian, OwnerAddPasskey,
       OwnerRemovePasskey, OwnerSetDelegationManager, OwnerAcceptSession,
       OwnerSetUpgradeTimelock, OwnerScheduleUpgrade, OwnerUpgrade, ExecutePendingUpgrade,
       CancelPendingUpgrade, Tick, Pause, Unpause, AddCustodian, RemoveCustodian, AddPasskey,
       RemovePasskey, SetDelegationManager, AcceptSessionDelegation, SetUpgradeTimelock,
       ScheduleUpgrade, UpgradeToAndCall, UserOp, Execute, moduleVars, chainVars
  <2>4. now \in Nat /\ now' \in Nat /\ now' >= now
    BY <2>3 DEF Inv, RestInv
  <2>5. PendingInv'
    BY <1>6, <2>3, <2>4, PendingInvFrame
  <2> QED
    BY <2>1, <2>2, <2>5 DEF Inv
<1>7. CASE UNCHANGED vars
  <2>1. SignerInv' /\ ConfigInv' /\ RestInv'
    BY <1>7, SignerInvFrame, ConfigInvFrame, RestInvFrame
    DEF Inv, vars, accountVars, policyVars, moduleVars
  <2>2. PendingInv'
    BY <1>7, PendingInvFrame DEF Inv, RestInv, vars, accountVars, chainVars, moduleVars
  <2> QED
    BY <2>1, <2>2 DEF Inv
<1> QED
  BY <1>1, <1>2, <1>3, <1>4, <1>5, <1>6, <1>7 DEF Next

(* The inductive invariant holds in every reachable state.                  *)
THEOREM Invariance == Spec => []Inv
BY InvInit, InvNext, PTL DEF Spec

-----------------------------------------------------------------------------
(* The theorems *)

(* Every reachable state of the account and its policy is well typed.       *)
THEOREM TypeCorrect == Spec => []TypeOK
<1>1. Inv => TypeOK
  BY SignerInvFacts DEF Inv, TypeOK, AccountTypeOK, SignerInv, RestInv, ConfigInv, PendingInv
<1> QED
  BY <1>1, Invariance, PTL

(* However signers are added, removed, rotated or recovered, the counters   *)
(* that the last-signer guards read are exact, a deployed account keeps a   *)
(* custodian and, if no external custodian lacks an ECDSA key, somebody who *)
(* can sign.                                                                *)
THEOREM SignerAlwaysRemains == Spec => []SignerRemains
<1>1. ASSUME SignerInv PROVE SomeSigner
  <2> SUFFICES ASSUME deployed, externalCustodians \subseteq EcdsaKeys
               PROVE  \E s \in Address : ValidateSig(s)
    BY DEF SomeSigner
  <2>1. PICK s : s \in externalCustodians \union passkeys
    BY <1>1 DEF SignerInv, SomeCustodian
  <2> QED
    BY <1>1, <2>1, SignerInvFacts DEF ValidateSig
<1>2. Inv => SignerRemains
  BY <1>1 DEF Inv, SignerInv, SignerRemains
<1> QED
  BY <1>2, Invariance, PTL

(* The trustees can always meet the recovery threshold.                     *)
THEOREM RecoveryStaysReachable == Spec => []RecoveryReachable
<1>1. Inv => RecoveryReachable
  BY DEF Inv, ConfigInv
<1> QED
  BY <1>1, Invariance, PTL

(* An installed policy decides no custody change by the 1-of-n fallback.    *)
THEOREM QuorumsAreExplicit == Spec => []NoFallbackQuorum
<1>1. Inv => NoFallbackQuorum
  BY DEF Inv, ConfigInv
<1> QED
  BY <1>1, Invariance, PTL

(* The policy occupies at most one module slot, and never an unconfigured   *)
(* one.                                                                     *)
THEOREM AttachedPolicyIsConfigured == Spec => []PolicyAttachment
<1>1. Inv => PolicyAttachment
  BY DEF Inv, PendingInv, PolicyAttachment
<1> QED
  BY <1>1, Invariance, PTL

(* A change that may still be applied needs a signature.                    *)
THEOREM LiveChangesNeedApproval == Spec => []LiveChangeNeedsApproval
<1>1. Inv => LiveChangeNeedsApproval
  <2> SUFFICES ASSUME Inv, NEW id \in DOMAIN pending PROVE RequiredApprovals(pending[id].change) >= 1
    BY DEF LiveChangeNeedsApproval
  <2>1. CASE IsRecovery(pending[id].change)
    BY <2>1 DEF RequiredApprovals, Inv, PendingInv, ChangeInv
  <2>2. CASE ~IsRecovery(pending[id].change)
    <3>1. EffectiveTierFor(pending[id].change) \in Tiers
      BY DEF EffectiveTierFor, TierFor, Tiers
    <3>2. approvals[EffectiveTierFor(pending[id].change)] \in Nat
      BY <3>1 DEF Inv, ConfigInv
    <3> QED
      BY <2>2, <3>2 DEF RequiredApprovals, ApprovalsValue
  <2> QED
    BY <2>1, <2>2
<1> QED
  BY <1>1, Invariance, PTL

(* No change takes effect before its eta, critical ones never at once.      *)
THEOREM ChangesWaitForEta == Spec => []NotBeforeEta
<1>1. Inv => NotBeforeEta
  BY DEF Inv, PendingInv, ChangeInv, NotBeforeEta
<1> QED
  BY <1>1, Invariance, PTL

(* The custodians' veto window over a recovery cannot be skipped.           *)
THEOREM CancelWindowIsKept == Spec => []OwnersKeepCancelWindow
<1>1. Inv => OwnersKeepCancelWindow
  <2> SUFFICES ASSUME Inv, NEW id \in DOMAIN pending, IsRecovery(pending[id].change),
                      pending[id].executed, delays[6] >= CancelWindow
               PROVE  now >= pending[id].proposedAt + CancelWindow
    BY DEF OwnersKeepCancelWindow
  <2>1. /\ pending[id] \in ScheduledChange /\ now \in Nat /\ delays[6] \in Nat
    BY SMTT(40) DEF Inv, PendingInv, RestInv, ConfigInv, Tiers
  <2>2. now >= pending[id].eta /\ pending[id].eta = pending[id].proposedAt + delays[6]
    BY DEF Inv, PendingInv, ChangeInv, IsRecovery, TierFor
  <2> QED
    BY <2>1, <2>2, PolicyAssumption DEF ScheduledChange
<1> QED
  BY <1>1, Invariance, PTL

-----------------------------------------------------------------------------
(* Action theorems *)

(* Every step leaves the policy alone, or is one of the calls on it.        *)
LEMMA PolicySteps ==
  ASSUME Inv, [Next]_vars
  PROVE  \/ UNCHANGED policyVars
         \/ /\ MayInstall /\ ~paused
            /\ \E cfg, n : OnInstall(cfg, n)
         \/ /\ OnUninstall /\ ~paused
         \/ /\ PolicyActive
            /\ UNCHANGED <<accountVars, configVars>>
            /\ \E c \in ScheduledChange : ~c.executed /\ pending' = Append(pending, c)
         \/ \E id \in DOMAIN pending :
              /\ PolicyActive /\ Live(id) /\ Matured(id)
              /\ pending[id].change \in Changes /\ ApplyChange(pending[id].change)
              /\ pending' = [pending EXCEPT ![id].executed = TRUE]
         \/ \E id \in DOMAIN pending :
              /\ installed /\ Live(id)
              /\ UNCHANGED <<accountVars, configVars>>
              /\ pending' = [pending EXCEPT ![id].cancelled = TRUE]
<1>1. CASE Create
  BY <1>1 DEF Create, CreateAgentAccount, OnInstall
<1>2. CASE OwnerInstallModule \/ OwnerCallOnInstall
  <2>1. ~paused /\ \E cfg \in InstallConfigs : OnInstall(cfg, CustodianCount)
    BY <1>2 DEF OwnerInstallModule, OwnerCallOnInstall, UserOp, Execute
  <2>2. MayInstall
    BY <2>1 DEF OnInstall
  <2> QED
    BY <2>1, <2>2
<1>3. CASE OwnerUninstallModule \/ OwnerCallOnUninstall
  BY <1>3 DEF OwnerUninstallModule, OwnerCallOnUninstall, UserOp, Execute
<1>4. CASE Schedule
  <2> PICK ch \in Changes, S \in SUBSET Address : ScheduleCustodyChange(ch, S)
    BY <1>4 DEF Schedule
  <2> DEFINE c == [change |-> ch, proposedAt |-> now, eta |-> now + delays[EffectiveTierFor(ch)],
                   executed |-> FALSE, cancelled |-> FALSE, proposers |-> S]
  <2>1. EffectiveTierFor(ch) \in Tiers
    BY DEF EffectiveTierFor, TierFor, Tiers
  <2>2. c \in ScheduledChange /\ ~c.executed
    BY <2>1 DEF Inv, RestInv, ConfigInv, ScheduledChange
  <2>3. PolicyActive /\ UNCHANGED <<accountVars, configVars>> /\ pending' = Append(pending, c)
    BY DEF ScheduleCustodyChange
  <2> QED
    BY <2>2, <2>3
<1>5. CASE Apply
  <2> PICK id \in DOMAIN pending, S \in SUBSET Address : ApplyCustodyChange(id, S)
    BY <1>5 DEF Apply
  <2>1. pending[id] \in ScheduledChange
    BY DEF Inv, PendingInv
  <2>2. pending[id].change \in Changes
    BY <2>1 DEF ScheduledChange
  <2> QED
    BY <2>2 DEF ApplyCustodyChange
<1>6. CASE Cancel
  BY <1>6 DEF Cancel, CancelScheduledChange
<1>7. CASE UNCHANGED policyVars
  BY <1>7
<1> QED
  BY <1>1, <1>2, <1>3, <1>4, <1>5, <1>6, <1>7 DEF Next, vars

(* C-9: no step switches a configured recovery off.                         *)
THEOREM RecoveryIsNeverDisabled == Spec => RecoveryNeverDisabled
<1>1. ASSUME Inv, [Next]_vars PROVE recoveryApprovals > 0 => recoveryApprovals' > 0
  <2> SUFFICES ASSUME recoveryApprovals > 0 PROVE recoveryApprovals' > 0
    OBVIOUS
  <2> recoveryApprovals \in Nat /\ (installed \/ permanentlyUninstalled)
    BY <1>1 DEF Inv, ConfigInv, PendingInv
  <2>1. CASE UNCHANGED recoveryApprovals
    BY <2>1
  <2>2. ASSUME NEW id \in DOMAIN pending, pending[id].change \in Changes,
               ApplyChange(pending[id].change)
        PROVE  recoveryApprovals' > 0
    <3>1. recoveryApprovals' >= 1
      BY <1>1, <2>2, ApplyChangeFrame
    <3>2. recoveryApprovals' \in Nat
      BY <1>1, InvNext DEF Inv, ConfigInv
    <3> QED
      BY <3>1, <3>2
  <2> QED
    BY <1>1, <2>1, <2>2, PolicySteps DEF policyVars, configVars, MayInstall, OnUninstall
<1> QED
  BY <1>1, Invariance, PTL DEF Spec, RecoveryNeverDisabled

(* C-11: after uninstall the policy's state is never written again.         *)
THEOREM UninstallStaysFinal == Spec => UninstallIsFinal
<1>1. ASSUME Inv, [Next]_vars PROVE permanentlyUninstalled => UNCHANGED policyVars
  <2> SUFFICES ASSUME permanentlyUninstalled PROVE UNCHANGED policyVars
    OBVIOUS
  <2>1. ~installed
    BY <1>1 DEF Inv, PendingInv
  <2> QED
    BY <1>1, <2>1, PolicySteps DEF MayInstall, OnUninstall, PolicyActive
<1> QED
  BY <1>1, Invariance, PTL DEF Spec, UninstallIsFinal

(* The history of changes only grows, and a closed entry stays as it is.    *)
THEOREM HistoryIsFinal == Spec => ChangeHistoryFinal
<1> DEFINE Marks(id) ==
       /\ id \in DOMAIN pending'
       /\ pending[id].executed \/ pending[id].cancelled => pending'[id] = pending[id]
       /\ pending'[id] \in
            {pending[id],
             [pending[id] EXCEPT !.executed = TRUE],
             [pending[id] EXCEPT !.cancelled = TRUE]}
<1>1. ASSUME Inv, [Next]_vars PROVE \A id \in DOMAIN pending : Marks(id)
  <2> SUFFICES ASSUME NEW id \in DOMAIN pending PROVE Marks(id)
    OBVIOUS
  <2> pending \in Seq(ScheduledChange)
    BY <1>1 DEF Inv, PendingInv
  <2>1. CASE pending' = pending
    BY <2>1
  <2>2. ASSUME NEW c \in ScheduledChange, pending' = Append(pending, c) PROVE Marks(id)
    BY <2>2
  <2>3. ASSUME NEW j \in DOMAIN pending, Live(j),
               pending' = [pending EXCEPT ![j].executed = TRUE]
        PROVE  Marks(id)
    BY <2>3 DEF Live
  <2>4. ASSUME NEW j \in DOMAIN pending, Live(j),
               pending' = [pending EXCEPT ![j].cancelled = TRUE]
        PROVE  Marks(id)
    BY <2>4 DEF Live
  <2> HIDE DEF Marks
  <2> QED
    BY <1>1, <2>1, <2>2, <2>3, <2>4, PolicySteps DEF policyVars, OnInstall, OnUninstall
<1> QED
  BY <1>1, Invariance, PTL DEF Spec, ChangeHistoryFinal

(* A quorum of at least one is somebody.                                    *)
LEMMA QuorumIsSomebody ==
  ASSUME NEW S, NEW n \in Nat, n >= 1, NEW g, VerifyQuorum(S, n, g)
  PROVE  S # {}
<1>1. Cardinality(S) = n /\ Cardinality({}) = 0
  BY FS_EmptySet DEF VerifyQuorum
<1> QED
  BY <1>1

(* Every threshold is a number, and outside recovery at least one.          *)
LEMMA ThresholdIsPositive ==
  ASSUME Inv, NEW ch \in Changes
  PROVE  /\ RequiredApprovals(ch) \in Nat
         /\ ~IsRecovery(ch) \/ recoveryApprovals # 0 => RequiredApprovals(ch) >= 1
<1>1. EffectiveTierFor(ch) \in Tiers
  BY DEF EffectiveTierFor, TierFor, Tiers
<1>2. approvals[EffectiveTierFor(ch)] \in Nat /\ recoveryApprovals \in Nat
  BY <1>1 DEF Inv, ConfigInv
<1> QED
  BY <1>2 DEF RequiredApprovals, ApprovalsValue

(* Every change in the history was scheduled by somebody.                   *)
Proposed == \A id \in DOMAIN pending : pending[id].proposers # {}

LEMMA ProposedKept ==
  ASSUME Inv, Proposed, [Next]_vars
  PROVE  Proposed'
<1>0. pending \in Seq(ScheduledChange)
  BY DEF Inv, PendingInv
<1>1. CASE Schedule
  <2> PICK ch \in Changes, S \in SUBSET Address : ScheduleCustodyChange(ch, S)
    BY <1>1 DEF Schedule
  <2> DEFINE c == [change |-> ch, proposedAt |-> now, eta |-> now + delays[EffectiveTierFor(ch)],
                   executed |-> FALSE, cancelled |-> FALSE, proposers |-> S]
  <2>1. /\ pending' = Append(pending, c)
        /\ IsRecovery(ch) => recoveryApprovals # 0
        /\ VerifyQuorum(S, RequiredApprovals(ch), IsRecovery(ch))
    BY DEF ScheduleCustodyChange
  <2>2. S # {}
    BY <2>1, ThresholdIsPositive, QuorumIsSomebody
  <2>3. c.proposers # {}
    BY <2>2
  <2> HIDE DEF c
  <2> QED
    BY <1>0, <2>1, <2>3 DEF Proposed
<1>2. ASSUME NEW id \in DOMAIN pending,
             \/ pending' = [pending EXCEPT ![id].executed = TRUE]
             \/ pending' = [pending EXCEPT ![id].cancelled = TRUE]
      PROVE  Proposed'
  <2>1. pending[id] \in ScheduledChange
    BY <1>0, <1>2
  <2>2. /\ DOMAIN pending' = DOMAIN pending
        /\ pending'[id].proposers = pending[id].proposers
        /\ \A j \in DOMAIN pending : j # id => pending'[j] = pending[j]
    <3>1. CASE pending' = [pending EXCEPT ![id].executed = TRUE]
      BY <1>0, <2>1, <3>1 DEF ScheduledChange
    <3>2. CASE pending' = [pending EXCEPT ![id].cancelled = TRUE]
      BY <1>0, <2>1, <3>2 DEF ScheduledChange
    <3> QED
      BY <1>2, <3>1, <3>2
  <2> QED
    BY <2>2 DEF Proposed
<1>3. CASE UNCHANGED pending
  BY <1>3 DEF Proposed
<1>4. CASE Apply \/ Cancel
  BY <1>2, <1>4 DEF Apply, Cancel, ApplyCustodyChange, CancelScheduledChange
<1>5. ASSUME \/ Create \/ OwnerInstallModule \/ OwnerUninstallModule
             \/ OwnerCallOnInstall \/ OwnerCallOnUninstall
             \/ UNCHANGED policyVars
      PROVE  UNCHANGED pending
  BY <1>5 DEF Create, CreateAgentAccount, OwnerInstallModule, OwnerUninstallModule,
     OwnerCallOnInstall, OwnerCallOnUninstall, OnInstall, OnUninstall, policyVars
<1> QED
  BY <1>1, <1>3, <1>4, <1>5 DEF Next, vars

(* The rules of a policy in force change by a scheduled, matured change     *)
(* that a quorum of custodians applies, and in no other way.                *)
THEOREM RulesNeedTheirQuorum == Spec => RulesChangeByQuorum
<1> DEFINE ByQuorum(id, S) ==
       /\ Live(id) /\ Matured(id) /\ pending'[id].executed
       /\ pending[id].proposers # {}
       /\ VerifyQuorum(S, RequiredApprovals(pending[id].change), FALSE)
       /\ mode = 3 => S \intersect pending[id].proposers = {}
<1>1. Init => Proposed
  BY DEF Init, Proposed
<1>2. Inv /\ Proposed /\ [Next]_vars => Proposed'
  BY ProposedKept
<1>3. ASSUME Inv, Proposed, [Next]_vars, installed, installed', configVars' # configVars
      PROVE  \E id \in DOMAIN pending, S \in (SUBSET Address) \ {{}} : ByQuorum(id, S)
  <2>1. Apply
    <3>1. ~(OwnerUninstallModule \/ OwnerCallOnUninstall)
      BY <1>3 DEF OwnerUninstallModule, OwnerCallOnUninstall, OnUninstall
    <3>2. ~(OwnerInstallModule \/ OwnerCallOnInstall)
      BY <1>3 DEF OwnerInstallModule, OwnerCallOnInstall, OnInstall, MayInstall
    <3>3. ~Create
      BY <1>3 DEF Create, CreateAgentAccount, OnInstall, MayInstall, policyVars, configVars
    <3>4. ~(Schedule \/ Cancel) /\ ~UNCHANGED policyVars
      BY <1>3 DEF Schedule, Cancel, ScheduleCustodyChange, CancelScheduledChange, policyVars, configVars
    <3> QED
      BY <1>3, <3>1, <3>2, <3>3, <3>4 DEF Next, vars
  <2> PICK id \in DOMAIN pending, S \in SUBSET Address : ApplyCustodyChange(id, S)
    BY <2>1 DEF Apply
  <2> DEFINE ch == pending[id].change
  <2>2. pending \in Seq(ScheduledChange) /\ pending[id] \in ScheduledChange /\ ch \in Changes
    <3>1. pending \in Seq(ScheduledChange) /\ pending[id] \in ScheduledChange
      BY <1>3 DEF Inv, PendingInv
    <3> QED
      BY <3>1 DEF ScheduledChange
  <2>3. /\ Live(id) /\ Matured(id) /\ ApplyChange(ch)
        /\ VerifyQuorum(S, RequiredApprovals(ch), IsRecovery(ch))
        /\ mode = 3 /\ ~IsRecovery(ch) => S \intersect pending[id].proposers = {}
        /\ pending' = [pending EXCEPT ![id].executed = TRUE]
    BY DEF ApplyCustodyChange
  <2>4. ~IsRecovery(ch)
    BY <1>3, <2>3 DEF IsRecovery, ApplyChange, ApplyRecoverAccount, ReplaceSigners
  <2>5. S # {}
    BY <1>3, <2>2, <2>3, <2>4, ThresholdIsPositive, QuorumIsSomebody
  <2>6. pending'[id].executed
    BY <2>2, <2>3 DEF ScheduledChange
  <2>7. VerifyQuorum(S, RequiredApprovals(ch), FALSE)
    BY <2>3, <2>4 DEF VerifyQuorum
  <2>8. ByQuorum(id, S)
    BY <1>3, <2>3, <2>4, <2>6, <2>7 DEF Proposed
  <2> HIDE DEF ByQuorum
  <2> QED
    BY <2>5, <2>8
<1>4. Inv /\ Proposed /\ [Next]_vars =>
        [installed /\ installed' /\ configVars' # configVars =>
           \E id \in DOMAIN pending, S \in (SUBSET Address) \ {{}} : ByQuorum(id, S)]_vars
  <2> HIDE DEF ByQuorum
  <2> QED
    BY <1>3
<1> QED
  BY <1>1, <1>2, <1>4, Invariance, PTL DEF Spec, RulesChangeByQuorum

(* During a pause the account keeps everything it protects.                 *)
LEMMA PausedAccountNext ==
  ASSUME AccountNext, paused
  PROVE  UNCHANGED <<signerVars, moduleVars, sessionVars, implementation>>
BY DEF AccountNext, OwnerAddCustodian, OwnerRemoveCustodian, OwnerAddPasskey,
   OwnerRemovePasskey, OwnerSetDelegationManager, OwnerAcceptSession,
   OwnerSetUpgradeTimelock, OwnerScheduleUpgrade, OwnerUpgrade, ExecutePendingUpgrade,
   CancelPendingUpgrade, Tick, Pause, Unpause, UserOp, Execute, upgradeVars

(* R6.5/R6.6: a paused system changes nothing but cancellations.            *)
THEOREM PauseAlwaysFreezes == Spec => PauseFreezes
<1> DEFINE Frozen ==
       /\ UNCHANGED <<signerVars, moduleVars, sessionVars, configVars, implementation>>
       /\ \A id \in DOMAIN pending' :
            id \in DOMAIN pending /\ pending'[id].executed = pending[id].executed
<1>1. ASSUME Inv, [Next]_vars PROVE paused => Frozen
  <2> SUFFICES ASSUME paused PROVE Frozen
    OBVIOUS
  <2>1. CASE AccountNext /\ UNCHANGED policyVars
    BY <2>1, PausedAccountNext DEF policyVars
  <2>2. CASE Cancel
    <3> PICK id \in DOMAIN pending, S \in SUBSET Address : CancelScheduledChange(id, S)
      BY <2>2 DEF Cancel
    <3>1. pending' = [pending EXCEPT ![id].cancelled = TRUE] /\ UNCHANGED <<accountVars, configVars>>
      BY DEF CancelScheduledChange
    <3>2. pending \in Seq(ScheduledChange) /\ pending[id] \in ScheduledChange
      BY <1>1 DEF Inv, PendingInv
    <3>3. ASSUME NEW j \in DOMAIN pending'
          PROVE  j \in DOMAIN pending /\ pending'[j].executed = pending[j].executed
      BY <3>1, <3>2 DEF ScheduledChange
    <3> QED
      BY <3>1, <3>3 DEF accountVars, upgradeVars
  <2>3. CASE UNCHANGED vars
    BY <2>3 DEF vars, accountVars, policyVars, upgradeVars
  <2>4. ~Create /\ ~OwnerInstallModule /\ ~OwnerUninstallModule /\ ~OwnerCallOnInstall
        /\ ~OwnerCallOnUninstall /\ ~Schedule /\ ~Apply
    BY DEF Create, CreateAgentAccount, OwnerInstallModule, OwnerUninstallModule,
       OwnerCallOnInstall, OwnerCallOnUninstall, UserOp, Execute, Schedule, Apply,
       ScheduleCustodyChange, ApplyCustodyChange, PolicyActive
  <2> QED
    BY <1>1, <2>1, <2>2, <2>3, <2>4 DEF Next
<1> QED
  BY <1>1, Invariance, PTL DEF Spec, PauseFreezes

(* Only these operations write the implementation slot.                     *)
LEMMA ImplementationWriters ==
  ASSUME AccountNext, implementation' # implementation
  PROVE  \/ upgradeTimelock = 0
         \/ /\ pendingUpgrade # NoUpgrade
            /\ pendingUpgrade.impl = implementation' /\ pendingUpgrade.readyAt <= now
BY DEF AccountNext, OwnerAddCustodian, OwnerRemoveCustodian, OwnerAddPasskey,
   OwnerRemovePasskey, OwnerSetDelegationManager, OwnerAcceptSession,
   OwnerSetUpgradeTimelock, OwnerScheduleUpgrade, OwnerUpgrade, ExecutePendingUpgrade,
   CancelPendingUpgrade, Tick, Pause, Unpause, AddCustodian, RemoveCustodian, AddPasskey,
   RemovePasskey, SetDelegationManager, AcceptSessionDelegation, SetUpgradeTimelock,
   ScheduleUpgrade, UpgradeToAndCall, AuthorizeUpgrade, upgradeVars

(* A handler changes the implementation only in ApplySystemUpdate.          *)
LEMMA HandlerUpgrades ==
  ASSUME NEW ch \in Changes, ApplyChange(ch), implementation' # implementation
  PROVE  ch.action = "ApplySystemUpdate"
BY DEF ApplyChange, ApplyAddCustodian, ApplyRemoveCustodian, ApplyAddPasskey, ApplyRemovePasskey,
   AddCustodian, RemoveCustodian, AddPasskey, RemovePasskey,
   ApplyRotateAllCustodians, ApplyRecoverAccount, ReplaceSigners,
   ApplyAddTrustee, ApplyRemoveTrustee, ApplyChangeMode, ApplyChangeValueCeiling,
   ApplySetRecoveryApprovals, ApplyChangeApprovalsRequired, UnchangedAccount,
   ApplyRotateDelegationManager, SetDelegationManager, upgradeVars

(* CA-1: an account with an upgrade timelock is upgraded only after a wait, *)
(* through the owner queue or through a T5 custody change.                  *)
THEOREM UpgradesAreDelayed == Spec => ImplementationChangesDelayed
<1> DEFINE Waited ==
       \/ upgradeTimelock = 0
       \/ /\ pendingUpgrade # NoUpgrade
          /\ pendingUpgrade.impl = implementation' /\ pendingUpgrade.readyAt <= now
       \/ \E id \in DOMAIN pending :
            /\ pending'[id].executed /\ ~pending[id].executed
            /\ now >= pending[id].proposedAt + delays[5]
<1>1. ASSUME Inv, [Next]_vars PROVE implementation' # implementation => Waited
  <2> SUFFICES ASSUME implementation' # implementation PROVE Waited
    OBVIOUS
  <2>1. CASE AccountNext
    BY <2>1, ImplementationWriters
  <2>2. CASE Apply
    <3> PICK id \in DOMAIN pending, S \in SUBSET Address : ApplyCustodyChange(id, S)
      BY <2>2 DEF Apply
    <3>1. pending \in Seq(ScheduledChange) /\ pending[id] \in ScheduledChange /\ ChangeInv(pending[id])
      BY <1>1 DEF Inv, PendingInv
    <3>2. pending[id].change \in Changes
      BY <3>1 DEF ScheduledChange
    <3>3. pending[id].change.action = "ApplySystemUpdate"
      BY <3>2, HandlerUpgrades DEF ApplyCustodyChange
    <3>4. now >= pending[id].proposedAt + delays[5]
      BY <3>1, <3>3 DEF ApplyCustodyChange, Matured, ChangeInv, TierFor
    <3>5. pending'[id].executed /\ ~pending[id].executed
      BY <3>1 DEF ApplyCustodyChange, Live, ScheduledChange
    <3> QED
      BY <3>4, <3>5
  <2>3. ~Create /\ ~OwnerInstallModule /\ ~OwnerUninstallModule /\ ~OwnerCallOnInstall
        /\ ~OwnerCallOnUninstall /\ ~Schedule /\ ~Cancel
    BY DEF Create, CreateAgentAccount, Initialize, OwnerInstallModule, OwnerUninstallModule,
       OwnerCallOnInstall, OwnerCallOnUninstall, Schedule, Cancel,
       ScheduleCustodyChange, CancelScheduledChange, accountVars, upgradeVars
  <2>4. ~UNCHANGED vars
    BY DEF vars, accountVars, upgradeVars
  <2> QED
    BY <1>1, <2>1, <2>2, <2>3, <2>4 DEF Next
<1> QED
  BY <1>1, Invariance, PTL DEF Spec, ImplementationChangesDelayed
=============================================================================
