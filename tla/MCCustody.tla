----------------------------- MODULE MCCustody -----------------------------
(* Small instances of CustodyPolicy: two or three wallets, one passkey.     *)
EXTENDS CustodyClaims

CONSTANTS e1, e2, e3, k1, self, impl1, impl2, dm1, dm2, s1, none

T(t4, t5, t6) == [t \in Tiers |-> CASE t = 4 -> t4 [] t = 5 -> t5 [] t = 6 -> t6 [] OTHER -> 0]

Ch(action, arg) == [action |-> action, arg |-> arg]

MCUnitDelays == [t \in 4..6 |-> 1]
MCDefaultDelays == [t \in 4..6 |-> IF t = 4 THEN 1 ELSE 2]

Params(cust, keys, m, tr) ==
  [custodians |-> cust, passkeys |-> keys, mode |-> m, trustees |-> tr,
   timelocks |-> T(1, 0, 2)]

(* Trustee management and recovery on a two-custodian account.              *)
RecoveryParams == {Params({e1, e2}, {}, 2, {e2, e3}), Params({e1}, {k1}, 1, {e3})}
RecoveryChanges ==
  {Ch("AddTrustee", e1), Ch("RemoveTrustee", e3), Ch("SetRecoveryApprovals", 1),
   Ch("SetRecoveryApprovals", 0), Ch("ChangeCustodyMode", 3), Ch("ChangeCustodyMode", 4),
   Ch("RecoverAccount", [addOwners |-> {e3}, addPasskeys |-> {},
                         removeOwners |-> {e1, e2}, removePasskeys |-> {}]),
   Ch("RecoverAccount", [addOwners |-> {}, addPasskeys |-> {k1},
                         removeOwners |-> {e1, e2}, removePasskeys |-> {}])}

(* Signers and trust root: an owner's userOps and the upgrade queue race a  *)
(* custody change for the signer sets and the implementation.               *)
AccountParams ==
  {[custodians |-> {e1}, passkeys |-> {k1}, mode |-> 1, trustees |-> {e2},
    timelocks |-> T(0, 0, 0)]}
AccountChanges ==
  {Ch("AddCustodian", e2), Ch("RemoveCustodian", e1),
   Ch("AddPasskeyCredential", k1), Ch("RemovePasskeyCredential", k1),
   Ch("RotateAllCustodians", [add |-> {e2}, remove |-> {e1}]),
   Ch("RotateAllCustodians", [add |-> {}, remove |-> {e1, e2}]),
   Ch("RecoverAccount", [addOwners |-> {}, addPasskeys |-> {},
                         removeOwners |-> {e1, e2}, removePasskeys |-> {}]),
   Ch("RecoverAccount", [addOwners |-> {e2}, addPasskeys |-> {},
                         removeOwners |-> {e1}, removePasskeys |-> {k1}]),
   Ch("ApplySystemUpdate", impl2)}

(* Install, reinstall and uninstall, as a module and behind its back.       *)
Config(m, rec, tr, thr) ==
  [mode |-> m, recoveryApprovals |-> rec, trustees |-> tr,
   thresholds |-> thr, timelocks |-> T(0, 1, 1), ceiling |-> 0]
LifecycleParams == {Params({e1, e2}, {}, 0, {}), Params({e1, e2}, {}, 1, {e3})}
LifecycleConfigs ==
  {Config(0, 0, {}, T(0, 0, 0)), Config(2, 1, {e3}, T(2, 1, 0)),
   Config(1, 2, {e3}, T(1, 1, 0)), Config(4, 0, {}, T(1, 1, 0))}
LifecycleChanges ==
  {Ch("ChangeCustodyMode", 1), Ch("ChangeApprovalsRequired", [tier |-> 4, count |-> 1]),
   Ch("ChangeApprovalsRequired", [tier |-> 5, count |-> 0]),
   Ch("ChangeApprovalsRequired", [tier |-> 6, count |-> 1]),
   Ch("ChangeValueCeiling", 1), Ch("AddCustodian", e3),
   Ch("RotateDelegationManager", dm1), Ch("RotatePaymaster", none)}

(* The instances that refute the claims.                                    *)
ThresholdParams == {Params({e1, e2}, {}, 2, {e2, e3})}
AddChanges == {Ch("AddCustodian", e3)}
=============================================================================
