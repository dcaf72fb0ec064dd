---------------------------- MODULE CustodyClaims ----------------------------
(***************************************************************************)
(* A statement that the repository's specification makes about custody and  *)
(* that the contracts do not keep.                                          *)
(***************************************************************************)
EXTENDS CustodyPolicy

(* This step applies a scheduled change.                                    *)
Applies(id) == pending'[id].executed /\ ~pending[id].executed

(* specs/207:212, "no single owner can unilaterally rotate the signer set": *)
(* with a two-approval admin tier in threshold or org mode, the signers     *)
(* change only by applying a custody change.                                *)
SignersChangeByQuorum ==
  [][/\ installed /\ mode >= 2 /\ approvals[4] >= 2
     /\ <<externalCustodians, passkeys>>' # <<externalCustodians, passkeys>>
     => \E id \in DOMAIN pending : Applies(id)]_vars
=============================================================================
