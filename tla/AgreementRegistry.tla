------------------------- MODULE AgreementRegistry -------------------------
(***************************************************************************)
(* AgreementRegistry: agreements known by their commitment, and status      *)
(* transitions authorised by the parties' signatures over                   *)
(* (commitment, toStatus, nullifier).  A commitment determines its parties, *)
(* so revealing them is the constant PartiesOf.  A signature, once given,   *)
(* may be submitted by anybody, at any time.                                *)
(***************************************************************************)
EXTENDS BlockContext

CONSTANTS
  Agreements,  \* agreementCommitment
  PartiesOf,   \* party1 and party2 of a commitment
  Nullifiers,
  MaxSignatures  \* bound on the signatures an account gives

ASSUME AgreementAssumption ==
  /\ PartiesOf \in [Agreements -> Accounts \X Accounts]
  /\ MaxSignatures \in Nat

ToStatuses == {"COMPLETED", "DISPUTED", "REVOKED"}
Transition == [agreement : Agreements, to : ToStatuses, nullifier : Nullifiers]

VARIABLES
  agreementStatus,  \* AgreementRow.status; "NONE" without a row
  nullifiers,       \* _nullifiers
  transitionSigs,   \* the transition digests each account has signed
  moves             \* history: the transitions made, with the status before

agreementVars == <<agreementStatus, nullifiers, transitionSigs, moves>>

AgreementInit ==
  /\ agreementStatus = [a \in Agreements |-> "NONE"]
  /\ nullifiers = {}
  /\ transitionSigs = [x \in Accounts |-> {}]
  /\ moves = {}

-----------------------------------------------------------------------------
(* Off chain *)

SignTransition(x, d) ==
  /\ Cardinality(transitionSigs[x]) < MaxSignatures
  /\ transitionSigs' = [transitionSigs EXCEPT ![x] = @ \union {d}]
  /\ UNCHANGED <<agreementStatus, nullifiers, moves>>

(* On chain *)

(* Whether the issuer has signed the commitment is the environment's        *)
(* choice.                                                                  *)
RegisterAgreement(a) ==
  /\ agreementStatus[a] = "NONE"
  /\ agreementStatus' = [agreementStatus EXCEPT ![a] = "ACTIVE"]
  /\ UNCHANGED <<nullifiers, transitionSigs, moves>>

IsParty(a, x) == x = PartiesOf[a][1] \/ x = PartiesOf[a][2]

OpenStatus(a) == agreementStatus[a] \in {"ACTIVE", "DISPUTED"}

NullifierFree_PerAgreement(d) ==
  \A m \in moves : ~(m.agreement = d.agreement /\ m.nullifier = d.nullifier)
NullifierFree(d) == d.nullifier \notin nullifiers

(* DISPUTED takes one party, the other two statuses two distinct ones.      *)
Authorised(d, s1, s2) ==
  /\ IsParty(d.agreement, s1) /\ d \in transitionSigs[s1]
  /\ d.to # "DISPUTED" =>
       /\ s2 # s1
       /\ IsParty(d.agreement, s2) /\ d \in transitionSigs[s2]

UpdateStatus(d, s1, s2) ==
  LET a == d.agreement IN
  /\ OpenStatus(a)
  /\ NullifierFree(d)
  /\ Authorised(d, s1, s2)
  /\ nullifiers' = nullifiers \union {d.nullifier}
  /\ agreementStatus' = [agreementStatus EXCEPT ![a] = d.to]
  /\ moves' = moves \union {[agreement |-> a, from |-> agreementStatus[a], to |-> d.to,
                             nullifier |-> d.nullifier]}
  /\ UNCHANGED transitionSigs

AgreementNext ==
  \/ \E a \in Agreements : RegisterAgreement(a)
  \/ \E x \in Accounts, d \in Transition : SignTransition(x, d)
  \/ \E d \in Transition, s1, s2 \in Accounts : UpdateStatus(d, s1, s2)

AgreementSpec == AgreementInit /\ [][AgreementNext]_agreementVars

-----------------------------------------------------------------------------
(* Properties *)

AgreementTypeOK ==
  /\ agreementStatus \in [Agreements -> {"NONE", "ACTIVE"} \union ToStatuses]
  /\ nullifiers \subseteq Nullifiers
  /\ transitionSigs \in [Accounts -> SUBSET Transition]
  /\ moves \subseteq [agreement : Agreements, from : {"ACTIVE"} \union ToStatuses,
                      to : ToStatuses, nullifier : Nullifiers]

(* Both parties, two different accounts, signed d.                          *)
SignedByBoth(d) ==
  LET p == PartiesOf[d.agreement] IN
  p[1] # p[2] /\ d \in transitionSigs[p[1]] /\ d \in transitionSigs[p[2]]

(* SettledByBoth: an agreement is COMPLETED or REVOKED only when both of    *)
(* its parties signed that very transition, under one nullifier that no     *)
(* other transition of any agreement has used: neither a party alone, nor   *)
(* a stranger with old signatures, nor the parties of another agreement     *)
(* can settle it (updateStatus).                                            *)
SettledByBoth ==
  \A a \in Agreements : agreementStatus[a] \in {"COMPLETED", "REVOKED"} =>
    \E n \in nullifiers :
      /\ SignedByBoth([agreement |-> a, to |-> agreementStatus[a], nullifier |-> n])
      /\ \A m \in moves : m.nullifier = n => m.agreement = a /\ m.to = agreementStatus[a]

=============================================================================
