----------------------------- MODULE MCContracts ----------------------------
(***************************************************************************)
(* The contracts that share no storage with one another, and the vault of   *)
(* the demo MCP server, which shares none with them, for TLC: their steps   *)
(* commute, so a behaviour is explored for the one in focus while the       *)
(* others stay as deployed.                                                 *)
(***************************************************************************)
EXTENDS
  DelegationManager, PaymentEscrow, AgreementRegistry, AttestationRegistry, AgentRelationship, AgentNames,
  SkillRegistry, OntologyRegistry, Vault

CONSTANTS p1, p2, coin, feeCoin, ag1, ag2, e1, e2, root, n1, d1, d2, pay, revoke

(* Orders have no terms of their own before they are funded.               *)
OrderSymmetry == Permutations(Orders)

MCFeeOf == (coin :> 0) @@ (feeCoin :> 1)
MCPartiesOf == (ag1 :> <<p1, p2>>) @@ (ag2 :> <<p2, p2>>)
MCSubjectOf == (e1 :> p1) @@ (e2 :> p2)
MCObjectOf == (e1 :> p2) @@ (e2 :> p1)
MCParentOf == (n1 :> root)

(* p2 hands on what it got from p1, to anybody, with a quorum of both.      *)
MCDelegatorOf == (d1 :> p1) @@ (d2 :> p2)
MCDelegateOf == (d1 :> p2) @@ (d2 :> Open)
MCAuthorityOf == (d1 :> RootAuthority) @@ (d2 :> d1)
MCRevokesOf == (pay :> None) @@ (revoke :> d1)
MCPermits == (d1 :> {pay, revoke}) @@ (d2 :> {pay})
MCWindowOf == (d1 :> [after |-> 0, until |-> 0]) @@ (d2 :> [after |-> 0, until |-> 1])
MCQuorumOf == (d1 :> None) @@ (d2 :> [signers |-> {p1, p2}, threshold |-> 2])

VARIABLE focus

vars ==
  <<focus, now, delegationVars, escrowVars, agreementVars, attestationVars, relationshipVars, namesVars,
    skillVars, ontologyVars, vaultVars>>

Init ==
  /\ focus \in
       {"delegations", "escrow", "agreements", "attestations", "relationships", "names",
        "skills", "ontology", "vault"}
  /\ now = 0
  /\ DelegationInit /\ EscrowInit /\ AgreementInit /\ AttestationInit /\ RelationshipInit /\ NamesInit
  /\ SkillInit /\ OntologyInit /\ VaultInit
  /\ \A r \in DOMAIN governor : governor[r] = p1

DelegationsStep ==
  /\ focus = "delegations"
  /\ DelegationNext
  /\ UNCHANGED <<escrowVars, agreementVars, attestationVars, relationshipVars, namesVars,
                 skillVars, ontologyVars, vaultVars>>

EscrowStep ==
  /\ focus = "escrow"
  /\ EscrowNext
  /\ UNCHANGED <<delegationVars, agreementVars, attestationVars, relationshipVars, namesVars,
                 skillVars, ontologyVars, vaultVars>>

AgreementStep ==
  /\ focus = "agreements"
  /\ AgreementNext
  /\ UNCHANGED <<now, delegationVars, escrowVars, attestationVars, relationshipVars, namesVars,
                 skillVars, ontologyVars, vaultVars>>

AttestationStep ==
  /\ focus = "attestations"
  /\ AttestationNext
  /\ UNCHANGED <<now, delegationVars, escrowVars, agreementVars, relationshipVars, namesVars,
                 skillVars, ontologyVars, vaultVars>>

RelationshipStep ==
  /\ focus = "relationships"
  /\ RelationshipNext
  /\ UNCHANGED <<now, delegationVars, escrowVars, agreementVars, attestationVars, namesVars,
                 skillVars, ontologyVars, vaultVars>>

NamesStep ==
  /\ focus = "names"
  /\ NamesNext
  /\ UNCHANGED <<delegationVars, escrowVars, agreementVars, attestationVars, relationshipVars,
                 skillVars, ontologyVars, vaultVars>>

SkillsStep ==
  /\ focus = "skills"
  /\ SkillNext
  /\ UNCHANGED <<now, delegationVars, escrowVars, agreementVars, attestationVars, relationshipVars,
                 namesVars, ontologyVars, vaultVars>>

OntologyStep ==
  /\ focus = "ontology"
  /\ OntologyNext
  /\ UNCHANGED <<now, delegationVars, escrowVars, agreementVars, attestationVars, relationshipVars,
                 namesVars, skillVars, vaultVars>>

VaultStep ==
  /\ focus = "vault"
  /\ VaultNext
  /\ UNCHANGED <<now, delegationVars, escrowVars, agreementVars, attestationVars, relationshipVars,
                 namesVars, skillVars, ontologyVars>>

Next ==
  /\ \/ DelegationsStep \/ EscrowStep \/ AgreementStep \/ AttestationStep \/ RelationshipStep \/ NamesStep
     \/ SkillsStep \/ OntologyStep \/ VaultStep
  /\ UNCHANGED focus

Spec == Init /\ [][Next]_vars

(* Bound: the registry of shapes and the registry of terms are two          *)
(* contracts, so a behaviour uses only one of them.                         *)
OntologyBound ==
  \/ terms = <<>> /\ governor["terms"] = p1
  \/ /\ \A c \in Classes : shapes[c] = None
     /\ \A e \in EnumSets : enumValues[e] = <<>>
     /\ attribute = None /\ governor["shapes"] = p1

(* The accounts are interchangeable once the root of names is initialised:  *)
(* it is first given to p1.                                                 *)
NamesBound == vouched[root] # {p2}

MCBound == OntologyBound /\ NamesBound

(* The type invariant of the contract that is explored.                     *)
TypeOK ==
  /\ focus = "delegations" => DelegationTypeOK
  /\ focus = "escrow" => EscrowTypeOK
  /\ focus = "agreements" => AgreementTypeOK
  /\ focus = "attestations" => AttestationTypeOK
  /\ focus = "relationships" => RelationshipTypeOK
  /\ focus = "names" => NamesTypeOK
  /\ focus = "skills" => SkillTypeOK
  /\ focus = "ontology" => OntologyTypeOK
  /\ focus = "vault" => VaultTypeOK

=============================================================================
