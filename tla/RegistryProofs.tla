---------------------------- MODULE RegistryProofs ----------------------------
(***************************************************************************)
(* Proofs about the registries and the vault, for any accounts, agreements, *)
(* attestations, edges, names, versions, terms and vault calls.             *)
(***************************************************************************)
EXTENDS AgreementRegistry, AttestationRegistry, AgentRelationship, AgentNames,
        SkillRegistry, OntologyRegistry, Vault,
        FiniteSetTheorems, FunctionTheorems, SequenceTheorems, TLAPS

-----------------------------------------------------------------------------
(* Agreements *)

(* The nullifier of every move is burned.                                   *)
MovesAreBurned == \A m \in moves : m.nullifier \in nullifiers

AgreementInv == AgreementTypeOK /\ MovesAreBurned /\ SettledByBoth

(* SignedByBoth and the last part of SettledByBoth over given signatures    *)
(* and moves, to speak of them before and after a step.                     *)
BothSigned(sigs, d) ==
  LET p == PartiesOf[d.agreement] IN
  p[1] # p[2] /\ d \in sigs[p[1]] /\ d \in sigs[p[2]]

SettlesAlone(sigs, made, a, to, n) ==
  /\ BothSigned(sigs, [agreement |-> a, to |-> to, nullifier |-> n])
  /\ \A m \in made : m.nullifier = n => m.agreement = a /\ m.to = to

LEMMA SettledMeans ==
  SettledByBoth <=>
    \A a \in Agreements : agreementStatus[a] \in {"COMPLETED", "REVOKED"} =>
      \E n \in nullifiers : SettlesAlone(transitionSigs, moves, a, agreementStatus[a], n)
BY DEF SettledByBoth, SignedByBoth, SettlesAlone, BothSigned

LEMMA SettledMeansNext ==
  SettledByBoth' <=>
    \A a \in Agreements : agreementStatus'[a] \in {"COMPLETED", "REVOKED"} =>
      \E n \in nullifiers' : SettlesAlone(transitionSigs', moves', a, agreementStatus'[a], n)
BY DEF SettledByBoth, SignedByBoth, SettlesAlone, BothSigned

LEMMA AgreementInitInv == AgreementInit => AgreementInv
<1> SUFFICES ASSUME AgreementInit PROVE AgreementInv
  OBVIOUS
<1> USE DEF AgreementInit
<1>1. AgreementTypeOK
  BY DEF AgreementTypeOK
<1>2. MovesAreBurned /\ SettledByBoth
  BY DEF MovesAreBurned, SettledByBoth
<1> QED
  BY <1>1, <1>2 DEF AgreementInv

(* A signature adds to what the parties have signed and takes nothing away. *)
LEMMA SignTransitionKeeps ==
  ASSUME AgreementInv, NEW x \in Accounts, NEW d \in Transition, SignTransition(x, d)
  PROVE  AgreementInv'
<1> USE AgreementAssumption
<1>1. /\ transitionSigs' \in [Accounts -> SUBSET Transition]
      /\ \A y \in Accounts : transitionSigs[y] \subseteq transitionSigs'[y]
      /\ UNCHANGED <<agreementStatus, nullifiers, moves>>
  BY DEF SignTransition, AgreementInv, AgreementTypeOK
<1>2. AgreementTypeOK' /\ MovesAreBurned'
  BY <1>1 DEF AgreementInv, AgreementTypeOK, MovesAreBurned
<1>3. SettledByBoth'
  <2>1. \A a \in Agreements : PartiesOf[a][1] \in Accounts /\ PartiesOf[a][2] \in Accounts
    OBVIOUS
  <2> SUFFICES ASSUME NEW a \in Agreements, agreementStatus'[a] \in {"COMPLETED", "REVOKED"}
               PROVE  \E n \in nullifiers' : SettlesAlone(transitionSigs', moves', a, agreementStatus'[a], n)
    BY SettledMeansNext
  <2>2. PICK n \in nullifiers : SettlesAlone(transitionSigs, moves, a, agreementStatus[a], n)
    BY <1>1, SettledMeans DEF AgreementInv
  <2> DEFINE t == [agreement |-> a, to |-> agreementStatus[a], nullifier |-> n]
  <2>3. BothSigned(transitionSigs, t) => BothSigned(transitionSigs', t)
    <3>1. t.agreement = a
      OBVIOUS
    <3> HIDE DEF t
    <3> QED
      BY <1>1, <2>1, <3>1 DEF BothSigned
  <2> QED
    BY <1>1, <2>2, <2>3 DEF SettlesAlone
<1> QED
  BY <1>2, <1>3 DEF AgreementInv

LEMMA RegisterAgreementKeeps ==
  ASSUME AgreementInv, NEW a \in Agreements, RegisterAgreement(a)
  PROVE  AgreementInv'
<1>1. /\ agreementStatus' \in [Agreements -> {"NONE", "ACTIVE"} \union ToStatuses]
      /\ agreementStatus'[a] = "ACTIVE"
      /\ \A b \in Agreements : b # a => agreementStatus'[b] = agreementStatus[b]
      /\ UNCHANGED <<nullifiers, transitionSigs, moves>>
  BY DEF RegisterAgreement, AgreementInv, AgreementTypeOK
<1>2. AgreementTypeOK' /\ MovesAreBurned'
  BY <1>1 DEF AgreementInv, AgreementTypeOK, MovesAreBurned
<1>3. SettledByBoth'
  BY <1>1, SettledMeans, SettledMeansNext DEF AgreementInv
<1> QED
  BY <1>2, <1>3 DEF AgreementInv

(* A transition burns a nullifier that no move has used.                    *)
LEMMA UpdateStatusKeeps ==
  ASSUME AgreementInv, NEW d \in Transition, NEW s1 \in Accounts, NEW s2 \in Accounts,
         UpdateStatus(d, s1, s2)
  PROVE  AgreementInv'
<1> USE AgreementAssumption
<1> DEFINE a == d.agreement
           move == [agreement |-> a, from |-> agreementStatus[a], to |-> d.to,
                    nullifier |-> d.nullifier]
<1>0. /\ a \in Agreements /\ d.to \in ToStatuses /\ d.nullifier \in Nullifiers
      /\ d = [agreement |-> a, to |-> d.to, nullifier |-> d.nullifier]
  BY DEF Transition
<1>1. /\ agreementStatus' \in [Agreements -> {"NONE", "ACTIVE"} \union ToStatuses]
      /\ agreementStatus'[a] = d.to
      /\ \A b \in Agreements : b # a => agreementStatus'[b] = agreementStatus[b]
  BY <1>0 DEF UpdateStatus, AgreementInv, AgreementTypeOK
<1>2. /\ nullifiers' = nullifiers \union {d.nullifier} /\ d.nullifier \notin nullifiers
      /\ moves' = moves \union {move} /\ transitionSigs' = transitionSigs
  BY DEF UpdateStatus, NullifierFree
<1>3. AgreementTypeOK'
  <2>1. move \in [agreement : Agreements, from : {"ACTIVE"} \union ToStatuses,
                  to : ToStatuses, nullifier : Nullifiers]
    BY <1>0 DEF UpdateStatus, OpenStatus, ToStatuses
  <2> QED
    BY <1>0, <1>1, <1>2, <2>1 DEF AgreementInv, AgreementTypeOK
<1>4. MovesAreBurned'
  BY <1>2 DEF AgreementInv, MovesAreBurned
<1>5. ASSUME d.to # "DISPUTED" PROVE BothSigned(transitionSigs', d)
  <2>1. /\ s1 # s2 /\ d \in transitionSigs[s1] /\ d \in transitionSigs[s2]
        /\ IsParty(a, s1) /\ IsParty(a, s2)
    BY <1>5 DEF UpdateStatus, Authorised
  <2> QED
    BY <1>2, <2>1 DEF IsParty, BothSigned
<1>6. SettledByBoth'
  <2> SUFFICES ASSUME NEW b \in Agreements, agreementStatus'[b] \in {"COMPLETED", "REVOKED"}
               PROVE  \E n \in nullifiers' : SettlesAlone(transitionSigs', moves', b, agreementStatus'[b], n)
    BY SettledMeansNext
  <2>1. CASE b = a
    <3>1. BothSigned(transitionSigs', [agreement |-> b, to |-> agreementStatus'[b], nullifier |-> d.nullifier])
      BY <1>0, <1>1, <1>5, <2>1
    <3>2. \A m \in moves' : m.nullifier = d.nullifier => m.agreement = b /\ m.to = agreementStatus'[b]
      BY <1>1, <1>2, <2>1 DEF AgreementInv, MovesAreBurned
    <3> QED
      BY <1>2, <3>1, <3>2 DEF SettlesAlone
  <2>2. CASE b # a
    <3>1. PICK n \in nullifiers : SettlesAlone(transitionSigs, moves, b, agreementStatus[b], n)
      BY <1>1, <2>2, SettledMeans DEF AgreementInv
    <3>2. \A m \in moves' : m.nullifier = n => m.agreement = b /\ m.to = agreementStatus'[b]
      BY <1>1, <1>2, <2>2, <3>1 DEF SettlesAlone
    <3> QED
      BY <1>1, <1>2, <2>2, <3>1, <3>2 DEF SettlesAlone
  <2> QED
    BY <2>1, <2>2
<1> QED
  BY <1>3, <1>4, <1>6 DEF AgreementInv

LEMMA AgreementStepInv == AgreementInv /\ [AgreementNext]_agreementVars => AgreementInv'
<1> SUFFICES ASSUME AgreementInv, [AgreementNext]_agreementVars PROVE AgreementInv'
  OBVIOUS
<1>1. CASE UNCHANGED agreementVars
  BY <1>1 DEF agreementVars, AgreementInv, AgreementTypeOK, MovesAreBurned, SettledByBoth, SignedByBoth
<1> QED
  BY <1>1, RegisterAgreementKeeps, SignTransitionKeeps, UpdateStatusKeeps DEF AgreementNext

(* Agreements keep their types, and are settled by both of their parties    *)
(* under a nullifier of their own (updateStatus).                           *)
THEOREM AgreementsSettledByBoth == AgreementSpec => [](AgreementTypeOK /\ SettledByBoth)
<1>1. AgreementInv => AgreementTypeOK /\ SettledByBoth
  BY DEF AgreementInv
<1> QED
  BY <1>1, AgreementInitInv, AgreementStepInv, PTL DEF AgreementSpec

-----------------------------------------------------------------------------
(* Attestations *)

(* What JointNeedsBoth says of the valid attestations holds of all.         *)
JointWasBacked ==
  \A u \in attested : u.content.party2 # None =>
    /\ u.content.subject # u.content.party2
    /\ u.content \in issuerSigs
    /\ u.content \in consents[u.content.subject] /\ u.content \in consents[u.content.party2]

AttestationInv == AttestationTypeOK /\ JointWasBacked

(* The parties of a request are accounts.                                   *)
LEMMA UidParties ==
  ASSUME NEW u \in Uids
  PROVE  /\ u.content \in Content /\ u.content.subject \in Accounts
         /\ u.content.party2 # None => u.content.party2 \in Accounts
BY DEF Uids, Content, Association, Joint

LEMMA AttestationStepInv == AttestationInv /\ [AttestationNext]_attestationVars => AttestationInv'
<1> SUFFICES ASSUME AttestationInv, [AttestationNext]_attestationVars PROVE AttestationInv'
  OBVIOUS
<1> USE DEF AttestationInv, AttestationTypeOK
<1>1. CASE UNCHANGED attestationVars
  BY <1>1 DEF attestationVars, JointWasBacked
<1>2. ASSUME NEW c \in Content, SignContent(c) PROVE AttestationInv'
  BY <1>2 DEF SignContent, JointWasBacked
<1>3. ASSUME NEW x \in Accounts, NEW c \in Joint, Consent(x, c) PROVE AttestationInv'
  <2>1. /\ consents' \in [Accounts -> SUBSET Joint]
        /\ \A y \in Accounts : consents[y] \subseteq consents'[y]
    BY <1>3 DEF Consent
  <2> QED
    BY <1>3, <2>1, UidParties DEF Consent, JointWasBacked
<1>4. ASSUME NEW u \in Uids, AssertAssociation(u) PROVE AttestationInv'
  BY <1>4 DEF AssertAssociation, JointWasBacked
<1>5. ASSUME NEW u \in Uids, AssertJointAgreement(u) PROVE AttestationInv'
  BY <1>5 DEF AssertJointAgreement, BothConsent, JointWasBacked
<1>6. ASSUME NEW u \in Uids, NEW x \in Accounts, RevokeOwn(u, x) PROVE AttestationInv'
  BY <1>6 DEF RevokeOwn, JointWasBacked
<1> QED
  BY <1>1, <1>2, <1>3, <1>4, <1>5, <1>6 DEF AttestationNext

(* Every joint attestation, valid or revoked since, was signed by its       *)
(* issuer and by two different parties (assertJointAgreement).              *)
THEOREM AttestationsNeedBoth == AttestationSpec => [](AttestationTypeOK /\ JointNeedsBoth)
<1>1. AttestationInit => AttestationInv
  BY DEF AttestationInit, AttestationInv, AttestationTypeOK, JointWasBacked
<1>2. AttestationInv => AttestationTypeOK /\ JointNeedsBoth
  BY DEF AttestationInv, JointWasBacked, JointNeedsBoth, IsValid
<1> QED
  BY <1>1, <1>2, AttestationStepInv, PTL DEF AttestationSpec

-----------------------------------------------------------------------------
(* Relationships *)

(* Past its proposal an edge has its object's consent.                      *)
ConfirmedByObject == \A e \in Edges : edgeStatus[e] \in {"CONFIRMED", "ACTIVE"} => e \in consented

RelationshipInv == RelationshipTypeOK /\ ConfirmedByObject

(* Removing a role leaves a list of roles.                                  *)
LEMMA SwapAndPopType ==
  ASSUME NEW l \in Seq(Roles), NEW r
  PROVE  SwapAndPop(l, r) \in Seq(Roles)
<1> DEFINE i == CHOOSE j \in 1 .. Len(l) : l[j] = r /\ \A k \in 1 .. j - 1 : l[k] # r
           t == [l EXCEPT ![i] = Last(l)]
<1> HIDE DEF i
<1>1. t \in Seq(Roles) /\ Len(t) = Len(l)
  <2>1. DOMAIN l = 1 .. Len(l) /\ Len(l) \in Nat /\ \A j \in 1 .. Len(l) : l[j] \in Roles
    OBVIOUS
  <2>2. i \in 1 .. Len(l) => Last(l) \in Roles
    BY <2>1 DEF Last
  <2>3. t \in [1 .. Len(l) -> Roles]
    BY <2>1, <2>2
  <2> QED
    BY <2>1, <2>3
<1>2. SubSeq(t, 1, Len(t) - 1) \in Seq(Roles)
  BY <1>1
<1> QED
  BY <1>2 DEF SwapAndPop, Front, i

LEMMA RelationshipStepInv == RelationshipInv /\ [RelationshipNext]_relationshipVars => RelationshipInv'
<1> SUFFICES ASSUME RelationshipInv, [RelationshipNext]_relationshipVars PROVE RelationshipInv'
  OBVIOUS
<1> USE RelationshipAssumption DEF RelationshipInv, RelationshipTypeOK, ConfirmedByObject
<1>1. CASE UNCHANGED relationshipVars
  BY <1>1 DEF relationshipVars
<1>2. ASSUME NEW e \in Edges, NEW x \in Accounts, NEW initial \in SeqOf(Roles, MaxRoles - 1),
             ProposeEdge(e, x, initial)
      PROVE  RelationshipInv'
  <2>1. initial \in Seq(Roles) /\ ToSet(initial) \subseteq Roles
    BY DEF SeqOf, ToSet
  <2> QED
    BY <1>2, <2>1 DEF ProposeEdge
<1>3. ASSUME NEW e \in Edges, NEW x \in Accounts, ConfirmEdge(e, x) PROVE RelationshipInv'
  BY <1>3 DEF ConfirmEdge, MayConfirm
<1>4. ASSUME NEW e \in Edges, NEW x \in Accounts, ActivateEdge(e, x) PROVE RelationshipInv'
  BY <1>4 DEF ActivateEdge
<1>5. ASSUME NEW e \in Edges, NEW x \in Accounts, RevokeEdge(e, x) PROVE RelationshipInv'
  BY <1>5 DEF RevokeEdge
<1>6. ASSUME NEW e \in Edges, NEW x \in Accounts, NEW r \in Roles, AddRole(e, x, r)
      PROVE  RelationshipInv'
  BY <1>6 DEF AddRole
<1>7. ASSUME NEW e \in Edges, NEW x \in Accounts, NEW r \in Roles, RemoveRole(e, x, r)
      PROVE  RelationshipInv'
  BY <1>7, SwapAndPopType DEF RemoveRole
<1> QED
  BY <1>1, <1>2, <1>3, <1>4, <1>5, <1>6, <1>7 DEF RelationshipNext

LEMMA RelationshipInvHolds == RelationshipSpec => []RelationshipInv
<1>1. RelationshipInit => RelationshipInv
  BY DEF RelationshipInit, RelationshipInv, RelationshipTypeOK, ConfirmedByObject
<1> QED
  BY <1>1, RelationshipStepInv, PTL DEF RelationshipSpec

(* The statuses, roles and consents of the edges keep their types.          *)
THEOREM RelationshipTypes == RelationshipSpec => []RelationshipTypeOK
<1>1. RelationshipInv => RelationshipTypeOK
  BY DEF RelationshipInv
<1> QED
  BY <1>1, RelationshipInvHolds, PTL

(* An edge becomes ACTIVE only after its object's consent and a revoked one *)
(* never comes back (confirmEdge, activateEdge, revokeEdge).                *)
THEOREM EdgesActiveByBoth == RelationshipSpec => ActiveByBoth
<1> DEFINE Active ==
      \A e \in Edges :
        /\ edgeStatus'[e] = "ACTIVE" => e \in consented'
        /\ edgeStatus[e] = "REVOKED" => edgeStatus'[e] = "REVOKED"
<1>1. RelationshipInv /\ RelationshipInv' /\ [RelationshipNext]_relationshipVars
        => [Active]_relationshipVars
  <2> SUFFICES ASSUME RelationshipInv, RelationshipInv', RelationshipNext, NEW e \in Edges
               PROVE  /\ edgeStatus'[e] = "ACTIVE" => e \in consented'
                      /\ edgeStatus[e] = "REVOKED" => edgeStatus'[e] = "REVOKED"
    OBVIOUS
  <2>1. edgeStatus'[e] = "ACTIVE" => e \in consented'
    BY DEF RelationshipInv, ConfirmedByObject
  <2>2. edgeStatus[e] = "REVOKED" => edgeStatus'[e] = "REVOKED"
    BY DEF RelationshipInv, RelationshipTypeOK, RelationshipNext, ProposeEdge, EdgeExists,
           ConfirmEdge, ActivateEdge, RevokeEdge, AddRole, RemoveRole
  <2> QED
    BY <2>1, <2>2
<1> QED
  BY <1>1, RelationshipInvHolds, PTL DEF RelationshipSpec, ActiveByBoth

-----------------------------------------------------------------------------
(* Names *)

(* The owner of a node, and the address it points at, were vouched for, and *)
(* a resolver of another make was entrusted with it.                        *)
OwnersAreVouched == \A n \in Nodes : RecordExists(n) => records[n].owner \in vouched[n]
AddressesAreVouched == \A n \in Nodes : address[n] # None => address[n] \in vouched[n]
ResolversAreEntrusted ==
  \A n \in Nodes : RecordExists(n) => Others(records[n].resolver) \subseteq entrusted[n]

NamesInv == NamesTypeOK /\ OwnersAreVouched /\ AddressesAreVouched /\ ResolversAreEntrusted

(* A record is added or edited: the new one has an owner who is vouched     *)
(* for, and if its resolver is of another make, it was entrusted.           *)
LEMMA RecordEditKeeps ==
  ASSUME NamesInv, NEW n \in Nodes, NEW r \in Record, NEW V \in SUBSET Accounts,
         NEW E \in SUBSET OtherResolvers,
         records' = [records EXCEPT ![n] = r], vouched' = [vouched EXCEPT ![n] = V],
         entrusted' = [entrusted EXCEPT ![n] = E],
         vouched[n] \subseteq V, r.owner \in V, Others(r.resolver) \subseteq E,
         UNCHANGED <<primaryName, address, datatype, namesPaused>>,
         claimedBy' \in [Accounts -> Nodes \union {None}]
  PROVE  NamesInv'
<1>1. NamesTypeOK'
  BY DEF NamesInv, NamesTypeOK
<1>2. /\ records'[n] = r /\ vouched'[n] = V /\ entrusted'[n] = E
      /\ \A m \in Nodes : m # n =>
           records'[m] = records[m] /\ vouched'[m] = vouched[m] /\ entrusted'[m] = entrusted[m]
  BY DEF NamesInv, NamesTypeOK
<1>3. OwnersAreVouched'
  BY <1>2 DEF NamesInv, OwnersAreVouched, RecordExists
<1>4. AddressesAreVouched'
  BY <1>2 DEF NamesInv, AddressesAreVouched
<1>5. ResolversAreEntrusted'
  BY <1>2 DEF NamesInv, ResolversAreEntrusted, RecordExists, Others
<1> QED
  BY <1>1, <1>3, <1>4, <1>5 DEF NamesInv

LEMMA NewRecordKeeps ==
  ASSUME NamesInv, NEW n \in Nodes, NEW owner \in Accounts, NEW resolver \in Resolvers,
         NEW s \in Delegates, NEW expiry \in Nat, NewRecord(n, owner, resolver, s, expiry),
         UNCHANGED <<primaryName, address, datatype, namesPaused>>,
         claimedBy' \in [Accounts -> Nodes \union {None}]
  PROVE  NamesInv'
<1> DEFINE r == [owner |-> owner, resolver |-> resolver, subregistry |-> s, expiry |-> expiry]
           V == vouched[n] \union {owner}
           E == entrusted[n] \union Others(resolver)
<1>1. r \in Record /\ r.owner = owner /\ r.resolver = resolver
  BY DEF Record
<1>2. /\ records' = [records EXCEPT ![n] = r]
      /\ vouched' = [vouched EXCEPT ![n] = V] /\ entrusted' = [entrusted EXCEPT ![n] = E]
  BY DEF NewRecord
<1>3. /\ V \in SUBSET Accounts /\ vouched[n] \subseteq V /\ owner \in V
      /\ E \in SUBSET OtherResolvers /\ Others(resolver) \subseteq E
  BY DEF NamesInv, NamesTypeOK, Others
<1> HIDE DEF r, V, E
<1> QED
  BY <1>1, <1>2, <1>3, RecordEditKeeps

LEMMA OwnedEditsKeep ==
  ASSUME NamesInv, NEW n \in Nodes, NEW x \in Accounts,
         \/ \E owner \in Accounts : SetOwner(n, x, owner)
         \/ \E r \in Resolvers : SetResolver(n, x, r)
         \/ \E s \in Delegates : SetSubregistry(n, x, s)
         \/ \E expiry \in 0 .. MaxTime : Renew(n, x, expiry)
  PROVE  NamesInv'
<1>1. /\ records \in [Nodes -> Record \union {None}] /\ vouched \in [Nodes -> SUBSET Accounts]
      /\ entrusted \in [Nodes -> SUBSET OtherResolvers]
      /\ RecordExists(n) /\ UNCHANGED <<primaryName, address, datatype, namesPaused>>
      /\ claimedBy' \in [Accounts -> Nodes \union {None}]
  BY DEF NamesInv, NamesTypeOK, NodeAuth, SetOwner, SetResolver, SetSubregistry, Renew
<1>2. /\ records[n] \in Record /\ records[n].owner \in vouched[n] /\ vouched[n] \in SUBSET Accounts
      /\ Others(records[n].resolver) \subseteq entrusted[n] /\ entrusted[n] \in SUBSET OtherResolvers
  BY <1>1 DEF NamesInv, OwnersAreVouched, ResolversAreEntrusted, RecordExists
<1> DEFINE W == vouched[n]
           F == entrusted[n]
<1>3. /\ vouched = [vouched EXCEPT ![n] = W] /\ entrusted = [entrusted EXCEPT ![n] = F]
      /\ n \in Nodes /\ W \in SUBSET Accounts /\ F \in SUBSET OtherResolvers /\ vouched[n] \subseteq W
      /\ records[n].owner \in W /\ Others(records[n].resolver) \subseteq F
  BY <1>1, <1>2
<1> HIDE DEF W, F
<1>4. ASSUME NEW owner \in Accounts, SetOwner(n, x, owner) PROVE NamesInv'
  <2> DEFINE r == [records[n] EXCEPT !.owner = owner]
  <2>1. r \in Record /\ r.owner = owner /\ r.resolver = records[n].resolver
    BY <1>2 DEF Record
  <2>2. /\ records' = [records EXCEPT ![n] = r]
        /\ vouched' = [vouched EXCEPT ![n] = vouched[n] \union {owner}]
        /\ entrusted' = entrusted
    BY <1>4 DEF SetOwner
  <2> DEFINE V == vouched[n] \union {owner}
  <2>3. V \in SUBSET Accounts /\ vouched[n] \subseteq V /\ r.owner \in V
        /\ Others(r.resolver) \subseteq F
    BY <1>2, <1>3, <2>1
  <2>4. /\ records' = [records EXCEPT ![n] = r] /\ vouched' = [vouched EXCEPT ![n] = V]
        /\ entrusted' = [entrusted EXCEPT ![n] = F]
    BY <1>3, <2>2
  <2> HIDE DEF r, V
  <2> QED
    BY ONLY <1>1, <1>3, <2>1, <2>3, <2>4, NamesInv, RecordEditKeeps
<1>5. ASSUME NEW v \in Resolvers, SetResolver(n, x, v) PROVE NamesInv'
  <2> DEFINE r == [records[n] EXCEPT !.resolver = v]
             E == entrusted[n] \union Others(v)
  <2>1. r \in Record /\ r.owner = records[n].owner /\ r.resolver = v
    BY <1>2 DEF Record
  <2>2. records' = [records EXCEPT ![n] = r] /\ vouched' = vouched /\ entrusted' = [entrusted EXCEPT ![n] = E]
    BY <1>5 DEF SetResolver, NodeAuth
  <2>3. E \in SUBSET OtherResolvers /\ r.owner \in W /\ Others(r.resolver) \subseteq E
    BY <1>2, <1>3, <2>1 DEF Others
  <2>4. vouched' = [vouched EXCEPT ![n] = W]
    BY <1>3, <2>2
  <2> HIDE DEF r, E
  <2> QED
    BY ONLY <1>1, <1>3, <2>1, <2>2, <2>3, <2>4, NamesInv, RecordEditKeeps
<1>6. ASSUME NEW s \in Delegates, SetSubregistry(n, x, s) PROVE NamesInv'
  <2> DEFINE r == [records[n] EXCEPT !.subregistry = s]
  <2>1. r \in Record /\ r.owner = records[n].owner /\ r.resolver = records[n].resolver
    BY <1>2 DEF Record
  <2>2. records' = [records EXCEPT ![n] = r] /\ UNCHANGED <<vouched, entrusted>>
    BY <1>6 DEF SetSubregistry
  <2>3. /\ vouched' = [vouched EXCEPT ![n] = W]
        /\ entrusted' = [entrusted EXCEPT ![n] = F]
    BY <1>3, <2>2
  <2>4. r.owner \in W /\ Others(r.resolver) \subseteq F
    BY <1>2, <1>3, <2>1
  <2> HIDE DEF r
  <2> QED
    BY ONLY <1>1, <1>3, <2>1, <2>2, <2>3, <2>4, NamesInv, RecordEditKeeps
<1>7. ASSUME NEW expiry \in 0 .. MaxTime, Renew(n, x, expiry) PROVE NamesInv'
  <2> DEFINE r == [records[n] EXCEPT !.expiry = expiry]
  <2>1. r \in Record /\ r.owner = records[n].owner /\ r.resolver = records[n].resolver
    BY <1>2, BlockAssumption DEF Record
  <2>2. records' = [records EXCEPT ![n] = r] /\ UNCHANGED <<vouched, entrusted>>
    BY <1>7 DEF Renew
  <2>3. /\ vouched' = [vouched EXCEPT ![n] = W]
        /\ entrusted' = [entrusted EXCEPT ![n] = F]
    BY <1>3, <2>2
  <2>4. r.owner \in W /\ Others(r.resolver) \subseteq F
    BY <1>2, <1>3, <2>1
  <2> HIDE DEF r
  <2> QED
    BY ONLY <1>1, <1>3, <2>1, <2>2, <2>3, <2>4, NamesInv, RecordEditKeeps
<1> QED
  BY <1>4, <1>5, <1>6, <1>7

LEMMA AttributesKeep ==
  ASSUME NamesInv, NEW n \in Nodes, NEW x \in Accounts,
         \/ \E a \in Accounts \union {None} : SetAddressAttribute(n, x, a)
         \/ SetOtherAttribute(n, x)
         \/ UnsetAttribute(n, x)
  PROVE  NamesInv'
<1> USE DEF NamesInv, NamesTypeOK
<1>1. ASSUME NEW a \in Accounts \union {None}, SetAddressAttribute(n, x, a) PROVE NamesInv'
  <2>1. /\ vouched' = [vouched EXCEPT ![n] = @ \union ({a} \ {None})]
        /\ address' = [address EXCEPT ![n] = a]
        /\ datatype' = [datatype EXCEPT ![n] = "address"]
        /\ UNCHANGED <<records, primaryName, claimedBy, namesPaused, entrusted>>
    BY <1>1 DEF SetAddressAttribute, ResolverAuth
  <2>2. NamesTypeOK'
    BY <2>1
  <2> QED
    BY <2>1, <2>2 DEF OwnersAreVouched, AddressesAreVouched, ResolversAreEntrusted, RecordExists
<1>2. CASE SetOtherAttribute(n, x)
  BY <1>2 DEF SetOtherAttribute, OwnersAreVouched, AddressesAreVouched, ResolversAreEntrusted, RecordExists
<1>3. CASE UnsetAttribute(n, x)
  <2>1. NamesTypeOK'
    BY <1>3 DEF UnsetAttribute
  <2> QED
    BY <1>3, <2>1 DEF UnsetAttribute, OwnersAreVouched, AddressesAreVouched, ResolversAreEntrusted, RecordExists
<1> QED
  BY <1>1, <1>2, <1>3

LEMMA NamesStepInv == NamesInv /\ [NamesNext]_<<namesVars, now>> => NamesInv'
<1> SUFFICES ASSUME NamesInv, [NamesNext]_<<namesVars, now>> PROVE NamesInv'
  OBVIOUS
<1> USE NamesAssumption, BlockAssumption
<1>1. CASE UNCHANGED namesVars
  BY <1>1 DEF namesVars, NamesInv, NamesTypeOK, OwnersAreVouched, AddressesAreVouched, ResolversAreEntrusted, RecordExists
<1>2. ASSUME NEW x \in Accounts, NEW owner \in Accounts, NEW r \in Resolvers, InitializeRoot(x, owner, r)
      PROVE  NamesInv'
  <2>1. owner \in Delegates
    BY DEF Delegates
  <2> QED
    BY <1>2, <2>1, NewRecordKeeps DEF InitializeRoot, NamesInv, NamesTypeOK
<1>3. ASSUME NEW n \in Nodes, NEW x \in Accounts, NEW owner \in Accounts, NEW r \in Resolvers,
             NEW expiry \in 0 .. MaxTime, RegisterName(n, x, owner, r, expiry)
      PROVE  NamesInv'
  <2>1. None \in Delegates /\ expiry \in Nat
    BY DEF Delegates
  <2> QED
    BY <1>3, <2>1, NewRecordKeeps DEF RegisterName, NamesInv, NamesTypeOK
<1>4. ASSUME NEW n \in Nodes, NEW x \in Accounts, NEW owner \in Accounts, Claim(n, x, owner)
      PROVE  NamesInv'
  <2>1. None \in Delegates /\ 0 \in Nat /\ AttributeResolver \in Resolvers
    BY DEF Delegates, Resolvers
  <2>2. claimedBy' \in [Accounts -> Nodes \union {None}]
    BY <1>4 DEF Claim, NamesInv, NamesTypeOK
  <2> QED
    BY <1>4, <2>1, <2>2, NewRecordKeeps DEF Claim
<1>5. ASSUME NEW x \in Accounts, NEW n \in Named \union {None}, SetPrimaryName(x, n) PROVE NamesInv'
  BY <1>5 DEF SetPrimaryName, NamesInv, NamesTypeOK, OwnersAreVouched, AddressesAreVouched, ResolversAreEntrusted, RecordExists
<1>6. CASE TogglePause
  BY <1>6 DEF TogglePause, NamesInv, NamesTypeOK, OwnersAreVouched, AddressesAreVouched, ResolversAreEntrusted, RecordExists
<1>7. \A n \in Nodes : ResolversFor(n) \subseteq Resolvers /\ ExpiriesFor(n) \subseteq 0 .. MaxTime
  BY DEF ResolversFor, Resolvers, ExpiriesFor
<1> QED
  BY <1>1, <1>2, <1>3, <1>4, <1>5, <1>6, <1>7, OwnedEditsKeep, AttributesKeep DEF NamesNext

(* The name an account is shown by was given to it by an owner of the name, *)
(* or is told by a resolver of another make that an owner of the name, or   *)
(* who registered it, entrusted with it (reverseResolve, _resolveNameView). *)
THEOREM NamesAreVouched == NamesSpec => [](NamesTypeOK /\ ReverseIsVouched)
<1>1. NamesInit => NamesInv
  BY DEF NamesInit, NamesInv, NamesTypeOK, OwnersAreVouched, AddressesAreVouched,
         ResolversAreEntrusted, RecordExists
<1>2. ASSUME NamesInv PROVE NamesTypeOK /\ ReverseIsVouched
  <2> SUFFICES ASSUME NEW x \in Accounts, ReverseResolve(x) # None
               PROVE  LET n == ReverseResolve(x) IN
                      /\ RecordExists(n) /\ primaryName[x] = n
                      /\ x \in vouched[n] \/ records[n].resolver \in entrusted[n]
    BY <1>2 DEF NamesInv, ReverseIsVouched
  <2> DEFINE n == primaryName[x]
  <2>1. n \in Nodes /\ RecordExists(n) /\ x \in ResolveName(n) /\ ReverseResolve(x) = n
    BY <1>2 DEF NamesInv, NamesTypeOK, ReverseResolve
  <2>2. /\ records[n] \in Record /\ records[n].resolver \in Resolvers
        /\ records[n].owner \in vouched[n] /\ Others(records[n].resolver) \subseteq entrusted[n]
        /\ address[n] # None => address[n] \in vouched[n]
    BY <1>2, <2>1 DEF NamesInv, NamesTypeOK, OwnersAreVouched, AddressesAreVouched,
                      ResolversAreEntrusted, RecordExists, Record
  <2>3. x \in vouched[n] \/ records[n].resolver \in OtherResolvers
    BY <2>1, <2>2, NamesAssumption DEF ResolveName, Resolvers
  <2> QED
    BY <2>1, <2>2, <2>3 DEF Others
<1> QED
  BY <1>1, <1>2, NamesStepInv, PTL DEF NamesSpec

-----------------------------------------------------------------------------
(* Versions *)

(* One steward publishes every version of an id, and each version of a      *)
(* skill names the content of the version before.                           *)
OneSteward ==
  \A i \in Skills \union Features : \A v, w \in DOMAIN versions[i] :
    versions[i][v].steward = versions[i][w].steward

Chained ==
  \A i \in Skills : \A v \in 1 .. Len(versions[i]) - 1 :
    versions[i][v + 1].predecessor = versions[i][v].content

SkillInv == SkillTypeOK /\ OneSteward /\ Chained

(* Publishing appends; the other two operations rewrite one entry and leave *)
(* its content, steward and predecessor alone.                              *)
Appends(i, p) ==
  /\ versions' = [versions EXCEPT ![i] = Append(@, p)]
  /\ Len(versions[i]) # 0 => versions[i][Len(versions[i])].steward = p.steward
  /\ i \in Skills /\ Len(versions[i]) # 0 => p.predecessor = versions[i][Len(versions[i])].content

Rewrites(i, v, p) ==
  /\ v \in 1 .. Len(versions[i])
  /\ versions' = [versions EXCEPT ![i] = [@ EXCEPT ![v] = p]]
  /\ p.content = versions[i][v].content /\ p.steward = versions[i][v].steward
  /\ p.predecessor = versions[i][v].predecessor
  /\ p.active => versions[i][v].active

LEMMA SkillSteps ==
  ASSUME SkillTypeOK, SkillNext
  PROVE  \E i \in Skills \union Features, p \in Published :
           Appends(i, p) \/ \E v \in 1 .. Len(versions[i]) : Rewrites(i, v, p)
<1> USE SkillAssumption DEF SkillTypeOK
<1>0. ASSUME NEW i \in Skills \union Features, NEW v \in 1 .. Len(versions[i])
      PROVE  versions[i] \in Seq(Published) /\ versions[i][v] \in Published
  OBVIOUS
<1>1. ASSUME NEW by \in Accounts, NEW content \in Contents, NEW valid \in BOOLEAN, NEW i \in Skills,
             PublishSkill(by, i, content, valid)
      PROVE  \E p \in Published : Appends(i, p)
  <2> DEFINE before == IF LatestVersion(i) = 0 THEN None ELSE versions[i][LatestVersion(i)].content
             p == [steward |-> by, content |-> content, predecessor |-> before,
                   active |-> TRUE, valid |-> valid]
  <2>1. before \in Contents \union {None}
    BY <1>0 DEF LatestVersion, Published
  <2>2. Store(by, i, content, before, valid)
    BY <1>1 DEF PublishSkill
  <2>3. Len(versions[i]) # 0 => before = versions[i][Len(versions[i])].content
    BY DEF LatestVersion
  <2> HIDE DEF before
  <2>4. p \in Published /\ p.steward = by /\ p.predecessor = before
    BY <2>1 DEF Published
  <2>5. Appends(i, p)
    BY <2>2, <2>3, <2>4 DEF Store, SameSteward, LatestVersion, Appends
  <2> QED
    BY <2>4, <2>5
<1>2. ASSUME NEW by \in Accounts, NEW content \in Contents, NEW valid \in BOOLEAN, NEW i \in Features,
             PublishFeature(by, i, content, valid)
      PROVE  \E p \in Published : Appends(i, p)
  <2> DEFINE p == [steward |-> by, content |-> content, predecessor |-> None,
                   active |-> TRUE, valid |-> valid]
  <2>1. p \in Published /\ p.steward = by
    BY DEF Published
  <2>2. Appends(i, p)
    BY <1>2, <2>1 DEF PublishFeature, Store, SameSteward, LatestVersion, Appends
  <2> QED
    BY <2>1, <2>2
<1>3. ASSUME NEW by \in Accounts, NEW i \in Skills \union Features, Deactivate(by, i)
      PROVE  \E p \in Published, v \in 1 .. Len(versions[i]) : Rewrites(i, v, p)
  <2> DEFINE v == Len(versions[i])
             p == [versions[i][v] EXCEPT !.active = FALSE]
  <2>1. v \in 1 .. Len(versions[i])
    BY <1>3 DEF Deactivate, LatestVersion
  <2>2. versions[i][v] \in Published
    BY <1>0, <2>1
  <2>3. p \in Published /\ p.content = versions[i][v].content /\ p.steward = versions[i][v].steward
        /\ p.predecessor = versions[i][v].predecessor /\ p.active = FALSE
    BY <2>2 DEF Published
  <2>4. versions' = [versions EXCEPT ![i] = [@ EXCEPT ![v] = p]]
    BY <1>3 DEF Deactivate, LatestVersion
  <2>5. Rewrites(i, v, p)
    BY <2>1, <2>3, <2>4 DEF Rewrites
  <2> QED
    BY <2>1, <2>3, <2>5
<1>4. ASSUME NEW by \in Accounts, NEW i \in Skills \union Features, NEW v \in 1 .. MaxVersions,
             NEW valid \in BOOLEAN, SetValidity(by, i, v, valid)
      PROVE  \E p \in Published, w \in 1 .. Len(versions[i]) : Rewrites(i, w, p)
  <2> DEFINE p == [versions[i][v] EXCEPT !.valid = valid]
  <2>1. v \in 1 .. Len(versions[i])
    BY <1>4 DEF SetValidity, LatestVersion
  <2>2. versions[i][v] \in Published
    BY <1>0, <2>1
  <2>3. p \in Published /\ p.content = versions[i][v].content /\ p.steward = versions[i][v].steward
        /\ p.predecessor = versions[i][v].predecessor /\ p.active = versions[i][v].active
    BY <2>2 DEF Published
  <2>4. versions' = [versions EXCEPT ![i] = [@ EXCEPT ![v] = p]]
    BY <1>4 DEF SetValidity, LatestVersion
  <2>5. Rewrites(i, v, p)
    BY <2>1, <2>3, <2>4 DEF Rewrites
  <2> QED
    BY <2>1, <2>3, <2>5
<1> QED
  BY <1>1, <1>2, <1>3, <1>4 DEF SkillNext

(* What the new list of an id holds.                                        *)
LEMMA AppendsList ==
  ASSUME SkillInv, NEW i \in Skills \union Features, NEW p \in Published, Appends(i, p)
  PROVE  /\ SkillTypeOK' /\ Len(versions'[i]) = Len(versions[i]) + 1
         /\ versions'[i][Len(versions[i]) + 1] = p
         /\ \A v \in 1 .. Len(versions[i]) : versions'[i][v] = versions[i][v]
         /\ \A j \in Skills \union Features : j # i => versions'[j] = versions[j]
<1>1. versions[i] \in Seq(Published) /\ versions'[i] = Append(versions[i], p)
  BY DEF SkillInv, SkillTypeOK, Appends
<1> QED
  BY <1>1 DEF SkillInv, SkillTypeOK, Appends

LEMMA RewritesList ==
  ASSUME SkillInv, NEW i \in Skills \union Features, NEW p \in Published,
         NEW v \in 1 .. Len(versions[i]), Rewrites(i, v, p)
  PROVE  /\ SkillTypeOK' /\ Len(versions'[i]) = Len(versions[i])
         /\ versions'[i][v] = p
         /\ \A w \in 1 .. Len(versions[i]) : w # v => versions'[i][w] = versions[i][w]
         /\ \A j \in Skills \union Features : j # i => versions'[j] = versions[j]
<1>1. /\ versions[i] \in Seq(Published) /\ versions'[i] = [versions[i] EXCEPT ![v] = p]
      /\ versions' = [versions EXCEPT ![i] = versions'[i]]
      /\ \A j \in Skills \union Features : j # i => versions'[j] = versions[j]
  BY DEF SkillInv, SkillTypeOK, Rewrites
<1>2. versions'[i] \in [1 .. Len(versions[i]) -> Published] /\ Len(versions[i]) \in Nat
  BY <1>1
<1>3. versions'[i] \in Seq(Published) /\ Len(versions'[i]) = Len(versions[i])
  BY <1>2
<1> QED
  BY <1>1, <1>3, SMTT(40) DEF SkillInv, SkillTypeOK

(* What a step leaves of an id: its old versions, rewritten at most in      *)
(* their flags, and at most one new one.                                    *)
Grows(i) ==
  /\ Len(versions'[i]) \in {Len(versions[i]), Len(versions[i]) + 1}
  /\ \A v \in 1 .. Len(versions[i]) :
       LET old == versions[i][v]  new == versions'[i][v] IN
       /\ new.content = old.content /\ new.steward = old.steward
       /\ new.predecessor = old.predecessor
       /\ new.active => old.active
  /\ Len(versions'[i]) = Len(versions[i]) + 1 /\ Len(versions[i]) # 0 =>
       LET last == versions[i][Len(versions[i])]  new == versions'[i][Len(versions[i]) + 1] IN
       new.steward = last.steward /\ (i \in Skills => new.predecessor = last.content)

LEMMA SkillGrows ==
  ASSUME SkillInv, SkillNext
  PROVE  SkillTypeOK' /\ \A i \in Skills \union Features : Grows(i)
<1>1. PICK i \in Skills \union Features, p \in Published :
        Appends(i, p) \/ \E v \in 1 .. Len(versions[i]) : Rewrites(i, v, p)
  BY SkillSteps DEF SkillInv
<1>2. ASSUME NEW j \in Skills \union Features, versions'[j] = versions[j] PROVE Grows(j)
  BY <1>2 DEF Grows, SkillInv, SkillTypeOK
<1>3. CASE Appends(i, p)
  <2>1. Grows(i)
    BY <1>3, AppendsList DEF Grows, SkillInv, SkillTypeOK, Appends
  <2> QED
    BY <1>2, <1>3, <2>1, AppendsList
<1>4. ASSUME NEW v \in 1 .. Len(versions[i]), Rewrites(i, v, p)
      PROVE  SkillTypeOK' /\ \A j \in Skills \union Features : Grows(j)
  <2>1. Grows(i)
    BY <1>4, RewritesList DEF Grows, SkillInv, SkillTypeOK, Rewrites
  <2> QED
    BY <1>2, <1>4, <2>1, RewritesList
<1> QED
  BY <1>1, <1>3, <1>4

LEMMA SkillStepInv == SkillInv /\ [SkillNext]_skillVars => SkillInv'
<1>0. ASSUME SkillInv, UNCHANGED skillVars PROVE SkillInv'
  <2>1. versions' = versions
    BY <1>0 DEF skillVars
  <2>2. SkillTypeOK' /\ OneSteward'
    BY <1>0, <2>1 DEF SkillInv, SkillTypeOK, OneSteward
  <2>3. Chained'
    BY <1>0, <2>1 DEF SkillInv, Chained
  <2> QED
    BY <2>2, <2>3 DEF SkillInv
<1> SUFFICES ASSUME SkillInv, SkillNext PROVE SkillInv'
  BY <1>0
<1>1. SkillTypeOK' /\ \A i \in Skills \union Features : Grows(i)
  BY SkillGrows
<1>2. \A i \in Skills \union Features :
        /\ Len(versions[i]) \in Nat /\ DOMAIN versions[i] = 1 .. Len(versions[i])
        /\ DOMAIN versions'[i] = 1 .. Len(versions'[i])
  BY <1>1 DEF SkillInv, SkillTypeOK
<1>3. OneSteward'
  <2> SUFFICES ASSUME NEW i \in Skills \union Features, NEW v \in DOMAIN versions'[i], NEW w \in DOMAIN versions'[i]
               PROVE  versions'[i][v].steward = versions'[i][w].steward
    BY DEF OneSteward
  <2>1. ASSUME NEW u \in DOMAIN versions'[i], u \notin DOMAIN versions[i]
        PROVE  u = Len(versions[i]) + 1 /\ Len(versions'[i]) = Len(versions[i]) + 1
    BY <1>1, <1>2, <2>1 DEF Grows
  <2>2. CASE Len(versions[i]) = 0
    BY <1>1, <1>2, <2>1, <2>2
  <2>3. CASE Len(versions[i]) # 0
    <3>1. ASSUME NEW u \in DOMAIN versions'[i]
          PROVE  versions'[i][u].steward = versions[i][Len(versions[i])].steward
      <4>1. CASE u \in DOMAIN versions[i]
        BY <1>1, <1>2, <2>3, <4>1, SMTT(40) DEF Grows, SkillInv, OneSteward
      <4>2. CASE u \notin DOMAIN versions[i]
        BY <1>1, <1>2, <2>1, <2>3, <4>2 DEF Grows
      <4> QED
        BY <4>1, <4>2
    <3> QED
      BY <3>1
  <2> QED
    BY <2>2, <2>3
<1>4. Chained'
  <2> SUFFICES ASSUME NEW i \in Skills, NEW v \in 1 .. Len(versions'[i]) - 1
               PROVE  versions'[i][v + 1].predecessor = versions'[i][v].content
    BY DEF Chained
  <2>1. v \in 1 .. Len(versions[i])
    BY <1>1, <1>2 DEF Grows
  <2>2. CASE v + 1 \in 1 .. Len(versions[i])
    BY <1>1, <1>2, <2>1, <2>2 DEF Grows, SkillInv, Chained
  <2>3. CASE v + 1 \notin 1 .. Len(versions[i])
    <3>1. v = Len(versions[i]) /\ Len(versions'[i]) = Len(versions[i]) + 1
      BY <1>1, <1>2, <2>1, <2>3 DEF Grows
    <3> QED
      BY <1>1, <1>2, <2>1, <3>1 DEF Grows
  <2> QED
    BY <2>2, <2>3
<1> QED
  BY <1>1, <1>3, <1>4 DEF SkillInv

LEMMA SkillInvHolds == SkillSpec => []SkillInv
<1>1. SkillInit => SkillInv
  BY DEF SkillInit, SkillInv, SkillTypeOK, OneSteward, Chained
<1> QED
  BY <1>1, SkillStepInv, PTL DEF SkillSpec

(* The versions of the two registries keep their types.                     *)
THEOREM SkillTypes == SkillSpec => []SkillTypeOK
<1>1. SkillInv => SkillTypeOK
  BY DEF SkillInv
<1> QED
  BY <1>1, SkillInvHolds, PTL

(* What a credential pins as (id, version) stands for ever: content,        *)
(* steward, chain and retirement (publish, deactivate, setValidity).        *)
THEOREM VersionsStand == SkillSpec => PinnedVersionStands
<1> DEFINE Stands ==
      \A i \in Skills \union Features : \A v \in DOMAIN versions[i] :
        LET old == versions[i][v]  new == versions'[i][v] IN
        /\ v \in DOMAIN versions'[i]
        /\ new.content = old.content /\ new.steward = old.steward
        /\ new.active => old.active
        /\ versions'[i][Len(versions'[i])].steward = old.steward
        /\ i \in Skills /\ v < Len(versions'[i]) => versions'[i][v + 1].predecessor = new.content
<1>1. SkillInv /\ SkillInv' /\ [SkillNext]_skillVars => [Stands]_skillVars
  <2> SUFFICES ASSUME SkillInv, SkillInv', SkillNext,
                      NEW i \in Skills \union Features, NEW v \in DOMAIN versions[i]
               PROVE  /\ v \in DOMAIN versions'[i]
                      /\ versions'[i][v].content = versions[i][v].content
                      /\ versions'[i][v].steward = versions[i][v].steward
                      /\ versions'[i][v].active => versions[i][v].active
                      /\ versions'[i][Len(versions'[i])].steward = versions[i][v].steward
                      /\ i \in Skills /\ v < Len(versions'[i]) =>
                           versions'[i][v + 1].predecessor = versions'[i][v].content
    OBVIOUS
  <2>1. Grows(i)
    BY SkillGrows
  <2>2. /\ Len(versions[i]) \in Nat /\ DOMAIN versions[i] = 1 .. Len(versions[i])
        /\ Len(versions'[i]) \in Nat /\ DOMAIN versions'[i] = 1 .. Len(versions'[i])
    BY DEF SkillInv, SkillTypeOK
  <2>3. /\ v \in DOMAIN versions'[i] /\ Len(versions'[i]) \in DOMAIN versions'[i]
        /\ versions'[i][v].content = versions[i][v].content
        /\ versions'[i][v].steward = versions[i][v].steward
        /\ versions'[i][v].active => versions[i][v].active
    BY <2>1, <2>2 DEF Grows
  <2>4. versions'[i][Len(versions'[i])].steward = versions[i][v].steward
    BY <2>3 DEF SkillInv, OneSteward
  <2>5. i \in Skills /\ v < Len(versions'[i]) => versions'[i][v + 1].predecessor = versions'[i][v].content
    BY <2>2 DEF SkillInv, Chained
  <2> QED
    BY <2>3, <2>4, <2>5
<1> QED
  BY <1>1, SkillInvHolds, PTL DEF SkillSpec, PinnedVersionStands

-----------------------------------------------------------------------------
(* Shapes and terms *)

(* The membership table of an enumeration holds what its list holds, and    *)
(* the index of terms lists each registered term once.                      *)
TablesMatch == \A e \in EnumSets : enumContains[e] = ToSet(enumValues[e])

IndexMatches ==
  /\ ToSet(termIds) = DOMAIN terms
  /\ \A i, j \in DOMAIN termIds : termIds[i] = termIds[j] => i = j

OntologyInv == OntologyTypeOK /\ TablesMatch /\ IndexMatches

(* Counting the members up to each one numbers a finite set of naturals     *)
(* from 1 on, without gaps.                                                 *)
LEMMA RankNumbers ==
  ASSUME NEW S \in SUBSET Nat, IsFiniteSet(S)
  PROVE  /\ \A i \in S : Rank(S, i) \in 1 .. Cardinality(S)
         /\ \A i, j \in S : Rank(S, i) = Rank(S, j) => i = j
         /\ \A k \in 1 .. Cardinality(S) : \E i \in S : Rank(S, i) = k
<1> DEFINE Upto(i) == {j \in S : j <= i}
           f == [i \in S |-> Rank(S, i)]
<1>1. \A i \in S : IsFiniteSet(Upto(i)) /\ Cardinality(Upto(i)) \in Nat /\ Cardinality(S) \in Nat
                   /\ Cardinality(Upto(i)) <= Cardinality(S)
  BY FS_Subset, FS_CardinalityType
<1>2. \A i \in S : Cardinality(Upto(i)) # 0
  <2> SUFFICES ASSUME NEW i \in S PROVE Cardinality(Upto(i)) # 0
    OBVIOUS
  <2>1. i \in Upto(i)
    OBVIOUS
  <2> QED
    BY <1>1, <2>1, FS_EmptySet
<1>3. \A i \in S : Rank(S, i) \in 1 .. Cardinality(S)
  BY <1>1, <1>2 DEF Rank
<1>4. ASSUME NEW i \in S, NEW j \in S, i < j PROVE Rank(S, i) # Rank(S, j)
  <2>0. i \in Nat /\ j \in Nat /\ \A k \in S : k \in Nat
    OBVIOUS
  <2>1. Upto(i) \in SUBSET Upto(j)
    <3>1. \A k \in S : k <= i => k <= j
      BY <1>4, <2>0
    <3>2. \A k \in Upto(i) : k \in Upto(j)
      BY <3>1, Zenon
    <3> HIDE DEF Upto
    <3> QED
      BY <3>2
  <2>2. j \in Upto(j) /\ j \notin Upto(i)
    BY <1>4, <2>0
  <2> HIDE DEF Upto
  <2>3. Cardinality(Upto(j)) # Cardinality(Upto(i))
    BY <1>1, <2>1, <2>2, FS_Subset
  <2> QED
    BY <2>3 DEF Rank, Upto
<1>5. \A i, j \in S : Rank(S, i) = Rank(S, j) => i = j
  BY <1>4
<1>6. f \in Injection(S, 1 .. Cardinality(S))
  BY <1>3, <1>5 DEF Injection, IsInjective
<1>7. Cardinality(S) \in Nat /\ IsFiniteSet(1 .. Cardinality(S)) /\ Cardinality(1 .. Cardinality(S)) = Cardinality(S)
  BY FS_CardinalityType, FS_Interval
<1>8. f \in Surjection(S, 1 .. Cardinality(S))
  BY <1>6, <1>7, FS_Injection
<1> QED
  BY <1>3, <1>5, <1>8 DEF Surjection

(* The new terms of a batch: terms that are not registered, each once.      *)
LEMMA NewTermsAreNew ==
  ASSUME NEW ids \in Lists(TermIds)
  PROVE  /\ NewTerms(ids) \in Seq(TermIds)
         /\ \A k \in DOMAIN NewTerms(ids) : NewTerms(ids)[k] \notin DOMAIN terms
         /\ \A k, l \in DOMAIN NewTerms(ids) : NewTerms(ids)[k] = NewTerms(ids)[l] => k = l
<1> DEFINE S == FirstSeen(ids)
           at(k) == CHOOSE i \in S : Rank(S, i) = k
           new == NewTerms(ids)
<1>1. PICK n \in 1 .. MaxListed : ids \in [1 .. n -> TermIds]
  BY DEF Lists
<1>2. S \subseteq 1 .. n /\ n \in Nat
  BY <1>1, OntologyAssumption DEF FirstSeen
<1>3. IsFiniteSet(S) /\ S \in SUBSET Nat /\ Cardinality(S) \in Nat
  <2>1. IsFiniteSet(1 .. n)
    BY <1>2, FS_Interval
  <2> HIDE DEF S
  <2>2. IsFiniteSet(S)
    BY <1>2, <2>1, FS_Subset
  <2>3. Cardinality(S) \in Nat
    BY <2>2, FS_CardinalityType
  <2> QED
    BY <1>2, <2>2, <2>3
<1>4. ASSUME NEW i \in S, NEW j \in S, i < j PROVE ids[i] # ids[j]
  BY <1>2, <1>4 DEF FirstSeen
<1>5. ASSUME NEW i \in S, NEW j \in S, ids[i] = ids[j] PROVE i = j
  BY <1>2, <1>4, <1>5
<1>6. \A i \in S : ids[i] \in TermIds /\ ids[i] \notin DOMAIN terms
  BY <1>1, <1>2 DEF FirstSeen
<1> HIDE DEF S
<1>7. \A k \in 1 .. Cardinality(S) : at(k) \in S /\ Rank(S, at(k)) = k
  BY <1>3, RankNumbers
<1>8. new = [k \in 1 .. Cardinality(S) |-> ids[at(k)]]
  BY DEF NewTerms, S
<1> HIDE DEF at, new
<1>9. new \in [1 .. Cardinality(S) -> TermIds]
  BY <1>6, <1>7, <1>8
<1>10. DOMAIN new = 1 .. Cardinality(S) /\ \A k \in 1 .. Cardinality(S) : new[k] = ids[at(k)]
  BY <1>8
<1>11. new \in Seq(TermIds)
  BY <1>3, <1>9
<1>12. \A k, l \in DOMAIN new : new[k] = new[l] => k = l
  BY <1>5, <1>7, <1>10
<1>13. \A k \in DOMAIN new : new[k] \notin DOMAIN terms
  BY <1>6, <1>7, <1>10
<1> QED
  BY <1>11, <1>12, <1>13 DEF new

(* Registering unregistered terms, each given once, keeps the index.        *)
LEMMA RegisterKeeps ==
  ASSUME OntologyInv, NEW new \in Seq(TermIds), Register(new),
         \A k \in DOMAIN new : new[k] \notin DOMAIN terms,
         \A k, l \in DOMAIN new : new[k] = new[l] => k = l
  PROVE  OntologyInv'
<1> USE DEF OntologyInv, OntologyTypeOK
<1> DEFINE T == DOMAIN terms \union ToSet(new)
<1>1. /\ DOMAIN terms' = T
      /\ \A t \in T : terms'[t] = IF t \in DOMAIN terms THEN terms[t] ELSE TRUE
      /\ termIds' = termIds \o new
      /\ UNCHANGED <<shapes, enumValues, enumContains, attribute, governor>>
  BY DEF Register
<1>2. ToSet(new) \subseteq TermIds
  BY DEF ToSet
<1>3. /\ termIds' \in Seq(TermIds) /\ Len(termIds) \in Nat /\ Len(new) \in Nat
      /\ DOMAIN termIds = 1 .. Len(termIds) /\ DOMAIN new = 1 .. Len(new)
      /\ DOMAIN termIds' = 1 .. Len(termIds) + Len(new)
      /\ \A i \in 1 .. Len(termIds) : termIds'[i] = termIds[i]
      /\ \A i \in 1 .. Len(new) : termIds'[Len(termIds) + i] = new[i]
  BY <1>1
<1>4. \A i \in DOMAIN termIds' : \/ i \in DOMAIN termIds /\ termIds'[i] = termIds[i]
                                 \/ i - Len(termIds) \in DOMAIN new /\ termIds'[i] = new[i - Len(termIds)]
  BY <1>3
<1>5. OntologyTypeOK' /\ TablesMatch'
  <2>1. DOMAIN terms' \subseteq TermIds /\ \A t \in DOMAIN terms' : terms'[t] \in BOOLEAN
    BY <1>1, <1>2
  <2> QED
    BY <1>1, <1>3, <2>1 DEF TablesMatch
<1>6. ToSet(termIds') = T
  <2>1. \A t \in ToSet(termIds') : t \in T
    BY <1>3, <1>4 DEF ToSet, IndexMatches
  <2>2. \A t \in ToSet(termIds) : t \in ToSet(termIds')
    BY <1>3 DEF ToSet
  <2>3. ASSUME NEW k \in DOMAIN new PROVE new[k] \in ToSet(termIds')
    <3>1. Len(termIds) + k \in DOMAIN termIds' /\ termIds'[Len(termIds) + k] = new[k]
      BY <1>3
    <3> QED
      BY <3>1 DEF ToSet
  <2>4. \A t \in ToSet(new) : t \in ToSet(termIds')
    BY <2>3 DEF ToSet
  <2> QED
    BY <2>1, <2>2, <2>4 DEF IndexMatches
<1>7. ASSUME NEW i \in DOMAIN termIds', NEW j \in DOMAIN termIds', termIds'[i] = termIds'[j]
      PROVE  i = j
  <2>1. \A k \in DOMAIN termIds : termIds[k] \in DOMAIN terms
    BY DEF IndexMatches, ToSet
  <2>2. CASE i \in DOMAIN termIds /\ j \in DOMAIN termIds
    BY <1>3, <1>7, <2>2 DEF IndexMatches
  <2>3. CASE i \notin DOMAIN termIds /\ j \notin DOMAIN termIds
    BY <1>3, <1>4, <1>7, <2>3
  <2>4. CASE i \in DOMAIN termIds /\ j \notin DOMAIN termIds
    BY <1>3, <1>4, <1>7, <2>1, <2>4
  <2>5. CASE i \notin DOMAIN termIds /\ j \in DOMAIN termIds
    BY <1>3, <1>4, <1>7, <2>1, <2>5
  <2> QED
    BY <2>2, <2>3, <2>4, <2>5
<1> QED
  BY <1>1, <1>5, <1>6, <1>7 DEF IndexMatches

LEMMA DefineEnumSetKeeps ==
  ASSUME OntologyInv, NEW by \in Accounts, NEW e \in EnumSets, NEW allowed \in Lists(EnumValues),
         DefineEnumSet(by, e, allowed)
  PROVE  OntologyInv'
<1>1. PICK n \in 1 .. MaxListed : allowed \in [1 .. n -> EnumValues]
  BY DEF Lists
<1>2. n \in Nat /\ allowed \in Seq(EnumValues) /\ ToSet(allowed) \subseteq EnumValues
  BY <1>1, OntologyAssumption DEF ToSet
<1>3. Cleared(e) = {}
  BY DEF OntologyInv, TablesMatch, Cleared
<1>4. /\ enumValues' = [enumValues EXCEPT ![e] = allowed]
      /\ enumContains' = [enumContains EXCEPT ![e] = ToSet(allowed)]
      /\ UNCHANGED <<shapes, attribute, terms, termIds, governor>>
  BY <1>3 DEF DefineEnumSet
<1>5. OntologyTypeOK'
  BY <1>2, <1>4 DEF OntologyInv, OntologyTypeOK
<1>6. TablesMatch' /\ IndexMatches'
  BY <1>4 DEF OntologyInv, OntologyTypeOK, TablesMatch, IndexMatches
<1> QED
  BY <1>5, <1>6 DEF OntologyInv

LEMMA SetShapeKeeps ==
  ASSUME OntologyInv, NEW c \in Classes, NEW shape \in Shape, SetShape(c, shape)
  PROVE  OntologyInv'
BY DEF OntologyInv, OntologyTypeOK, TablesMatch, IndexMatches, SetShape

LEMMA OntologyStepInv == OntologyInv /\ [OntologyNext]_ontologyVars => OntologyInv'
<1> SUFFICES ASSUME OntologyInv, [OntologyNext]_ontologyVars PROVE OntologyInv'
  OBVIOUS
<1> USE DEF OntologyInv, OntologyTypeOK
<1>1. CASE UNCHANGED ontologyVars
  BY <1>1 DEF ontologyVars, TablesMatch, IndexMatches
<1>2. ASSUME NEW r \in DOMAIN governor, NEW by \in Accounts, NEW to \in Accounts, TransferGovernor(r, by, to)
      PROVE  OntologyInv'
  BY <1>2 DEF TransferGovernor, TablesMatch, IndexMatches
<1>3. ASSUME NEW by \in Accounts, NEW c \in Classes, NEW props \in Props,
             DefineShape(by, c, props) \/ UpdateShape(by, c, props)
      PROVE  OntologyInv'
  <2>0. props \in SUBSET Constraint
    BY DEF Props, SeqOf, ToSet
  <2>1. [props |-> props, active |-> TRUE] \in Shape
    BY <2>0 DEF Shape
  <2>2. shapes[c] # None => [props |-> props, active |-> shapes[c].active] \in Shape
    BY <2>0 DEF Shape
  <2> QED
    BY <1>3, <2>1, <2>2, SetShapeKeeps DEF DefineShape, UpdateShape
<1>4. ASSUME NEW by \in Accounts, NEW c \in Classes, NEW active \in BOOLEAN, SetShapeActive(by, c, active)
      PROVE  OntologyInv'
  <2>1. shapes[c] # None => [props |-> shapes[c].props, active |-> active] \in Shape
    BY DEF Shape
  <2> QED
    BY <1>4, <2>1, SetShapeKeeps DEF SetShapeActive
<1>5. ASSUME NEW by \in Accounts, NEW t \in TermIds, RegisterTerm(by, t) PROVE OntologyInv'
  <2>1. /\ <<t>> \in Seq(TermIds) /\ DOMAIN <<t>> = {1} /\ <<t>>[1] = t
    OBVIOUS
  <2>2. \A k, l \in DOMAIN <<t>> : <<t>>[k] = <<t>>[l] => k = l
    BY <2>1
  <2>3. \A k \in DOMAIN <<t>> : <<t>>[k] \notin DOMAIN terms
    BY <1>5, <2>1 DEF RegisterTerm
  <2> QED
    BY <1>5, <2>1, <2>2, <2>3, RegisterKeeps DEF RegisterTerm
<1>6. ASSUME NEW by \in Accounts, NEW ids \in Lists(TermIds), RegisterTermBatch(by, ids) PROVE OntologyInv'
  BY <1>6, NewTermsAreNew, RegisterKeeps DEF RegisterTermBatch
<1>7. ASSUME NEW by \in Accounts, NEW t \in TermIds, NEW active \in BOOLEAN, SetTermActive(by, t, active)
      PROVE  OntologyInv'
  BY <1>7 DEF SetTermActive, TablesMatch, IndexMatches
<1>8. ASSUME NEW a \in Attribute \union {None}, SetAttribute(a) PROVE OntologyInv'
  BY <1>8 DEF SetAttribute, TablesMatch, IndexMatches
<1> QED
  BY <1>1, <1>2, <1>3, <1>4, <1>5, <1>6, <1>7, <1>8, DefineEnumSetKeeps DEF OntologyNext

(* A subject with an enumeration for a bytes32 or an array of them          *)
(* validates only with values the enumeration lists, and the index of terms *)
(* lists each registered term once (defineEnumSet, _validate,               *)
(* registerTermBatch).                                                      *)
THEOREM OntologyListsMatch == OntologySpec => [](OntologyTypeOK /\ ListsMatchTables)
<1>1. OntologyInit => OntologyInv
  <2> SUFFICES ASSUME OntologyInit PROVE OntologyInv
    OBVIOUS
  <2>1. DOMAIN terms = {} /\ DOMAIN termIds = {} /\ termIds \in Seq(TermIds)
    BY DEF OntologyInit
  <2>2. TablesMatch /\ IndexMatches
    BY <2>1 DEF OntologyInit, TablesMatch, IndexMatches, ToSet
  <2>3. OntologyTypeOK
    BY <2>1 DEF OntologyInit, OntologyTypeOK
  <2> QED
    BY <2>2, <2>3 DEF OntologyInv
<1>2. OntologyInv => OntologyTypeOK /\ ListsMatchTables
  <2> SUFFICES ASSUME OntologyInv PROVE ListsMatchTables
    BY DEF OntologyInv
  <2>1. ASSUME NEW c \in Classes, Validates(c), NEW p \in shapes[c].props, attribute # None, LooksUp(p)
        PROVE  attribute.values \subseteq ToSet(enumValues[p.enum])
    <3>1. shapes[c] \in Shape /\ p \in Constraint
      BY <2>1 DEF Validates, OntologyInv, OntologyTypeOK, Shape
    <3>2. p.enum \in EnumSets
      BY <2>1, <3>1 DEF Constraint, LooksUp
    <3> QED
      BY <2>1, <3>2 DEF Validates, OntologyInv, TablesMatch
  <2> QED
    BY <2>1 DEF OntologyInv, IndexMatches, ListsMatchTables
<1> QED
  BY <1>1, <1>2, OntologyStepInv, PTL DEF OntologySpec

-----------------------------------------------------------------------------
(* The vault *)

(* A row is sealed for the principal it is kept under, a call that seals    *)
(* has something to seal, and an answer fits the call it answers.           *)
RowsAreOwn == \A k \in Principals \X Resources : objects[k] # Null => objects[k].object.owner = k[1]
SealsData == \A c \in VaultCalls : call[c] # Null /\ call[c].at = "seal" => call[c].data \in Payloads
AnswersFit ==
  \A c \in VaultCalls : answer[c] # Null =>
    /\ call[c] # Null
    /\ answer[c].object # Null => answer[c].object.owner = call[c].principal
    /\ answer[c].fields = ProjectFields(call[c].fields)

VaultInv == VaultTypeOK /\ RowsAreOwn /\ SealsData /\ AnswersFit

(* A call that begins has no answer yet.                                    *)
LEMMA BeginKeeps ==
  ASSUME VaultInv, NEW c \in VaultCalls, NEW at \in {"audit", "row", "seed", "seal", "done"},
         NEW p \in Principals, NEW r \in Resources, NEW f \in SUBSET Fields,
         NEW data \in Payloads \union {Null}, Begin(c, at, p, r, f, data),
         at = "seal" => data \in Payloads, UNCHANGED answer
  PROVE  call' \in [VaultCalls -> VaultCall \union {Null}] /\ SealsData' /\ AnswersFit'
<1> DEFINE new == [at |-> at, principal |-> p, resource |-> r, fields |-> f, data |-> data]
<1>1. new \in VaultCall /\ new # Null /\ new.at = at /\ new.data = data
  BY VaultAssumption DEF VaultCall
<1>2. call' = [call EXCEPT ![c] = new] /\ call[c] = Null
  BY DEF Begin
<1> HIDE DEF new
<1> QED
  BY <1>1, <1>2 DEF VaultInv, VaultTypeOK, SealsData, AnswersFit

(* Moving a call on changes neither its principal nor its fields.           *)
LEMMA GoesKeeps ==
  ASSUME VaultInv, NEW c \in VaultCalls, call[c] # Null, NEW at \in {"row", "seed", "done"}, Goes(c, at)
  PROVE  /\ call' \in [VaultCalls -> VaultCall \union {Null}] /\ SealsData'
         /\ \A b \in VaultCalls :
              /\ call'[b] = Null <=> call[b] = Null
              /\ call[b] # Null => call'[b].principal = call[b].principal /\ call'[b].fields = call[b].fields
<1> DEFINE new == [call[c] EXCEPT !.at = at]
<1>1. call[c] \in VaultCall
  BY DEF VaultInv, VaultTypeOK
<1>2. new \in VaultCall /\ new.at = at /\ new.principal = call[c].principal /\ new.fields = call[c].fields
  BY <1>1 DEF VaultCall
<1>3. new # Null
  BY <1>2, VaultAssumption
<1>4. call' = [call EXCEPT ![c] = new]
  BY DEF Goes
<1> HIDE DEF new
<1> QED
  BY <1>2, <1>3, <1>4 DEF VaultInv, VaultTypeOK, SealsData

LEMMA CallKey ==
  ASSUME VaultInv, NEW c \in VaultCalls, call[c] # Null
  PROVE  /\ KeyOf(c) \in Principals \X Resources /\ KeyOf(c)[1] = call[c].principal
         /\ call[c].principal \in Principals /\ call[c].fields \in SUBSET Fields
<1>1. call[c] \in VaultCall
  BY DEF VaultInv, VaultTypeOK
<1> QED
  BY <1>1 DEF KeyOf, RowKey, VaultCall

LEMMA SealKeeps ==
  ASSUME VaultInv, NEW k \in Principals \X Resources, NEW data \in Payloads \union {"seed"},
         Seal(k, k[1], data)
  PROVE  objects' \in [Principals \X Resources -> VaultRow \union {Null}] /\ RowsAreOwn'
<1> DEFINE o == [owner |-> k[1], data |-> data]
           row == [object |-> o, deleted |-> FALSE]
<1>1. o \in Object /\ o.owner = k[1]
  BY DEF Object
<1> HIDE DEF o
<1>2. row \in VaultRow /\ row.object = o
  BY <1>1 DEF VaultRow
<1>3. objects' = [objects EXCEPT ![k] = row]
  BY DEF Seal, o
<1> HIDE DEF row
<1> QED
  BY <1>1, <1>2, <1>3 DEF VaultInv, VaultTypeOK, RowsAreOwn

(* An answer with an object of the caller, or with none.                    *)
LEMMA AnswersKeep ==
  ASSUME VaultInv, NEW c \in VaultCalls, call[c] # Null, NEW o \in Object \union {Null},
         o # Null => o.owner = call[c].principal, Answers(c, o), Goes(c, "done")
  PROVE  answer' \in [VaultCalls -> Answer \union {Null}] /\ AnswersFit'
<1> DEFINE new == [object |-> o, fields |-> ProjectFields(call[c].fields)]
<1>1. new \in Answer /\ new.object = o /\ new.fields = ProjectFields(call[c].fields)
  BY CallKey DEF Answer, ProjectFields
<1>2. answer' = [answer EXCEPT ![c] = new]
  BY DEF Answers
<1>3. \A b \in VaultCalls :
        /\ call'[b] = Null <=> call[b] = Null
        /\ call[b] # Null => call'[b].principal = call[b].principal /\ call'[b].fields = call[b].fields
  BY GoesKeeps
<1> HIDE DEF new
<1> QED
  BY <1>1, <1>2, <1>3 DEF VaultInv, VaultTypeOK, AnswersFit

LEMMA ReadsKeep ==
  ASSUME VaultInv, NEW c \in VaultCalls,
         RecordRequiredRelease(c) \/ VaultRead(c) \/ SealSeed(c) \/ SealRecord(c)
  PROVE  VaultInv'
<1> USE DEF VaultInv, VaultTypeOK
<1>1. CASE RecordRequiredRelease(c)
  <2>1. call[c] # Null /\ Goes(c, "row") /\ UNCHANGED <<objects, answer>> /\ released' \subseteq VaultCalls
    BY <1>1 DEF RecordRequiredRelease
  <2> QED
    BY <2>1, GoesKeeps DEF RowsAreOwn, AnswersFit
<1>2. CASE VaultRead(c)
  <2> DEFINE o == GetVaultObjectRow(KeyOf(c))
  <2>1. call[c] # Null /\ UNCHANGED <<objects, released>>
    BY <1>2 DEF VaultRead
  <2>2. o \in Object \union {Null} /\ (o # Null => o.owner = call[c].principal)
    <3>1. objects[KeyOf(c)] # Null =>
            objects[KeyOf(c)].object \in Object /\ objects[KeyOf(c)].object.owner = call[c].principal
      BY <2>1, CallKey DEF RowsAreOwn, VaultRow
    <3> QED
      BY <3>1 DEF GetVaultObjectRow
  <2>3. CASE o = Null /\ Seedable(call[c].resource)
    BY <1>2, <2>1, <2>3, GoesKeeps DEF VaultRead, RowsAreOwn, AnswersFit
  <2>4. CASE ~(o = Null /\ Seedable(call[c].resource))
    <3>1. Goes(c, "done") /\ Answers(c, o)
      BY <1>2, <2>4 DEF VaultRead
    <3> HIDE DEF o
    <3> QED
      BY <2>1, <2>2, <3>1, GoesKeeps, AnswersKeep DEF RowsAreOwn
  <2> QED
    BY <2>3, <2>4
<1>3. CASE SealSeed(c)
  <2> DEFINE o == [owner |-> call[c].principal, data |-> "seed"]
  <2>1. /\ call[c] # Null /\ Seal(KeyOf(c), call[c].principal, "seed") /\ Answers(c, o)
        /\ Goes(c, "done") /\ UNCHANGED released
    BY <1>3 DEF SealSeed
  <2>2. o \in Object /\ o.owner = call[c].principal
    BY <2>1, CallKey DEF Object
  <2> HIDE DEF o
  <2>3. objects' \in [Principals \X Resources -> VaultRow \union {Null}] /\ RowsAreOwn'
    BY <2>1, CallKey, SealKeeps
  <2> QED
    BY <2>1, <2>2, <2>3, GoesKeeps, AnswersKeep
<1>4. CASE SealRecord(c)
  <2>1. /\ call[c] # Null /\ Seal(KeyOf(c), call[c].principal, call[c].data) /\ call[c].data \in Payloads
        /\ Goes(c, "done") /\ UNCHANGED <<answer, released>>
    BY <1>4 DEF SealRecord, SealsData
  <2>2. objects' \in [Principals \X Resources -> VaultRow \union {Null}] /\ RowsAreOwn'
    BY <2>1, CallKey, SealKeeps
  <2> QED
    BY <2>1, <2>2, GoesKeeps DEF AnswersFit
<1> QED
  BY <1>1, <1>2, <1>3, <1>4

LEMMA VaultStepInv == VaultInv /\ [VaultNext]_vaultVars => VaultInv'
<1> SUFFICES ASSUME VaultInv, [VaultNext]_vaultVars PROVE VaultInv'
  OBVIOUS
<1> USE DEF VaultInv, VaultTypeOK, Resources
<1>1. CASE UNCHANGED vaultVars
  BY <1>1 DEF vaultVars, RowsAreOwn, SealsData, AnswersFit
<1>2. ASSUME NEW c \in VaultCalls, NEW p \in Principals, NEW s \in Sensitive, NEW f \in SUBSET Fields,
             ReadSensitive(c, p, s, f)
      PROVE  VaultInv'
  BY <1>2, BeginKeeps DEF ReadSensitive, RowsAreOwn
<1>3. ASSUME NEW c \in VaultCalls, NEW p \in Principals, NEW t \in RecordTypes, GetVaultRecord(c, p, t)
      PROVE  VaultInv'
  BY <1>3, BeginKeeps DEF GetVaultRecord, RowsAreOwn
<1>4. ASSUME NEW c \in VaultCalls, NEW p \in Principals, NEW t \in RecordTypes, NEW data \in Payloads,
             SetVaultRecord(c, p, t, data)
      PROVE  VaultInv'
  BY <1>4, BeginKeeps DEF SetVaultRecord, RowsAreOwn
<1>5. ASSUME NEW c \in VaultCalls, NEW p \in Principals, NEW t \in RecordTypes, DeleteVaultRecord(c, p, t)
      PROVE  VaultInv'
  <2> DEFINE k == RowKey(p, t)
  <2>1. k \in Principals \X Resources
    BY DEF RowKey
  <2>2. /\ Begin(c, "done", p, t, {}, Null) /\ UNCHANGED <<answer, released>>
        /\ objects' = IF objects[k] = Null THEN objects ELSE [objects EXCEPT ![k].deleted = TRUE]
    BY <1>5 DEF DeleteVaultRecord
  <2> HIDE DEF k
  <2>3. objects' \in [Principals \X Resources -> VaultRow \union {Null}] /\ RowsAreOwn'
    <3>1. CASE objects[k] = Null
      BY <2>2, <3>1 DEF RowsAreOwn
    <3>2. CASE objects[k] # Null
      <4> DEFINE row == [objects[k] EXCEPT !.deleted = TRUE]
      <4>1. objects[k] \in VaultRow
        BY <2>1, <3>2
      <4>2. row \in VaultRow /\ row.object = objects[k].object
        BY <4>1 DEF VaultRow
      <4>3. objects' = [objects EXCEPT ![k] = row]
        BY <2>2, <3>2
      <4> HIDE DEF row
      <4> QED
        BY <2>1, <3>2, <4>2, <4>3 DEF RowsAreOwn
    <3> QED
      BY <3>1, <3>2
  <2> QED
    BY <2>2, <2>3, BeginKeeps
<1> QED
  BY <1>1, <1>2, <1>3, <1>4, <1>5, ReadsKeep DEF VaultNext

(* An agent reads its own namespace and no field it did not ask for,        *)
(* whatever other calls do meanwhile (readSensitive, createDemoVault).      *)
THEOREM VaultKeepsNamespaces == VaultSpec => [](VaultTypeOK /\ OwnNamespace)
<1>1. VaultInit => VaultInv
  BY DEF VaultInit, VaultInv, VaultTypeOK, RowsAreOwn, SealsData, AnswersFit
<1>2. VaultInv => VaultTypeOK /\ OwnNamespace
  BY DEF VaultInv, AnswersFit, ProjectFields, OwnNamespace
<1> QED
  BY <1>1, <1>2, VaultStepInv, PTL DEF VaultSpec
=============================================================================
