------------------------ MODULE AttestationRegistry ------------------------
(***************************************************************************)
(* AttestationRegistry: associations a holder publishes about itself and    *)
(* joint attestations two parties consent to.  A uid is the hash of the     *)
(* whole request, the salt included; the digests the issuer and the parties *)
(* sign do not hold the salt.                                               *)
(***************************************************************************)
EXTENDS BlockContext

CONSTANTS
  Credentials,  \* credentialHash with its type, schema and issuer
  Refs,         \* refUID, the agreement a joint attestation refers to
  Salts,
  MaxIssued, MaxConsents  \* bounds on the contents an issuer or a party signs

(* The parts of a request that its signatures bind; party2 and ref are None *)
(* for an association.                                                      *)
Association == [subject : Accounts, party2 : {None}, cred : Credentials, ref : {None}]
Joint == [subject : Accounts, party2 : Accounts, cred : Credentials, ref : Refs]
Content == Association \union Joint
Uids == [content : Content, salt : Salts]

VARIABLES
  attested,    \* _attestations: the uids with a row
  revokedUids, \* those with a revocationEpochBucket
  issuerSigs,  \* the contents the credential's issuer has signed
  consents     \* the joint contents each party has signed

attestationVars == <<attested, revokedUids, issuerSigs, consents>>

AttestationInit ==
  /\ attested = {}
  /\ revokedUids = {}
  /\ issuerSigs = {}
  /\ consents = [x \in Accounts |-> {}]

-----------------------------------------------------------------------------

SignContent(c) ==
  /\ Cardinality(issuerSigs) < MaxIssued
  /\ issuerSigs' = issuerSigs \union {c}
  /\ UNCHANGED <<attested, revokedUids, consents>>

Consent(x, c) ==
  /\ Cardinality(consents[x]) < MaxConsents
  /\ consents' = [consents EXCEPT ![x] = @ \union {c}]
  /\ UNCHANGED <<attested, revokedUids, issuerSigs>>

(* assertAssociation takes no consent of the subject, only the issuer's     *)
(* signature.                                                               *)
AssertAssociation(u) ==
  /\ u.content.party2 = None
  /\ u.content \in issuerSigs
  /\ u \notin attested
  /\ attested' = attested \union {u}
  /\ UNCHANGED <<revokedUids, issuerSigs, consents>>

BothConsent_First(c) == c \in consents[c.subject]
BothConsent(c) == c \in consents[c.subject] /\ c \in consents[c.party2]

AssertJointAgreement(u) ==
  /\ u.content.party2 # None
  /\ u.content.subject # u.content.party2
  /\ u.content \in issuerSigs
  /\ BothConsent(u.content)
  /\ u \notin attested
  /\ attested' = attested \union {u}
  /\ UNCHANGED <<revokedUids, issuerSigs, consents>>

MayRevoke(u, x) ==
  \/ x = u.content.subject
  \/ u.content.party2 # None /\ x = u.content.party2

(* revokeOwnAssociation and revokeOwnJointAgreement                         *)
RevokeOwn(u, x) ==
  /\ u \in attested
  /\ MayRevoke(u, x)
  /\ u \notin revokedUids
  /\ revokedUids' = revokedUids \union {u}
  /\ UNCHANGED <<attested, issuerSigs, consents>>

IsValid(u) == u \in attested /\ u \notin revokedUids

AttestationNext ==
  \/ \E c \in Content : SignContent(c)
  \/ \E x \in Accounts, c \in Joint : Consent(x, c)
  \/ \E u \in Uids : AssertAssociation(u) \/ AssertJointAgreement(u)
  \/ \E u \in Uids, x \in Accounts : RevokeOwn(u, x)

AttestationSpec == AttestationInit /\ [][AttestationNext]_attestationVars

-----------------------------------------------------------------------------
(* Properties *)

AttestationTypeOK ==
  /\ attested \subseteq Uids
  /\ revokedUids \subseteq attested
  /\ issuerSigs \subseteq Content
  /\ consents \in [Accounts -> SUBSET Joint]

(* JointNeedsBoth: a valid joint attestation names two different accounts   *)
(* and both of them, and the issuer, signed for these parties, this         *)
(* credential and this agreement (assertJointAgreement).                    *)
JointNeedsBoth ==
  \A u \in Uids : IsValid(u) /\ u.content.party2 # None =>
    /\ u.content.subject # u.content.party2
    /\ u.content \in issuerSigs
    /\ \A x \in {u.content.subject, u.content.party2} : u.content \in consents[x]

=============================================================================
