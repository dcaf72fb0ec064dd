---------------------------- MODULE GoogleLogin ----------------------------
(***************************************************************************)
(* Signing in with Google: the callback, the rotation of the KMS home and   *)
(* the append-only facet index, all read and written in separate calls to   *)
(* the key-value store.  Wallet and passkey logins and the step-up provide  *)
(* the custody-grade sessions that authorise links.                         *)
(***************************************************************************)
EXTENDS Naturals, Sequences, SequencesExt

CONSTANTS
  Subjects,     \* Google accounts (iss, sub)
  WalletAgents, \* agents whose custodian is a wallet or a passkey
  Logins,       \* callback and rotate requests
  MaxRotation,  \* bound on the rotation
  NoLogin

Home_AnySubject(s, n) == [subject |-> CHOOSE x \in Subjects : TRUE, rotation |-> n]
Home_NextRotation(s, n) == [subject |-> s, rotation |-> n + 1]
Home(s, n) == [subject |-> s, rotation |-> n]
Homes == [subject : Subjects, rotation : 0 .. MaxRotation]
Agents == Homes \union WalletAgents

ASSUME GoogleAssumption ==
  /\ MaxRotation \in Nat
  /\ Homes \intersect WalletAgents = {}

Session == [agent : Agents, grade : {"custody", "login"}, google : Subjects \union {NoLogin}]
Login ==
  [kind : {"home", "relying", "link"}, subject : Subjects, pc : {"begin", "record", "put", "mint", "done"},
   agent : Agents \union {NoLogin}, links : Seq(Agents)]
    \union [kind : {"rotate"}, subject : Subjects, pc : {"put", "done"}, next : 1 .. MaxRotation + 1]

VARIABLES
  rotation,  \* rotation:<iss>#<sub>
  facets,    \* facet:oidc:<iss>#<sub>
  logins,
  sessions,  \* history: the sessions minted
  approved   \* history: the links a custody-grade session authorised

googleVars == <<rotation, facets, logins, sessions, approved>>

GoogleInit ==
  /\ rotation = [s \in Subjects |-> 0]
  /\ facets = [s \in Subjects |-> <<>>]
  /\ logins = [l \in Logins |-> NoLogin]
  /\ sessions = {}
  /\ approved = {}

AtLogin(l, pc) == logins[l] # NoLogin /\ logins[l].pc = pc

-----------------------------------------------------------------------------
(* Sessions from elsewhere *)

(* /connect/siwe and /connect/passkey                                       *)
WalletLogin(a) ==
  /\ sessions' = sessions \union {[agent |-> a, grade |-> "custody", google |-> NoLogin]}
  /\ UNCHANGED <<rotation, facets, logins, approved>>

(* /connect/stepup: the agent is the presented session's; that the wallet   *)
(* or passkey is a custodian of it is the environment's choice.             *)
StepUp(t) ==
  /\ t \in sessions
  /\ sessions' = sessions \union {[agent |-> t.agent, grade |-> "custody", google |-> NoLogin]}
  /\ UNCHANGED <<rotation, facets, logins, approved>>

-----------------------------------------------------------------------------
(* /oidc/google/callback *)

Begin(l, kind, s) ==
  /\ logins[l] = NoLogin
  /\ logins' = [logins EXCEPT ![l] =
       [kind |-> kind, subject |-> s, pc |-> "begin", agent |-> NoLogin, links |-> <<>>]]
  /\ UNCHANGED <<rotation, facets, sessions, approved>>

(* readRotation and the derivation of the home                              *)
DeriveHome(l) ==
  LET q == logins[l] IN
  /\ AtLogin(l, "begin") /\ q.kind = "home"
  /\ logins' = [logins EXCEPT ![l].agent = Home(q.subject, rotation[q.subject]), ![l].pc = "record"]
  /\ UNCHANGED <<rotation, facets, sessions, approved>>

(* The custody service cannot be reached: the facet is used instead.        *)
FallBack(l) ==
  /\ AtLogin(l, "begin") /\ logins[l].kind = "home"
  /\ logins' = [logins EXCEPT ![l].kind = "relying"]
  /\ UNCHANGED <<rotation, facets, sessions, approved>>

MayLink(t) == t.grade = "custody"

AuthoriseLink(l, t) ==
  LET q == logins[l] IN
  /\ AtLogin(l, "begin") /\ q.kind = "link"
  /\ t \in sessions
  /\ IF MayLink(t)
     THEN /\ logins' = [logins EXCEPT ![l].agent = t.agent, ![l].pc = "record"]
          /\ approved' = IF t.grade = "custody" THEN approved \union {<<q.subject, t.agent>>}
                                                ELSE approved
     ELSE /\ logins' = [logins EXCEPT ![l].pc = "done"]
          /\ UNCHANGED approved
  /\ UNCHANGED <<rotation, facets, sessions>>

(* appendLink: the read ...                                                 *)
ReadLinks(l) ==
  LET q == logins[l] IN
  /\ AtLogin(l, "record")
  /\ logins' = [logins EXCEPT ![l].links = facets[q.subject],
                              ![l].pc = IF Contains(facets[q.subject], q.agent) THEN "mint" ELSE "put"]
  /\ UNCHANGED <<rotation, facets, sessions, approved>>

(* ... and the write of the list read, with the new link at its end.        *)
PutLinks(l) ==
  LET q == logins[l] IN
  /\ AtLogin(l, "put") /\ q.kind # "rotate"
  /\ facets' = [facets EXCEPT ![q.subject] = Append(q.links, q.agent)]
  /\ logins' = [logins EXCEPT ![l].pc = "mint"]
  /\ UNCHANGED <<rotation, sessions, approved>>

Mint(l) ==
  LET q == logins[l] IN
  /\ AtLogin(l, "mint")
  /\ sessions' = IF q.kind = "home"
                 THEN sessions \union {[agent |-> q.agent, grade |-> "custody", google |-> q.subject]}
                 ELSE sessions
  /\ logins' = [logins EXCEPT ![l].pc = "done"]
  /\ UNCHANGED <<rotation, facets, approved>>

(* readOidcFacet: the first link of the list, or the bootstrap notice.      *)
ReadOidcFacet(s) == Head(facets[s])

LoginByFacet(l) ==
  LET s == logins[l].subject IN
  /\ AtLogin(l, "begin") /\ logins[l].kind = "relying"
  /\ sessions' = IF facets[s] = <<>> THEN sessions
                 ELSE sessions \union {[agent |-> ReadOidcFacet(s), grade |-> "login", google |-> s]}
  /\ logins' = [logins EXCEPT ![l].pc = "done"]
  /\ UNCHANGED <<rotation, facets, approved>>

-----------------------------------------------------------------------------
(* /oidc/google/rotate *)

MayRotate(t) == t.google # NoLogin /\ t.grade = "custody"

BeginRotate(l, t) ==
  /\ logins[l] = NoLogin
  /\ t \in sessions /\ MayRotate(t)
  /\ rotation[t.google] < MaxRotation
  /\ logins' = [logins EXCEPT ![l] =
       [kind |-> "rotate", subject |-> t.google, pc |-> "put", next |-> rotation[t.google] + 1]]
  /\ UNCHANGED <<rotation, facets, sessions, approved>>

PutRotation(l) ==
  LET q == logins[l] IN
  /\ AtLogin(l, "put") /\ q.kind = "rotate"
  /\ rotation' = [rotation EXCEPT ![q.subject] = q.next]
  /\ logins' = [logins EXCEPT ![l].pc = "done"]
  /\ UNCHANGED <<facets, sessions, approved>>

GoogleNext ==
  \/ \E a \in WalletAgents : WalletLogin(a)
  \/ \E t \in sessions : StepUp(t)
  \/ \E l \in Logins :
       \/ \E kind \in {"home", "relying", "link"}, s \in Subjects : Begin(l, kind, s)
       \/ \E t \in sessions : AuthoriseLink(l, t) \/ BeginRotate(l, t)
       \/ DeriveHome(l) \/ FallBack(l) \/ ReadLinks(l) \/ PutLinks(l) \/ Mint(l)
       \/ LoginByFacet(l) \/ PutRotation(l)

GoogleSpec == GoogleInit /\ [][GoogleNext]_googleVars

-----------------------------------------------------------------------------
(* Properties *)

GoogleTypeOK ==
  /\ rotation \in [Subjects -> 0 .. MaxRotation]
  /\ facets \in [Subjects -> Seq(Agents)]
  /\ logins \in [Logins -> Login \union {NoLogin}]
  /\ sessions \subseteq Session
  /\ approved \subseteq Subjects \X Agents

(* LoginIsApproved: a Google account signs in to an agent only when the     *)
(* agent is one of its own derived homes or a custody-grade session of that *)
(* agent approved the link, whichever callbacks, links, step-ups and        *)
(* rotations overlap on the index (callback, stepup, kv-indexer).           *)
LoginIsApproved ==
  \A t \in sessions : t.google # NoLogin =>
    \/ t.agent \in Homes /\ t.agent.subject = t.google
    \/ t.grade = "login" /\ <<t.google, t.agent>> \in approved

=============================================================================
