----------------------------- MODULE OidcBroker -----------------------------
(***************************************************************************)
(* The Connect broker's OIDC flow: /oidc/authorize-grant, /oidc/grant and   *)
(* the grants of /token.  Its state is a key-value store whose get, put and *)
(* delete are separate awaited calls, so requests interleave between them;  *)
(* entries also vanish when their time to live ends.  The store is taken to *)
(* be consistent.                                                           *)
(*                                                                          *)
(* A PKCE challenge and its verifier are one value.  A grant request writes *)
(* its code under a random key, here the request itself.  The redirect URI  *)
(* is part of the client.                                                   *)
(***************************************************************************)
EXTENDS Naturals, FiniteSets

CONSTANTS
  Clients, Challenges, GrantIds,
  Delegations, DelegateIn,  \* delegations and what they say
  Delegates, DelegateOf,  \* the registry: clients may share a delegate
  Orgs,
  Requests,               \* request instances
  None

ASSUME OidcAssumption ==
  /\ DelegateOf \in [Clients -> Delegates]
  /\ DelegateIn \in [Delegations -> Delegates]
  /\ GrantIds \intersect Requests = {}
  /\ None \notin Clients \union Challenges \union GrantIds \union Delegations
                 \union Orgs \union Requests

Grant == [client : Clients, challenge : Challenges]
Code == [client : Clients, challenge : Challenges, deleg : Delegations]
Request ==
  [pc : {"read", "verify", "bind", "link", "readIndex", "putIndex", "putCode"},
   kind : {"grant"}, key : GrantIds, deleg : Delegations, org : Orgs \union {None},
   raw : Grant \union {None}, seen : SUBSET Orgs, late : BOOLEAN]
    \union
  [pc : {"read"}, kind : {"exchange"}, key : Requests, client : Clients,
   verifier : Challenges, raw : Code \union {None}, late : BOOLEAN]
    \union
  [pc : {"verify", "readBinding", "putBinding"}, kind : {"reauth"},
   deleg : Delegations, client : Clients]
    \union
  [pc : {"done"}, kind : {"answered"}]

ASSUME RecordsAssumption == None \notin Grant \union Code \union Request

VARIABLES
  grants,    \* oidc-grant:<id>
  codes,     \* oidc:<code>
  binding,   \* oidc-deleg:<digest>
  links,     \* related:<person>:<org>
  index,     \* related-idx:<person>
  live,      \* chain: the delegations that verify now
  requests,  \* the requests begun, None before
  allowed,   \* history: what the home authorised, per grant id
  signed,    \* history: the delegations ever live
  enrolled,  \* history: the (delegation, client) pairs granted
  answered,  \* history: the keys some request has been answered for
  returned,  \* history: the codes handed out
  delivered, \* history: the id_tokens handed out
  reused     \* history: a request was served for a key already answered for

kvVars == <<grants, codes, binding, links, index>>
oidcHistory == <<allowed, signed, enrolled, answered, returned, delivered, reused>>
oidcVars == <<kvVars, live, requests, oidcHistory>>

OidcInit ==
  /\ grants = [g \in GrantIds |-> None]
  /\ codes = [r \in Requests |-> None]
  /\ binding = [d \in Delegations |-> None]
  /\ links = {} /\ index = {}
  /\ live = {}
  /\ requests = [r \in Requests |-> None]
  /\ allowed = [g \in GrantIds |-> None]
  /\ signed = {} /\ enrolled = {} /\ answered = {} /\ returned = {} /\ delivered = {}
  /\ reused = FALSE

At(r, kind, pc) == requests[r] # None /\ requests[r].kind = kind /\ requests[r].pc = pc
Goto(r, pc) ==
  requests' = [requests EXCEPT ![r] =
    IF pc = "done" THEN [kind |-> "answered", pc |-> "done"] ELSE [@ EXCEPT !.pc = pc]]

-----------------------------------------------------------------------------
(* The chain, as verifyDelegation reads it: ERC-1271 and the time window.   *)

Sign(d) ==
  /\ live' = live \union {d}
  /\ signed' = signed \union {d}
  /\ UNCHANGED <<kvVars, requests, allowed, enrolled, answered, returned, delivered, reused>>

Lapse(d) ==
  /\ live' = live \ {d}
  /\ UNCHANGED <<kvVars, requests, oidcHistory>>

(* A time to live ends.                                                     *)
Expire ==
  /\ \/ \E g \in GrantIds : grants' = [grants EXCEPT ![g] = None] /\ UNCHANGED <<codes, binding>>
     \/ \E c \in Requests : codes' = [codes EXCEPT ![c] = None] /\ UNCHANGED <<grants, binding>>
     \/ \E d \in Delegations : binding' = [binding EXCEPT ![d] = None] /\ UNCHANGED <<grants, codes>>
  /\ UNCHANGED <<links, index, live, requests, oidcHistory>>

-----------------------------------------------------------------------------
(* /oidc/authorize-grant; the delegate is looked up in the registry again   *)
(* below, which does not change while the broker runs.                      *)

AuthorizeGrant(g, client, challenge) ==
  LET grant == [client |-> client, challenge |-> challenge] IN
  /\ allowed[g] = None
  /\ grants' = [grants EXCEPT ![g] = grant]
  /\ allowed' = [allowed EXCEPT ![g] = grant]
  /\ UNCHANGED <<codes, binding, links, index, live, requests, signed, enrolled, answered, returned, delivered, reused>>

-----------------------------------------------------------------------------
(* /oidc/grant; an id is random, so it is presented after it was returned.  *)

BeginGrant(r, g, d, o) ==
  /\ requests[r] = None
  /\ allowed[g] # None
  /\ requests' = [requests EXCEPT ![r] =
       [pc |-> "read", kind |-> "grant", key |-> g, deleg |-> d, org |-> o,
        raw |-> grants[g], seen |-> {}, late |-> g \in answered]]
  /\ UNCHANGED <<kvVars, live, oidcHistory>>

DelegateMatches(d, client) == DelegateIn[d] = DelegateOf[client]

(* The delete comes before any check.                                       *)
DeleteGrant(r) ==
  LET q == requests[r]
      ok == q.raw # None /\ DelegateMatches(q.deleg, q.raw.client)
  IN
  /\ At(r, "grant", "read")
  /\ grants' = [grants EXCEPT ![q.key] = None]
  /\ Goto(r, IF ok THEN "verify" ELSE "done")
  /\ answered' = IF ok THEN answered ELSE answered \union {q.key}
  /\ UNCHANGED <<codes, binding, links, index, live, allowed, signed, enrolled, returned, delivered, reused>>

VerifyGrant(r) ==
  LET q == requests[r] IN
  /\ At(r, "grant", "verify")
  /\ Goto(r, IF q.deleg \in live THEN "bind" ELSE "done")
  /\ answered' = IF q.deleg \in live THEN answered ELSE answered \union {q.key}
  /\ UNCHANGED <<kvVars, live, allowed, signed, enrolled, returned, delivered, reused>>

Bind(r) ==
  LET q == requests[r] IN
  /\ At(r, "grant", "bind")
  /\ binding' = [binding EXCEPT ![q.deleg] = q.raw.client]
  /\ enrolled' = enrolled \union {<<q.deleg, q.raw.client>>}
  /\ Goto(r, IF q.org = None THEN "putCode" ELSE "link")
  /\ UNCHANGED <<grants, codes, links, index, live, allowed, signed, answered, returned, delivered, reused>>

Link(r) ==
  /\ At(r, "grant", "link")
  /\ links' = links \union {requests[r].org}
  /\ Goto(r, "readIndex")
  /\ UNCHANGED <<grants, codes, binding, index, live, oidcHistory>>

ReadIndex(r) ==
  LET q == requests[r] IN
  /\ At(r, "grant", "readIndex")
  /\ requests' = [requests EXCEPT ![r].seen = index,
                                  ![r].pc = IF q.org \in index THEN "putCode" ELSE "putIndex"]
  /\ UNCHANGED <<kvVars, live, oidcHistory>>

(* Writes back what was read: an entry added in between is lost.            *)
PutIndex(r) ==
  LET q == requests[r] IN
  /\ At(r, "grant", "putIndex")
  /\ index' = q.seen \union {q.org}
  /\ Goto(r, "putCode")
  /\ UNCHANGED <<grants, codes, binding, links, live, oidcHistory>>

PutCode(r) ==
  LET q == requests[r] IN
  /\ At(r, "grant", "putCode")
  /\ codes' = [codes EXCEPT ![r] =
       [client |-> q.raw.client, challenge |-> q.raw.challenge, deleg |-> q.deleg]]
  /\ answered' = answered \union {q.key}
  /\ returned' = returned \union {r}
  /\ reused' = (reused \/ q.late)
  /\ Goto(r, "done")
  /\ UNCHANGED <<grants, binding, links, index, live, allowed, signed, enrolled, delivered>>

-----------------------------------------------------------------------------
(* /token *)

BeginExchange(r, c, client, verifier) ==
  /\ requests[r] = None
  /\ c \in returned
  /\ requests' = [requests EXCEPT ![r] =
       [pc |-> "read", kind |-> "exchange", key |-> c, client |-> client,
        verifier |-> verifier, raw |-> codes[c], late |-> c \in answered]]
  /\ UNCHANGED <<kvVars, live, oidcHistory>>

CodeBound(q) == q.raw.client = q.client /\ q.raw.challenge = q.verifier

(* authorization_code: the code is deleted whatever the outcome.            *)
FinishExchange(r) ==
  LET q == requests[r] IN
  /\ At(r, "exchange", "read")
  /\ codes' = [codes EXCEPT ![q.key] = None]
  /\ IF q.raw # None /\ CodeBound(q)
     THEN /\ delivered' = delivered \union
               {[client |-> q.client, proof |-> q.verifier, deleg |-> q.raw.deleg]}
          /\ reused' = (reused \/ q.late)
     ELSE UNCHANGED <<delivered, reused>>
  /\ answered' = answered \union {q.key}
  /\ Goto(r, "done")
  /\ UNCHANGED <<grants, binding, links, index, live, allowed, signed, enrolled, returned>>

(* delegation: the silent re-authentication.                                *)
BeginReauth(r, d, client) ==
  /\ requests[r] = None
  /\ DelegateMatches(d, client)
  /\ requests' = [requests EXCEPT ![r] =
       [pc |-> "verify", kind |-> "reauth", deleg |-> d, client |-> client]]
  /\ UNCHANGED <<kvVars, live, oidcHistory>>

VerifyReauth(r) ==
  /\ At(r, "reauth", "verify")
  /\ Goto(r, IF requests[r].deleg \in live THEN "readBinding" ELSE "done")
  /\ UNCHANGED <<kvVars, live, oidcHistory>>

BindingMatches_OrUnbound(q) == binding[q.deleg] \in {None, q.client}
BindingMatches(q) == binding[q.deleg] = q.client

ReadBinding(r) ==
  /\ At(r, "reauth", "readBinding")
  /\ Goto(r, IF BindingMatches(requests[r]) THEN "putBinding" ELSE "done")
  /\ UNCHANGED <<kvVars, live, oidcHistory>>

(* Puts back the binding it read, whatever is there now.                    *)
PutBinding(r) ==
  LET q == requests[r] IN
  /\ At(r, "reauth", "putBinding")
  /\ binding' = [binding EXCEPT ![q.deleg] = q.client]
  /\ delivered' = delivered \union {[client |-> q.client, proof |-> None, deleg |-> q.deleg]}
  /\ Goto(r, "done")
  /\ UNCHANGED <<grants, codes, links, index, live, allowed, signed, enrolled, answered, returned, reused>>

GrantStep(r) ==
  \/ DeleteGrant(r) \/ VerifyGrant(r) \/ Bind(r) \/ Link(r) \/ ReadIndex(r) \/ PutIndex(r)
  \/ PutCode(r)

TokenStep(r) == FinishExchange(r) \/ VerifyReauth(r) \/ ReadBinding(r) \/ PutBinding(r)

OidcNext ==
  \/ \E d \in Delegations : Sign(d) \/ Lapse(d)
  \/ Expire
  \/ \E g \in GrantIds, c \in Clients, ch \in Challenges : AuthorizeGrant(g, c, ch)
  \/ \E r \in Requests :
       \/ \E g \in GrantIds, d \in Delegations, o \in Orgs \union {None} : BeginGrant(r, g, d, o)
       \/ \E c \in Requests, client \in Clients, v \in Challenges : BeginExchange(r, c, client, v)
       \/ \E d \in Delegations, client \in Clients : BeginReauth(r, d, client)
       \/ GrantStep(r) \/ TokenStep(r)

OidcSpec == OidcInit /\ [][OidcNext]_oidcVars

-----------------------------------------------------------------------------
(* Properties *)

OidcTypeOK ==
  /\ grants \in [GrantIds -> Grant \union {None}]
  /\ codes \in [Requests -> Code \union {None}]
  /\ binding \in [Delegations -> Clients \union {None}]
  /\ links \subseteq Orgs /\ index \subseteq Orgs
  /\ live \subseteq Delegations /\ signed \subseteq Delegations
  /\ requests \in [Requests -> Request \union {None}]
  /\ allowed \in [GrantIds -> Grant \union {None}]
  /\ enrolled \subseteq Delegations \X Clients
  /\ answered \subseteq GrantIds \union Requests
  /\ returned \subseteq Requests
  /\ delivered \subseteq [client : Clients, proof : Challenges \union {None}, deleg : Delegations]
  /\ reused \in BOOLEAN

(* TokenIsEntitled: an id_token reaches a client only for a delegation that *)
(* its delegator signed, that names the client's delegate and that was      *)
(* granted for this very client; by code, only against the PKCE verifier    *)
(* the home authorised for this client.  Clients may share a delegate, and  *)
(* requests of several clients interleave (grant, token).  Once any         *)
(* exchange of a code has been answered, with a token or with an error, an  *)
(* exchange that begins later is refused; the same for a grant id.  (Two    *)
(* exchanges that overlap may both be served: the get and the delete are    *)
(* separate calls.)                                                         *)
TokenIsEntitled ==
  /\ \A t \in delivered :
       /\ t.deleg \in signed
       /\ DelegateIn[t.deleg] = DelegateOf[t.client]
       /\ <<t.deleg, t.client>> \in enrolled
       /\ t.proof # None =>
            \E g \in GrantIds : allowed[g] = [client |-> t.client, challenge |-> t.proof]
  /\ ~reused

=============================================================================
