----------------------------- MODULE MCConnect -----------------------------
(***************************************************************************)
(* The Connect broker and the social custody behind it, for TLC.  The OIDC  *)
(* flow, the Google login, the accounts of social members and the federated *)
(* tokens share no state, so each is explored while the others rest.        *)
(***************************************************************************)
EXTENDS OidcBroker, GoogleLogin, SocialCustody, FederatedTokens, TLC, FiniteSets, Functions

CONSTANTS c1, c2, d1, d2, shared, other, r1, r2, r3, v1, v2, g1, g2, m1, m2

(* Two clients with one delegate, as configured for the demo apps.          *)
MCDelegateOf == (c1 :> shared) @@ (c2 :> shared)
MCDelegateIn == (d1 :> shared) @@ (d2 :> other)

(* v1, v2 and g1, g2 also serve as the interchangeable names, requests and  *)
(* apps of the parts that rest meanwhile.                                   *)
MCSymmetry ==
  Permutations({r1, r2, r3}) \union Permutations({v1, v2}) \union Permutations({g1, g2})

VARIABLE focus

vars == <<focus, oidcVars, googleVars, socialVars, federatedVars>>

Init ==
  /\ focus \in {"oidc", "google", "social", "federated"}
  /\ OidcInit /\ GoogleInit /\ SocialInit
  /\ FederatedInit /\ (focus # "federated" => rotates)

OidcStep ==
  focus = "oidc" /\ OidcNext /\ UNCHANGED <<focus, googleVars, socialVars, federatedVars>>

GoogleStep ==
  focus = "google" /\ GoogleNext /\ UNCHANGED <<focus, oidcVars, socialVars, federatedVars>>

SocialStep ==
  focus = "social" /\ SocialNext /\ UNCHANGED <<focus, oidcVars, googleVars, federatedVars>>

FederatedStep ==
  focus = "federated" /\ FederatedNext /\ UNCHANGED <<focus, oidcVars, googleVars, socialVars>>

Next == OidcStep \/ GoogleStep \/ SocialStep \/ FederatedStep

Spec == Init /\ [][Next]_vars

(* Bound: grants for an organisation are explored with one grant id and two *)
(* requests in use, since the organisation index is read by nothing here;   *)
(* only a delegation to some client's delegate lapses.                      *)
OidcBound ==
  /\ \A d \in signed \ live : \E c \in Clients : DelegateMatches(d, c)
  /\ \/ (\E g \in GrantIds : allowed[g] = None) /\ (\E r \in Requests : requests[r] = None)
     \/ links = {} /\ \A r \in Requests :
          requests[r] # None /\ requests[r].kind = "grant" => requests[r].org = None

(* Bound: strangers hold one name at most, which some request asks for;     *)
(* names are given to deployed accounts or to strangers; a new account's    *)
(* primary name is its own (named agents are explored with another's).  The *)
(* members are interchangeable: m1 is the first to ask.  Only m1 rotates,   *)
(* and asks with the second key for new organisations and agents only.      *)
(* Beyond the operations of the requests that are done, the members send    *)
(* one.  Custodians change, and sponsoring stops, only where no stranger    *)
(* holds a name, and sponsoring only while some request waits.              *)
SocialBound ==
  LET asked == {r \in Demands : demands[r] # Nothing} IN
  /\ asked = {} \/ \E r \in asked : demands[r].key.member = m1
  /\ \A r \in asked :
       /\ demands[r].key.turn = 0 \/ (demands[r].key.member = m1 /\ demands[r].grants)
       /\ demands[r].node = demands[r].label \/ demands[r].kind = "name"
  /\ \E l \in Labels : nameOwner[l] # Stranger
  /\ \A l \in Labels :
       /\ nameOwner[l] \in {Nothing, Stranger} \union DOMAIN accounts
       /\ nameOwner[l] = Stranger => \E r \in asked : l \in {demands[r].label, demands[r].node}
  /\ SumFunction([a \in DOMAIN accounts |-> accounts[a].nonce])
       <= 1 + Cardinality({r \in asked : demands[r].pc = "done"})
  /\ \/ \A a \in DOMAIN accounts : accounts[a].holders = {a.key}
     \/ \A l \in Labels : nameOwner[l] # Stranger
  /\ \/ sponsored
     \/ /\ \E r \in asked : demands[r].pc # "done"
        /\ \A l \in Labels : nameOwner[l] # Stranger

MCBound == OidcBound /\ SocialBound

(* The type invariant of the part that is explored.                         *)
TypeOK ==
  /\ focus \in {"oidc", "google", "social", "federated"}
  /\ focus = "oidc" => OidcTypeOK
  /\ focus = "google" => GoogleTypeOK
  /\ focus = "social" => SocialTypeOK
  /\ focus = "federated" => FederatedTypeOK

=============================================================================
