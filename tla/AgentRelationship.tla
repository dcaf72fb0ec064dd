------------------------- MODULE AgentRelationship -------------------------
(***************************************************************************)
(* AgentRelationship: an edge per (subject, object, type), proposed by its  *)
(* subject and confirmed by its object, with roles either side edits.  The  *)
(* contract keeps the roles twice: a list for enumeration and a flag per    *)
(* role for lookup.                                                         *)
(***************************************************************************)
EXTENDS BlockContext, SequencesExt

CONSTANTS
  Edges,     \* edgeId, the hash of subject, object and type
  SubjectOf, ObjectOf,
  Roles,
  MaxRoles   \* bound on the length of a role list

ASSUME RelationshipAssumption ==
  /\ SubjectOf \in [Edges -> Accounts] /\ ObjectOf \in [Edges -> Accounts]
  /\ MaxRoles \in Nat

VARIABLES
  edgeStatus,  \* Edge.status
  roleList,    \* _roles
  hasRole,     \* _hasRole, as the set of roles it holds for
  consented    \* history: the edges whose object has confirmed

relationshipVars == <<edgeStatus, roleList, hasRole, consented>>

RelationshipInit ==
  /\ edgeStatus = [e \in Edges |-> "NONE"]
  /\ roleList = [e \in Edges |-> <<>>]
  /\ hasRole = [e \in Edges |-> {}]
  /\ consented = {}

Side(e, x) == x \in {SubjectOf[e], ObjectOf[e]}
EdgeExists(e) == edgeStatus[e] # "NONE"

-----------------------------------------------------------------------------

(* _addRole for each of the initial roles: a role given twice is listed     *)
(* twice.                                                                   *)
ProposeEdge(e, x, initial) ==
  /\ SubjectOf[e] # ObjectOf[e]
  /\ x = SubjectOf[e]
  /\ ~EdgeExists(e)
  /\ edgeStatus' = [edgeStatus EXCEPT ![e] = "PROPOSED"]
  /\ roleList' = [roleList EXCEPT ![e] = initial]
  /\ hasRole' = [hasRole EXCEPT ![e] = ToSet(initial)]
  /\ UNCHANGED consented

MayConfirm_EitherSide(e, x) == Side(e, x)
MayConfirm(e, x) == x = ObjectOf[e]

ConfirmEdge(e, x) ==
  /\ edgeStatus[e] = "PROPOSED"
  /\ MayConfirm(e, x)
  /\ edgeStatus' = [edgeStatus EXCEPT ![e] = "CONFIRMED"]
  /\ consented' = IF x = ObjectOf[e] THEN consented \union {e} ELSE consented
  /\ UNCHANGED <<roleList, hasRole>>

ActivateEdge(e, x) ==
  /\ edgeStatus[e] = "CONFIRMED"
  /\ Side(e, x)
  /\ edgeStatus' = [edgeStatus EXCEPT ![e] = "ACTIVE"]
  /\ UNCHANGED <<roleList, hasRole, consented>>

RevokeEdge(e, x) ==
  /\ edgeStatus[e] \notin {"NONE", "REVOKED"}
  /\ Side(e, x)
  /\ edgeStatus' = [edgeStatus EXCEPT ![e] = "REVOKED"]
  /\ UNCHANGED <<roleList, hasRole, consented>>

(* Roles may be edited in every status, REVOKED included.                   *)
AddRole(e, x, r) ==
  /\ EdgeExists(e) /\ Side(e, x)
  /\ r \notin hasRole[e]
  /\ Len(roleList[e]) < MaxRoles
  /\ roleList' = [roleList EXCEPT ![e] = Append(@, r)]
  /\ hasRole' = [hasRole EXCEPT ![e] = @ \union {r}]
  /\ UNCHANGED <<edgeStatus, consented>>

(* The first occurrence is overwritten by the last element, which is popped.*)
SwapAndPop(l, r) ==
  LET i == CHOOSE j \in 1 .. Len(l) : l[j] = r /\ \A k \in 1 .. j - 1 : l[k] # r
  IN Front([l EXCEPT ![i] = Last(l)])

RemoveRole(e, x, r) ==
  /\ EdgeExists(e) /\ Side(e, x)
  /\ r \in hasRole[e]
  /\ hasRole' = [hasRole EXCEPT ![e] = @ \ {r}]
  /\ roleList' = [roleList EXCEPT ![e] = SwapAndPop(@, r)]
  /\ UNCHANGED <<edgeStatus, consented>>

RelationshipNext ==
  \E e \in Edges, x \in Accounts :
    \/ \E initial \in SeqOf(Roles, MaxRoles - 1) : ProposeEdge(e, x, initial)
    \/ ConfirmEdge(e, x) \/ ActivateEdge(e, x) \/ RevokeEdge(e, x)
    \/ \E r \in Roles : AddRole(e, x, r) \/ RemoveRole(e, x, r)

RelationshipSpec == RelationshipInit /\ [][RelationshipNext]_relationshipVars

-----------------------------------------------------------------------------
(* Properties *)

RelationshipTypeOK ==
  /\ edgeStatus \in [Edges -> {"NONE", "PROPOSED", "CONFIRMED", "ACTIVE", "REVOKED"}]
  /\ roleList \in [Edges -> Seq(Roles)]
  /\ hasRole \in [Edges -> SUBSET Roles]
  /\ consented \subseteq Edges

(* ActiveByBoth: an edge is ACTIVE only after its object confirmed it, and  *)
(* a revoked edge never comes back (confirmEdge, activateEdge, revokeEdge). *)
ActiveByBoth ==
  [][\A e \in Edges :
       /\ edgeStatus'[e] = "ACTIVE" => e \in consented'
       /\ edgeStatus[e] = "REVOKED" => edgeStatus'[e] = "REVOKED"]_relationshipVars

=============================================================================
