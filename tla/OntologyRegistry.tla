-------------------------- MODULE OntologyRegistry --------------------------
(***************************************************************************)
(* ShapeRegistry and OntologyTermRegistry, each with its governor: shapes   *)
(* that constrain one attribute to an enumeration, enumerations kept as a   *)
(* list and as a membership table, and terms registered one by one or in    *)
(* batches.                                                                 *)
(***************************************************************************)
EXTENDS BlockContext, Sequences, SequencesExt

CONSTANTS
  Classes,    \* class ids of shapes
  EnumSets,
  EnumValues,
  TermIds,
  MaxListed,  \* bound on the length of a list given to a call
  MaxProps    \* bound on the constraints of a shape

(* Of the eight datatypes, the two that enumerations are looked up for, and *)
(* one for the rest.                                                        *)
Listed == {"bytes32", "bytes32[]"}
Datatypes == Listed \union {"string"}

(* A property constraint: the expected datatype, the enumeration, None for  *)
(* an enumSetId of 0, and whether the attribute is required.                *)
Constraint == [datatype : Datatypes, enum : EnumSets \union {None}, required : BOOLEAN]
Shape == [props : SUBSET Constraint, active : BOOLEAN]
Props == {ToSet(l) : l \in SeqOf(Constraint, MaxProps)}
Lists(S) == UNION {[1 .. n -> S] : n \in 1 .. MaxListed}

(* An attribute as the store tells it: the datatype it was last written as, *)
(* and, for the two, the one value or the values of the array.              *)
Attribute ==
  [datatype : {"bytes32"}, values : {{v} : v \in EnumValues}] \union
  [datatype : {"bytes32[]"}, values : SUBSET EnumValues] \union
  [datatype : {"string"}, values : {{}}]

ASSUME OntologyAssumption ==
  MaxListed \in Nat /\ MaxProps \in Nat /\ None \notin Shape \union Attribute \union EnumSets

VARIABLES
  shapes,        \* _shapes and _props
  enumValues,    \* _enumValues
  enumContains,  \* _enumContains
  attribute,     \* the attribute of a subject, in the store a shape reads
  terms,         \* _terms: the active flag of a registered term
  termIds,       \* _termIds
  governor       \* of each of the two registries

ontologyVars == <<shapes, enumValues, enumContains, attribute, terms, termIds, governor>>

OntologyInit ==
  /\ shapes = [c \in Classes |-> None]
  /\ enumValues = [e \in EnumSets |-> <<>>]
  /\ enumContains = [e \in EnumSets |-> {}]
  /\ attribute = None
  /\ terms = <<>>
  /\ termIds = <<>>
  /\ governor \in [{"shapes", "terms"} -> Accounts]

-----------------------------------------------------------------------------
(* Shapes *)

TransferGovernor(registry, by, to) ==
  /\ by = governor[registry]
  /\ governor' = [governor EXCEPT ![registry] = to]
  /\ UNCHANGED <<shapes, enumValues, enumContains, attribute, terms, termIds>>

SetShape(c, shape) ==
  /\ shapes' = [shapes EXCEPT ![c] = shape]
  /\ UNCHANGED <<enumValues, enumContains, attribute, terms, termIds, governor>>

DefineShape(by, c, props) ==
  /\ by = governor["shapes"] /\ shapes[c] = None
  /\ SetShape(c, [props |-> props, active |-> TRUE])

(* The new version keeps the active flag.                                   *)
UpdateShape(by, c, props) ==
  /\ by = governor["shapes"] /\ shapes[c] # None
  /\ SetShape(c, [props |-> props, active |-> shapes[c].active])

SetShapeActive(by, c, active) ==
  /\ by = governor["shapes"] /\ shapes[c] # None
  /\ SetShape(c, [props |-> shapes[c].props, active |-> active])

(* Every value listed so far is taken out, then the new ones are put in.    *)
Cleared(e) == enumContains[e] \ ToSet(enumValues[e])

DefineEnumSet(by, e, allowed) ==
  /\ by = governor["shapes"]
  /\ enumValues' = [enumValues EXCEPT ![e] = allowed]
  /\ enumContains' = [enumContains EXCEPT ![e] = Cleared(e) \union ToSet(allowed)]
  /\ UNCHANGED <<shapes, attribute, terms, termIds, governor>>

(* The store behind: the subject's attribute is set, replaced or unset.     *)
SetAttribute(a) ==
  /\ attribute' = a
  /\ UNCHANGED <<shapes, enumValues, enumContains, terms, termIds, governor>>

(* An enumeration given with another datatype is not looked up.             *)
LooksUp(p) == p.enum # None /\ p.datatype \in Listed

(* validateSubject, isValid *)
Validates(c) ==
  /\ shapes[c] # None /\ shapes[c].active
  /\ \A p \in shapes[c].props :
       IF attribute = None THEN ~p.required
       ELSE /\ attribute.datatype = p.datatype
            /\ LooksUp(p) => attribute.values \subseteq enumContains[p.enum]

-----------------------------------------------------------------------------
(* Terms *)

Register(new) ==
  /\ terms' = [t \in DOMAIN terms \union ToSet(new) |-> IF t \in DOMAIN terms THEN terms[t] ELSE TRUE]
  /\ termIds' = termIds \o new
  /\ UNCHANGED <<shapes, enumValues, enumContains, attribute, governor>>

RegisterTerm(by, t) ==
  /\ by = governor["terms"] /\ t \notin DOMAIN terms
  /\ Register(<<t>>)

(* Ids that are registered already are skipped, also when the batch itself  *)
(* names them twice; the others are listed in the order of the batch.       *)
FirstSeen(ids) ==
  {i \in DOMAIN ids : ids[i] \notin DOMAIN terms /\ \A j \in 1 .. i - 1 : ids[j] # ids[i]}

(* The position of i among the members of S.                                *)
Rank(S, i) == Cardinality({j \in S : j <= i})

NewTerms_AsGiven(ids) == SelectSeq(ids, LAMBDA t : t \notin DOMAIN terms)
NewTerms(ids) ==
  LET S == FirstSeen(ids) IN
  [k \in 1 .. Cardinality(S) |-> ids[CHOOSE i \in S : Rank(S, i) = k]]

RegisterTermBatch(by, ids) ==
  /\ by = governor["terms"]
  /\ Register(NewTerms(ids))

SetTermActive(by, t, active) ==
  /\ by = governor["terms"] /\ t \in DOMAIN terms
  /\ terms' = [terms EXCEPT ![t] = active]
  /\ UNCHANGED <<shapes, enumValues, enumContains, attribute, termIds, governor>>

OntologyNext ==
  \/ \E by \in Accounts :
       \/ \E to \in Accounts, r \in DOMAIN governor : TransferGovernor(r, by, to)
       \/ \E c \in Classes, props \in Props : DefineShape(by, c, props) \/ UpdateShape(by, c, props)
       \/ \E c \in Classes, active \in BOOLEAN : SetShapeActive(by, c, active)
       \/ \E e \in EnumSets, allowed \in Lists(EnumValues) : DefineEnumSet(by, e, allowed)
       \/ \E t \in TermIds : RegisterTerm(by, t)
       \/ \E ids \in Lists(TermIds) : RegisterTermBatch(by, ids)
       \/ \E t \in TermIds, active \in BOOLEAN : SetTermActive(by, t, active)
  \/ \E a \in Attribute \union {None} : SetAttribute(a)

OntologySpec == OntologyInit /\ [][OntologyNext]_ontologyVars

-----------------------------------------------------------------------------
(* Properties *)

OntologyTypeOK ==
  /\ shapes \in [Classes -> Shape \union {None}]
  /\ enumValues \in [EnumSets -> Seq(EnumValues)]
  /\ enumContains \in [EnumSets -> SUBSET EnumValues]
  /\ attribute \in Attribute \union {None}
  /\ DOMAIN terms \subseteq TermIds /\ \A t \in DOMAIN terms : terms[t] \in BOOLEAN
  /\ termIds \in Seq(TermIds)
  /\ governor \in [{"shapes", "terms"} -> Accounts]

(* Lists and tables agree.  A subject that validates against a shape with   *)
(* an enumeration for a bytes32 or an array of them holds only values that  *)
(* the enumeration lists now, although enumerations are redefined, with     *)
(* repeated values too, and the check reads the membership table and not    *)
(* the list (defineEnumSet, _validate).  The index of terms lists each      *)
(* registered term once, in single and in batch registrations, so that      *)
(* termCount and getTermAt agree with the table (registerTermBatch).        *)
ListsMatchTables ==
  /\ \A c \in Classes : Validates(c) =>
       \A p \in shapes[c].props :
         attribute # None /\ LooksUp(p) => attribute.values \subseteq ToSet(enumValues[p.enum])
  /\ ToSet(termIds) = DOMAIN terms
  /\ \A i, j \in DOMAIN termIds : termIds[i] = termIds[j] => i = j

=============================================================================
