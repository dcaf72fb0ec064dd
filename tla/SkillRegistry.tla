--------------------------- MODULE SkillRegistry ---------------------------
(***************************************************************************)
(* SkillDefinitionRegistry and GeoFeatureRegistry: definitions published in *)
(* numbered versions by one steward each, which credentials refer to as     *)
(* (id, version).  The content of a version is its ontology or geometry     *)
(* root; the other fields are written along with it and read by nobody      *)
(* here.                                                                    *)
(***************************************************************************)
EXTENDS BlockContext, Sequences

CONSTANTS
  Skills, Features,  \* ids of the two registries
  Contents,          \* ontologyMerkleRoot, geometryHash
  MaxVersions        \* bound on the versions of an id

Published ==
  [steward : Accounts, content : Contents, predecessor : Contents \union {None},
   active : BOOLEAN, valid : BOOLEAN]

ASSUME SkillAssumption ==
  Skills \intersect Features = {} /\ None \notin Contents /\ MaxVersions \in Nat

VARIABLE
  versions  \* _records and latestVersion: version n of an id is entry n

skillVars == versions

SkillInit == versions = [i \in Skills \union Features |-> <<>>]

-----------------------------------------------------------------------------
LatestVersion(i) == Len(versions[i])

(* A new version comes from the steward of the one before.                  *)
SameSteward_Unchecked(by, i) == TRUE
SameSteward(by, i) == LatestVersion(i) # 0 => versions[i][LatestVersion(i)].steward = by

(* _storeAndEmit under the next number: valid stands for the window given.  *)
Store(by, i, content, predecessor, valid) ==
  /\ LatestVersion(i) < MaxVersions
  /\ SameSteward(by, i)
  /\ versions' = [versions EXCEPT ![i] = Append(@,
       [steward |-> by, content |-> content, predecessor |-> predecessor,
        active |-> TRUE, valid |-> valid])]

PublishSkill(by, i, content, valid) ==
  Store(by, i, content,
        IF LatestVersion(i) = 0 THEN None ELSE versions[i][LatestVersion(i)].content, valid)

PublishFeature(by, i, content, valid) == Store(by, i, content, None, valid)

Deactivate(by, i) ==
  LET v == LatestVersion(i) IN
  /\ v # 0 /\ versions[i][v].steward = by
  /\ versions' = [versions EXCEPT ![i][v].active = FALSE]

SetValidity(by, i, v, valid) ==
  /\ v \in 1 .. LatestVersion(i) /\ versions[i][v].steward = by
  /\ versions' = [versions EXCEPT ![i][v].valid = valid]

SkillNext ==
  \E by \in Accounts :
    \/ \E content \in Contents, valid \in BOOLEAN :
         \/ \E i \in Skills : PublishSkill(by, i, content, valid)
         \/ \E i \in Features : PublishFeature(by, i, content, valid)
    \/ \E i \in Skills \union Features :
         \/ Deactivate(by, i)
         \/ \E v \in 1 .. MaxVersions, valid \in BOOLEAN : SetValidity(by, i, v, valid)

SkillSpec == SkillInit /\ [][SkillNext]_skillVars

-----------------------------------------------------------------------------
(* Properties *)

SkillTypeOK == versions \in [Skills \union Features -> Seq(Published)]

(* What a credential pins stands: a published version keeps its content and *)
(* its steward for ever, all versions of an id are by one steward, each     *)
(* skill names the content of the version before it, and a version that its *)
(* steward retired is never active again.  (Only the latest can be retired: *)
(* publishing the next leaves the version before it as active as it was.)   *)
PinnedVersionStands ==
  [][\A i \in Skills \union Features : \A v \in DOMAIN versions[i] :
       LET old == versions[i][v]  new == versions'[i][v] IN
       /\ v \in DOMAIN versions'[i]
       /\ new.content = old.content /\ new.steward = old.steward
       /\ new.active => old.active
       /\ versions'[i][Len(versions'[i])].steward = old.steward
       /\ i \in Skills /\ v < Len(versions'[i]) => versions'[i][v + 1].predecessor = new.content
    ]_skillVars

=============================================================================
