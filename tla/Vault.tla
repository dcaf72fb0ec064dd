------------------------------- MODULE Vault -------------------------------
(***************************************************************************)
(* The vault of the demo MCP server behind its tools: sensitive reads       *)
(* through entitlement, decrypt grant, required audit row and projection,   *)
(* and the generic records an agent keeps.                                  *)
(*                                                                          *)
(* A tool call waits for the audit row, for the row of the vault and for    *)
(* the key that seals a new one, so calls interleave there.  A sealed       *)
(* object is what was sealed and for whom.  An empty set of fields asks for *)
(* all of them, as in the code.                                             *)
(***************************************************************************)
EXTENDS Naturals

CONSTANTS
  VaultCalls,   \* tool calls, each made once
  Principals,   \* delegators, as withDelegation recovers them
  Sensitive,    \* person-pii, org-sensitive
  RecordTypes,  \* vault:<recordType>
  Payloads,
  Fields,
  Null

Resources == Sensitive \union RecordTypes
Object == [owner : Principals, data : Payloads \union {"seed"}]
VaultRow == [object : Object, deleted : BOOLEAN]

(* What a call asks for and what it waits for.                              *)
VaultCall ==
  [at : {"audit", "row", "seed", "seal", "done"}, principal : Principals, resource : Resources,
   fields : SUBSET Fields, data : Payloads \union {Null}]
Answer == [object : Object \union {Null}, fields : SUBSET Fields]

ASSUME VaultAssumption ==
  /\ Sensitive \intersect RecordTypes = {}
  /\ "seed" \notin Payloads
  /\ Null \notin VaultRow \union VaultCall \union Answer \union Object \union Payloads

VARIABLES
  objects,      \* vault_objects, by owner and resource
  call,
  answer,    \* history: what a read returned
  released   \* history: the calls with a key_release.approved row

vaultVars == <<objects, call, answer, released>>

VaultInit ==
  /\ objects = [k \in Principals \X Resources |-> Null]
  /\ call = [c \in VaultCalls |-> Null]
  /\ answer = [c \in VaultCalls |-> Null]
  /\ released = {}

-----------------------------------------------------------------------------
(* The store *)

RowKey_ResourceOnly(owner, resource) == <<CHOOSE p \in Principals : TRUE, resource>>
RowKey(owner, resource) == <<owner, resource>>

KeyOf(c) == RowKey(call[c].principal, call[c].resource)

(* getVaultObjectRow: a tombstone reads as absent.                          *)
GetVaultObjectRow(k) == IF objects[k] = Null \/ objects[k].deleted THEN Null ELSE objects[k].object

(* putVaultObjectRow of what was sealed clears a tombstone.                 *)
Seal(k, owner, data) ==
  objects' = [objects EXCEPT ![k] = [object |-> [owner |-> owner, data |-> data], deleted |-> FALSE]]

Goes(c, at) == call' = [call EXCEPT ![c].at = at]

(* projectFields *)
ProjectFields(fields) == IF fields = {} THEN Fields ELSE fields

Answers(c, object) ==
  answer' = [answer EXCEPT ![c] = [object |-> object, fields |-> ProjectFields(call[c].fields)]]

-----------------------------------------------------------------------------
(* Sensitive reads *)

Begin(c, at, principal, resource, fields, data) ==
  /\ call[c] = Null
  /\ call' = [call EXCEPT ![c] =
       [at |-> at, principal |-> principal, resource |-> resource,
        fields |-> fields, data |-> data]]

(* readSensitive asks for its own principal, so the entitlement is          *)
(* owner-self and allows the fields asked for; the grant is made for them   *)
(* and checked against them by a key authorisation service of this call.    *)
ReadSensitive(c, principal, resource, fields) ==
  /\ Begin(c, "audit", principal, resource, fields, Null)
  /\ UNCHANGED <<objects, answer, released>>

(* recordRequiredRelease: the row is written or the database refuses it.    *)
(* The sink under composeFailHardSinks catches the refusal itself, so the   *)
(* call goes on either way.                                                 *)
RecordRequiredRelease(c) ==
  /\ call[c] # Null /\ call[c].at = "audit"
  /\ released' = released \/ released' = released \union {c}
  /\ Goes(c, "row")
  /\ UNCHANGED <<objects, answer>>

Seedable(resource) == resource \in Sensitive

(* vault.read: the row, or a seed that is yet to be sealed, or null.        *)
VaultRead(c) ==
  LET object == GetVaultObjectRow(KeyOf(c)) IN
  /\ call[c] # Null /\ call[c].at = "row"
  /\ IF object = Null /\ Seedable(call[c].resource)
     THEN Goes(c, "seed") /\ UNCHANGED answer
     ELSE Goes(c, "done") /\ Answers(c, object)
  /\ UNCHANGED <<objects, released>>

SealSeed(c) ==
  /\ call[c] # Null /\ call[c].at = "seed"
  /\ Seal(KeyOf(c), call[c].principal, "seed")
  /\ Answers(c, [owner |-> call[c].principal, data |-> "seed"])
  /\ Goes(c, "done")
  /\ UNCHANGED released

-----------------------------------------------------------------------------
(* Records *)

GetVaultRecord(c, principal, recordType) ==
  /\ Begin(c, "row", principal, recordType, {}, Null)
  /\ UNCHANGED <<objects, answer, released>>

SetVaultRecord(c, principal, recordType, data) ==
  /\ Begin(c, "seal", principal, recordType, {}, data)
  /\ UNCHANGED <<objects, answer, released>>

SealRecord(c) ==
  /\ call[c] # Null /\ call[c].at = "seal"
  /\ Seal(KeyOf(c), call[c].principal, call[c].data)
  /\ Goes(c, "done")
  /\ UNCHANGED <<answer, released>>

(* data: null is a tombstone, written without sealing anything.             *)
DeleteVaultRecord(c, principal, recordType) ==
  LET k == RowKey(principal, recordType) IN
  /\ Begin(c, "done", principal, recordType, {}, Null)
  /\ objects' = IF objects[k] = Null THEN objects ELSE [objects EXCEPT ![k].deleted = TRUE]
  /\ UNCHANGED <<answer, released>>

VaultNext ==
  \E c \in VaultCalls :
    \/ \E p \in Principals, s \in Sensitive, f \in SUBSET Fields : ReadSensitive(c, p, s, f)
    \/ \E p \in Principals, t \in RecordTypes :
         \/ GetVaultRecord(c, p, t) \/ DeleteVaultRecord(c, p, t)
         \/ \E data \in Payloads : SetVaultRecord(c, p, t, data)
    \/ RecordRequiredRelease(c) \/ VaultRead(c) \/ SealSeed(c) \/ SealRecord(c)

VaultSpec == VaultInit /\ [][VaultNext]_vaultVars

-----------------------------------------------------------------------------
(* Properties *)

VaultTypeOK ==
  /\ objects \in [Principals \X Resources -> VaultRow \union {Null}]
  /\ call \in [VaultCalls -> VaultCall \union {Null}]
  /\ answer \in [VaultCalls -> Answer \union {Null}]
  /\ released \subseteq VaultCalls

(* An agent reads its own namespace and no other, and of a sensitive object *)
(* no field it did not ask for, whatever other agents seed, write and       *)
(* delete meanwhile (readSensitive, createDemoVault).                       *)
OwnNamespace ==
  \A c \in VaultCalls : answer[c] # Null =>
    /\ answer[c].object # Null => answer[c].object.owner = call[c].principal
    /\ call[c].fields # {} => answer[c].fields \subseteq call[c].fields

=============================================================================
