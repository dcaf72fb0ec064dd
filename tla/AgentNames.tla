----------------------------- MODULE AgentNames -----------------------------
(***************************************************************************)
(* The naming contracts: AgentNameRegistry, the permissionless subregistry, *)
(* the attribute resolver over AttributeStorage and the universal resolver  *)
(* that reads all of them.                                                  *)
(*                                                                          *)
(* A node stands for a namehash, ParentOf for the labels it is made of.  Of *)
(* the attributes, only the address record (ATL_ADDR) is kept, with the     *)
(* datatype it was last written as: a value written under one datatype is   *)
(* not removed by an unset under another.                                   *)
(***************************************************************************)
EXTENDS BlockContext

CONSTANTS
  Nodes, Root,
  ParentOf,    \* the parent of every node but the root
  Named,       \* bound: the nodes whose resolver and primary names are used
  Initializer, \* the account the registry lets initialise roots
  Subregistry, \* the PermissionlessSubregistry contract
  AttributeResolver,  \* the AgentNameAttributeResolver contract
  OtherResolvers      \* whatever other addresses a node may have as its resolver

ASSUME NamesAssumption ==
  /\ Root \in Nodes /\ Named \subseteq Nodes
  /\ ParentOf \in [Nodes \ {Root} -> Nodes]
  /\ Initializer \in Accounts /\ Subregistry \notin Accounts \union {None}
  /\ None # AttributeResolver /\ OtherResolvers \intersect {None, AttributeResolver} = {}

Delegates == Accounts \union {None, Subregistry}
Resolvers == OtherResolvers \union {None, AttributeResolver}
Record == [owner : Accounts, resolver : Resolvers, subregistry : Delegates, expiry : Nat]

VARIABLES
  records,      \* _records; None when registeredAt is 0
  primaryName,  \* _primaryName; None for bytes32(0)
  address,      \* AttributeStorage._address of ATL_ADDR; None for 0
  datatype,     \* AttributeStorage._datatype of ATL_ADDR; None when unset
  claimedBy,    \* PermissionlessSubregistry.claimedBy
  namesPaused,  \* the governance pause, as whenNotPaused reads it
  vouched,      \* history: whom a node's owners have ever been, or pointed it at
  entrusted     \* history: the other resolvers a node was registered with, or its
                \* owners set

namesVars ==
  <<records, primaryName, address, datatype, claimedBy, namesPaused, vouched, entrusted>>

ASSUME RecordAssumption == None \notin Record /\ None \notin Nodes

NamesInit ==
  /\ records = [n \in Nodes |-> None]
  /\ primaryName = [x \in Accounts |-> None]
  /\ address = [n \in Nodes |-> None]
  /\ datatype = [n \in Nodes |-> None]
  /\ claimedBy = [x \in Accounts |-> None]
  /\ namesPaused = FALSE
  /\ vouched = [n \in Nodes |-> {}]
  /\ entrusted = [n \in Nodes |-> {}]

RecordExists(n) == records[n] # None

-----------------------------------------------------------------------------
(* Registry *)

Others(resolver) == {resolver} \intersect OtherResolvers

NewRecord(n, owner, resolver, subregistry, expiry) ==
  /\ records' = [records EXCEPT ![n] =
       [owner |-> owner, resolver |-> resolver, subregistry |-> subregistry, expiry |-> expiry]]
  /\ vouched' = [vouched EXCEPT ![n] = @ \union {owner}]
  /\ entrusted' = [entrusted EXCEPT ![n] = @ \union Others(resolver)]

(* Not stopped by the pause.  The first owner is also the root's delegate   *)
(* and stays so when the root is handed over.                               *)
InitializeRoot(x, owner, resolver) ==
  /\ x = Initializer
  /\ ~RecordExists(Root)
  /\ NewRecord(Root, owner, resolver, owner, 0)
  /\ UNCHANGED <<primaryName, address, datatype, claimedBy, namesPaused>>

(* isExpired: the parent's own expiry only.                                 *)
IsExpired(n) == records[n].expiry # 0 /\ now > records[n].expiry

(* register below the parent of n, sent by x                                *)
MayRegister(n, x) ==
  LET p == ParentOf[n] IN
  /\ ~namesPaused
  /\ RecordExists(p)
  /\ x = records[p].owner \/ x = records[p].subregistry
  /\ ~IsExpired(p)
  /\ ~RecordExists(n)

RegisterName(n, x, owner, resolver, expiry) ==
  /\ MayRegister(n, x)
  /\ NewRecord(n, owner, resolver, None, expiry)
  /\ UNCHANGED <<primaryName, address, datatype, claimedBy, namesPaused>>

(* PermissionlessSubregistry.register, called by x: one claim per caller,   *)
(* whoever the name is for.                                                 *)
Claim(n, x, owner) ==
  /\ claimedBy[x] = None
  /\ ParentOf[n] = Root
  /\ MayRegister(n, Subregistry)
  /\ NewRecord(n, owner, AttributeResolver, None, 0)
  /\ claimedBy' = [claimedBy EXCEPT ![x] = n]
  /\ UNCHANGED <<primaryName, address, datatype, namesPaused>>

(* _requireNodeAuth: an expired name keeps its owner.                       *)
NodeAuth(n, x) == RecordExists(n) /\ x = records[n].owner

(* The new owner keeps the resolver of the old one.                         *)
SetOwner(n, x, owner) ==
  /\ ~namesPaused /\ NodeAuth(n, x)
  /\ records' = [records EXCEPT ![n].owner = owner]
  /\ vouched' = [vouched EXCEPT ![n] = @ \union {owner}]
  /\ UNCHANGED <<primaryName, address, datatype, claimedBy, namesPaused, entrusted>>

(* Any address is accepted.                                                 *)
SetResolver(n, x, resolver) ==
  /\ ~namesPaused /\ NodeAuth(n, x)
  /\ records' = [records EXCEPT ![n].resolver = resolver]
  /\ entrusted' = [entrusted EXCEPT ![n] = IF x = records[n].owner THEN @ \union Others(resolver) ELSE @]
  /\ UNCHANGED <<primaryName, address, datatype, claimedBy, namesPaused, vouched>>

SetSubregistry(n, x, s) ==
  /\ ~namesPaused /\ NodeAuth(n, x)
  /\ records' = [records EXCEPT ![n].subregistry = s]
  /\ UNCHANGED <<primaryName, address, datatype, claimedBy, namesPaused, vouched, entrusted>>

Renew(n, x, expiry) ==
  /\ ~namesPaused /\ NodeAuth(n, x)
  /\ records' = [records EXCEPT ![n].expiry = expiry]
  /\ UNCHANGED <<primaryName, address, datatype, claimedBy, namesPaused, vouched, entrusted>>

(* Anybody may point its primary name at any registered node.               *)
SetPrimaryName(x, n) ==
  /\ ~namesPaused
  /\ n # None => RecordExists(n)
  /\ primaryName' = [primaryName EXCEPT ![x] = n]
  /\ UNCHANGED <<records, address, datatype, claimedBy, namesPaused, vouched, entrusted>>

TogglePause ==
  /\ namesPaused' = ~namesPaused
  /\ UNCHANGED <<records, primaryName, address, datatype, claimedBy, vouched, entrusted>>

-----------------------------------------------------------------------------
(* Attribute resolver; not stopped by the pause *)

ResolverAuth_Unchecked(n, x) == RecordExists(n)
ResolverAuth(n, x) == RecordExists(n) /\ x = records[n].owner

SetAddressAttribute(n, x, a) ==
  /\ ResolverAuth(n, x)
  /\ address' = [address EXCEPT ![n] = a]
  /\ datatype' = [datatype EXCEPT ![n] = "address"]
  /\ vouched' = [vouched EXCEPT ![n] = IF x = records[n].owner THEN @ \union ({a} \ {None}) ELSE @]
  /\ UNCHANGED <<records, primaryName, claimedBy, namesPaused, entrusted>>

(* The other seven setters write ATL_ADDR under a datatype of their own.    *)
SetOtherAttribute(n, x) ==
  /\ ResolverAuth(n, x)
  /\ datatype' = [datatype EXCEPT ![n] = "other"]
  /\ UNCHANGED <<records, primaryName, address, claimedBy, namesPaused, vouched, entrusted>>

(* _unset deletes the value of the last datatype only.                      *)
UnsetAttribute(n, x) ==
  /\ ResolverAuth(n, x)
  /\ datatype[n] # None
  /\ address' = [address EXCEPT ![n] = IF datatype[n] = "address" THEN None ELSE @]
  /\ datatype' = [datatype EXCEPT ![n] = None]
  /\ UNCHANGED <<records, primaryName, claimedBy, namesPaused, vouched, entrusted>>

-----------------------------------------------------------------------------
(* Universal resolver *)

(* _resolveNameView: what the node's resolver answers, and the owner when   *)
(* there is none, it answers 0 or it reverts.  Any contract but the         *)
(* AttributeResolver may answer as it likes, and otherwise each time; one   *)
(* that breaks the call (it has no code) answers nobody.                    *)
ResolveName(n) ==
  CASE records[n].resolver = None -> {records[n].owner}
    [] records[n].resolver = AttributeResolver ->
         {IF address[n] # None THEN address[n] ELSE records[n].owner}
    [] OTHER -> Accounts

(* reverseResolve: the name that x may be shown by                          *)
ReverseResolve(x) ==
  LET n == primaryName[x] IN
  IF n # None /\ RecordExists(n) /\ x \in ResolveName(n) THEN n ELSE None

(* The delegate and the expiry of a node are read for its children only,    *)
(* its resolver when it is resolved.                                        *)
Parents == {ParentOf[n] : n \in Nodes \ {Root}}
ResolversFor(n) == IF n \in Named THEN Resolvers ELSE {None}
ExpiriesFor(n) == IF n \in Parents THEN 0 .. MaxTime ELSE {0}

NamesNext ==
  \/ \E x, owner \in Accounts, r \in ResolversFor(Root) :
       InitializeRoot(x, owner, r) /\ UNCHANGED now
  \/ \E n \in Nodes \ {Root} : \E x, owner \in Accounts, r \in ResolversFor(n), expiry \in ExpiriesFor(n) :
       RegisterName(n, x, owner, r, expiry) /\ UNCHANGED now
  \/ \E n \in Nodes \ {Root}, x, owner \in Accounts : Claim(n, x, owner) /\ UNCHANGED now
  \/ \E n \in Nodes, x \in Accounts :
       /\ \/ \E owner \in Accounts : SetOwner(n, x, owner)
          \/ \E r \in ResolversFor(n) : SetResolver(n, x, r)
          \/ n \in Parents /\ \E s \in Delegates : SetSubregistry(n, x, s)
          \/ n \in Parents /\ \E expiry \in 0 .. MaxTime : Renew(n, x, expiry)
          \/ n \in Named /\ \E a \in Accounts \union {None} : SetAddressAttribute(n, x, a)
          \/ n \in Named /\ (SetOtherAttribute(n, x) \/ UnsetAttribute(n, x))
       /\ UNCHANGED now
  \/ \E x \in Accounts, n \in Named \union {None} : SetPrimaryName(x, n) /\ UNCHANGED now
  \/ TogglePause /\ UNCHANGED now
  \/ Tick /\ UNCHANGED namesVars

NamesSpec == NamesInit /\ now = 0 /\ [][NamesNext]_<<namesVars, now>>

-----------------------------------------------------------------------------
(* Properties *)

NamesTypeOK ==
  /\ records \in [Nodes -> Record \union {None}]
  /\ primaryName \in [Accounts -> Nodes \union {None}]
  /\ address \in [Nodes -> Accounts \union {None}]
  /\ datatype \in [Nodes -> {"address", "other", None}]
  /\ claimedBy \in [Accounts -> Nodes \union {None}]
  /\ namesPaused \in BOOLEAN
  /\ vouched \in [Nodes -> SUBSET Accounts]
  /\ entrusted \in [Nodes -> SUBSET OtherResolvers]

(* ReverseIsVouched: the name an account may be shown by (reverseResolve,    *)
(* _resolveNameView) is a registered node that the account itself chose,    *)
(* and an owner of the node gave the node to the account or pointed it at   *)
(* the account.  The one way around that is a resolver of another make,     *)
(* which may answer anything, and the node has such a resolver only because *)
(* it was registered with it or one of its owners set it: nobody else can   *)
(* put one in, through any sequence of transfers, claims, resolver changes  *)
(* and attribute writes.  (It stays when the node changes hands.)           *)
ReverseIsVouched ==
  \A x \in Accounts :
    LET n == ReverseResolve(x) IN
    n # None =>
      /\ RecordExists(n) /\ primaryName[x] = n
      /\ \/ x \in vouched[n]
         \/ records[n].resolver \in entrusted[n]

=============================================================================
