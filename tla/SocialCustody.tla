--------------------------- MODULE SocialCustody ---------------------------
(***************************************************************************)
(* Accounts whose custodian is derived from a social login.  A request to   *)
(* demo-a2a verifies the broker's session, derives the subject's key, signs *)
(* one sponsored operation with it, and waits for the receipt.  The chain   *)
(* moves between these steps: two requests meet on one account or one name, *)
(* sponsorship stops after the gas estimate, a receipt comes too late.      *)
(***************************************************************************)
EXTENDS Naturals

CONSTANTS
  Members,    \* (iss, sub) pairs
  MaxTurn,    \* bound on the rotation of a member's key
  MaxSalt,    \* bound on the salts drawn
  MaxNonce,   \* bound on the operations that members send by themselves
  Labels,
  Demands,    \* requests
  Stranger,   \* owner of a name claimed outside this service
  Device,     \* a custodian that is not derived: a passkey or a wallet
  Nothing

ASSUME SocialAssumption ==
  /\ MaxTurn \in Nat /\ MaxSalt \in Nat /\ MaxNonce \in Nat
  /\ Nothing \notin Labels \union {Stranger, Device}

(* deriveSubjectCustodian: one key for a subject and rotation               *)
Keys == [member : Members, turn : 0 .. MaxTurn]

(* getAddressForAgentAccount: the address fixes the first custodian and the *)
(* salt; salt 0 is the person.                                              *)
Sites == [key : Keys, salt : 0 .. MaxSalt]
Person(k) == [key |-> k, salt |-> 0]

Kinds == {"claim", "bare", "org", "agent", "name"}

(* The custody descriptor of a new account: its salt and the rotation of    *)
(* its key, not its subject.                                                *)
Descriptors == [target : Sites, salt : 0 .. MaxSalt, turn : 0 .. MaxTurn]

(* pc "estimate": signed; "sent": the receipt is awaited; "late": given up. *)
Demand ==
  [kind : Kinds, key : Keys, site : Sites, label : Labels \union {Nothing},
   node : Labels \union {Nothing}, grants : BOOLEAN, seq : Nat,
   pc : {"estimate", "sent", "late", "done"},
   answer : {"none", "ok", "already", "reverted", "failed"},
   slip : Descriptors \union {Nothing}]

ASSUME NothingAssumption == Nothing \notin Sites \union Descriptors \union Demand

VARIABLES
  sponsored,  \* the paymaster accepts operations
  accounts,   \* the deployed accounts: EntryPoint nonce and custodians
  nameOwner,
  claimed,    \* the accounts that have had their one claim
  stamps,     \* the accounts that approved the hashes of their grants
  demands

socialVars == <<sponsored, accounts, nameOwner, claimed, stamps, demands>>

SocialInit ==
  /\ sponsored = TRUE
  /\ accounts = [a \in {} |-> {}]
  /\ nameOwner = [l \in Labels |-> Nothing]
  /\ claimed = {}
  /\ stamps = {}
  /\ demands = [r \in Demands |-> Nothing]

(* An account is deployed by its first operation.                           *)
Deployed(a) == a \in DOMAIN accounts
NonceOf(a) == IF Deployed(a) THEN accounts[a].nonce ELSE 0
HoldersOf(a) == IF Deployed(a) THEN accounts[a].holders ELSE {}

-----------------------------------------------------------------------------
(* The request up to its signature *)

(* A request comes with the key k its session stands for: the session has   *)
(* passed verifyCustodySession and names the person derived from k.  Any    *)
(* other is refused before anything is read or written.                     *)

Enter(r, kind, k, a, l, n) ==
  /\ demands[r] = Nothing
  /\ demands' = [demands EXCEPT ![r] =
       [kind |-> kind, key |-> k, site |-> a, label |-> l, node |-> n,
        grants |-> kind \in {"org", "agent"}, seq |-> NonceOf(a),
        pc |-> IF kind \in {"claim", "bare"} /\ Deployed(a) THEN "done" ELSE "estimate",
        answer |-> IF kind \in {"claim", "bare"} /\ Deployed(a) THEN "already" ELSE "none",
        slip |-> Nothing]]
  /\ UNCHANGED <<sponsored, accounts, nameOwner, claimed, stamps>>

(* /custody/google/bootstrap-and-claim                                      *)
BootstrapAndClaim(r, k, l, n) == Enter(r, "claim", k, Person(k), l, n)

(* /custody/google/bootstrap: deployed without a name                       *)
Bootstrap(r, k) == Enter(r, "bare", k, Person(k), Nothing, Nothing)

(* A salt drawn at random is new.                                           *)
FreshSalt(x) ==
  /\ x # 0
  /\ \A r \in Demands : demands[r] # Nothing => demands[r].site.salt # x

(* /custody/google/bootstrap-org: a name, and grants to the application,    *)
(* the broker and the person, all approved in the batch                     *)
BootstrapOrg(r, k, x, l, n) ==
  FreshSalt(x) /\ Enter(r, "org", k, [key |-> k, salt |-> x], l, n)

(* /custody/google/bootstrap-agent: the name is optional, the one grant is  *)
(* to the parent.                                                           *)
BootstrapAgent(r, k, x, l, n) ==
  /\ FreshSalt(x)
  /\ (l = Nothing) = (n = Nothing)
  /\ Enter(r, "agent", k, [key |-> k, salt |-> x], l, n)

(* /custody/google/name-agent: for an account the session's key custodies   *)
NameAgent(r, k, a, l, n) ==
  k \in HoldersOf(a) /\ Enter(r, "name", k, a, l, n)

-----------------------------------------------------------------------------
(* EntryPoint.handleOps *)

(* The operation validates: it is sponsored, its nonce is the account's,    *)
(* and its signer is a custodian, at a first operation by construction.     *)
Validates(q) ==
  /\ sponsored
  /\ NonceOf(q.site) = q.seq
  /\ q.seq > 0 => q.key \in HoldersOf(q.site)

(* executeBatch: one claim for each caller, a free label, a node that is    *)
(* registered when it becomes the primary name (what a primary name tells   *)
(* is in AgentNames).                                                       *)
Registers(q) == q.label # Nothing
BatchSucceeds(q) ==
  Registers(q) =>
    /\ nameOwner[q.label] = Nothing
    /\ q.site \notin claimed
    /\ q.node = q.label \/ nameOwner[q.node] # Nothing

(* All the calls, or none.                                                  *)
Batch(q) ==
  /\ nameOwner' = IF BatchSucceeds(q) /\ Registers(q)
                  THEN [nameOwner EXCEPT ![q.label] = q.site] ELSE nameOwner
  /\ claimed' = IF BatchSucceeds(q) /\ Registers(q) THEN claimed \union {q.site} ELSE claimed
  /\ stamps' = IF BatchSucceeds(q) /\ q.grants THEN stamps \union {q.site} ELSE stamps

(* The account is deployed, and its nonce used, whether or not the batch    *)
(* succeeds.                                                                *)
Execute(q) ==
  /\ accounts' = [a \in DOMAIN accounts \union {q.site} |->
       IF a = q.site
       THEN [nonce |-> q.seq + 1, holders |-> IF q.seq = 0 THEN {q.key} ELSE HoldersOf(a)]
       ELSE accounts[a]]
  /\ Batch(q)

Answer(r, pc, a) == demands' = [demands EXCEPT ![r].pc = pc, ![r].answer = a]

(* The rotation is left out and defaults to 0.                              *)
DescriptorOf_NoRotation(q) == [target |-> q.site, salt |-> q.site.salt, turn |-> 0]

(* The descriptor answered with a new organisation or agent                 *)
DescriptorOf(q) == [target |-> q.site, salt |-> q.site.salt, turn |-> q.key.turn]

(* writeContract estimates the gas, which fails for an operation that does  *)
(* not validate; then it sends the transaction.                             *)
Estimate(r) ==
  LET q == demands[r] IN
  /\ q # Nothing /\ q.pc = "estimate"
  /\ IF Validates(q) THEN Answer(r, "sent", "none") ELSE Answer(r, "done", "failed")
  /\ UNCHANGED <<sponsored, accounts, nameOwner, claimed, stamps>>

(* No caller asks for its own sender.                                       *)
InnerOutcome_NoFilter(q, landed, done) ==
  IF landed /\ ~done THEN "reverted" ELSE "ok"

(* detectInnerOpFailure: an event of the operation decides.  A receipt      *)
(* without one is a failure only where the caller asks for its own sender.  *)
InnerOutcome(q, landed, done) ==
  IF landed THEN IF done THEN "ok" ELSE "reverted"
  ELSE IF q.kind = "name" THEN "reverted" ELSE "ok"

(* The transaction is included: the operation is executed, or, when it no   *)
(* longer validates, the whole transaction reverts and its receipt is empty.*)
Land(r) ==
  LET q == demands[r]
      a == IF q.pc = "late" THEN "failed" ELSE InnerOutcome(q, Validates(q), BatchSucceeds(q))
  IN
  /\ q # Nothing /\ q.pc \in {"sent", "late"}
  /\ IF Validates(q) THEN Execute(q) ELSE UNCHANGED <<accounts, nameOwner, claimed, stamps>>
  /\ demands' = [demands EXCEPT ![r].pc = "done", ![r].answer = a,
                                ![r].slip = IF a = "ok" /\ q.grants THEN DescriptorOf(q) ELSE Nothing]
  /\ UNCHANGED sponsored

(* The wait for the receipt ends first; the transaction may still land.     *)
GiveUp(r) ==
  LET q == demands[r] IN
  /\ q # Nothing /\ q.pc = "sent"
  /\ Answer(r, "late", "failed")
  /\ UNCHANGED <<sponsored, accounts, nameOwner, claimed, stamps>>

-----------------------------------------------------------------------------
(* Around the requests *)

(* The paymaster is paused or runs out of its deposit.                      *)
StopSponsoring ==
  /\ sponsored
  /\ sponsored' = FALSE
  /\ UNCHANGED <<accounts, nameOwner, claimed, stamps, demands>>

(* Somebody else claims a name.                                             *)
ClaimElsewhere(l) ==
  /\ nameOwner[l] = Nothing
  /\ nameOwner' = [nameOwner EXCEPT ![l] = Stranger]
  /\ UNCHANGED <<sponsored, accounts, claimed, stamps, demands>>

(* The members use their accounts themselves, by operations that            *)
(* /custody/google/sign or a device of their own signs.                     *)
SendsOwn(a, holders) ==
  /\ sponsored /\ Deployed(a) /\ accounts[a].nonce < MaxNonce
  /\ accounts' = [accounts EXCEPT ![a] = [nonce |-> @.nonce + 1, holders |-> holders]]
  /\ UNCHANGED <<sponsored, claimed, stamps, demands>>

(* A batch of addCustodian and removeCustodian adds the device, beside the  *)
(* derived key or in its place, or removes either; never the last custodian.*)
ChangeHolders(a, holders) ==
  /\ holders \subseteq HoldersOf(a) \union {Device}
  /\ holders # {} /\ holders # HoldersOf(a)
  /\ SendsOwn(a, holders)
  /\ UNCHANGED nameOwner

(* setOwner gives a name of the account away.                               *)
TransferName(a, l, to) ==
  /\ nameOwner[l] = a
  /\ SendsOwn(a, HoldersOf(a))
  /\ nameOwner' = [nameOwner EXCEPT ![l] = to]

(* Somebody else gives a name away.                                         *)
TransferElsewhere(l, to) ==
  /\ nameOwner[l] = Stranger
  /\ nameOwner' = [nameOwner EXCEPT ![l] = to]
  /\ UNCHANGED <<sponsored, accounts, claimed, stamps, demands>>

SocialNext ==
  \/ \E r \in Demands, k \in Keys :
       \/ Bootstrap(r, k)
       \/ \E l, n \in Labels :
            \/ BootstrapAndClaim(r, k, l, n)
            \/ \E x \in 0 .. MaxSalt : BootstrapOrg(r, k, x, l, n)
            \/ \E a \in Sites : NameAgent(r, k, a, l, n)
       \/ \E x \in 0 .. MaxSalt, l, n \in Labels \union {Nothing} : BootstrapAgent(r, k, x, l, n)
  \/ \E r \in Demands : Estimate(r) \/ Land(r) \/ GiveUp(r)
  \/ StopSponsoring
  \/ \E l \in Labels : ClaimElsewhere(l)
  \/ \E l \in Labels, to \in Sites : TransferElsewhere(l, to)
  \/ \E a \in Sites :
       \/ \E holders \in SUBSET (HoldersOf(a) \union {Device}) : ChangeHolders(a, holders)
       \/ \E l \in Labels, to \in Sites \union {Stranger} : TransferName(a, l, to)

SocialSpec == SocialInit /\ [][SocialNext]_socialVars

-----------------------------------------------------------------------------
(* Recovery *)

(* recoverCustodian, for a session of member m: the key of m at the         *)
(* descriptor's rotation, if it derives the target.                         *)
Recovered(m, d) ==
  LET k == [member |-> m, turn |-> d.turn] IN
  IF [key |-> k, salt |-> d.salt] = d.target THEN {k} ELSE {}

-----------------------------------------------------------------------------
(* Properties *)

SocialTypeOK ==
  /\ sponsored \in BOOLEAN
  /\ DOMAIN accounts \subseteq Sites
  /\ \A a \in DOMAIN accounts :
       accounts[a].nonce \in Nat /\ accounts[a].holders \subseteq Keys \union {Device}
  /\ nameOwner \in [Labels -> Sites \union {Nothing, Stranger}]
  /\ claimed \subseteq Sites /\ stamps \subseteq Sites
  /\ demands \in [Demands -> Demand \union {Nothing}]

(* The descriptor answered with a new account recovers its custodian, all   *)
(* but the device added beside it, in every later session of the same       *)
(* member, at whatever rotation, and in no session of anybody else:         *)
(* bootstrap-org and bootstrap-agent must record the rotation the account   *)
(* was derived with, recoverCustodian must use it.                          *)
DescriptorRecovers ==
  \A r \in Demands :
    LET q == demands[r] IN
    q # Nothing /\ q.slip # Nothing /\ Deployed(q.site) /\ HoldersOf(q.site) # {Device}
      => \A m \in Members :
           Recovered(m, q.slip) = IF m = q.key.member THEN HoldersOf(q.site) \ {Device} ELSE {}

(* A name is the agent's when /name-agent answers for it, although the      *)
(* transaction may have reverted after its estimate, the name been claimed  *)
(* or given away meanwhile, or another request used the nonce (it may be    *)
(* given away later).  A grant is approved only in the step that gives the  *)
(* account the name its request asked for: a request that fails in the      *)
(* middle leaves an account with neither (bootstrap-org, bootstrap-agent).  *)
NamedIsOwned ==
  [][\A r \in Demands :
       LET q == demands[r]  p == demands'[r] IN
       /\ q # Nothing
       /\ \/ q.kind = "name" /\ p.answer = "ok" /\ q.answer # "ok"
          \/ q.label # Nothing /\ q.grants /\ q.site \in stamps' \ stamps
       => nameOwner'[q.label] = q.site]_socialVars

=============================================================================
