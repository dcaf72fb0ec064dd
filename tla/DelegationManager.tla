------------------------- MODULE DelegationManager -------------------------
(***************************************************************************)
(* redeemDelegation over chains of delegations, leaf first, with the        *)
(* caveats of every link; revocation; and the quorum caveat with its        *)
(* signatures and approved hashes.                                          *)
(*                                                                          *)
(* The caveats that judge only the call (value, targets, methods, call data *)
(* hash) are the set of calls they let pass.  A delegation stands for its   *)
(* hash, so its terms are constants.  The afterHooks are all empty.         *)
(***************************************************************************)
EXTENDS BlockContext

CONSTANTS
  Delegations,
  DelegatorOf, DelegateOf,   \* a delegate may be Open
  AuthorityOf,               \* the parent's hash, or RootAuthority
  Open, RootAuthority,
  Calls,
  RevokesOf,    \* the delegation a call revokes at the manager, None for other calls
  Permits,      \* the calls the stateless caveats of a delegation let pass
  WindowOf,     \* validAfter and validUntil of its timestamp caveat
  QuorumOf,     \* signerSet and threshold of its quorum caveat, or None
  MaxChain,     \* bound on the length of a chain
  MaxEndorsed,  \* bound on the different quorum signatures
  MaxExecutions \* bound on the executions

Quorum == [signers : SUBSET Accounts, threshold : Nat]
Chains == UNION {[1 .. n -> Delegations] : n \in 1 .. MaxChain}

(* What a quorum signer signs, bound to the whole execution.                *)
Payload == [delegation : Delegations, redeemer : Accounts, call : Calls]
Execution == [chain : Chains, redeemer : Accounts, call : Calls, at : Nat]

ASSUME DelegationAssumption ==
  /\ DelegatorOf \in [Delegations -> Accounts]
  /\ DelegateOf \in [Delegations -> Accounts \union {Open}]
  /\ AuthorityOf \in [Delegations -> Delegations \union {RootAuthority}]
  /\ RevokesOf \in [Calls -> Delegations \union {None}]
  /\ Permits \in [Delegations -> SUBSET Calls]
  /\ WindowOf \in [Delegations -> [after : Nat, until : Nat]]
  /\ QuorumOf \in [Delegations -> Quorum \union {None}]
  /\ MaxChain \in Nat /\ MaxEndorsed \in Nat /\ MaxExecutions \in Nat
  /\ Open \notin Accounts /\ RootAuthority \notin Delegations
  /\ None \notin Quorum \union Delegations
  /\ IsFiniteSet(Accounts)

VARIABLES
  accepted,    \* delegations whose signature the delegator's account accepts
  revokedDelegations,  \* _revoked
  endorsed,    \* quorum signatures and approved hashes in force, as <<signer, payload>>
  managed,     \* accounts that take calls from this manager
  systemPaused,
  executions,  \* history: the calls made
  endorsements \* history: what was ever endorsed

delegationVars ==
  <<accepted, revokedDelegations, endorsed, managed, systemPaused, executions, endorsements>>

DelegationInit ==
  /\ accepted = {} /\ revokedDelegations = {}
  /\ endorsed = {} /\ endorsements = {}
  /\ managed = Accounts
  /\ systemPaused = FALSE
  /\ executions = <<>>

-----------------------------------------------------------------------------
(* Signing, off chain or in the registry of approved hashes *)

SignDelegation(d) ==
  /\ d \notin accepted
  /\ accepted' = accepted \union {d}
  /\ UNCHANGED <<revokedDelegations, endorsed, managed, systemPaused, executions, endorsements>>

(* The delegator's account replaced the signer: ERC-1271 refuses it now.    *)
SignatureLapses(d) ==
  /\ d \in accepted
  /\ accepted' = accepted \ {d}
  /\ UNCHANGED <<revokedDelegations, endorsed, managed, systemPaused, executions, endorsements>>

(* A quorum signature, or approveHash.                                      *)
ApproveHash(x, p) ==
  /\ <<x, p>> \notin endorsed
  /\ <<x, p>> \in endorsements \/ Cardinality(endorsements) < MaxEndorsed
  /\ endorsed' = endorsed \union {<<x, p>>}
  /\ endorsements' = endorsements \union {<<x, p>>}
  /\ UNCHANGED <<accepted, revokedDelegations, managed, systemPaused, executions>>

RevokeHash(x, p) ==
  /\ <<x, p>> \in endorsed
  /\ endorsed' = endorsed \ {<<x, p>>}
  /\ UNCHANGED <<accepted, revokedDelegations, managed, systemPaused, executions, endorsements>>

-----------------------------------------------------------------------------
(* The manager *)

MayRevokeDelegation(by, d) == by \in {DelegatorOf[d], DelegateOf[d]} /\ d \in accepted

RevokeDelegationByOwner(by, d) ==
  /\ MayRevokeDelegation(by, d)
  /\ revokedDelegations' = revokedDelegations \union {d}
  /\ UNCHANGED <<accepted, endorsed, managed, systemPaused, executions, endorsements>>

(* _validateDelegation of link i: the delegate is the redeemer or the next  *)
(* link's delegator, and a parent that is named is the following link.      *)
NotRevokedLink_LeafOnly(chain, i) == i = 1 => chain[i] \notin revokedDelegations
NotRevokedLink(chain, i) == chain[i] \notin revokedDelegations

ValidLink(chain, i, redeemer) ==
  LET d == chain[i] IN
  /\ NotRevokedLink(chain, i)
  /\ DelegateOf[d] \in {Open, IF i = 1 THEN redeemer ELSE DelegatorOf[chain[i - 1]]}
  /\ AuthorityOf[d] # RootAuthority => i < Len(chain) /\ AuthorityOf[d] = chain[i + 1]
  /\ d \in accepted

(* QuorumEnforcer.beforeHook: threshold slots in ascending order of their   *)
(* signers, so distinct ones, each over the payload of this execution.      *)
Endorses(x, d, redeemer, call) ==
  <<x, [delegation |-> d, redeemer |-> redeemer, call |-> call]>> \in endorsed

QuorumHook(d, redeemer, call) ==
  LET q == QuorumOf[d] IN
  q # None =>
    /\ q.threshold \in 1 .. Cardinality(q.signers)
    /\ Cardinality({x \in q.signers : Endorses(x, d, redeemer, call)}) >= q.threshold

TimestampHook(d) == now \in WindowOf[d].after .. WindowOf[d].until

(* _runBeforeHooks for link i.                                              *)
BeforeHooks_LeafOnly(chain, i, redeemer, call) ==
  /\ i = 1 => call \in Permits[chain[i]] /\ TimestampHook(chain[i])
  /\ QuorumHook(chain[i], redeemer, call)
BeforeHooks(chain, i, redeemer, call) ==
  /\ call \in Permits[chain[i]]
  /\ TimestampHook(chain[i])
  /\ QuorumHook(chain[i], redeemer, call)

(* The account of the last link's delegator makes the call, which may be a  *)
(* revocation at the manager itself.                                        *)
Effect(account, call) ==
  IF RevokesOf[call] = None THEN UNCHANGED revokedDelegations
  ELSE /\ MayRevokeDelegation(account, RevokesOf[call])
       /\ revokedDelegations' = revokedDelegations \union {RevokesOf[call]}

RedeemDelegation(chain, redeemer, call) ==
  LET account == DelegatorOf[chain[Len(chain)]] IN
  /\ Len(executions) < MaxExecutions
  /\ ~systemPaused
  /\ \A i \in DOMAIN chain :
       ValidLink(chain, i, redeemer) /\ BeforeHooks(chain, i, redeemer, call)
  /\ account \in managed
  /\ Effect(account, call)
  /\ executions' = Append(executions,
       [chain |-> chain, redeemer |-> redeemer, call |-> call, at |-> now])
  /\ UNCHANGED <<accepted, endorsed, managed, systemPaused, endorsements>>

-----------------------------------------------------------------------------
(* The account moves to another manager, or back.                           *)
SetManager(a) ==
  /\ managed' = IF a \in managed THEN managed \ {a} ELSE managed \union {a}
  /\ UNCHANGED <<accepted, revokedDelegations, endorsed, systemPaused, executions, endorsements>>

SetSystemPause ==
  /\ systemPaused' = ~systemPaused
  /\ UNCHANGED <<accepted, revokedDelegations, endorsed, managed, executions, endorsements>>

DelegationStep ==
  \/ \E d \in Delegations :
       \/ SignDelegation(d) \/ SignatureLapses(d)
       \/ \E x \in Accounts : RevokeDelegationByOwner(x, d)
  \/ \E d \in Delegations, redeemer \in Accounts, call \in Calls :
       /\ QuorumOf[d] # None
       /\ \E x \in QuorumOf[d].signers :
            \/ ApproveHash(x, [delegation |-> d, redeemer |-> redeemer, call |-> call])
            \/ RevokeHash(x, [delegation |-> d, redeemer |-> redeemer, call |-> call])
  \/ \E chain \in Chains, x \in Accounts, call \in Calls : RedeemDelegation(chain, x, call)
  \/ \E a \in Accounts : SetManager(a)
  \/ SetSystemPause

DelegationNext ==
  \/ DelegationStep /\ UNCHANGED now
  \/ Tick /\ UNCHANGED delegationVars

DelegationSpec == DelegationInit /\ now = 0 /\ [][DelegationNext]_<<delegationVars, now>>

-----------------------------------------------------------------------------
(* Properties *)

DelegationTypeOK ==
  /\ accepted \subseteq Delegations /\ revokedDelegations \subseteq Delegations
  /\ endorsed \subseteq Accounts \X Payload /\ endorsements \subseteq Accounts \X Payload
  /\ managed \subseteq Accounts
  /\ systemPaused \in BOOLEAN
  /\ executions \in Seq(Execution)

(* A revocation ends every chain through the revoked link, a parent's too,  *)
(* at once and for good: no later redemption uses it, although revocations  *)
(* may come from either side, by signature, and even from within a          *)
(* redemption (_validateDelegation, revokeDelegationByOwner).               *)
RevokedLinkIsDead ==
  [][/\ revokedDelegations \subseteq revokedDelegations'
     /\ executions' # executions =>
          \A i \in DOMAIN executions'[Len(executions')].chain :
            executions'[Len(executions')].chain[i] \notin revokedDelegations
    ]_<<delegationVars, now>>

(* Authority only shrinks along a chain: every call that was made is one    *)
(* that each of its links permits at that time, and each link hands on to   *)
(* the one before it, down to the redeemer.  Where a link has a quorum      *)
(* caveat, as many of its signers as the threshold says have endorsed this  *)
(* call by this redeemer: signatures for another call, redeemer or          *)
(* delegation do not count (_validateDelegation, _runBeforeHooks,           *)
(* QuorumEnforcer).                                                         *)
WithinEveryLink ==
  \A k \in DOMAIN executions : LET e == executions[k] IN
    \A i \in DOMAIN e.chain : LET q == QuorumOf[e.chain[i]] IN
      /\ e.call \in Permits[e.chain[i]]
      /\ e.at >= WindowOf[e.chain[i]].after /\ e.at <= WindowOf[e.chain[i]].until
      /\ DelegateOf[e.chain[i]] \in
           {Open, IF i = 1 THEN e.redeemer ELSE DelegatorOf[e.chain[i - 1]]}
      /\ q # None =>
        /\ q.threshold > 0
        /\ Cardinality({x \in q.signers :
             <<x, [delegation |-> e.chain[i], redeemer |-> e.redeemer, call |-> e.call]>>
               \in endorsements}) >= q.threshold

=============================================================================
