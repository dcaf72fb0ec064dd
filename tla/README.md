# A TLA+ model of agenticprimitives

agenticprimitives is a monorepo of Solidity contracts and TypeScript packages for
*agent accounts*: smart accounts with a custody council, delegations with caveats,
pay-per-use settlement, and agent-to-agent transport. This directory models the parts
whose correctness depends on the order in which independent parties act.

## Inventory

| Part | State | Operations | What is hard | What makes it correct |
|---|---|---|---|---|
| `AgentAccount.sol` | external custodians and passkeys with their counters, module table, DelegationManager, accepted sessions, implementation slot and upgrade queue | `onlySelf` functions reached by a single-signer userOp or by the custody module; permissionless `executePendingUpgrade` | two authorities (owner, council) write the same state | a custodian remains, and one who can sign where the external ones have keys; counters are exact; upgrades wait |
| `CustodyPolicy.sol` | mode, per-tier approvals and delays, trustees, recovery threshold, history of changes | `onInstall`, `onUninstall`, `scheduleCustodyChange`, `applyCustodyChange`, `cancelScheduledChange`, 14 action handlers | thresholds are read again at apply time while the eta is fixed at schedule time; recovery races cancellation | explicit quorums, reachable recovery, delays and veto window kept, each change used once |
| `AgentAccountFactory.sol` | none | `createAgentAccount` | validation has to match what the policy later needs | deploys only usable configurations |
| `AgenticGovernance.sol` | pause flag, signers, guardian | `pause`, `unpause`, `execute`, setters | a pause between any two steps of the others | a pause freezes custody and redemption |
| `DelegationManager.sol` | revoked hashes | `redeemDelegation`, `revokeDelegationByOwner` | redemption against a revocation in the same block | a revoked delegation moves nothing |
| `PaymentEnforcer.sol`, `PaymentReceiptRegistry.sol` | used nonces, budget, frequency window per delegation | `beforeHook`, `record` | several redemptions outstanding, window edges | one charge per nonce, caps kept |
| x402 rail (`payments/src/rails/x402`) | nullifier rows | `settle`, `reserve`, `mark*` | concurrent calls, timeouts, late inclusion, crashes, store loss | one call per mandate, receipts are true, calls end |
| A2A runtime (`a2a/src`, `a2a-task-do.ts`) | tasks, due index, seen message ids, alarm | `message/send`, resubmit, `tasks/cancel`, push configuration, alarm handler | read, await, write back; torn writes; alarm not armed, or postponed by each request | only a stale writer leaves a finished task; a due task is processed unless requests postpone the alarm for ever |
| Sessions (`session-manager.ts`) | session rows | `init`, `package`, `resolve`, `revoke` | read, await, write back | a revoked session settles as revoked |
| MCP middleware (`mcp-runtime/src`, `delegation/src/token.ts`) | jti usage counters, envelope nonces, audit rows | MAC gate, `withDelegation`, `verifyDelegationToken` | counter consumed before later refusals; memory store; repeated envelopes; failing chain reads | usage limits hold, revoked tokens are refused, closed tools stay closed |
| `AgenticGovernance.sol`, timelock, `SmartAgentPaymaster.sol` | operations waiting, deposit, mirrored pause, pending withdrawal | schedule, execute, cancel, sponsorship, withdrawals | stale mirror, overwritten and overlapping operations | a pause holds; nothing leaves the deposit by surprise |
| `PaymentEscrow.sol` | one hold per order over one balance per token | `deposit`, `release`, `refund`, `reclaim` | three exits race; holds share a balance with tokens sent to the escrow outside any order | each hold pays out once, to an entitled party; what is owed is covered |
| `AgreementRegistry.sol`, `AttestationRegistry.sol`, `AgentRelationship.sol` | records with status, nullifiers, consents, roles | register, sign, update, assert, revoke, propose, confirm | signatures are public and reusable; two parties | only both parties settle, assert, activate |
| Naming contracts | records, primary names, address attributes | register, transfer, claim, set, resolve | four contracts that vouch for each other, and any further resolver | a reverse name was granted by an owner of it, or rests on a resolver an owner or the registration put in |
| Skill, geo, shape and term registries | versions, enumerations, term index | publish, retire, define, register in batches | a list and a table kept in step | what a credential pins stands; indexes are exact |
| Vault (`vault/src`, demo-mcp tools) | sealed objects, generic records, audit rows | sensitive read, read, write, delete | awaits between row, key and audit | an agent reads only its own namespace |
| Connect (`demo-sso-next/server`) | key-value store: codes, grants, bindings, facets, rotations | authorize-grant, grant, token, callback, rotate, step-up | get and delete are separate calls; two clients share a delegate | tokens and logins reach whom they were granted to |
| Social custody (`demo-a2a` `/custody/google/*`) | accounts, names and approved grants on chain | bootstrap, bootstrap-org/agent, name-agent, recover | a check, a signature, a gas estimate and a receipt, each in its own await, while names and custodians change | what is answered about names and recovery is so |
| Federated tokens (`demo-a2a` `/custody/youversion/*`) | token and grant records, the provider's token chain | store, refresh, read, grant | concurrent refreshes, sign-ins and withdrawals | the person stays linked; apps are served by consent |
| Everything else (SDK clients, credentials, user interfaces) | none or per request | encoding, verification | little | covered by unit tests |

The contracts are called by one another inside one transaction (factory → account →
policy; policy → account; DelegationManager → enforcer → registry, then → account), which
is atomic: a revert anywhere undoes it all. The TypeScript parts talk to the chain and to
their stores through awaited calls, so every `await` is a point where others may act.

## Modules

| Module | Models |
|---|---|
| `AgentAccount` | the account: signers, module slots, upgrade queue, callers, pause and time |
| `CustodyPolicy` | extends it with the policy and the factory; `Spec` is the whole custody system |
| `CustodyClaims` | statements of the docs and comments that the custody code does not keep |
| `MCCustody` | instances for TLC |
| `CustodyPolicyProofs` | theorems about `CustodyPolicy` for every value of its constants |
| `PaymentEnforcer` | a payment delegation on chain: redemption, budget, window, revocation, pause |
| `X402Rail` | extends it with concurrent `settle()` calls, the nullifier store, crashes; shown to implement `PaymentContract` |
| `PaymentContract` | what the rail promises payers and callers, in terms of money and answers alone |
| `MCX402`, `X402Proofs` | the same roles for the rail |
| `A2ATasks`, `MCA2A`, `A2AProofs` | the task runtime of one A2A agent: requests, alarm handler, task store, evictions |
| `SessionManager` | delegation sessions and the tokens minted from them |
| `McpRuntime` | extends it with the pipeline of an MCP server; `McpClaims`, `MCMcp`, `McpProofs` as above |
| `Governance` | the guardian, the timelock and the pause flag |
| `Paymaster` | extends it with the sponsorship and the deposit; `MCPaymaster`, `PaymasterProofs` |
| `BlockContext` | what the contract modules below share: callers and block time |
| `DelegationManager` | chains of delegations with their caveats, revocation, the quorum caveat |
| `HoldContract` | what an escrow promises, in terms of money alone |
| `PaymentEscrow` | the escrow contract, shown to implement `HoldContract` |
| `AgreementRegistry`, `AttestationRegistry`, `AgentRelationship` | the registries of two parties |
| `AgentNames` | name registry, permissionless subregistry, resolvers |
| `SkillRegistry`, `OntologyRegistry` | versions of skills and features; shapes, enumerations, terms |
| `Vault`, `VaultClaims` | the vault behind the demo MCP server |
| `MCContracts` | instances of the eight contract modules and the vault |
| `RegistryProofs` | theorems about the registries, names, versions, terms and the vault |
| `ContractProofs` | theorems about the escrow and the delegation manager, and about all of `MCContracts` together |
| `OidcBroker`, `GoogleLogin` | the Connect broker: code and re-authentication grants, Google login |
| `SocialCustody` | accounts held by keys derived from a login |
| `FederatedTokens` | a person's provider tokens and the reads made with them |
| `MCConnect`, `ConnectProofs` | instances of the last four; theorems about each and about them together |

### Custody: how state and actions correspond

One account and the policy installed on it. Variables carry the names of the contract's
fields (`externalCustodianCount`, `passkeys`, `recoveryApprovals`, `approvals` for
`approvalsRequiredByTier`, `delays` for `safetyDelayByTier`, `pending` for the scheduled
changes with their proposers). One action is one transaction:

* `CreateAgentAccount` is the factory call with `initialize`, the module install and
  `onInstall` in it. Everything before it is an empty account.
* `Owner...` actions are userOps signed by one signer that call one `onlySelf` function.
  They require `Execute`: deployed, not paused, one valid signature and no hook module
  (the policy does not implement `preCheck`, so installed as a hook it blocks `execute`).
* `ScheduleCustodyChange`, `ApplyCustodyChange`, `CancelScheduledChange` take a set of
  signers. A signature slot verifies for one address and the code demands ascending order,
  so a valid list is a set. `VerifyQuorum` checks membership at that moment. Apply runs
  the handler of the action (`ApplyChange`) in the same step; a handler whose guard fails
  disables the whole action, as a revert does.
* `Pause`, `Unpause` and `Tick` are governance and the chain.

A passkey credential stands for the address derived from it. `externalCustodians` may hold any
address; `EcdsaKeys` are those with an ECDSA key, and a userOp is signed by one of these or by a
registered passkey (`ValidateSig`), so the address of a passkey, or a contract wallet, counts as a
custodian and signs nothing. Delegations an account pre-approved by hash, which outlive its signers,
are left out of `Execute`. Signatures cover action,
arguments and change id, so they are not transferable between changes. The only call of
`CustodyPolicy` without an effect on this state is the paymaster / session-issuer rotation,
whose handler reverts.

### x402: how state and actions correspond

`pc` says where each `settle()` call is; the actions between two values of `pc` are the code
between two awaits: `Verify` (mandate check and revocation read), `Reserve` (the store's
atomic claim), `SimulationPasses` / `SimulationRefuses`, `Submit` (markSettling and
submission), `Settle` (markSettled), `Fail` (the catch: revert, timeout or a failing
markSettled) and `Throws` (an await outside the try rejects). `Land` and `Revert` are the
chain including the transaction at any later time, also after the call gave up. `Crash`
kills the running calls and may lose the store. There is one nullifier per mandate because
the nullifier hashes the mandate id. `RedeemDelegation` is one atomic transaction: all
checks of `beforeHook`, the nonce, budget and window writes and the transfer.

### A2A: how state and actions correspond

`tasks`, `due` and `seen` are the three key ranges of the task store. `message/send` touches
an existing task only in its last, uninterrupted part (reservation, vault write, `put`), so it is one
action. `tasks/cancel`, push registration and `tasks/resubmit` read the record first
(`StartSomeCall`), wait for the chain, and then write back what they read (`TasksCancel`,
`PushConfigSet`, `Resubmit`); `RefuseCall` is a failed check, `ResubmitBurns` and
`MessageRefused` the error returns after the message id is reserved. `worker` is the alarm handler
in `processDue`: it walks the list it read (`SkipTask`, `StartTask`), waits for the skill
(`FinishTask`), waits for the webhook (`DeliverPush`) and re-arms the alarm if anything is due
(`AlarmEnds`). `alarm` is the one alarm of the object: off, `set` for 1.5 s from the last call
of `setAlarm`, or `near`, about to go off (`AlarmNears`, then `AlarmFires`). Every `message/send` and
`tasks/resubmit`, refused or not, replaces it (`SetAlarm`) and so takes a near alarm back to `set`.
`working` exists only inside `dispatchTask` and is never stored.

A Durable Object delivers no other event while a storage call is pending, so only the chain,
the skill and the webhook are interruptions. Evictions drop every running request and the
handler; an alarm whose handler did not return is delivered again. A `put` (record and due
key) is taken as one write, which is how the storage flushes it; between the reservation, the
`put` and `setAlarm` a crash may fall. `UniqueIds` says whether `newTaskId` is configured:
without it, as in the demo Durable Object, each message replaces the task before it.

Of the record the model keeps the state, `rev` and whether a webhook is registered. Artifacts,
the signed body and the hop count change no control here.

### MCP access: how state and actions correspond

`SessionManager` has the session rows; `package` and `resolve` read a row and wait for the key
service, then `package` writes the whole row back. `McpRuntime` follows a request through the
awaits of the server: the envelope nonce, the session or caller token, the revocation read, the
caveats, the usage counter, the tool policy, the audit row, the tool. A deployment is chosen at
`Init`: durable store and fail-hard sink (production) or memory store and fail-soft sink (demo).

### Governance and paymaster

An operation of the timelock is scheduled by a proposer, waits `TimelockDelay`, and is executed
by anybody; the call it carries either passes the guard of the target or leaves the operation
waiting. The paymaster's validation reads the mirrored pause flag only, which `SyncPause` copies
and governance may set by hand.

### Contracts and vault

One action is one transaction. A delegation stands for its hash, so its terms are constants; a
chain is a sequence of them, leaf first; caveats that judge only the call are the set of calls
they permit, and the time window and the quorum are modelled as they are checked. A call made by
a redemption may itself revoke a link, as `redeemDelegation` hands control to the account.
`PaymentEscrow` records amounts nominally while tokens may keep a fee; anybody may send the escrow
tokens of no order (`Gift`), and it may itself be named as payee or refund address, in which case an
ending moves nothing out. So `Solvent` is a lower bound, for tokens without a fee. Agreements and attestations model signatures as a growing public set: whoever
has them may submit them at any time. In `AgentNames` the address attribute keeps the datatype it
was written as, because an unset removes only that; a resolver other than the
AttributeResolver may give any answer at any time (`ResolveName` is the set of possible answers). In
`OntologyRegistry` an enumeration is looked up for `bytes32` and `bytes32[]` constraints only: one
given with another datatype constrains nothing. The vault's tools interleave at the audit row, the
vault row and the key.

### Connect, social custody and federated tokens

Every `get`, `put` and `delete` of the key-value store is a step. `requests` (`OidcBroker`) and
`logins` (`GoogleLogin`) hold what a request has read so far. In `SocialCustody` an address is the
key it is derived from and a salt, as CREATE2 makes it; a request is signed, estimated (a failing
estimate throws), included, or given up on while its transaction may still land. A transaction
that no longer validates in the block reverts as a whole and leaves an empty receipt, and an
operation whose batch reverts still deploys the account. Meanwhile the members send operations of
their own (`/custody/google/sign`, or a device): a batch that adds a device beside the derived key or
in its place (`ChangeHolders`), a `setOwner` that gives a name away (`TransferName`); strangers claim
and give away names too. `claimed` keeps the one claim of an account, whoever owns its name now. Of
the custodians an account may add only one device is kept, not the derived key of another member.
`FederatedTokens` numbers the refresh tokens of the provider; whether it replaces a token that is
used is chosen at `Init`. The provider is taken to do no reuse detection (a used token is refused,
but the chain it belongs to is not revoked) and its tokens not to expire.

## Runs

| Run | Question | Bounds |
|---|---|---|
| `custody_recovery` | trustees, recovery thresholds and the cancel window over time | two account shapes (threshold with two custodians and two trustees, one of them also a custodian; hybrid with a passkey), 8 kinds of change, 2 changes, time 0..4 so that a change scheduled at 0 matures and its window ends |
| `custody_account` | does a custodian remain, and one who can sign; who can move the implementation, and how fast | signer and upgrade userOps with single changes, rotations, recoveries and a custody upgrade; the address of a passkey as an external custodian; timelocks 0..2 (2 is above the maximum), one change in flight, time 0..2 |
| `custody_lifecycle` | is each change used once, across install, reinstall, uninstall and pause | legal and illegal configurations, factory and owner installs, sessions and the delegation manager, one change, time 0..2 |
| `x402` | charges, caps, frequency around window edges; does the rail keep its abstract contract; does every call end | 2 calls with a timeout, 3 mandates (two share a nonce, the third alone exceeds what they leave of the cap), one crash with and without the store, expiry inside the time bound, window shorter than it |
| `a2a` | message reuse, lost updates on finished tasks; are due tasks processed | 2 task ids that may collide, 3 messages, a request in flight beside the alarm handler, 1 crash; fair; no symmetry set, but the messages are named in the order they are reserved (`InOrder`) |
| `access` | usage limits, repeated envelopes, revocation; do revocations settle | 1 session and 1 delegation, 2 interleaved requests, a token forwarded twice, 1 restart, both deployments |
| `treasury` | does a pause hold; what may leave the deposit; does sponsorship stop | 2 operations in the timelock at a time over 12 calls, both delays 1, time 0..2, a deposit of 2 |
| `contracts` | the contract modules and the vault, one in focus at a time | 2 accounts; a chain of 2 delegations with a window and a quorum of 2, calls that pay or revoke; 2 interchangeable orders of amount 1 in 2 tokens, one with a fee, payable to the escrow itself, and gifts up to a balance of 1; 2 agreements, one of them with itself; 2 salts; 2 edges and 2 roles; 2 nodes, the root first given to the first account (the accounts are interchangeable), a resolver of another make; shapes of at most 1 constraint, shapes and terms (two contracts) in separate behaviours; 2 versions; 3 interleaved vault calls |
| `connect` | the broker, Google login, social custody and federated tokens, one in focus at a time | 3 OIDC requests of 2 clients that share a delegate (2 where an organisation is involved); 3 logins of 2 subjects, 1 rotation; 2 requests of 2 members with 2 names and one operation of the members' own; the second key asks for organisations and agents only, strangers hold at most one name, which some request asks for, and the rest of `SocialBound`; 2 reads for 2 apps, 3 refresh tokens |
| `claim_*` | statements the code does not keep | the smallest instance that shows the disagreement; each is a finding |

`OidcBound`, `SocialBound`, `OntologyBound` and `NamesBound` (in the MC modules) are exploration bounds, not part of the
specifications: the theorems hold without them. `InOrder` loses no behaviour, with liveness too: the
messages of a whole behaviour are renamed at once, and no property tells one message from another.

Two actors and two overlapping changes suffice for the custody properties because every
property relates at most two changes, or one change and one owner action; a third wallet is
there so that quorums, proposers and trustees can differ. For A2A a request and the handler are
two writers of one record, and a second task id lets a message replace a task under the feet of
either. In `contracts` and `connect` the parts share no state, so their steps commute and exploring
each while the others rest loses nothing; within a part, two of everything lets each property be
broken by mixing up two of them, which the mutants confirm.

A run checks what is worth a search: of the custody, x402 and A2A systems the properties that one
step of one contract would break (see Theorems) are left to the proofs.

Deadlock is checked where the system never stops: governance can always pause or unpause an
account, and anybody can send an A2A message that is refused. It is off in `access`, `treasury`,
`contracts` and `connect`, whose histories and requests are bounded.

### Refinement

`MoneyMovesOnce` is the specification of `HoldContract` under a mapping: `agreed` is the terms of
the funded holds, `payments` the transfers the escrow made. The abstract specification knows no
status, no expiry and no shared balance; it says that an order's terms never change and that the
whole amount leaves once, to the payee or back, on the word of somebody entitled to send it there.

`RailKeepsContract` is the specification of `PaymentContract`: `paid` is the set of mandates in the
charge history, the calls are the attempts, and the money, the revocations and the answers are the
rail's own. The abstract specification knows no nullifier store, no transaction, no timeout and no
crash; it says that of the mandates which share a grant and a quote nonce one is paid, within the
cap and not after a revocation, and that a call is answered once, `ok` or `idempotent` only when its
mandate is paid.

### Fairness

`x402` uses `FairSpec`: weak fairness of each started `settle()` call. JavaScript
promises that are awaited resolve or reject and timers fire, so a call that can move does.
Nothing is assumed of the chain: a transaction may stay out forever. The result depends on
`settlementTimeoutMs` being configured (`HasTimeout`); the mutant without it fails.

`a2a` uses weak fairness of `AlarmNears`, `AlarmFires` and `ProcessDue`: time passes, the
platform delivers an alarm whose time has come at least once, and a handler that waits gets its answer
or is aborted, which is `AlarmThrows`. An alarm that is near is not yet due: requests less than 1.5 s
apart replace it again and again, and then nothing is ever processed. `AlarmedTaskIsProcessed`
therefore has the antecedent that from some time on no request postpones a near alarm (`Postponed`);
without it TLC finds the endless postponement. Failures are bounded by `MaxCrashes`; a skill that throws for ever would also end
the platform's retries. Requests get no fairness: clients may go away.

### Findings

Each `claim_*` run refutes one statement quoted in `PROJECT.json`:

* `claim_signers_by_quorum`: a single owner changes the signer set of an account with a
  threshold by userOp, without the council;
* `claim_quorum_caveat`: a delegation with a quorum caveat is denied by the strict mode of
  `evaluateCaveats`, so a token minted from it is never accepted;
* `claim_release_is_audited`: a release is served without an audit row, because
  `createD1AuditSink` swallows the error of the database.

Seen in the code while modelling and not run, because one reading of one function, or of two,
settles them.

*Custody and governance*

* a threshold reduction can be applied after the shorter T4 delay, because the tier is
  recomputed at apply time and the eta is not;
* the address of a passkey can also be added as an external custodian, and the account counts
  as its own custodian, so one custodian can fill two slots (`specs/207:329`); if the passkey
  itself and the rest are then removed, the address still counts as the last custodian and nobody
  can sign, which is why `SignerRemains` has a condition;
* an applied recovery leaves older critical changes applicable (`specs/207:338`);
* the factory deploys org accounts that can never separate duties;
* modules cannot be uninstalled during a pause;
* a withdrawal from the paymaster is not stopped by a pause, `setPauseMirror` lets the mirror
  differ from the flag, and an unpause scheduled early can outlive a second pause.

*Delegations, sessions and MCP*

* `token.ts:309` and `:763` read `isAcceptedSessionDelegation`, which the account does not have
  (`hasAcceptedSessionDelegation`, `AgentAccount.sol:613`);
* a link to the root is accepted before the last position of a chain
  (`DelegationManager.sol:435` against `:270`);
* `package` saves over a `revoke` that arrived while it waited (`session-manager.ts:12`, `:231`);
  the leaf of a session chain is not checked for on-chain revocation, and
  `verify-delegation.ts:5` says "unrevoked" without reading revocations;
* "Fail-soft: emit failures never break the verify flow" stands over a call without a `try`;
* quorum signatures serve again for an identical call, and a delegation whose signature no
  longer verifies cannot be revoked.

*Payments and A2A*

* a timed-out settlement and its retry are outstanding together (`nonce-store.ts:2`,
  `specs/272:85`); no money is lost, because the enforcer's nonce lets one of them land;
* a completed A2A task goes back to submitted, or to canceled, when a request that read it
  earlier writes its copy back (`a2a/types.ts:79` says terminal states are final); what does
  hold is `FinalUnlessStale`;
* `setAlarm` after every `message/send` and `tasks/resubmit`, refused ones too, replaces the pending
  alarm (`a2a-task-do.ts:134`), so steady requests keep every due task waiting;
* no operation takes a task out of `input-required`, and the payment gate that would park a
  task there is configured but not called by `processDue`;
* a signed message whose body does not match its hash is used up (the hash is compared after
  the reservation);
* a voucher is checked and recorded in two awaits (`voucher.ts:152`, "one-shot redeem"), and so
  is the SIWE nonce of `demo-a2a`;
* tokens sent to the escrow outside an order, or released to the escrow as its own payee, stay there
  for good;
* a token that takes a fee on transfer leaves the escrow under-funded, and whoever deposits first
  owns an order hash.

*Registries*

* an attestation can be asserted again with consents given for an earlier one
  (`specs/242:480`), `assertJointAgreement` never calls `isAssertableCommitment`
  (`specs/241:469`), and nullifiers are global;
* signatures collected for COMPLETED stay usable after a dispute; an agreement with itself can
  never be completed;
* a resolver chosen by the parent at registration, or left behind by a former owner (`setOwner` keeps
  it), can point the name at an account no owner vouched for, since `_resolveNameView` believes it;
* an enumeration attached to a constraint of a datatype other than 5 or 8 is never looked up
  (`ShapeRegistry.sol:202`);
* duplicate initial roles leave one that removal does not find; roles can be edited after a
  revocation;
* the former owner of a root stays a delegate of its subregistry, only the direct parent's expiry
  is checked, `_unset` clears the last datatype only, and `initializeRoot` and the attribute
  setters ignore the pause;
* publishing a deactivated skill makes it active again as a new version.

*Vault, Connect, social custody and federated tokens*

* a sensitive read of a deleted object would seed it again, although `vault.ts:19` says null (no
  tool deletes one); a write in progress undoes a later delete; an empty field list projects to
  all fields;
* the facet list does not follow a rotation (`callback.ts:167` against `kv-indexer.ts:65`);
  `related-idx`, the facet list and `bumpRotation` are read and written back in two calls and
  can lose an update; `reauth` puts back the binding it read (`token.ts:91`); all clients share
  one delegate; overlapping exchanges of one code are both served;
* `bootstrap-and-claim` answers with a name for an account that was deployed without one
  (`demo-a2a/src/index.ts:2002`, "the atomic deploy+claim already ran"); the bootstrap handlers
  take the receipt of a reverted operation for a success, because `detectInnerOpFailure` gets
  no sender there (`:2039`, `:2126`, `:2377`, `:2505`; `name-agent` at `:2593` passes it); an org
  whose receipt wait times out lands while nobody keeps its random salt;
* a refresh in progress overwrites the token and scope of a newer sign-in; the delegation and
  the grant behind `/mcp/youversion` are read in two awaits and need not stand at one moment; a
  lost refresh answer at a provider that rotates tokens unlinks the person.

## Theorems

All are proved by TLAPS for every value of the constants, from the named `ASSUME`s of the
modules (types of the constants, finite address sets, positive default delays).

**Custody** (`CustodyPolicyProofs`). The inductive invariant is
`Inv == SignerInv /\ ConfigInv /\ RestInv /\ PendingInv`:

* `SignerInv`: the signer sets hold wallets and credentials only, the counters equal the
  cardinalities, and a deployed account has a custodian, so, where the external custodians have
  ECDSA keys, somebody who can sign. The counters are needed because the last-custodian guards compare
  counters, not sets.
* `ConfigInv`: an installed policy has explicit T4 and T5 quorums, and the recovery
  threshold is at most the exact trustee count.
* `PendingInv`: what every recorded change satisfies (its eta covers the delay of its tier,
  applied implies matured, a recovery on record means recovery is configured, the module slot
  and the policy agree). A live change needs a signature because scheduling a recovery
  required a positive threshold and no step makes it zero again.
* `RestInv`: types of the remaining account state.

From it: `TypeCorrect`, `SignerAlwaysRemains`, `RecoveryStaysReachable`,
`QuorumsAreExplicit`, `AttachedPolicyIsConfigured`, `LiveChangesNeedApproval`,
`ChangesWaitForEta`, `CancelWindowIsKept`, and the action properties
`RecoveryIsNeverDisabled`, `HistoryIsFinal`, `UninstallStaysFinal`, `PauseAlwaysFreezes`,
`UpgradesAreDelayed`, `RulesNeedTheirQuorum`. The last is what does hold where
`claim_signers_by_quorum` fails: a single owner can change the signers, but the rules of a policy in
force change only by a matured change with proposers (`Proposed`, a second invariant over the
history) and a non-empty quorum, because the threshold read at that moment is at least one. An owner
can still retire the policy as a whole, for good.

**x402** (`X402Proofs`). `Inv == TypeOK /\ ChainInv /\ CallInv`. `ChainInv` says that the nonce
of every charge is burned (this is what makes `ChargedOnce` inductive), and that budget and
money agree under the cap. `CallInv` says that calls in flight are exclusive and hold their
row, that a landed transaction is in the charge history, and that receipts are true. From it:
`RailTypeCorrect`, `MandatesAreChargedOnce`, `SpendingIsCapped`, `CallsAreExclusive`,
`ReceiptsAreTrue`, `RevocationIsFinal`.

`RailImplementsContract` is the refinement. A step of a call is an answer or shows nothing
(`StepAnswers`, which needs that a call has an answer exactly when it has returned,
`AnsweredOnce`); a transaction that lands is a payment (`LandPays`: the nonce it found fresh is
burned for every earlier charge, so no rival is paid, and the budget it was checked against is the
money received); a revert, a crash, a tick and a pause show nothing.

`ChargeRateIsBounded` needs a second invariant, `FrequencyInv`, which ties the enforcer's counter to
the history: a charge opened the current window, none is later than its end, the counter bounds
those in it, and the charges less than a window before its start are at most `MaxPerWindow - 1`
(`OpenWindow`). The last part holds because a window rolls only when it has expired, so the opening
charge of the previous one is already a full window away. A period that ends after the start of the
window lies within the two and is counted by `PeriodIsBounded`; an earlier one cannot change any
more. TLC checked `FrequencyInv` on the instance of the `x402` run before it was proved.

**A2A** (`A2AProofs`). `Inv == StoreOK /\ MessagesOK /\ CallsOK /\ WorkerOK /\ RestOK`. The
due index is exact only because nobody ever holds a copy that is `working` (`CallsOK`), and
`MessageUsedOnce` is inductive together with "an accepted message is reserved". `WorkerOK` and
`CallsOK` keep what the guards established when a copy was read (the handler's copy is
submitted, a resubmission's is auth-required), which with the transition table gives
`FinalUnlessStale`. From it: `TypeCorrect`, `MessagesAreUsedOnce`, `DueIndexIsExact`,
`FinalUnlessStaleHolds` and `DueTasksAreNotOverlooked`. The last is the safety half of
`AlarmedTaskIsProcessed`: no step drops a due task between the alarm, the handler's list and the
run. It rests on the exact index (a due task is never skipped) and on the outcomes (a task that was
run is not due). What fairness adds is that the alarm fires, once it is no longer postponed, and the handler goes on.

**Governance and paymaster** (`PaymasterProofs`). `Inv` adds to the types that every operation in
the timelock was scheduled a full delay before it is ready, that a pending withdrawal is due both
delays after the call that asked for it became public, and that the mirror shows the flag unless it
drifted. The delays of `NoSurpriseWithdrawal` are the sum of what the two queues serve, which no
single step shows. From it: `TypeCorrect`, `PauseHoldsForTheDelay`, `WithdrawalsAreAnnounced`,
`PausedMeansUnsponsored`.

**MCP access** (`McpProofs`). The bound on uses is a counting argument: for each token,
`served + waiting requests <= UsageLimit * forgotten lives + uses spent in this life`
(`ServedIsSpent`, `PassedIsSpent` for envelopes). A request pays when the counter lets it pass and
runs the tool only after its audit row, so the requests that have paid and wait have to be counted,
by `Cardinality` over finitely many requests; that is why `McpAssumption` asks for a finite set.
`LateIsRevoked` carries the revocation from delivery to the check. From it: `TypeCorrect`,
`UsesAreBounded`, `LateRequestsStop`, `RevocationIsFinal`.

**Registries and vault** (`RegistryProofs`), each from its own specification:

* agreements: the nullifier of every move is burned, so a settlement's is its own
  (`AgreementsSettledByBoth`);
* attestations: what is asked of a joint attestation holds of the revoked ones too, which the
  reverse index may still name (`AttestationsNeedBoth`);
* relationships: past its proposal an edge has its object's consent (`EdgesActiveByBoth`);
* names: the owner of a node and the address it points at were vouched for by an owner, and a
  resolver of another make was put in by the registration or an owner (`NamesAreVouched`);
* skills and features: one steward per id and a chain of contents, kept by an append and by
  rewrites that touch flags only (`VersionsStand`);
* shapes and terms: the table of an enumeration holds what its list holds, and the index of terms
  is without repetition. A batch may name a term twice, so the lemmas `RankNumbers` and
  `NewTermsAreNew` show that numbering the first occurrences gives each new term once
  (`OntologyListsMatch`);
* vault: a row is sealed for the principal it is kept under, and an answer fits its call
  (`VaultKeepsNamespaces`).

**Escrow, delegations and the contracts together** (`ContractProofs`). `EscrowInv` says that an
order has terms from its deposit on and that nothing has left it before it ends; with it every step
of `PaymentEscrow` is a step of `HoldContract` or leaves its variables alone
(`EscrowMovesMoneyOnce`), and no balance goes below zero (`EscrowTypes`). `Solvent` counts what is
owed of an asset as a set of units, pairs of an order and a number up to its amount, instead of a
sum over the orders: a sum would need an induction over data, while the cardinality of a finite set
is known to the provers. A deposit adds the units of its order and an ending takes them away
(`UnitsAdd`, `DepositStaysSolvent`, `EndStaysSolvent`), so the balance stays above the count
(`EscrowStaysSolvent`), and since the units of one hold are among those owed, its transfer never
finds the balance short (`EscrowHoldsArePayable`). `DelegationInv` keeps
endorsements once given, so that the quorum of an execution made earlier still stands
(`CallsWithinEveryLink`, `RevokedChainsAreDead`). `WholeImplementsParts` shows that the composition
of `MCContracts` implements the specification of each contract, whatever the others do and however
the block time passes; `TypeCorrect`, `InvariantsTogether` and `StepsTogether` follow without
another induction.

**Connect** (`ConnectProofs`), again part by part and then together:

* OIDC: `OidcInv` says what a request has established at the step where it stands (`GrantFits`,
  `ExchangeFits`, `ReauthFits`), over a history that only grows (`HistoryGrows`). A stored grant is
  the authorised one and an answered id or code is gone from the store; a code is written once,
  under its request's own key. This is what makes "never served after an answer" hold although get
  and delete are separate calls (`TokensAreEntitled`);
* Google login: the index lists only homes of the subject and approved agents, and so does what a
  callback carries from its read to its write (`GoogleLoginsApproved`);
* social custody: a deployed account has spent a nonce and is held by the key its address derives
  from, a device, or both, so a descriptor leads back to all of its custodians but the device; two
  requests never create the same organisation or agent. `NamedIsOwned` is an action property, since
  names are given away: the only step that answers for a name, or leaves a stamp, is the landing of
  that very request, whose batch gave the account the name (`NamesAreGiven`,
  `SocialAccountsRecover`);
* federated tokens: a token read, stored or to be stored was issued, and the successor of a spent
  one is with the read that is about to write it (`FederatedTokensLive`).

`TypeCorrect` and `InvariantsTogether` state all of it of `MCConnect`.

Assumptions beyond the types of the constants: the placeholders `None`, `NoRead` and `Nothing` are
not records of the kinds they stand in for, grant ids are not codes (both are random), homes are
not wallet agents, and the requests of the MCP server, the orders of the escrow and the addresses
of the custody model are finite sets. TLC evaluates each of them.

Proved and in no run: the type invariants of the custody, x402 and A2A systems, `NotBeforeEta`,
`RecoveryNeverDisabled`, `NoFallbackQuorum`, `PolicyAttachment`, `UninstallIsFinal`,
`PauseFreezes`, `RulesChangeByQuorum`, `SingleFlight`, `ReceiptMeansPaid`, `NoChargeAfterRevoke`,
`DueIsSubmitted`, `DueIsNotOverlooked` and `NoHoldIsStuck`. TLC agrees with
`RulesChangeByQuorum`, `DueIsNotOverlooked` and `NoHoldIsStuck` on the instances of the runs.

Model-checked only:

* `EveryCallReturns` and `AlarmedTaskIsProcessed`: liveness under fairness is out of reach; of the
  second, `DueIsNotOverlooked` is the part that is a safety property;
* all claims, which TLC refutes.

## Not modelled, and why

* Cryptography, byte layouts and ABI encoding: a signature is valid or not.
* ERC-4337 gas and bundling, except where a failed or late receipt changes what a handler
  answers.
* Several accounts at once in the custody model: the policy keys all its state by account.
* Arithmetic beyond uint8 in the factory, where the cast is kept, and beyond 2^64 elsewhere.
* FedCM, credentials, directories, intent matching and ontology packages: functions of their
  arguments, or thin calls to the contracts.
* Stores are consistent. Cloudflare KV may answer an old value for a while; the modules give
  the interleavings of separate awaited calls, not stale reads of the store itself.
* User interfaces and SDK clients. Of about 106 000 lines of implementation some 70 000 are the
  pages of the demonstration applications and the clients that encode calls for them: they keep
  view state and hold nothing that another party relies on. Contracts and packages are about
  36 000 lines, and the modules cover the parts of them that keep state between calls. The
  share of all lines that the modules stand for is therefore small and will stay so.

## Plan

1. Custody core: done, proved.
2. x402 settlement: done, proved except liveness.
3. A2A tasks: done, proved except liveness. Sessions and the MCP pipeline: done, proved.
4. Governance and paymaster; delegation chains; escrow with its abstract contract; the
   registries, names and skills; vault; Connect, social custody and federated tokens: done,
   proved.
5. Next: vouchers and splits of `payments`, the directory caches, and KV with stale reads.
