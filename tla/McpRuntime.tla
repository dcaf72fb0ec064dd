----------------------------- MODULE McpRuntime -----------------------------
(***************************************************************************)
(* The authorisation pipeline of an MCP server in front of its tools: the   *)
(* service-MAC gate, then withDelegation around verifyDelegationToken, the  *)
(* usage counters of a jti store and the audit sink.                        *)
(*                                                                          *)
(* Every request waits at each chain read, store call and audit write, so   *)
(* requests interleave with one another, with the session manager and with  *)
(* revocations.  An envelope may be delivered late, never, or again.        *)
(***************************************************************************)
EXTENDS SessionManager, FiniteSets

CONSTANTS
  Requests,     \* concurrent requests of the server
  RiskOf,       \* @sa-risk-tier of a tool
  ServiceOnly,  \* tools classified service-only, bootstrap or dev-only
  CaveatsOf,    \* enforcers of the caveats of a delegation
  UsageLimit,   \* usageLimit of a token
  MaxSkew,      \* maxClockSkewMs
  Deployments,  \* a database or a memory jti store, a fail-hard or a fail-soft audit sink
  MaxRestarts,  \* bound on restarts of the server
  MaxUses       \* bound on the uses counted for one jti or nonce

(* Where a request waits: for the MAC, a chain read, the jti store, or the  *)
(* last audit row.  late: the delegation was revoked when it came in.       *)
Request ==
  [at : {"mac", "revocation", "usage", "audit"}, nonce : Nonces, late : BOOLEAN]

Risks == {"low", "medium", "high", "critical"}

ASSUME McpAssumption ==
  /\ RiskOf \in [Tools -> Risks]
  /\ ServiceOnly \subseteq Tools
  /\ UsageLimit \in Nat \ {0} /\ MaxSkew \in Nat /\ MaxRestarts \in Nat /\ MaxUses \in Nat
  /\ Deployments \subseteq [durable : BOOLEAN, failHard : BOOLEAN]
  /\ None \notin Request
  /\ Jtis \intersect Nonces = {}
  /\ IsFiniteSet(Requests)

VARIABLES
  request,
  uses,      \* the jti store: uses of each jti and, under mac:, of each nonce
  migrated,  \* migrate() was called on this instance of the store
  served,    \* history: handler runs per token
  passed,    \* history: envelopes past the MAC gate, per nonce
  restarts,
  deployment

counters == <<served, passed>>
mcpVars == <<request, uses, migrated, counters, restarts, deployment>>
vars == <<sessionVars, mcpVars>>

Init ==
  /\ SessionInit
  /\ request = [r \in Requests |-> None]
  /\ uses = [k \in Jtis \union Nonces |-> 0]
  /\ migrated = TRUE
  /\ served = [j \in Jtis |-> 0]
  /\ passed = [n \in Nonces |-> 0]
  /\ restarts = 0
  /\ deployment \in Deployments

-----------------------------------------------------------------------------
(* Policy *)

(* RISK_TIER_REQUIREMENTS *)
RequiresQuorum(tool) == RiskOf[tool] \in {"high", "critical"}

(* evaluateCaveats: every enforcer must be one the dispatch table knows.    *)
(* The enforcer map has no entry for the QuorumEnforcer.                    *)
Dispatched ==
  {"timestamp", "value", "allowedTargets", "allowedMethods", "toolScope", "dataScope",
   "delegateBinding", "taskBinding", "callDataHash", "recovery", "rateLimit"}
CaveatsAllow(d) == CaveatsOf[d] \subseteq Dispatched

(* The caveat gates of verifyDelegationToken.  The read of                  *)
(* acceptSessionDelegation behind them is for critical tools only, which    *)
(* need a quorum caveat first.                                              *)
QuorumGate(d, tool) == RequiresQuorum(tool) => "quorum" \in CaveatsOf[d]
CaveatGates(d, tool) == CaveatsAllow(d) /\ QuorumGate(d, tool)

(* evaluatePolicy for a user session; requires-consent counts as allowed    *)
(* where the chain was asked for its blessing.                              *)
PolicyAllows(tool) == tool \notin ServiceOnly

-----------------------------------------------------------------------------
(* Requests *)

At(r, stage) == request[r] # None /\ request[r].at = stage
TokenOf(r) == sent[request[r].nonce].jti
ToolOf(r) == sent[request[r].nonce].tool
DelegationOf(r) == tokens[TokenOf(r)].delegation

Goto(r, stage) ==
  request' = [request EXCEPT ![r] =
    [at |-> stage, nonce |-> request[r].nonce, late |-> request[r].late]]
Finish(r) == request' = [request EXCEPT ![r] = None]

(* trackUsage: one atomic upsert, counted even when it is refused.          *)
TrackUsage(k) ==
  /\ migrated /\ uses[k] < MaxUses
  /\ uses' = [uses EXCEPT ![k] = @ + 1]
WithinLimit(k, limit) == uses[k] + 1 <= limit

Receive(r, n) ==
  /\ request[r] = None /\ sent[n] # None
  /\ now - sent[n].timestamp <= MaxSkew
  /\ request' = [request EXCEPT ![r] =
       [at |-> "mac", nonce |-> n, late |-> tokens[sent[n].jti].delegation \in revoked]]
  /\ UNCHANGED <<sessionVars, uses, migrated, counters, restarts, deployment>>

(* verifyServiceMac consumes the nonce; withDelegation starts on the token, *)
(* which must not have expired.                                             *)
NonceFresh_Unchecked(n) == TRUE
NonceFresh(n) == WithinLimit(n, 1)

ConsumeNonce(r) ==
  LET n == request[r].nonce IN
  /\ At(r, "mac")
  /\ TrackUsage(n)
  /\ passed' = IF NonceFresh(n) THEN [passed EXCEPT ![n] = @ + 1] ELSE passed
  /\ IF NonceFresh(n) /\ tokens[TokenOf(r)].exp >= now
     THEN Goto(r, "revocation") ELSE Finish(r)
  /\ UNCHANGED <<sessionVars, migrated, served, restarts, deployment>>

(* isRevoked on the delegation manager; without an answer the token is      *)
(* refused (revocationFailMode closed), which is Fails.                     *)
NotRevoked_FailOpen(d) == TRUE
NotRevoked(d) == d \notin revoked

(* The signatures are checked next, of the delegation and of the leaf that  *)
(* binds a client's session key (an account that refuses one is Fails), and *)
(* then the caveats.                                                        *)
CheckDelegation(r) ==
  /\ At(r, "revocation")
  /\ IF NotRevoked(DelegationOf(r)) /\ CaveatGates(DelegationOf(r), ToolOf(r))
     THEN Goto(r, "usage") ELSE Finish(r)
  /\ UNCHANGED <<sessionVars, uses, migrated, counters, restarts, deployment>>

(* The usage limit a token carries.                                         *)
UsesLeft(j) == WithinLimit(j, UsageLimit)

(* The last check of the verification; policy may still refuse the call,    *)
(* and a failing audit write too: the use is spent either way.              *)
ConsumeUse(r) ==
  /\ At(r, "usage")
  /\ TrackUsage(TokenOf(r))
  /\ \/ /\ UsesLeft(TokenOf(r)) /\ PolicyAllows(ToolOf(r))
        /\ Goto(r, "audit")
     \/ /\ ~UsesLeft(TokenOf(r)) \/ ~PolicyAllows(ToolOf(r)) \/ deployment.failHard
        /\ Finish(r)
  /\ UNCHANGED <<sessionVars, migrated, counters, restarts, deployment>>

(* The accept row is written, or lost by a fail-soft sink, and the handler  *)
(* runs.                                                                    *)
Serve(r) ==
  /\ At(r, "audit")
  /\ served' = [served EXCEPT ![TokenOf(r)] = @ + 1]
  /\ Finish(r)
  /\ UNCHANGED <<sessionVars, uses, migrated, passed, restarts, deployment>>

(* A chain read reverts or has no answer, the store throws (migrate() was   *)
(* not called), or a fail-hard audit sink does.                             *)
Fails(r) ==
  /\ request[r] # None
  /\ request[r].at = "audit" => deployment.failHard
  /\ Finish(r)
  /\ UNCHANGED <<sessionVars, uses, migrated, counters, restarts, deployment>>

-----------------------------------------------------------------------------
(* A restart loses the requests and what a memory store counted; a database *)
(* adapter must be migrated again.                                          *)
Restart ==
  /\ restarts < MaxRestarts
  /\ restarts' = restarts + 1
  /\ request' = [r \in Requests |-> None]
  /\ uses' = IF deployment.durable THEN uses ELSE [k \in DOMAIN uses |-> 0]
  /\ migrated' = ~deployment.durable
  /\ UNCHANGED <<sessionVars, counters, deployment>>

Migrate ==
  /\ ~migrated
  /\ migrated' = TRUE
  /\ UNCHANGED <<sessionVars, request, uses, counters, restarts, deployment>>

Handle(r) ==
  \/ ConsumeNonce(r) \/ CheckDelegation(r)
  \/ ConsumeUse(r) \/ Serve(r) \/ Fails(r)

Next ==
  \/ SessionNext /\ UNCHANGED mcpVars
  \/ \E r \in Requests : Handle(r) \/ \E n \in Nonces : Receive(r, n)
  \/ Restart \/ Migrate

Spec == Init /\ [][Next]_vars

-----------------------------------------------------------------------------
(* Properties *)

TypeOK ==
  /\ SessionTypeOK
  /\ request \in [Requests -> Request \union {None}]
  /\ uses \in [Jtis \union Nonces -> Nat]
  /\ migrated \in BOOLEAN
  /\ served \in [Jtis -> Nat] /\ passed \in [Nonces -> Nat]
  /\ restarts \in Nat
  /\ deployment \in [durable : BOOLEAN, failHard : BOOLEAN]
  /\ \A r \in Requests : request[r] # None =>
       sent[request[r].nonce] # None /\ tokens[TokenOf(r)] # None

(* Lives of the jti store: a memory store starts over at every restart.     *)
StoreLives == IF deployment.durable THEN 1 ELSE 1 + restarts

(* A token runs its tool at most usageLimit times, however its requests     *)
(* interleave and although uses are counted before the call is decided.     *)
(* An envelope delivered again, or twice at once, passes the MAC gate once. *)
(* Only a memory store forgets, once per restart.                           *)
UsesAreLimited ==
  /\ \A j \in Jtis : served[j] <= UsageLimit * StoreLives
  /\ \A n \in Nonces : passed[n] <= StoreLives

(* A revocation is effective for every request that comes in after it: such *)
(* a request gets no further than the revocation check, failing chain reads *)
(* and the tokens minted before included.                                   *)
RevokedIsRefused ==
  \A r \in Requests :
    request[r] # None /\ request[r].late => request[r].at \in {"mac", "revocation"}
=============================================================================
