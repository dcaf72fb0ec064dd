--------------------------- MODULE SessionManager ---------------------------
(***************************************************************************)
(* Delegation sessions of the A2A worker: a session key is created pending, *)
(* packaged with a signed delegation, resolved to mint access tokens, and   *)
(* revoked.                                                                 *)
(*                                                                          *)
(* package and resolve read the row and then wait for the key service;      *)
(* package writes the whole row back.  The store itself (Map or Durable     *)
(* Object) runs each of its operations without interruption.                *)
(***************************************************************************)
EXTENDS Integers

CONSTANTS
  Sessions, Delegations,
  Jtis,        \* token ids: random, never drawn twice
  Nonces,      \* nonces of service-MAC envelopes: random, never drawn twice
  Tools,       \* tools of the MCP server
  Ops,         \* concurrent calls of the session manager
  SessionTtl, TokenTtl,
  None,        \* no row, no delegation, no token, nothing running
  MaxTime      \* bound on the clock

Row ==
  [status : {"pending", "active", "revoked"}, expiresAt : Nat,
   delegation : Delegations \union {None}]

(* A package or resolve call that waits for the key service, with what it   *)
(* read from the store.                                                     *)
Op ==
  [kind : {"package"}, session : Sessions, row : Row, delegation : Delegations]
    \union [kind : {"resolve"}, session : Sessions, delegation : Delegations, tool : Tools]

(* session is None for a token a relying app minted with its own key.       *)
Token == [session : Sessions \union {None}, delegation : Delegations, exp : Nat]

Envelope == [jti : Jtis, tool : Tools, timestamp : Nat]

ASSUME SessionAssumption ==
  /\ SessionTtl \in Nat /\ TokenTtl \in Nat \ {0} /\ MaxTime \in Nat
  /\ None \notin Row \union Op \union Token \union Envelope
  /\ None \notin Sessions \union Delegations

VARIABLES
  now,
  rows,     \* the session store
  op,       \* the manager's calls in flight
  tokens,   \* delegation tokens by jti
  sent,     \* service-MAC envelopes by nonce
  revoked   \* chain: delegations revoked at the delegation manager

sessionVars == <<now, rows, op, tokens, sent, revoked>>

SessionInit ==
  /\ now = 0
  /\ rows = [s \in Sessions |-> None]
  /\ op = [o \in Ops |-> None]
  /\ tokens = [j \in Jtis |-> None]
  /\ sent = [n \in Nonces |-> None]
  /\ revoked = {}

-----------------------------------------------------------------------------
(* The session manager *)

InitSession(s) ==
  /\ rows[s] = None
  /\ rows' = [rows EXCEPT ![s] =
       [status |-> "pending", expiresAt |-> now + SessionTtl, delegation |-> None]]
  /\ UNCHANGED <<now, op, tokens, sent, revoked>>

(* requirePending *)
Packageable_AnyStatus(row) == row # None
Packageable(row) == row # None /\ row.status = "pending"

(* /session/package, once the delegator's account has accepted the          *)
(* signature: the row is pending when it is read.                           *)
PackageReads(o, s, d) ==
  /\ op[o] = None
  /\ Packageable(rows[s])
  /\ op' = [op EXCEPT ![o] =
       [kind |-> "package", session |-> s, row |-> rows[s], delegation |-> d]]
  /\ UNCHANGED <<now, rows, tokens, sent, revoked>>

(* The row that was read is saved as active, whatever the store holds now.  *)
PackageSaves(o) ==
  /\ op[o] # None /\ op[o].kind = "package"
  /\ rows' = [rows EXCEPT ![op[o].session] =
       [status |-> "active", expiresAt |-> op[o].row.expiresAt, delegation |-> op[o].delegation]]
  /\ op' = [op EXCEPT ![o] = None]
  /\ UNCHANGED <<now, tokens, sent, revoked>>

Resolvable_Unchecked(row) == row # None
Resolvable(row) ==
  /\ row # None
  /\ row.status = "active"
  /\ row.expiresAt >= now
  /\ row.delegation # None

(* A tool call of the session's owner: resolve reads the row.               *)
ResolveReads(o, s, tool) ==
  /\ op[o] = None
  /\ Resolvable(rows[s])
  /\ op' = [op EXCEPT ![o] =
       [kind |-> "resolve", session |-> s, delegation |-> rows[s].delegation, tool |-> tool]]
  /\ UNCHANGED <<now, rows, tokens, sent, revoked>>

Mint(j, s, d) ==
  /\ tokens[j] = None
  /\ tokens' = [tokens EXCEPT ![j] = [session |-> s, delegation |-> d, exp |-> now + TokenTtl]]

(* generateServiceMac over the request body: a fresh nonce, the time of now.*)
Send(n, j, tool) ==
  /\ sent[n] = None
  /\ sent' = [sent EXCEPT ![n] = [jti |-> j, tool |-> tool, timestamp |-> now]]

(* resolve returns the signer; a token is minted and posted to the tool.    *)
ResolveMints(o, j, n) ==
  /\ op[o] # None /\ op[o].kind = "resolve"
  /\ Mint(j, op[o].session, op[o].delegation)
  /\ Send(n, j, op[o].tool)
  /\ op' = [op EXCEPT ![o] = None]
  /\ UNCHANGED <<now, rows, revoked>>

(* The key service, the audit sink or the worker fails.                     *)
OpFails(o) ==
  /\ op[o] # None
  /\ op' = [op EXCEPT ![o] = None]
  /\ UNCHANGED <<now, rows, tokens, sent, revoked>>

Revoke(s) ==
  /\ rows[s] # None
  /\ rows' = [rows EXCEPT ![s] =
       [status |-> "revoked", expiresAt |-> rows[s].expiresAt, delegation |-> rows[s].delegation]]
  /\ UNCHANGED <<now, op, tokens, sent, revoked>>

(* A relying app mints a token with a session key of its own.               *)
ClientMint(j, d) ==
  /\ Mint(j, None, d)
  /\ UNCHANGED <<now, rows, op, sent, revoked>>

(* forwardMcpToken: the worker wraps such a token, as often as it is asked. *)
Forward(n, j, tool) ==
  /\ tokens[j] # None /\ tokens[j].session = None
  /\ Send(n, j, tool)
  /\ UNCHANGED <<now, rows, op, tokens, revoked>>

-----------------------------------------------------------------------------
(* The chain *)

(* revokeDelegationByOwner *)
RevokeDelegation(d) ==
  /\ revoked' = revoked \union {d}
  /\ UNCHANGED <<now, rows, op, tokens, sent>>

Tick ==
  /\ now < MaxTime
  /\ now' = now + 1
  /\ UNCHANGED <<rows, op, tokens, sent, revoked>>

Call(o) ==
  \/ \E s \in Sessions, d \in Delegations : PackageReads(o, s, d)
  \/ PackageSaves(o)
  \/ \E s \in Sessions, tool \in Tools : ResolveReads(o, s, tool)
  \/ \E j \in Jtis, n \in Nonces : ResolveMints(o, j, n)
  \/ OpFails(o)

SessionNext ==
  \/ \E s \in Sessions : InitSession(s) \/ Revoke(s)
  \/ \E o \in Ops : Call(o)
  \/ \E j \in Jtis, d \in Delegations : ClientMint(j, d)
  \/ \E n \in Nonces, j \in Jtis, tool \in Tools : Forward(n, j, tool)
  \/ \E d \in Delegations : RevokeDelegation(d)
  \/ Tick

-----------------------------------------------------------------------------
(* Properties *)

SessionTypeOK ==
  /\ now \in Nat
  /\ rows \in [Sessions -> Row \union {None}]
  /\ op \in [Ops -> Op \union {None}]
  /\ tokens \in [Jtis -> Token \union {None}]
  /\ sent \in [Nonces -> Envelope \union {None}]
  /\ revoked \subseteq Delegations

(* s is revoked and no call that read its row earlier is still under way.   *)
Settled(s) ==
  /\ rows[s] # None /\ rows[s].status = "revoked"
  /\ \A o \in Ops : op[o] # None => op[o].session # s

(* Once a session is revoked and the calls that had read it are through, it *)
(* stays revoked and mints no further token: package refuses a revoked row, *)
(* resolve refuses it too, and no order of calls brings it back.  A package *)
(* call in flight is the one way around a revoke.                           *)
RevocationSettles ==
  [][\A s \in Sessions : Settled(s) =>
       /\ Settled(s)'
       /\ \A j \in Jtis : tokens'[j] # tokens[j] => tokens'[j].session # s]_sessionVars
=============================================================================
