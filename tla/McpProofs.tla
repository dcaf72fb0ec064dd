------------------------------ MODULE McpProofs ------------------------------
(***************************************************************************)
(* Proofs about delegation sessions and the MCP authorisation pipeline, for *)
(* any number of sessions, calls in flight, requests, envelopes, tokens and *)
(* restarts.                                                                *)
(***************************************************************************)
EXTENDS McpRuntime, FiniteSetTheorems, TLAPS

(* What was sent names a token that was minted.                             *)
SentIsMinted == \A n \in Nonces : sent[n] # None => tokens[sent[n].jti] # None

SessionInv == SessionTypeOK /\ SentIsMinted

(* What never changes about tokens, envelopes and revocations.              *)
Persists ==
  /\ \A n \in Nonces : sent[n] # None => sent'[n] = sent[n]
  /\ \A j \in Jtis : tokens[j] # None => tokens'[j] = tokens[j]
  /\ revoked \subseteq revoked'

(* A request that came in late carries a delegation that is revoked.        *)
LateIsRevoked ==
  \A r \in Requests : request[r] # None /\ request[r].late => DelegationOf(r) \in revoked

(* The requests for token j that only wait for their audit row.             *)
Awaiting(j) == {r \in Requests : At(r, "audit") /\ TokenOf(r) = j}

(* The uses of k that this life of the store has let pass, and the number   *)
(* of lives before it.                                                      *)
Spent(k, limit) == IF uses[k] < limit THEN uses[k] ELSE limit
Forgotten == IF deployment.durable THEN 0 ELSE restarts

(* Runs of a tool, made and about to be made, are paid for by uses.         *)
ServedIsSpent ==
  \A j \in Jtis :
    served[j] + Cardinality(Awaiting(j)) <= UsageLimit * Forgotten + Spent(j, UsageLimit)
PassedIsSpent == \A n \in Nonces : passed[n] <= Forgotten + Spent(n, 1)

Inv ==
  /\ TypeOK /\ SentIsMinted
  /\ LateIsRevoked /\ RevokedIsRefused
  /\ ServedIsSpent /\ PassedIsSpent

-----------------------------------------------------------------------------
(* Sessions *)

(* The calls that read or save a session's row.                             *)
LEMMA PackageReadsKeeps ==
  ASSUME SessionInv, NEW o \in Ops, NEW s \in Sessions, NEW d \in Delegations,
         PackageReads(o, s, d)
  PROVE  SessionInv' /\ Persists
<1>1. [kind |-> "package", session |-> s, row |-> rows[s], delegation |-> d] \in Op
  BY DEF PackageReads, Packageable, SessionInv, SessionTypeOK, Op
<1>2. op' \in [Ops -> Op \union {None}]
  BY <1>1 DEF PackageReads, SessionInv, SessionTypeOK
<1> QED
  BY <1>2 DEF PackageReads, SessionInv, SessionTypeOK, SentIsMinted, Persists

LEMMA PackageSavesKeeps ==
  ASSUME SessionInv, NEW o \in Ops, PackageSaves(o)
  PROVE  SessionInv' /\ Persists
<1>1. op[o] \in Op /\ op[o].kind = "package"
  BY DEF PackageSaves, SessionInv, SessionTypeOK
<1>2. op[o].session \in Sessions /\ op[o].row \in Row /\ op[o].delegation \in Delegations
  BY <1>1 DEF Op
<1>3. [status |-> "active", expiresAt |-> op[o].row.expiresAt, delegation |-> op[o].delegation] \in Row
  BY <1>2 DEF Row
<1>4. rows' \in [Sessions -> Row \union {None}] /\ op' \in [Ops -> Op \union {None}]
  BY <1>2, <1>3 DEF PackageSaves, SessionInv, SessionTypeOK
<1> QED
  BY <1>4 DEF PackageSaves, SessionInv, SessionTypeOK, SentIsMinted, Persists

(* Resolving a session for a tool.                                          *)
LEMMA ResolveReadsKeeps ==
  ASSUME SessionInv, NEW o \in Ops, NEW s \in Sessions, NEW tool \in Tools,
         ResolveReads(o, s, tool)
  PROVE  SessionInv' /\ Persists
<1>1. rows[s] \in Row /\ rows[s].delegation # None
  BY DEF ResolveReads, Resolvable, SessionInv, SessionTypeOK
<1>2. [kind |-> "resolve", session |-> s, delegation |-> rows[s].delegation, tool |-> tool] \in Op
  BY <1>1 DEF Row, Op
<1>3. op' \in [Ops -> Op \union {None}]
  BY <1>2 DEF ResolveReads, SessionInv, SessionTypeOK
<1> QED
  BY <1>3 DEF ResolveReads, SessionInv, SessionTypeOK, SentIsMinted, Persists

(* A token is minted under an id that was free.                             *)
LEMMA MintFacts ==
  ASSUME SessionTypeOK, NEW j \in Jtis, NEW s \in Sessions \union {None}, NEW d \in Delegations,
         Mint(j, s, d)
  PROVE  /\ tokens' \in [Jtis -> Token \union {None}]
         /\ tokens[j] = None /\ tokens'[j] # None /\ tokens'[j].session = s
         /\ \A k \in Jtis : k # j => tokens'[k] = tokens[k]
<1>1. [session |-> s, delegation |-> d, exp |-> now + TokenTtl] \in Token
  BY SessionAssumption DEF SessionTypeOK, Token
<1>2. [session |-> s, delegation |-> d, exp |-> now + TokenTtl] # None
  BY <1>1, SessionAssumption
<1> QED
  BY <1>1, <1>2 DEF Mint, SessionTypeOK

(* An envelope is sent under a nonce that was free.                         *)
LEMMA SendFacts ==
  ASSUME SessionTypeOK, NEW n \in Nonces, NEW j \in Jtis, NEW tool \in Tools, Send(n, j, tool)
  PROVE  /\ sent' \in [Nonces -> Envelope \union {None}]
         /\ sent[n] = None /\ sent'[n].jti = j
         /\ \A k \in Nonces : k # n => sent'[k] = sent[k]
<1>1. [jti |-> j, tool |-> tool, timestamp |-> now] \in Envelope
  BY DEF SessionTypeOK, Envelope
<1> QED
  BY <1>1 DEF Send, SessionTypeOK

(* The token of an envelope.                                                *)
LEMMA EnvelopeNamesToken ==
  ASSUME SessionTypeOK, NEW n \in Nonces, sent[n] # None
  PROVE  sent[n] \in Envelope /\ sent[n].jti \in Jtis /\ sent[n].tool \in Tools
BY DEF SessionTypeOK, Envelope

LEMMA ResolveMintsKeeps ==
  ASSUME SessionInv, NEW o \in Ops, NEW j \in Jtis, NEW n \in Nonces, ResolveMints(o, j, n)
  PROVE  SessionInv' /\ Persists
<1>0. SessionTypeOK /\ SentIsMinted
  BY DEF SessionInv
<1>1. op[o] \in Op /\ op[o].kind = "resolve"
  BY <1>0 DEF ResolveMints, SessionTypeOK
<1>2. op[o].session \in Sessions /\ op[o].delegation \in Delegations /\ op[o].tool \in Tools
  BY <1>1 DEF Op
<1>3. Mint(j, op[o].session, op[o].delegation) /\ Send(n, j, op[o].tool)
  BY DEF ResolveMints
<1>4. /\ tokens' \in [Jtis -> Token \union {None}]
      /\ tokens[j] = None /\ tokens'[j] # None
      /\ \A k \in Jtis : k # j => tokens'[k] = tokens[k]
  BY <1>0, <1>2, <1>3, MintFacts
<1>5. /\ sent' \in [Nonces -> Envelope \union {None}]
      /\ sent[n] = None /\ sent'[n].jti = j
      /\ \A k \in Nonces : k # n => sent'[k] = sent[k]
  BY <1>0, <1>2, <1>3, SendFacts
<1>6. op' \in [Ops -> Op \union {None}]
  BY <1>0 DEF ResolveMints, SessionTypeOK
<1>7. SessionTypeOK'
  BY <1>0, <1>4, <1>5, <1>6 DEF ResolveMints, SessionTypeOK
<1>8. SentIsMinted'
  BY <1>0, <1>4, <1>5, EnvelopeNamesToken DEF SentIsMinted
<1>9. Persists
  BY <1>4, <1>5 DEF ResolveMints, Persists
<1> QED
  BY <1>7, <1>8, <1>9 DEF SessionInv

(* A relying app mints and has its token forwarded.                         *)
LEMMA ClientMintKeeps ==
  ASSUME SessionInv, NEW j \in Jtis, NEW d \in Delegations, ClientMint(j, d)
  PROVE  SessionInv' /\ Persists
<1>0. SessionTypeOK /\ SentIsMinted
  BY DEF SessionInv
<1>1. /\ tokens' \in [Jtis -> Token \union {None}]
      /\ tokens[j] = None /\ tokens'[j] # None
      /\ \A k \in Jtis : k # j => tokens'[k] = tokens[k]
  BY <1>0, MintFacts DEF ClientMint
<1>2. SessionTypeOK' /\ Persists
  BY <1>0, <1>1 DEF ClientMint, SessionTypeOK, Persists
<1>3. SentIsMinted'
  BY <1>0, <1>1, EnvelopeNamesToken DEF ClientMint, SentIsMinted
<1> QED
  BY <1>2, <1>3 DEF SessionInv

LEMMA ForwardKeeps ==
  ASSUME SessionInv, NEW j \in Jtis, NEW n \in Nonces, NEW tool \in Tools, Forward(n, j, tool)
  PROVE  SessionInv' /\ Persists
<1>0. SessionTypeOK /\ SentIsMinted
  BY DEF SessionInv
<1>1. /\ sent' \in [Nonces -> Envelope \union {None}]
      /\ sent[n] = None /\ sent'[n].jti = j
      /\ \A k \in Nonces : k # n => sent'[k] = sent[k]
  BY <1>0, SendFacts DEF Forward
<1>2. SessionTypeOK' /\ Persists
  BY <1>0, <1>1 DEF Forward, SessionTypeOK, Persists
<1>3. SentIsMinted'
  BY <1>0, <1>1 DEF Forward, SentIsMinted
<1> QED
  BY <1>2, <1>3 DEF SessionInv

(* Starting and revoking a session.                                         *)
LEMMA RowKeeps ==
  ASSUME SessionInv, NEW s \in Sessions, InitSession(s) \/ Revoke(s)
  PROVE  SessionInv' /\ Persists
<1> USE SessionAssumption DEF SessionInv, SessionTypeOK, SentIsMinted, Persists
<1>1. CASE InitSession(s)
  <2>1. [status |-> "pending", expiresAt |-> now + SessionTtl, delegation |-> None] \in Row
    BY DEF Row
  <2> QED
    BY <1>1, <2>1 DEF InitSession
<1>2. CASE Revoke(s)
  <2>1. rows[s] \in Row
    BY <1>2 DEF Revoke
  <2>2. [status |-> "revoked", expiresAt |-> rows[s].expiresAt, delegation |-> rows[s].delegation] \in Row
    BY <2>1 DEF Row
  <2> QED
    BY <1>2, <2>2 DEF Revoke
<1> QED
  BY <1>1, <1>2

(* The chain and the clock.                                                 *)
LEMMA ChainKeeps ==
  ASSUME SessionInv, (\E d \in Delegations : RevokeDelegation(d)) \/ Tick
  PROVE  SessionInv' /\ Persists
BY DEF RevokeDelegation, Tick, SessionInv, SessionTypeOK, SentIsMinted, Persists

(* Every step of the session manager and the chain.                         *)
LEMMA SessionStep ==
  ASSUME SessionInv, SessionNext
  PROVE  SessionInv' /\ Persists
<1>1. ASSUME NEW o \in Ops, Call(o) PROVE SessionInv' /\ Persists
  <2>1. CASE OpFails(o)
    BY <2>1 DEF OpFails, SessionInv, SessionTypeOK, SentIsMinted, Persists
  <2> QED
    BY <1>1, <2>1, PackageReadsKeeps, PackageSavesKeeps, ResolveReadsKeeps, ResolveMintsKeeps DEF Call
<1> QED
  BY <1>1, RowKeeps, ClientMintKeeps, ForwardKeeps, ChainKeeps DEF SessionNext

-----------------------------------------------------------------------------
(* Requests *)

(* What a step of the pipeline reads of a request.                          *)
LEMMA RequestFacts ==
  ASSUME TypeOK, NEW r \in Requests, request[r] # None
  PROVE  /\ request[r] \in Request /\ request[r].nonce \in Nonces
         /\ TokenOf(r) \in Jtis /\ ToolOf(r) \in Tools
         /\ tokens[TokenOf(r)] # None /\ sent[request[r].nonce] # None
<1>1. request[r] \in Request /\ sent[request[r].nonce] # None /\ tokens[TokenOf(r)] # None
  BY DEF TypeOK
<1>2. request[r].nonce \in Nonces
  BY <1>1 DEF Request
<1> QED
  BY <1>1, <1>2, EnvelopeNamesToken DEF TypeOK, TokenOf, ToolOf

(* A step that serves no request moves none of the counts.                  *)
LEMMA SessionStepKeepsInv ==
  ASSUME Inv, SessionNext, UNCHANGED mcpVars
  PROVE  Inv'
<1>0. TypeOK /\ SessionInv
  BY DEF Inv, TypeOK, SessionInv
<1>1. SessionInv' /\ Persists
  BY <1>0, SessionStep
<1>2. UNCHANGED <<request, uses, migrated, served, passed, restarts, deployment>>
  BY DEF mcpVars, counters
<1>3. ASSUME NEW r \in Requests, request[r] # None
      PROVE  /\ sent'[request[r].nonce] = sent[request[r].nonce]
             /\ TokenOf(r)' = TokenOf(r) /\ DelegationOf(r)' = DelegationOf(r)
             /\ tokens'[TokenOf(r)] # None /\ sent'[request[r].nonce] # None
  <2>1. /\ request[r].nonce \in Nonces /\ TokenOf(r) \in Jtis
        /\ tokens[TokenOf(r)] # None /\ sent[request[r].nonce] # None
    BY <1>0, <1>3, RequestFacts
  <2>2. /\ sent'[request[r].nonce] = sent[request[r].nonce]
        /\ tokens'[TokenOf(r)] = tokens[TokenOf(r)]
    BY <1>1, <2>1 DEF Persists
  <2>3. TokenOf(r)' = TokenOf(r)
    BY <1>2, <2>2 DEF TokenOf
  <2> QED
    BY <2>1, <2>2, <2>3 DEF DelegationOf
<1>4. TypeOK'
  BY <1>0, <1>1, <1>2, <1>3 DEF TypeOK, SessionInv
<1>5. LateIsRevoked' /\ RevokedIsRefused'
  BY <1>1, <1>2, <1>3 DEF Inv, LateIsRevoked, RevokedIsRefused, Persists
<1>6. \A j \in Jtis : Awaiting(j)' = Awaiting(j)
  BY <1>2, <1>3 DEF Awaiting, At
<1>7. ServedIsSpent' /\ PassedIsSpent'
  BY <1>2, <1>6 DEF Inv, ServedIsSpent, PassedIsSpent, Forgotten, Spent
<1> QED
  BY <1>1, <1>4, <1>5, <1>7 DEF Inv, SessionInv

(* One request moves on to v, or ends.                                      *)
LEMMA RequestMoves ==
  ASSUME TypeOK, UNCHANGED sessionVars, NEW r \in Requests, NEW v \in Request \union {None},
         request' = [request EXCEPT ![r] = v],
         v # None => sent[v.nonce] # None /\ tokens[sent[v.nonce].jti] # None
  PROVE  /\ SessionTypeOK'
         /\ request' \in [Requests -> Request \union {None}]
         /\ request'[r] = v
         /\ \A q \in Requests : q # r => request'[q] = request[q]
         /\ \A q \in Requests : request'[q] # None =>
              /\ sent'[request'[q].nonce] # None /\ tokens'[TokenOf(q)'] # None
              /\ TokenOf(q)' = sent[request'[q].nonce].jti
              /\ DelegationOf(q)' = tokens[TokenOf(q)'].delegation
         /\ \A q \in Requests : q # r /\ request[q] # None =>
              TokenOf(q)' = TokenOf(q) /\ DelegationOf(q)' = DelegationOf(q)
<1>1. SessionTypeOK' /\ sent' = sent /\ tokens' = tokens
  BY DEF TypeOK, SessionTypeOK, sessionVars
<1>2. request' \in [Requests -> Request \union {None}] /\ request'[r] = v
      /\ \A q \in Requests : q # r => request'[q] = request[q]
  BY DEF TypeOK
<1>3. \A q \in Requests : TokenOf(q)' = sent[request'[q].nonce].jti
  BY <1>1 DEF TokenOf
<1>4. \A q \in Requests : DelegationOf(q)' = tokens[TokenOf(q)'].delegation
  BY <1>1 DEF DelegationOf
<1>5. \A q \in Requests : request'[q] # None =>
        sent'[request'[q].nonce] # None /\ tokens'[TokenOf(q)'] # None
  BY <1>1, <1>2, <1>3 DEF TypeOK, TokenOf
<1>6. \A q \in Requests : q # r /\ request[q] # None =>
        TokenOf(q)' = TokenOf(q) /\ DelegationOf(q)' = DelegationOf(q)
  BY <1>1, <1>2, <1>3, <1>4 DEF TokenOf, DelegationOf
<1> QED
  BY <1>1, <1>2, <1>3, <1>4, <1>5, <1>6

(* The waiting requests are finitely many.                                  *)
LEMMA AwaitingFinite ==
  ASSUME NEW j
  PROVE  IsFiniteSet(Awaiting(j)) /\ Cardinality(Awaiting(j)) \in Nat
BY McpAssumption, FS_Subset, FS_CardinalityType DEF Awaiting

(* A request that was not waiting for its audit row and does not begin to.  *)
LEMMA AwaitingSame ==
  ASSUME TypeOK, UNCHANGED sessionVars, NEW r \in Requests, NEW v \in Request \union {None},
         request' = [request EXCEPT ![r] = v],
         v # None => sent[v.nonce] # None /\ tokens[sent[v.nonce].jti] # None,
         ~At(r, "audit"), v # None => v.at # "audit"
  PROVE  \A j \in Jtis : Awaiting(j)' = Awaiting(j)
<1>1. /\ request'[r] = v
      /\ \A q \in Requests : q # r => request'[q] = request[q]
      /\ \A q \in Requests : q # r /\ request[q] # None => TokenOf(q)' = TokenOf(q)
  BY RequestMoves, ZenonT(60)
<1> QED
  BY <1>1 DEF Awaiting, At

(* The frame of the requests' own steps: the invariants that read late.     *)
LEMMA LateKept ==
  ASSUME Inv, UNCHANGED sessionVars, NEW r \in Requests, NEW v \in Request \union {None},
         request' = [request EXCEPT ![r] = v],
         v # None => sent[v.nonce] # None /\ tokens[sent[v.nonce].jti] # None,
         v # None /\ v.late => v.at \in {"mac", "revocation"}
                              /\ tokens[sent[v.nonce].jti].delegation \in revoked
  PROVE  SentIsMinted' /\ LateIsRevoked' /\ RevokedIsRefused'
<1>0. TypeOK
  BY DEF Inv
<1>1. /\ request'[r] = v
      /\ \A q \in Requests : q # r => request'[q] = request[q]
      /\ \A q \in Requests : request'[q] # None =>
              /\ TokenOf(q)' = sent[request'[q].nonce].jti
              /\ DelegationOf(q)' = tokens[TokenOf(q)'].delegation
      /\ \A q \in Requests : q # r /\ request[q] # None => DelegationOf(q)' = DelegationOf(q)
  BY <1>0, RequestMoves, ZenonT(60)
<1>2. sent' = sent /\ tokens' = tokens /\ revoked' = revoked
  BY DEF sessionVars
<1>3. SentIsMinted'
  BY <1>2 DEF Inv, SentIsMinted
<1>4. LateIsRevoked'
  BY <1>1, <1>2 DEF Inv, LateIsRevoked
<1>5. RevokedIsRefused'
  BY <1>1 DEF Inv, RevokedIsRefused
<1> QED
  BY <1>3, <1>4, <1>5

(* An envelope is delivered.                                                *)
LEMMA ReceiveKeepsInv ==
  ASSUME Inv, NEW r \in Requests, NEW n \in Nonces, Receive(r, n)
  PROVE  Inv'
<1> DEFINE v == [at |-> "mac", nonce |-> n, late |-> tokens[sent[n].jti].delegation \in revoked]
<1>0. TypeOK /\ SentIsMinted
  BY DEF Inv
<1>1. /\ request' = [request EXCEPT ![r] = v] /\ request[r] = None /\ sent[n] # None
      /\ UNCHANGED <<sessionVars, uses, migrated, served, passed, restarts, deployment>>
  BY DEF Receive, counters
<1>2. v \in Request /\ tokens[sent[v.nonce].jti] # None
  BY <1>0, <1>1 DEF Request, SentIsMinted
<1> HIDE DEF v
<1>3. SessionTypeOK' /\ request' \in [Requests -> Request \union {None}]
      /\ \A q \in Requests : request'[q] # None =>
           sent'[request'[q].nonce] # None /\ tokens'[TokenOf(q)'] # None
  BY <1>0, <1>1, <1>2, RequestMoves DEF v
<1>4. TypeOK'
  BY <1>0, <1>1, <1>3 DEF TypeOK
<1>5. SentIsMinted' /\ LateIsRevoked' /\ RevokedIsRefused'
  BY <1>1, <1>2, LateKept DEF v
<1>6. \A j \in Jtis : Awaiting(j)' = Awaiting(j)
  BY <1>0, <1>1, <1>2, AwaitingSame DEF v, At
<1>7. ServedIsSpent' /\ PassedIsSpent'
  BY <1>1, <1>6 DEF Inv, ServedIsSpent, PassedIsSpent, Forgotten, Spent
<1> QED
  BY <1>4, <1>5, <1>7 DEF Inv

(* Where Goto and Finish take a request.                                    *)
LEMMA Moved ==
  ASSUME TypeOK, NEW r \in Requests, request[r] # None, NEW stage \in {"revocation", "usage", "audit"},
         Goto(r, stage) \/ Finish(r)
  PROVE  \E v \in Request \union {None} :
           /\ request' = [request EXCEPT ![r] = v]
           /\ v # None =>
                /\ Goto(r, stage)
                /\ v.at = stage /\ v.nonce = request[r].nonce /\ v.late = request[r].late
                /\ sent[v.nonce] # None /\ tokens[sent[v.nonce].jti] # None
           /\ v = None => Finish(r)
<1>1. CASE Finish(r)
  BY <1>1 DEF Finish
<1>2. CASE Goto(r, stage)
  <2> DEFINE v == [at |-> stage, nonce |-> request[r].nonce, late |-> request[r].late]
  <2>1. v \in Request /\ v # None
    BY RequestFacts, McpAssumption DEF Request
  <2>2. sent[v.nonce] # None /\ tokens[sent[v.nonce].jti] # None
    BY RequestFacts DEF TokenOf
  <2>3. request' = [request EXCEPT ![r] = v]
    BY <1>2 DEF Goto
  <2> QED
    BY <1>2, <2>1, <2>2, <2>3
<1> QED
  BY <1>1, <1>2

(* trackUsage counts one use, refused or not.                               *)
LEMMA TrackFacts ==
  ASSUME TypeOK, NEW k \in Jtis \union Nonces, TrackUsage(k)
  PROVE  /\ uses' \in [Jtis \union Nonces -> Nat]
         /\ uses'[k] = uses[k] + 1 /\ uses[k] \in Nat
         /\ \A i \in Jtis \union Nonces : i # k => uses'[i] = uses[i]
BY DEF TypeOK, TrackUsage

(* The MAC gate.                                                            *)
LEMMA ConsumeNonceKeepsInv ==
  ASSUME Inv, NEW r \in Requests, ConsumeNonce(r)
  PROVE  Inv'
<1> DEFINE n == request[r].nonce
<1>0. TypeOK /\ request[r] # None /\ request[r].at = "mac" /\ n \in Nonces
  <2>1. TypeOK /\ request[r] # None /\ request[r].at = "mac"
    BY DEF Inv, ConsumeNonce, At
  <2> QED
    BY <2>1, RequestFacts
<1>1. UNCHANGED <<sessionVars, migrated, served, restarts, deployment>>
  BY DEF ConsumeNonce
<1>2. PICK v \in Request \union {None} :
        /\ request' = [request EXCEPT ![r] = v]
        /\ v # None =>
             /\ v.at = "revocation" /\ v.nonce = n /\ v.late = request[r].late
             /\ sent[v.nonce] # None /\ tokens[sent[v.nonce].jti] # None
  <2>1. Goto(r, "revocation") \/ Finish(r)
    BY DEF ConsumeNonce
  <2> QED
    BY <1>0, <2>1, Moved
<1>3. /\ uses' \in [Jtis \union Nonces -> Nat] /\ uses'[n] = uses[n] + 1 /\ uses[n] \in Nat
      /\ \A i \in Jtis \union Nonces : i # n => uses'[i] = uses[i]
  BY <1>0, TrackFacts DEF ConsumeNonce
<1>4. /\ passed' \in [Nonces -> Nat]
      /\ \A k \in Nonces : k # n => passed'[k] = passed[k]
      /\ passed'[n] = IF uses[n] + 1 <= 1 THEN passed[n] + 1 ELSE passed[n]
  BY <1>0 DEF ConsumeNonce, NonceFresh, WithinLimit, TypeOK
<1>5. SessionTypeOK' /\ request' \in [Requests -> Request \union {None}]
      /\ \A q \in Requests : request'[q] # None =>
           sent'[request'[q].nonce] # None /\ tokens'[TokenOf(q)'] # None
  BY <1>0, <1>1, <1>2, RequestMoves
<1>6. TypeOK'
  BY <1>0, <1>1, <1>3, <1>4, <1>5 DEF TypeOK
<1>7. SentIsMinted' /\ LateIsRevoked' /\ RevokedIsRefused'
  <2>1. v # None /\ v.late => v.at \in {"mac", "revocation"}
                            /\ tokens[sent[v.nonce].jti].delegation \in revoked
    BY <1>0, <1>2 DEF Inv, LateIsRevoked, DelegationOf, TokenOf
  <2> QED
    BY <1>1, <1>2, <2>1, LateKept
<1>8. ServedIsSpent'
  <2>1. \A j \in Jtis : Awaiting(j)' = Awaiting(j)
    BY <1>0, <1>1, <1>2, AwaitingSame DEF At
  <2>2. \A j \in Jtis : uses'[j] = uses[j]
    BY <1>0, <1>3, McpAssumption
  <2> QED
    BY <1>1, <2>1, <2>2 DEF Inv, ServedIsSpent, Forgotten, Spent
<1>9. PassedIsSpent'
  <2>1. Forgotten' = Forgotten /\ Forgotten \in Nat
    BY <1>0, <1>1 DEF Forgotten, TypeOK
  <2>2. ASSUME NEW k \in Nonces PROVE passed'[k] <= Forgotten + Spent(k, 1)'
    <3>1. CASE k # n
      BY <1>3, <1>4, <3>1 DEF Inv, PassedIsSpent, Spent
    <3>2. CASE k = n
      <4>1. passed[n] <= Forgotten + Spent(n, 1) /\ passed[n] \in Nat
        BY <1>0 DEF Inv, PassedIsSpent, TypeOK
      <4> QED
        BY <1>3, <1>4, <2>1, <3>2, <4>1 DEF Spent
    <3> QED
      BY <3>1, <3>2
  <2> QED
    BY <2>1, <2>2 DEF PassedIsSpent
<1> QED
  BY <1>6, <1>7, <1>8, <1>9 DEF Inv

(* The revocation check stops every late request.                           *)
LEMMA CheckDelegationKeepsInv ==
  ASSUME Inv, NEW r \in Requests, CheckDelegation(r)
  PROVE  Inv'
<1>0. TypeOK /\ request[r] # None /\ request[r].at = "revocation"
  BY DEF Inv, CheckDelegation, At
<1>1. UNCHANGED <<sessionVars, uses, migrated, served, passed, restarts, deployment>>
  BY DEF CheckDelegation, counters
<1>2. PICK v \in Request \union {None} :
        /\ request' = [request EXCEPT ![r] = v]
        /\ v # None =>
             /\ Goto(r, "usage")
             /\ v.at = "usage" /\ v.late = request[r].late
             /\ sent[v.nonce] # None /\ tokens[sent[v.nonce].jti] # None
        /\ v = None => Finish(r)
  <2>1. Goto(r, "usage") \/ Finish(r)
    BY DEF CheckDelegation
  <2> QED
    BY <1>0, <2>1, Moved
<1>3. v # None => ~v.late
  <2> SUFFICES ASSUME v # None, v.late PROVE FALSE
    <3>1. v # None => v.late \in BOOLEAN
      BY DEF Request
    <3> QED
      BY <3>1
  <2>1. DelegationOf(r) \in revoked
    BY <1>0, <1>2 DEF Inv, LateIsRevoked
  <2>2. Finish(r)
    BY <2>1 DEF CheckDelegation, NotRevoked
  <2>3. request'[r] = None /\ request'[r] = v
    BY <1>0, <1>2, <2>2 DEF Finish, TypeOK
  <2> QED
    BY <2>3
<1>4. SessionTypeOK' /\ request' \in [Requests -> Request \union {None}]
      /\ \A q \in Requests : request'[q] # None =>
           sent'[request'[q].nonce] # None /\ tokens'[TokenOf(q)'] # None
  BY <1>0, <1>1, <1>2, RequestMoves
<1>5. TypeOK'
  BY <1>0, <1>1, <1>4 DEF TypeOK
<1>6. SentIsMinted' /\ LateIsRevoked' /\ RevokedIsRefused'
  BY <1>1, <1>2, <1>3, LateKept
<1>7. ServedIsSpent' /\ PassedIsSpent'
  <2>1. \A j \in Jtis : Awaiting(j)' = Awaiting(j)
    BY <1>0, <1>1, <1>2, AwaitingSame DEF At
  <2> QED
    BY <1>1, <2>1 DEF Inv, ServedIsSpent, PassedIsSpent, Forgotten, Spent
<1> QED
  BY <1>5, <1>6, <1>7 DEF Inv

(* The usage counter: a request that passes it has paid for its run.        *)
LEMMA ConsumeUseKeepsInv ==
  ASSUME Inv, NEW r \in Requests, ConsumeUse(r)
  PROVE  Inv'
<1> DEFINE t == TokenOf(r)
<1>0. /\ TypeOK /\ request[r] # None /\ request[r].at = "usage"
      /\ t \in Jtis
  <2>1. TypeOK /\ request[r] # None /\ request[r].at = "usage"
    BY DEF Inv, ConsumeUse, At
  <2> QED
    BY <2>1, RequestFacts
<1>1. UNCHANGED <<sessionVars, migrated, served, passed, restarts, deployment>>
  BY DEF ConsumeUse, counters
<1>2. PICK v \in Request \union {None} :
        /\ request' = [request EXCEPT ![r] = v]
        /\ v # None =>
             /\ Goto(r, "audit")
             /\ v.at = "audit" /\ v.nonce = request[r].nonce /\ v.late = request[r].late
             /\ sent[v.nonce] # None /\ tokens[sent[v.nonce].jti] # None
  <2>1. Goto(r, "audit") \/ Finish(r)
    BY DEF ConsumeUse
  <2> QED
    BY <1>0, <2>1, Moved
<1>3. /\ uses' \in [Jtis \union Nonces -> Nat] /\ uses'[t] = uses[t] + 1 /\ uses[t] \in Nat
      /\ \A i \in Jtis \union Nonces : i # t => uses'[i] = uses[i]
  BY <1>0, TrackFacts DEF ConsumeUse
<1>4. v # None => uses[t] + 1 <= UsageLimit
  <2>1. request'[r] = v
    BY <1>0, <1>2 DEF TypeOK
  <2> QED
    BY <1>0, <2>1 DEF ConsumeUse, Finish, UsesLeft, WithinLimit, TypeOK
<1>5. SessionTypeOK' /\ request' \in [Requests -> Request \union {None}]
      /\ \A q \in Requests : request'[q] # None =>
           sent'[request'[q].nonce] # None /\ tokens'[TokenOf(q)'] # None
  BY <1>0, <1>1, <1>2, RequestMoves
<1>6. TypeOK'
  BY <1>0, <1>1, <1>3, <1>5 DEF TypeOK
<1>7. SentIsMinted' /\ LateIsRevoked' /\ RevokedIsRefused'
  <2>1. ~request[r].late
    BY <1>0 DEF Inv, RevokedIsRefused
  <2> QED
    BY <1>1, <1>2, <2>1, LateKept
<1>8. PassedIsSpent'
  <2>1. \A k \in Nonces : uses'[k] = uses[k]
    BY <1>0, <1>3, McpAssumption
  <2> QED
    BY <1>1, <2>1 DEF Inv, PassedIsSpent, Forgotten, Spent
<1>9. ServedIsSpent'
  <2> SUFFICES ASSUME NEW j \in Jtis
               PROVE  (served[j] + Cardinality(Awaiting(j)) <= UsageLimit * Forgotten + Spent(j, UsageLimit))'
    BY DEF ServedIsSpent
  <2>1. /\ Forgotten' = Forgotten /\ Forgotten \in Nat /\ UsageLimit * Forgotten \in Nat
        /\ served' = served /\ served[j] \in Nat
    BY <1>0, <1>1, McpAssumption DEF Forgotten, TypeOK
  <2>2. served[j] + Cardinality(Awaiting(j)) <= UsageLimit * Forgotten + Spent(j, UsageLimit)
    BY DEF Inv, ServedIsSpent
  <2>3. /\ request'[r] = v
        /\ \A q \in Requests : q # r => request'[q] = request[q]
        /\ \A q \in Requests : request'[q] # None => TokenOf(q)' = sent[request'[q].nonce].jti
        /\ \A q \in Requests : q # r /\ request[q] # None => TokenOf(q)' = TokenOf(q)
    BY <1>0, <1>1, <1>2, RequestMoves
  <2>4. IsFiniteSet(Awaiting(j)) /\ Cardinality(Awaiting(j)) \in Nat
    BY AwaitingFinite
  <2>5. CASE v = None \/ j # t
    <3>1. Awaiting(j)' = Awaiting(j)
      BY <1>0, <1>2, <2>3, <2>5 DEF Awaiting, At, TokenOf
    <3>2. uses[j] \in Nat /\ uses'[j] \in Nat /\ uses'[j] >= uses[j]
      BY <1>0, <1>3 DEF TypeOK
    <3>3. Spent(j, UsageLimit)' >= Spent(j, UsageLimit) /\ Spent(j, UsageLimit) \in Nat
          /\ Spent(j, UsageLimit)' \in Nat
      BY <3>2, McpAssumption DEF Spent
    <3> QED
      BY <2>1, <2>2, <2>4, <3>1, <3>3
  <2>6. CASE v # None /\ j = t
    <3>1. Awaiting(j)' = Awaiting(j) \union {r} /\ r \notin Awaiting(j)
      BY <1>0, <1>2, <2>3, <2>6 DEF Awaiting, At, TokenOf
    <3>2. Cardinality(Awaiting(j)') = Cardinality(Awaiting(j)) + 1
      BY <2>4, <3>1, FS_AddElement
    <3>3. Spent(j, UsageLimit)' = Spent(j, UsageLimit) + 1 /\ Spent(j, UsageLimit) \in Nat
      BY <1>3, <1>4, <2>6, McpAssumption DEF Spent
    <3> QED
      BY <2>1, <2>2, <2>4, <3>2, <3>3
  <2> QED
    BY <2>5, <2>6
<1> QED
  BY <1>6, <1>7, <1>8, <1>9 DEF Inv

(* A request that ends frees its place; one that is served is counted.      *)
LEMMA EndKeepsInv ==
  ASSUME Inv, NEW r \in Requests, Serve(r) \/ Fails(r)
  PROVE  Inv'
<1>0. TypeOK /\ request[r] # None
  BY DEF Inv, Serve, Fails, At
<1>1. UNCHANGED <<sessionVars, uses, migrated, passed, restarts, deployment>>
  BY DEF Serve, Fails, counters
<1>2. request' = [request EXCEPT ![r] = None]
  BY DEF Serve, Fails, Finish
<1>3. /\ SessionTypeOK' /\ request' \in [Requests -> Request \union {None}]
      /\ \A q \in Requests : request'[q] # None =>
           sent'[request'[q].nonce] # None /\ tokens'[TokenOf(q)'] # None
      /\ request'[r] = None
      /\ \A q \in Requests : q # r => request'[q] = request[q]
      /\ \A q \in Requests : q # r /\ request[q] # None => TokenOf(q)' = TokenOf(q)
  BY <1>0, <1>1, <1>2, RequestMoves
<1>4. /\ served' \in [Jtis -> Nat]
      /\ \A j \in Jtis :
           served'[j] = IF Serve(r) /\ j = TokenOf(r) THEN served[j] + 1 ELSE served[j]
  <2>1. CASE Serve(r)
    BY <1>0, <2>1, RequestFacts DEF Serve, TypeOK
  <2>2. CASE ~Serve(r)
    BY <1>0, <2>2 DEF Fails, counters, TypeOK
  <2> QED
    BY <2>1, <2>2
<1>5. TypeOK'
  BY <1>0, <1>1, <1>3, <1>4 DEF TypeOK
<1>6. SentIsMinted' /\ LateIsRevoked' /\ RevokedIsRefused'
  BY <1>1, <1>2, LateKept
<1>7. PassedIsSpent'
  BY <1>1 DEF Inv, PassedIsSpent, Forgotten, Spent
<1>8. ServedIsSpent'
  <2> SUFFICES ASSUME NEW j \in Jtis
               PROVE  (served[j] + Cardinality(Awaiting(j)) <= UsageLimit * Forgotten + Spent(j, UsageLimit))'
    BY DEF ServedIsSpent
  <2>1. /\ Forgotten' = Forgotten /\ UsageLimit * Forgotten \in Nat
        /\ Spent(j, UsageLimit)' = Spent(j, UsageLimit) /\ Spent(j, UsageLimit) \in Nat
        /\ served[j] \in Nat
    BY <1>0, <1>1, McpAssumption DEF Forgotten, Spent, TypeOK
  <2>2. served[j] + Cardinality(Awaiting(j)) <= UsageLimit * Forgotten + Spent(j, UsageLimit)
    BY DEF Inv, ServedIsSpent
  <2>3. Awaiting(j)' = Awaiting(j) \ {r}
    BY <1>3 DEF Awaiting, At
  <2>4. IsFiniteSet(Awaiting(j)) /\ Cardinality(Awaiting(j)) \in Nat
    BY AwaitingFinite
  <2>5. Cardinality(Awaiting(j)') =
          IF r \in Awaiting(j) THEN Cardinality(Awaiting(j)) - 1 ELSE Cardinality(Awaiting(j))
    BY <2>3, <2>4, FS_RemoveElement
  <2>6. Serve(r) /\ j = TokenOf(r) => r \in Awaiting(j)
    BY DEF Serve, Awaiting
  <2> QED
    BY <1>4, <2>1, <2>2, <2>4, <2>5, <2>6
<1> QED
  BY <1>5, <1>6, <1>7, <1>8 DEF Inv

(* A restart begins a new life of a memory store, and none of a database.   *)
LEMMA RestartKeepsInv ==
  ASSUME Inv, Restart
  PROVE  Inv'
<1>0. TypeOK
  BY DEF Inv
<1>1. /\ UNCHANGED <<sessionVars, served, passed, deployment>>
      /\ restarts' = restarts + 1 /\ restarts \in Nat
      /\ request' = [r \in Requests |-> None]
  BY <1>0 DEF Restart, counters, TypeOK
<1>2. /\ uses' \in [Jtis \union Nonces -> Nat]
      /\ deployment.durable => uses' = uses
      /\ ~deployment.durable => \A k \in Jtis \union Nonces : uses'[k] = 0
  BY <1>0 DEF Restart, TypeOK
<1>3. TypeOK'
  <2>1. SessionTypeOK'
    BY <1>0, <1>1 DEF sessionVars, TypeOK, SessionTypeOK
  <2>2. migrated' \in BOOLEAN
    BY DEF Restart
  <2> QED
    BY <1>0, <1>1, <1>2, <2>1, <2>2 DEF TypeOK
<1>4. SentIsMinted' /\ LateIsRevoked' /\ RevokedIsRefused'
  BY <1>1 DEF Inv, SentIsMinted, LateIsRevoked, RevokedIsRefused, sessionVars
<1>5. \A j \in Jtis : Cardinality(Awaiting(j)') = 0
  <2>1. \A j \in Jtis : Awaiting(j)' = {}
    BY <1>1 DEF Awaiting, At
  <2> QED
    BY <2>1, FS_EmptySet
<1>6. ServedIsSpent'
  <2> SUFFICES ASSUME NEW j \in Jtis
               PROVE  (served[j] + Cardinality(Awaiting(j)) <= UsageLimit * Forgotten + Spent(j, UsageLimit))'
    BY DEF ServedIsSpent
  <2>1. served[j] + Cardinality(Awaiting(j)) <= UsageLimit * Forgotten + Spent(j, UsageLimit)
    BY DEF Inv, ServedIsSpent
  <2>2. /\ Cardinality(Awaiting(j)) \in Nat /\ served[j] \in Nat /\ uses[j] \in Nat
        /\ UsageLimit \in Nat \ {0}
    BY <1>0, AwaitingFinite, McpAssumption DEF TypeOK
  <2>3. CASE deployment.durable
    <3>1. Forgotten' = 0 /\ Forgotten = 0 /\ Spent(j, UsageLimit)' = Spent(j, UsageLimit)
          /\ Spent(j, UsageLimit) \in Nat
      BY <1>1, <1>2, <2>2, <2>3 DEF Forgotten, Spent
    <3> QED
      BY <1>1, <1>5, <2>1, <2>2, <3>1
  <2>4. CASE ~deployment.durable
    <3>1. Forgotten' = restarts + 1 /\ Forgotten = restarts
      BY <1>1, <2>4 DEF Forgotten
    <3>2. Spent(j, UsageLimit) <= UsageLimit /\ Spent(j, UsageLimit) \in Nat
      BY <2>2 DEF Spent
    <3>3. Spent(j, UsageLimit)' = 0
      BY <1>2, <2>2, <2>4 DEF Spent
    <3>4. UsageLimit * (restarts + 1) = UsageLimit * restarts + UsageLimit
          /\ UsageLimit * restarts \in Nat
      BY <1>1, <2>2
    <3>5. served[j] <= UsageLimit * restarts + UsageLimit
      BY <2>1, <2>2, <3>1, <3>2, <3>4
    <3> QED
      BY <1>1, <1>5, <2>2, <3>1, <3>3, <3>4, <3>5
  <2> QED
    BY <2>3, <2>4
<1>7. PassedIsSpent'
  <2> SUFFICES ASSUME NEW n \in Nonces PROVE (passed[n] <= Forgotten + Spent(n, 1))'
    BY DEF PassedIsSpent
  <2>1. passed[n] <= Forgotten + Spent(n, 1) /\ passed[n] \in Nat /\ uses[n] \in Nat
    BY <1>0 DEF Inv, PassedIsSpent, TypeOK
  <2>2. CASE deployment.durable
    BY <1>1, <1>2, <2>1, <2>2 DEF Forgotten, Spent
  <2>3. CASE ~deployment.durable
    BY <1>1, <1>2, <2>1, <2>3 DEF Forgotten, Spent
  <2> QED
    BY <2>2, <2>3
<1> QED
  BY <1>3, <1>4, <1>6, <1>7 DEF Inv

-----------------------------------------------------------------------------
(* Initially nothing was sent and nothing counted.                          *)
LEMMA InitInv == Init => Inv
<1> SUFFICES ASSUME Init PROVE Inv
  OBVIOUS
<1> USE McpAssumption, SessionAssumption DEF Init, SessionInit
<1>1. SessionTypeOK
  BY DEF SessionTypeOK
<1>2. TypeOK
  <2>1. /\ uses \in [Jtis \union Nonces -> Nat] /\ served \in [Jtis -> Nat]
        /\ passed \in [Nonces -> Nat] /\ restarts \in Nat
    OBVIOUS
  <2>2. migrated \in BOOLEAN /\ deployment \in [durable : BOOLEAN, failHard : BOOLEAN]
    OBVIOUS
  <2> QED
    BY <1>1, <2>1, <2>2 DEF TypeOK
<1>3. SentIsMinted /\ LateIsRevoked /\ RevokedIsRefused
  BY DEF SentIsMinted, LateIsRevoked, RevokedIsRefused
<1>4. \A j \in Jtis : Cardinality(Awaiting(j)) = 0
  <2>1. \A j \in Jtis : Awaiting(j) = {}
    BY DEF Awaiting, At
  <2> QED
    BY <2>1, FS_EmptySet
<1>5. Forgotten = 0
  BY DEF Forgotten
<1>6. ServedIsSpent /\ PassedIsSpent
  BY <1>4, <1>5 DEF ServedIsSpent, PassedIsSpent, Spent
<1> QED
  BY <1>2, <1>3, <1>6 DEF Inv

(* Every step keeps the invariant.                                          *)
LEMMA NextInv == Inv /\ [Next]_vars => Inv'
<1> SUFFICES ASSUME Inv, [Next]_vars PROVE Inv'
  OBVIOUS
<1>1. ASSUME UNCHANGED <<sessionVars, request, uses, served, passed, restarts, deployment>>,
             migrated' \in BOOLEAN
      PROVE  Inv'
  <2>1. /\ SessionTypeOK' /\ sent' = sent /\ tokens' = tokens /\ revoked' = revoked
    BY <1>1 DEF Inv, TypeOK, SessionTypeOK, sessionVars
  <2>2. \A r \in Requests : TokenOf(r)' = TokenOf(r) /\ DelegationOf(r)' = DelegationOf(r)
    BY <1>1, <2>1 DEF TokenOf, DelegationOf
  <2>3. TypeOK'
    BY <1>1, <2>1, <2>2 DEF Inv, TypeOK
  <2>4. SentIsMinted' /\ LateIsRevoked' /\ RevokedIsRefused'
    BY <1>1, <2>1, <2>2 DEF Inv, SentIsMinted, LateIsRevoked, RevokedIsRefused
  <2>5. \A j \in Jtis : Awaiting(j)' = Awaiting(j)
    BY <1>1, <2>2 DEF Awaiting, At
  <2>6. ServedIsSpent' /\ PassedIsSpent'
    BY <1>1, <2>5 DEF Inv, ServedIsSpent, PassedIsSpent, Forgotten, Spent
  <2> QED
    BY <2>3, <2>4, <2>6 DEF Inv
<1>2. CASE UNCHANGED vars
  BY <1>1, <1>2 DEF vars, mcpVars, counters, Inv, TypeOK
<1>3. CASE Migrate
  BY <1>1, <1>3 DEF Migrate, counters
<1> QED
  BY <1>2, <1>3, SessionStepKeepsInv, ReceiveKeepsInv, ConsumeNonceKeepsInv,
     CheckDelegationKeepsInv, ConsumeUseKeepsInv, EndKeepsInv, RestartKeepsInv DEF Next, Handle

(* The invariant the theorems below rest on.                                *)
LEMMA InvHolds == Spec => []Inv
BY InitInv, NextInv, PTL DEF Spec

-----------------------------------------------------------------------------
(* Sessions, envelopes, requests and counters keep their types, and a       *)
(* request under way always has the token it came with.                     *)
THEOREM TypeCorrect == Spec => []TypeOK
<1>1. Inv => TypeOK
  BY DEF Inv
<1> QED
  BY <1>1, InvHolds, PTL

(* However requests interleave and restarts strike, a token runs its tool   *)
(* at most usageLimit times and an envelope passes the MAC gate once, in    *)
(* each life of the store (trackUsage, verifyServiceMac).                   *)
THEOREM UsesAreBounded == Spec => []UsesAreLimited
<1>1. Inv => UsesAreLimited
  <2> SUFFICES ASSUME Inv PROVE UsesAreLimited
    OBVIOUS
  <2>0. TypeOK /\ ServedIsSpent /\ PassedIsSpent /\ restarts \in Nat /\ UsageLimit \in Nat \ {0}
    BY McpAssumption DEF Inv, TypeOK
  <2>1. StoreLives = Forgotten + 1 /\ Forgotten \in Nat
    BY <2>0 DEF StoreLives, Forgotten
  <2>2. UsageLimit * StoreLives = UsageLimit * Forgotten + UsageLimit /\ UsageLimit * Forgotten \in Nat
    BY <2>0, <2>1
  <2>3. ASSUME NEW j \in Jtis PROVE served[j] <= UsageLimit * StoreLives
    <3>1. /\ served[j] \in Nat /\ uses[j] \in Nat /\ Cardinality(Awaiting(j)) \in Nat
          /\ served[j] + Cardinality(Awaiting(j)) <= UsageLimit * Forgotten + Spent(j, UsageLimit)
      BY <2>0, AwaitingFinite DEF TypeOK, ServedIsSpent
    <3>2. Spent(j, UsageLimit) \in Nat /\ Spent(j, UsageLimit) <= UsageLimit
      BY <2>0, <3>1 DEF Spent
    <3> QED
      BY <2>0, <2>2, <3>1, <3>2
  <2>4. ASSUME NEW n \in Nonces PROVE passed[n] <= StoreLives
    BY <2>0, <2>1 DEF TypeOK, PassedIsSpent, Spent
  <2> QED
    BY <2>3, <2>4 DEF UsesAreLimited
<1> QED
  BY <1>1, InvHolds, PTL

(* A request that comes in after the revocation of its delegation never     *)
(* gets past the revocation check, whatever else fails or overlaps          *)
(* (verifyDelegationToken, isRevoked).                                      *)
THEOREM LateRequestsStop == Spec => []RevokedIsRefused
<1>1. Inv => RevokedIsRefused
  BY DEF Inv
<1> QED
  BY <1>1, InvHolds, PTL

(* A session whose revocation has settled stays revoked and mints nothing   *)
(* (requirePending, resolve, revoke).                                       *)
THEOREM RevocationIsFinal == Spec => RevocationSettles
<1> DEFINE Final ==
      \A s \in Sessions : Settled(s) =>
        /\ Settled(s)'
        /\ \A j \in Jtis : tokens'[j] # tokens[j] => tokens'[j].session # s
<1>1. Inv /\ [Next]_vars => [Final]_sessionVars
  <2> SUFFICES ASSUME Inv, Next, NEW s \in Sessions, Settled(s), ~UNCHANGED sessionVars
               PROVE  /\ Settled(s)'
                      /\ \A j \in Jtis : tokens'[j] # tokens[j] => tokens'[j].session # s
    BY DEF vars
  <2>0. SessionTypeOK /\ SessionNext
    BY DEF Inv, TypeOK, Next, Handle, ConsumeNonce, CheckDelegation, ConsumeUse, Serve, Fails,
           Receive, Restart, Migrate
  <2> USE SessionAssumption DEF Settled
  <2>1. ASSUME NEW t \in Sessions, InitSession(t) \/ Revoke(t)
        PROVE  Settled(s)' /\ tokens' = tokens
    <3>1. CASE InitSession(t)
      BY <2>0, <3>1 DEF InitSession, SessionTypeOK
    <3>2. CASE Revoke(t)
      <4>1. rows'[s] # None /\ rows'[s].status = "revoked"
        <5>1. CASE t = s
          <6>1. rows[s] \in Row
            BY <2>0 DEF SessionTypeOK
          <6>2. [status |-> "revoked", expiresAt |-> rows[s].expiresAt, delegation |-> rows[s].delegation]
                  \in Row
            BY <6>1 DEF Row
          <6> QED
            BY <2>0, <3>2, <5>1, <6>2 DEF Revoke, SessionTypeOK
        <5>2. CASE t # s
          BY <2>0, <3>2, <5>2 DEF Revoke, SessionTypeOK
        <5> QED
          BY <5>1, <5>2
      <4> QED
        BY <3>2, <4>1 DEF Revoke
    <3> QED
      BY <2>1, <3>1, <3>2
  <2>2. ASSUME NEW o \in Ops, NEW t \in Sessions, NEW d \in Delegations, PackageReads(o, t, d)
        PROVE  Settled(s)' /\ tokens' = tokens
    BY <2>0, <2>2 DEF PackageReads, Packageable, SessionTypeOK
  <2>3. ASSUME NEW o \in Ops, PackageSaves(o)
        PROVE  Settled(s)' /\ tokens' = tokens
    BY <2>0, <2>3 DEF PackageSaves, SessionTypeOK
  <2>4. ASSUME NEW o \in Ops, NEW t \in Sessions, NEW tool \in Tools, ResolveReads(o, t, tool)
        PROVE  Settled(s)' /\ tokens' = tokens
    BY <2>0, <2>4 DEF ResolveReads, Resolvable, SessionTypeOK
  <2>5. ASSUME NEW o \in Ops, NEW j \in Jtis, NEW n \in Nonces, ResolveMints(o, j, n)
        PROVE  /\ Settled(s)'
               /\ \A k \in Jtis : tokens'[k] # tokens[k] => tokens'[k].session # s
    <3>1. op[o] \in Op /\ op[o].kind = "resolve" /\ op[o].session # s
      BY <2>0, <2>5 DEF ResolveMints, SessionTypeOK
    <3>2. op[o].session \in Sessions /\ op[o].delegation \in Delegations
      BY <3>1 DEF Op
    <3>3. /\ tokens'[j].session = op[o].session
          /\ \A k \in Jtis : k # j => tokens'[k] = tokens[k]
      BY <2>0, <2>5, <3>2, MintFacts DEF ResolveMints
    <3>4. Settled(s)'
      BY <2>0, <2>5 DEF ResolveMints, SessionTypeOK
    <3> QED
      BY <3>1, <3>3, <3>4
  <2>6. ASSUME NEW o \in Ops, OpFails(o)
        PROVE  Settled(s)' /\ tokens' = tokens
    BY <2>0, <2>6 DEF OpFails, SessionTypeOK
  <2>7. ASSUME NEW j \in Jtis, NEW d \in Delegations, ClientMint(j, d)
        PROVE  /\ Settled(s)'
               /\ \A k \in Jtis : tokens'[k] # tokens[k] => tokens'[k].session # s
    <3>1. /\ tokens'[j].session = None
          /\ \A k \in Jtis : k # j => tokens'[k] = tokens[k]
      BY <2>0, <2>7, MintFacts DEF ClientMint
    <3> QED
      BY <2>7, <3>1 DEF ClientMint
  <2>8. ASSUME \/ \E n \in Nonces, j \in Jtis, tool \in Tools : Forward(n, j, tool)
               \/ \E d \in Delegations : RevokeDelegation(d)
               \/ Tick
        PROVE  Settled(s)' /\ tokens' = tokens
    BY <2>8 DEF Forward, RevokeDelegation, Tick
  <2> QED
    BY <2>0, <2>1, <2>2, <2>3, <2>4, <2>5, <2>6, <2>7, <2>8 DEF SessionNext, Call
<1> QED
  BY <1>1, InvHolds, PTL DEF Spec, RevocationSettles

=============================================================================
