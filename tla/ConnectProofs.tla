----------------------------- MODULE ConnectProofs -----------------------------
(***************************************************************************)
(* Proofs about the Connect broker, the Google login, the social custody    *)
(* and the federated tokens, for any number of clients, subjects, members,  *)
(* requests and tokens, and about the four together.                        *)
(***************************************************************************)
EXTENDS MCConnect, SequenceTheorems, TLAPS

-----------------------------------------------------------------------------
(* Federated tokens *)

(* Tokens are numbers the provider has given out.                           *)
TokensAreIssued ==
  /\ alive \subseteq 1 .. issued /\ stored <= issued
  /\ \A r \in Reads : reads[r] # NoRead => reads[r].token <= issued

(* What a read is about to store works, and nobody else can use it up: it   *)
(* is neither stored yet nor in another read's hands.                       *)
SuccessorIsAlive ==
  \A r \in Reads : AtRead(r, "store") =>
    /\ reads[r].token \in alive
    /\ rotates =>
         /\ stored # reads[r].token
         /\ \A s \in Reads \ {r} :
              AtRead(s, "refresh") \/ AtRead(s, "store") => reads[s].token # reads[r].token

FederatedInv ==
  /\ FederatedTypeOK /\ TokensAreIssued
  /\ ~ lost => SuccessorIsAlive
  /\ StoredTokenIsAlive

(* A read of one request changes that request alone.                        *)
LEMMA ReadMoves ==
  ASSUME FederatedTypeOK, NEW r \in Reads, NEW q \in ReadRequest, reads' = [reads EXCEPT ![r] = q]
  PROVE  /\ reads' \in [Reads -> ReadRequest \union {NoRead}]
         /\ reads'[r] = q /\ q # NoRead
         /\ \A s \in Reads : s # r => reads'[s] = reads[s]
BY FederatedAssumption DEF FederatedTypeOK

(* Moving on, other than to "store", with the token it has or with none or  *)
(* with the stored one, leaves the tokens as they are.                      *)
LEMMA MoveKeeps ==
  ASSUME FederatedInv, NEW r \in Reads, NEW q \in ReadRequest, reads' = [reads EXCEPT ![r] = q],
         q.pc # "store", ~ AtRead(r, "store"),
         \/ q.token \in {0, stored}
         \/ reads[r] # NoRead /\ q.token = reads[r].token /\ q.pc # "refresh",
         UNCHANGED <<rotates, issued, alive, stored, granted, withdrawn, lost>>
  PROVE  FederatedInv'
<1>1. /\ reads' \in [Reads -> ReadRequest \union {NoRead}] /\ reads'[r] = q /\ q # NoRead
      /\ \A s \in Reads : s # r => reads'[s] = reads[s]
  BY ReadMoves DEF FederatedInv
<1>2. stored \in Nat /\ issued \in Nat /\ alive \subseteq 1 .. issued
  BY FederatedAssumption DEF FederatedInv, FederatedTypeOK, TokensAreIssued
<1>3. FederatedTypeOK'
  BY <1>1 DEF FederatedInv, FederatedTypeOK
<1>4. TokensAreIssued'
  BY <1>1, <1>2 DEF FederatedInv, TokensAreIssued
<1>5. \A s \in Reads : AtRead(s, "store")' <=> AtRead(s, "store")
  BY <1>1 DEF AtRead
<1>6. \A s \in Reads : AtRead(s, "refresh")' =>
        \/ s # r /\ AtRead(s, "refresh") /\ reads'[s] = reads[s]
        \/ s = r /\ q.token \in {0, stored}
  BY <1>1 DEF AtRead
<1>7. ~ lost' => SuccessorIsAlive'
  <2> SUFFICES ASSUME ~ lost, NEW s \in Reads, AtRead(s, "store")'
               PROVE  /\ reads'[s].token \in alive
                      /\ rotates =>
                           /\ stored # reads'[s].token
                           /\ \A u \in Reads \ {s} :
                                AtRead(u, "refresh")' \/ AtRead(u, "store")' => reads'[u].token # reads'[s].token
    BY DEF SuccessorIsAlive
  <2>1. s # r /\ AtRead(s, "store") /\ reads'[s] = reads[s]
    BY <1>1, <1>5
  <2>2. /\ reads[s].token \in alive
        /\ rotates =>
             /\ stored # reads[s].token
             /\ \A u \in Reads \ {s} :
                  AtRead(u, "refresh") \/ AtRead(u, "store") => reads[u].token # reads[s].token
    BY <2>1 DEF FederatedInv, SuccessorIsAlive
  <2>3. reads[s].token # 0
    BY <1>2, <2>2
  <2>4. ASSUME NEW u \in Reads \ {s}, rotates, AtRead(u, "refresh")' \/ AtRead(u, "store")'
        PROVE  reads'[u].token # reads'[s].token
    <3>1. CASE u = r
      BY <1>1, <1>5, <1>6, <2>1, <2>2, <2>3, <2>4, <3>1
    <3>2. CASE u # r
      BY <1>1, <1>5, <1>6, <2>1, <2>2, <2>4, <3>2
    <3> QED
      BY <3>1, <3>2
  <2> QED
    BY <2>1, <2>2, <2>4
<1>8. StoredTokenIsAlive'
  BY <1>5 DEF FederatedInv, StoredTokenIsAlive
<1> QED
  BY <1>3, <1>4, <1>7, <1>8 DEF FederatedInv

LEMMA ReadStepsKeep ==
  ASSUME FederatedInv, NEW r \in Reads,
         \/ VerifyDelegation(r) \/ GetGrant(r) \/ RefreshRefused(r)
         \/ \E near \in BOOLEAN : Load(r, near)
         \/ \E ok \in BOOLEAN : Call(r, ok)
  PROVE  FederatedInv'
<1> USE FederatedAssumption DEF AtRead
<1>1. ASSUME NEW pc \in {"grant", "load", "call", "done"}, Proceed(r, pc), reads[r] # NoRead, reads[r].pc # "store",
             UNCHANGED <<rotates, issued, alive, stored, granted, withdrawn, lost>>
      PROVE  FederatedInv'
  <2> DEFINE q == [reads[r] EXCEPT !.pc = pc]
  <2>1. reads[r] \in ReadRequest
    BY <1>1 DEF FederatedInv, FederatedTypeOK
  <2>2. q \in ReadRequest /\ q.pc = pc /\ q.token = reads[r].token
    BY <2>1 DEF ReadRequest
  <2>3. reads' = [reads EXCEPT ![r] = q]
    BY <1>1 DEF Proceed
  <2> HIDE DEF q
  <2> QED
    BY <1>1, <2>2, <2>3, MoveKeeps
<1>2. CASE VerifyDelegation(r)
  BY <1>1, <1>2 DEF VerifyDelegation
<1>3. CASE GetGrant(r)
  BY <1>1, <1>3 DEF GetGrant
<1>4. CASE RefreshRefused(r)
  BY <1>1, <1>4 DEF RefreshRefused
<1>5. ASSUME NEW near \in BOOLEAN, Load(r, near) PROVE FederatedInv'
  <2> DEFINE pc == IF stored = 0 THEN "done" ELSE IF near THEN "refresh" ELSE "call"
             q == [reads[r] EXCEPT !.token = stored, !.pc = pc]
  <2>1. reads[r] \in ReadRequest /\ stored \in 0 .. MaxTokens
    BY <1>5 DEF Load, FederatedInv, FederatedTypeOK
  <2>2. pc \in {"refresh", "call", "done"}
    OBVIOUS
  <2>3. reads' = [reads EXCEPT ![r] = q]
    BY <1>5 DEF Load
  <2> HIDE DEF pc
  <2>4. q \in ReadRequest /\ q.pc = pc /\ q.token = stored
    BY <2>1, <2>2 DEF ReadRequest
  <2> HIDE DEF q
  <2> QED
    BY <1>5, <2>2, <2>3, <2>4, MoveKeeps DEF Load
<1>6. ASSUME NEW ok \in BOOLEAN, Call(r, ok) PROVE FederatedInv'
  <2> DEFINE q == [reads[r] EXCEPT !.pc = "done", !.token = 0, !.served = ok]
  <2>1. reads[r] \in ReadRequest
    BY <1>6 DEF Call, FederatedInv, FederatedTypeOK
  <2>0. 0 \in 0 .. MaxTokens
    OBVIOUS
  <2>2. q \in ReadRequest /\ q.pc = "done" /\ q.token = 0
    BY <2>0, <2>1, Zenon DEF ReadRequest
  <2>3. reads' = [reads EXCEPT ![r] = q]
    BY <1>6 DEF Call
  <2> HIDE DEF q
  <2> QED
    BY <1>6, <2>2, <2>3, MoveKeeps DEF Call
<1> QED
  BY <1>2, <1>3, <1>4, <1>5, <1>6

LEMMA BeginReadKeeps ==
  ASSUME FederatedInv, NEW r \in Reads, NEW kind \in {"app", "bridge", "exchange"},
         NEW a \in Apps \union {NoRead}, BeginRead(r, kind, a)
  PROVE  FederatedInv'
<1> DEFINE q == [kind |-> kind, app |-> a, pc |-> IF kind = "app" THEN "verify" ELSE "load",
                 token |-> 0, served |-> FALSE]
<1>1. q \in ReadRequest /\ q.pc # "store" /\ q.token = 0
  BY FederatedAssumption DEF ReadRequest
<1>2. reads' = [reads EXCEPT ![r] = q] /\ reads[r] = NoRead
  BY DEF BeginRead
<1> HIDE DEF q
<1> QED
  BY <1>1, <1>2, MoveKeeps DEF BeginRead, AtRead

(* An accepted refresh: a new token for this read alone, or the same.       *)
LEMMA RefreshKeeps ==
  ASSUME FederatedInv, NEW r \in Reads, Refresh(r)
  PROVE  FederatedInv'
<1> USE FederatedAssumption
<1> DEFINE t == reads[r].token
           n == IF rotates THEN issued + 1 ELSE t
           q == [reads[r] EXCEPT !.token = n, !.pc = "store"]
<1>1. /\ reads[r] \in ReadRequest /\ t \in alive /\ AtRead(r, "refresh")
      /\ issued \in Nat /\ stored \in Nat /\ stored <= issued /\ alive \subseteq 1 .. issued
      /\ rotates => issued < MaxTokens
  BY DEF Refresh, AtRead, FederatedInv, FederatedTypeOK, TokensAreIssued
<1>2. /\ issued' = IF rotates THEN issued + 1 ELSE issued
      /\ alive' = IF rotates THEN (alive \ {t}) \union {issued + 1} ELSE alive
      /\ reads' = [reads EXCEPT ![r] = q]
      /\ UNCHANGED <<rotates, stored, granted, withdrawn, lost>>
  BY DEF Refresh, Successor
<1>3. n \in 0 .. MaxTokens
  <2>1. t \in 0 .. MaxTokens
    BY <1>1 DEF ReadRequest
  <2>2. rotates => issued + 1 \in 0 .. MaxTokens
    BY <1>1
  <2> QED
    BY <2>1, <2>2
<1> HIDE DEF n
<1>4. q \in ReadRequest /\ q.pc = "store" /\ q.token = n
  BY <1>1, <1>3 DEF ReadRequest
<1> HIDE DEF q, t
<1>5. /\ reads' \in [Reads -> ReadRequest \union {NoRead}] /\ reads'[r] = q /\ q # NoRead
      /\ \A s \in Reads : s # r => reads'[s] = reads[s]
  BY <1>2, <1>4, ReadMoves DEF FederatedInv
<1>6. AtRead(r, "store")'
  BY <1>4, <1>5 DEF AtRead
<1>7. FederatedTypeOK'
  BY <1>1, <1>2, <1>5 DEF FederatedInv, FederatedTypeOK, RefreshTokens
<1>8. alive' \subseteq 1 .. issued' /\ stored' <= issued' /\ n <= issued' /\ n \in alive' /\ issued <= issued'
  BY <1>1, <1>2 DEF n, t
<1>9. TokensAreIssued'
  <2>1. \A s \in Reads : reads[s] # NoRead => reads[s].token <= issued /\ reads[s].token \in Nat
    BY DEF FederatedInv, FederatedTypeOK, TokensAreIssued, ReadRequest
  <2> QED
    BY <1>1, <1>2, <1>4, <1>5, <1>8, <2>1 DEF TokensAreIssued
<1>10. ~ lost' => SuccessorIsAlive'
  <2> SUFFICES ASSUME ~ lost PROVE SuccessorIsAlive'
    BY <1>2
  <2>1. \A s \in Reads : s # r => (AtRead(s, "store")' <=> AtRead(s, "store"))
                                  /\ (AtRead(s, "refresh")' <=> AtRead(s, "refresh"))
    BY <1>5 DEF AtRead
  <2>2. ~ AtRead(r, "refresh")'
    BY <1>4, <1>5 DEF AtRead
  <2>3. \A s \in Reads : AtRead(s, "store") \/ AtRead(s, "refresh") => reads[s].token <= issued /\ reads[s].token \in Nat
    BY DEF AtRead, FederatedInv, FederatedTypeOK, TokensAreIssued, ReadRequest
  <2>4. \A s \in Reads \ {r} : AtRead(s, "store") =>
          /\ reads[s].token \in alive
          /\ rotates => /\ stored # reads[s].token /\ t # reads[s].token
                        /\ \A u \in Reads \ {s} :
                             AtRead(u, "refresh") \/ AtRead(u, "store") => reads[u].token # reads[s].token
    BY <1>1 DEF FederatedInv, SuccessorIsAlive, t
  <2>5. ASSUME NEW s \in Reads, AtRead(s, "store")', s # r
        PROVE  /\ reads'[s].token \in alive'
               /\ rotates' =>
                    /\ stored' # reads'[s].token
                    /\ \A u \in Reads \ {s} :
                         AtRead(u, "refresh")' \/ AtRead(u, "store")' => reads'[u].token # reads'[s].token
    <3>1. AtRead(s, "store") /\ reads'[s] = reads[s]
      BY <1>5, <2>1, <2>5
    <3>2. reads'[s].token \in alive'
      BY <1>2, <2>4, <2>5, <3>1
    <3>3. rotates => n = issued + 1
      BY DEF n
    <3>4. ASSUME rotates, NEW u \in Reads \ {s}, AtRead(u, "refresh")' \/ AtRead(u, "store")'
          PROVE  reads'[u].token # reads'[s].token
      <4>1. CASE u = r
        BY <1>1, <1>4, <1>5, <2>3, <3>1, <3>3, <3>4, <4>1
      <4>2. CASE u # r
        BY <1>5, <2>1, <2>4, <2>5, <3>1, <3>4, <4>2
      <4> QED
        BY <4>1, <4>2
    <3> QED
      BY <1>2, <2>4, <2>5, <3>1, <3>2, <3>4
  <2>6. ASSUME rotates
        PROVE  /\ stored' # reads'[r].token
               /\ \A u \in Reads \ {r} :
                    AtRead(u, "refresh")' \/ AtRead(u, "store")' => reads'[u].token # reads'[r].token
    <3>1. n = issued + 1
      BY <2>6 DEF n
    <3> QED
      BY <1>1, <1>2, <1>4, <1>5, <2>1, <2>3, <3>1
  <2>7. reads'[r].token \in alive'
    BY <1>4, <1>5, <1>8
  <2> QED
    BY <1>2, <2>5, <2>6, <2>7 DEF SuccessorIsAlive
<1>11. StoredTokenIsAlive'
  BY <1>6 DEF StoredTokenIsAlive
<1> QED
  BY <1>7, <1>9, <1>10, <1>11 DEF FederatedInv

LEMMA StoreKeeps ==
  ASSUME FederatedInv, NEW r \in Reads, Store(r)
  PROVE  FederatedInv'
<1> USE FederatedAssumption
<1> DEFINE q == [reads[r] EXCEPT !.pc = "call"]
<1>1. /\ reads[r] \in ReadRequest /\ AtRead(r, "store") /\ reads[r] # NoRead
      /\ reads[r].token \in 0 .. MaxTokens /\ reads[r].token <= issued
  BY DEF Store, AtRead, FederatedInv, FederatedTypeOK, TokensAreIssued, ReadRequest
<1>2. /\ stored' = reads[r].token /\ reads' = [reads EXCEPT ![r] = q]
      /\ UNCHANGED <<rotates, issued, alive, granted, withdrawn, lost>>
  BY DEF Store, Proceed
<1>3. q \in ReadRequest /\ q.pc = "call" /\ q.token = reads[r].token
  BY <1>1 DEF ReadRequest
<1> HIDE DEF q
<1>4. /\ reads' \in [Reads -> ReadRequest \union {NoRead}] /\ reads'[r] = q /\ q # NoRead
      /\ \A s \in Reads : s # r => reads'[s] = reads[s]
  BY <1>2, <1>3, ReadMoves DEF FederatedInv
<1>5. FederatedTypeOK' /\ TokensAreIssued'
  BY <1>1, <1>2, <1>3, <1>4 DEF FederatedInv, FederatedTypeOK, TokensAreIssued
<1>6. /\ \A s \in Reads : AtRead(s, "store")' => s # r /\ AtRead(s, "store")
      /\ \A s \in Reads : AtRead(s, "refresh")' => s # r /\ AtRead(s, "refresh")
  BY <1>3, <1>4 DEF AtRead
<1>7. ~ lost => reads[r].token \in alive
  BY <1>1 DEF FederatedInv, SuccessorIsAlive
<1>8. ~ lost' => SuccessorIsAlive'
  <2> SUFFICES ASSUME ~ lost, NEW s \in Reads, AtRead(s, "store")'
               PROVE  /\ reads'[s].token \in alive'
                      /\ rotates' =>
                           /\ stored' # reads'[s].token
                           /\ \A u \in Reads \ {s} :
                                AtRead(u, "refresh")' \/ AtRead(u, "store")' => reads'[u].token # reads'[s].token
    BY <1>2 DEF SuccessorIsAlive
  <2>1. s # r /\ AtRead(s, "store") /\ reads'[s] = reads[s]
    BY <1>4, <1>6
  <2>2. /\ reads[s].token \in alive
        /\ rotates => \A u \in Reads \ {s} :
             AtRead(u, "refresh") \/ AtRead(u, "store") => reads[u].token # reads[s].token
    BY <2>1 DEF FederatedInv, SuccessorIsAlive
  <2> QED
    BY <1>1, <1>2, <1>4, <1>6, <2>1, <2>2
<1>9. StoredTokenIsAlive'
  BY <1>2, <1>7 DEF StoredTokenIsAlive
<1> QED
  BY <1>5, <1>8, <1>9 DEF FederatedInv

LEMMA LoseRefreshKeeps ==
  ASSUME FederatedInv, NEW r \in Reads, LoseRefresh(r)
  PROVE  FederatedInv'
<1> DEFINE q == [reads[r] EXCEPT !.pc = "done"]
<1>1. reads[r] \in ReadRequest /\ reads[r] # NoRead
  BY DEF LoseRefresh, AtRead, FederatedInv, FederatedTypeOK
<1>2. /\ reads' = [reads EXCEPT ![r] = q] /\ alive' \subseteq alive /\ lost' = TRUE
      /\ UNCHANGED <<rotates, issued, stored, granted, withdrawn>>
  BY DEF LoseRefresh, Proceed
<1>3. q \in ReadRequest /\ q.token = reads[r].token
  BY <1>1 DEF ReadRequest
<1> HIDE DEF q
<1>4. /\ reads' \in [Reads -> ReadRequest \union {NoRead}] /\ reads'[r] = q
      /\ \A s \in Reads : s # r => reads'[s] = reads[s]
  BY <1>2, <1>3, ReadMoves DEF FederatedInv
<1>5. FederatedTypeOK' /\ TokensAreIssued'
  BY <1>1, <1>2, <1>3, <1>4 DEF FederatedInv, FederatedTypeOK, TokensAreIssued
<1> QED
  BY <1>2, <1>5 DEF FederatedInv, StoredTokenIsAlive

LEMMA StoreTokenKeeps ==
  ASSUME FederatedInv, StoreToken
  PROVE  FederatedInv'
<1> USE FederatedAssumption
<1>1. /\ issued < MaxTokens /\ issued' = issued + 1 /\ alive' = alive \union {issued + 1}
      /\ stored' = issued + 1 /\ UNCHANGED <<rotates, granted, withdrawn, reads, lost>>
      /\ issued \in Nat /\ alive \subseteq 1 .. issued
  BY DEF StoreToken, FederatedInv, FederatedTypeOK, TokensAreIssued
<1>2. \A s \in Reads : reads[s] # NoRead => reads[s].token <= issued /\ reads[s].token \in Nat
  BY DEF FederatedInv, FederatedTypeOK, TokensAreIssued, ReadRequest
<1>3. FederatedTypeOK' /\ TokensAreIssued'
  BY <1>1, <1>2 DEF FederatedInv, FederatedTypeOK, TokensAreIssued, RefreshTokens
<1>4. ~ lost' => SuccessorIsAlive'
  BY <1>1, <1>2 DEF FederatedInv, SuccessorIsAlive, AtRead
<1>5. StoredTokenIsAlive'
  BY <1>1 DEF StoredTokenIsAlive
<1> QED
  BY <1>3, <1>4, <1>5 DEF FederatedInv

LEMMA FederatedStepInv == FederatedInv /\ [FederatedNext]_federatedVars => FederatedInv'
<1> SUFFICES ASSUME FederatedInv, [FederatedNext]_federatedVars PROVE FederatedInv'
  OBVIOUS
<1>1. ASSUME UNCHANGED <<rotates, issued, alive, stored, reads, lost>>,
             granted' \subseteq Apps, withdrawn' \subseteq Apps
      PROVE  FederatedInv'
  BY <1>1 DEF FederatedInv, FederatedTypeOK, TokensAreIssued, SuccessorIsAlive, StoredTokenIsAlive, AtRead
<1>2. granted \subseteq Apps /\ withdrawn \subseteq Apps
  BY DEF FederatedInv, FederatedTypeOK
<1>3. CASE UNCHANGED federatedVars
  BY <1>1, <1>2, <1>3 DEF federatedVars
<1>4. ASSUME NEW a \in Apps, (\E on \in BOOLEAN : SetGrant(a, on)) \/ Withdraw(a) PROVE FederatedInv'
  BY <1>1, <1>2, <1>4 DEF SetGrant, GrantRecords, Withdraw
<1>5. ASSUME NEW r \in Reads, BeginFetch(r) \/ BeginDataExchange(r) \/ \E a \in Apps : BeginMcpRead(r, a)
      PROVE  FederatedInv'
  BY <1>5, BeginReadKeeps DEF BeginFetch, BeginDataExchange, BeginMcpRead
<1> QED
  BY <1>3, <1>4, <1>5, StoreTokenKeeps, ReadStepsKeep, RefreshKeeps, LoseRefreshKeeps, StoreKeeps
     DEF FederatedNext

(* The stored refresh token is one the provider accepts, however reads and  *)
(* sign-ins interleave (fetchYouVersionData, storeFederatedToken).          *)
THEOREM FederatedTokensLive == FederatedSpec => [](FederatedTypeOK /\ StoredTokenIsAlive)
<1>1. FederatedInit => FederatedInv
  <2> SUFFICES ASSUME FederatedInit PROVE FederatedInv
    OBVIOUS
  <2>0. /\ rotates \in BOOLEAN /\ lost \in BOOLEAN
        /\ reads \in [Reads -> ReadRequest \union {NoRead}] /\ \A r \in Reads : reads[r] = NoRead
    BY Zenon DEF FederatedInit
  <2>1. FederatedTypeOK /\ TokensAreIssued
    BY <2>0, FederatedAssumption DEF FederatedInit, FederatedTypeOK, TokensAreIssued
  <2>2. SuccessorIsAlive /\ StoredTokenIsAlive
    BY DEF FederatedInit, SuccessorIsAlive, StoredTokenIsAlive, AtRead
  <2> QED
    BY <2>1, <2>2 DEF FederatedInv
<1>2. FederatedInv => FederatedTypeOK /\ StoredTokenIsAlive
  BY DEF FederatedInv
<1> QED
  BY <1>1, <1>2, FederatedStepInv, PTL DEF FederatedSpec

-----------------------------------------------------------------------------
(* Google login *)

(* The two kinds of requests.                                               *)
Callbacks ==
  [kind : {"home", "relying", "link"}, subject : Subjects, pc : {"begin", "record", "put", "mint", "done"},
   agent : Agents \union {NoLogin}, links : Seq(Agents)]
Rotations ==
  [kind : {"rotate"}, subject : Subjects, pc : {"put", "done"}, next : 1 .. MaxRotation + 1]

(* Agent a is a home of subject s, or a link to it was approved.            *)
IsHomeOf(s, a) == a \in Homes /\ a.subject = s
Linked(s, a, given) == IsHomeOf(s, a) \/ <<s, a>> \in given

(* The index lists such agents only, a callback carries no others, a        *)
(* rotation stays within its bound, and sessions are for such agents.       *)
FacetsFit(index_, given) ==
  \A s \in Subjects : \A i \in DOMAIN index_[s] : Linked(s, index_[s][i], given)

LoginFits(q, given) ==
  /\ q.kind = "rotate" => q.next <= MaxRotation
  /\ q.kind # "rotate" =>
       /\ \A i \in DOMAIN q.links : Linked(q.subject, q.links[i], given)
       /\ q.pc \in {"record", "put", "mint"} =>
            /\ q.agent \in Agents /\ Linked(q.subject, q.agent, given)
            /\ q.kind = "home" => IsHomeOf(q.subject, q.agent)

SessionsFit(minted, given) ==
  \A t \in minted : t.google # NoLogin =>
    \/ IsHomeOf(t.google, t.agent)
    \/ t.grade = "login" /\ <<t.google, t.agent>> \in given

GoogleInv ==
  /\ GoogleTypeOK
  /\ FacetsFit(facets, approved)
  /\ \A l \in Logins : logins[l] # NoLogin => LoginFits(logins[l], approved)
  /\ SessionsFit(sessions, approved)

LEMMA LoginKinds ==
  ASSUME NEW q \in Login
  PROVE  /\ q.kind = "rotate" => q \in Rotations
         /\ q.kind # "rotate" => q \in Callbacks
         /\ q.pc \in {"begin", "record", "mint"} => q.kind # "rotate"
         /\ q.subject \in Subjects
BY DEF Login, Callbacks, Rotations

(* What fits goes on fitting as approvals are added.                        *)
LEMMA FitsGrow ==
  ASSUME NEW given, NEW more, given \subseteq more
  PROVE  /\ \A index_ : FacetsFit(index_, given) => FacetsFit(index_, more)
         /\ \A q : LoginFits(q, given) => LoginFits(q, more)
         /\ \A minted : SessionsFit(minted, given) => SessionsFit(minted, more)
BY DEF FacetsFit, LoginFits, SessionsFit, Linked

(* A step of one request.                                                   *)
LEMMA LoginMoves ==
  ASSUME GoogleInv, NEW l \in Logins, NEW q \in Login, logins' = [logins EXCEPT ![l] = q],
         LoginFits(q, approved'), approved \subseteq approved', approved' \subseteq Subjects \X Agents,
         rotation' \in [Subjects -> 0 .. MaxRotation],
         facets' \in [Subjects -> Seq(Agents)], FacetsFit(facets', approved'),
         sessions' \subseteq Session, SessionsFit(sessions', approved')
  PROVE  GoogleInv'
<1>1. GoogleTypeOK'
  BY DEF GoogleInv, GoogleTypeOK
<1>2. ASSUME NEW m \in Logins, logins'[m] # NoLogin PROVE LoginFits(logins'[m], approved')
  <2>1. CASE m = l
    BY <2>1 DEF GoogleInv, GoogleTypeOK
  <2>2. CASE m # l
    BY <1>2, <2>2, FitsGrow DEF GoogleInv, GoogleTypeOK
  <2> QED
    BY <2>1, <2>2
<1> QED
  BY <1>1, <1>2 DEF GoogleInv

(* A step that changes a request and nothing else.                          *)
LEMMA LoginMovesAlone ==
  ASSUME GoogleInv, NEW l \in Logins, NEW q \in Login, logins' = [logins EXCEPT ![l] = q],
         LoginFits(q, approved), UNCHANGED <<rotation, facets, sessions, approved>>
  PROVE  GoogleInv'
BY LoginMoves DEF GoogleInv, GoogleTypeOK

LEMMA SessionsElsewhereKeep ==
  ASSUME GoogleInv, NEW a \in Agents,
         sessions' = sessions \union {[agent |-> a, grade |-> "custody", google |-> NoLogin]},
         UNCHANGED <<rotation, facets, logins, approved>>
  PROVE  GoogleInv'
<1> DEFINE t == [agent |-> a, grade |-> "custody", google |-> NoLogin]
<1>1. t \in Session /\ t.google = NoLogin
  BY DEF Session
<1> HIDE DEF t
<1>2. sessions' = sessions \union {t}
  BY DEF t
<1>3. GoogleTypeOK'
  BY <1>1, <1>2 DEF GoogleInv, GoogleTypeOK
<1>4. SessionsFit(sessions', approved')
  BY <1>1, <1>2 DEF GoogleInv, SessionsFit
<1> QED
  BY <1>3, <1>4 DEF GoogleInv

LEMMA GoogleBeginKeeps ==
  ASSUME GoogleInv, NEW l \in Logins, NEW kind \in {"home", "relying", "link"}, NEW s \in Subjects,
         Begin(l, kind, s)
  PROVE  GoogleInv'
<1> DEFINE q == [kind |-> kind, subject |-> s, pc |-> "begin", agent |-> NoLogin, links |-> <<>>]
<1>0. <<>> \in Seq(Agents)
  OBVIOUS
<1>1. q \in Callbacks /\ q.kind # "rotate" /\ q.pc = "begin" /\ q.links = <<>>
  BY <1>0 DEF Callbacks
<1>2. logins' = [logins EXCEPT ![l] = q] /\ UNCHANGED <<rotation, facets, sessions, approved>>
  BY DEF Begin
<1> HIDE DEF q
<1>3. q \in Login
  BY <1>1 DEF Login, Callbacks
<1>4. LoginFits(q, approved)
  BY <1>1 DEF LoginFits
<1> QED
  BY <1>2, <1>3, <1>4, LoginMovesAlone

LEMMA DeriveHomeKeeps ==
  ASSUME GoogleInv, NEW l \in Logins, DeriveHome(l)
  PROVE  GoogleInv'
<1> DEFINE o == logins[l]
           h == Home(o.subject, rotation[o.subject])
           q == [o EXCEPT !.agent = h, !.pc = "record"]
<1>1. o \in Login /\ o # NoLogin /\ o.pc = "begin" /\ o.kind = "home"
  BY DEF DeriveHome, AtLogin, GoogleInv, GoogleTypeOK
<1>2. o \in Callbacks /\ o.subject \in Subjects /\ LoginFits(o, approved)
  BY <1>1, LoginKinds DEF GoogleInv
<1>3. IsHomeOf(o.subject, h) /\ h \in Agents
  BY <1>2 DEF GoogleInv, GoogleTypeOK, IsHomeOf, Home, Homes, Agents
<1>4. logins' = [logins EXCEPT ![l] = q] /\ UNCHANGED <<rotation, facets, sessions, approved>>
  BY DEF DeriveHome
<1> HIDE DEF h, o
<1>5. /\ q \in Callbacks /\ q.kind = "home" /\ q.pc = "record" /\ q.agent = h
      /\ q.subject = o.subject /\ q.links = o.links
  BY <1>1, <1>2, <1>3 DEF Callbacks
<1> HIDE DEF q
<1>6. q \in Login
  BY <1>5 DEF Login, Callbacks
<1>7. LoginFits(q, approved)
  BY <1>1, <1>2, <1>3, <1>5 DEF LoginFits, Linked
<1> QED
  BY <1>4, <1>6, <1>7, LoginMovesAlone

LEMMA FallBackKeeps ==
  ASSUME GoogleInv, NEW l \in Logins, FallBack(l)
  PROVE  GoogleInv'
<1> DEFINE o == logins[l]
           q == [o EXCEPT !.kind = "relying"]
<1>1. o \in Login /\ o # NoLogin /\ o.pc = "begin" /\ o.kind = "home"
  BY DEF FallBack, AtLogin, GoogleInv, GoogleTypeOK
<1>2. o \in Callbacks /\ LoginFits(o, approved)
  BY <1>1, LoginKinds DEF GoogleInv
<1>3. logins' = [logins EXCEPT ![l] = q] /\ UNCHANGED <<rotation, facets, sessions, approved>>
  BY DEF FallBack
<1> HIDE DEF o
<1>4. /\ q \in Callbacks /\ q.kind = "relying" /\ q.pc = "begin"
      /\ q.subject = o.subject /\ q.links = o.links
  BY <1>1, <1>2 DEF Callbacks
<1> HIDE DEF q
<1>5. q \in Login
  BY <1>4 DEF Login, Callbacks
<1>6. LoginFits(q, approved)
  BY <1>1, <1>2, <1>4 DEF LoginFits
<1> QED
  BY <1>3, <1>5, <1>6, LoginMovesAlone

(* Ending a request, with what is minted or put at that step.               *)
LEMMA LoginDone ==
  ASSUME NEW q \in Login, NEW given, LoginFits(q, given)
  PROVE  LET done == [q EXCEPT !.pc = "done"] IN done \in Login /\ LoginFits(done, given)
<1> DEFINE done == [q EXCEPT !.pc = "done"]
<1>1. CASE q.kind = "rotate"
  <2>1. q \in Rotations
    BY <1>1, LoginKinds
  <2>2. done \in Rotations /\ done.kind = "rotate" /\ done.next = q.next
    BY <1>1, <2>1 DEF Rotations
  <2> HIDE DEF done
  <2>3. done \in Login
    BY <2>2 DEF Login, Rotations
  <2> QED
    BY <1>1, <2>2, <2>3 DEF LoginFits, done
<1>2. CASE q.kind # "rotate"
  <2>1. q \in Callbacks
    BY <1>2, LoginKinds
  <2>2. /\ done \in Callbacks /\ done.kind = q.kind /\ done.pc = "done"
        /\ done.links = q.links /\ done.subject = q.subject
    BY <2>1 DEF Callbacks
  <2> HIDE DEF done
  <2>3. done \in Login
    BY <2>2 DEF Login, Callbacks
  <2> QED
    BY <1>2, <2>2, <2>3 DEF LoginFits, done
<1> QED
  BY <1>1, <1>2

LEMMA AuthoriseLinkKeeps ==
  ASSUME GoogleInv, NEW l \in Logins, NEW t \in sessions, AuthoriseLink(l, t)
  PROVE  GoogleInv'
<1> DEFINE o == logins[l]
           q == [o EXCEPT !.agent = t.agent, !.pc = "record"]
           done == [o EXCEPT !.pc = "done"]
<1>1. o \in Login /\ o # NoLogin /\ o.pc = "begin" /\ o.kind = "link"
  BY DEF AuthoriseLink, AtLogin, GoogleInv, GoogleTypeOK
<1>2. o \in Callbacks /\ o.subject \in Subjects /\ LoginFits(o, approved)
  BY <1>1, LoginKinds DEF GoogleInv
<1>3. t.agent \in Agents
  BY DEF GoogleInv, GoogleTypeOK, Session
<1>4. CASE t.grade = "custody"
  <2>1. /\ logins' = [logins EXCEPT ![l] = q] /\ UNCHANGED <<rotation, facets, sessions>>
        /\ approved' = approved \union {<<o.subject, t.agent>>}
    BY <1>4 DEF AuthoriseLink, MayLink
  <2> HIDE DEF o
  <2>2. /\ q \in Callbacks /\ q.kind = "link" /\ q.pc = "record" /\ q.agent = t.agent
        /\ q.subject = o.subject /\ q.links = o.links
    BY <1>1, <1>2, <1>3 DEF Callbacks
  <2> HIDE DEF q
  <2>3. q \in Login
    BY <2>2 DEF Login, Callbacks
  <2>4. approved \subseteq approved' /\ approved' \subseteq Subjects \X Agents
    BY <1>2, <1>3, <2>1 DEF GoogleInv, GoogleTypeOK
  <2>5. LoginFits(q, approved')
    BY <1>1, <1>2, <1>3, <2>1, <2>2 DEF LoginFits, Linked
  <2>6. FacetsFit(facets, approved') /\ SessionsFit(sessions, approved')
    BY <2>4, FitsGrow DEF GoogleInv
  <2> QED
    BY <2>1, <2>3, <2>4, <2>5, <2>6, LoginMoves DEF GoogleInv, GoogleTypeOK
<1>5. CASE t.grade # "custody"
  <2>1. /\ logins' = [logins EXCEPT ![l] = done] /\ UNCHANGED <<rotation, facets, sessions, approved>>
    BY <1>5 DEF AuthoriseLink, MayLink
  <2>2. done \in Login /\ LoginFits(done, approved)
    BY <1>1, <1>2, LoginDone
  <2> HIDE DEF done
  <2> QED
    BY <2>1, <2>2, LoginMovesAlone
<1> QED
  BY <1>4, <1>5

LEMMA ReadLinksKeeps ==
  ASSUME GoogleInv, NEW l \in Logins, ReadLinks(l)
  PROVE  GoogleInv'
<1> DEFINE o == logins[l]
           pc == IF Contains(facets[o.subject], o.agent) THEN "mint" ELSE "put"
           q == [o EXCEPT !.links = facets[o.subject], !.pc = pc]
<1>1. o \in Login /\ o # NoLogin /\ o.pc = "record"
  BY DEF ReadLinks, AtLogin, GoogleInv, GoogleTypeOK
<1>2. o \in Callbacks /\ o.kind # "rotate" /\ o.subject \in Subjects /\ LoginFits(o, approved)
  BY <1>1, LoginKinds DEF GoogleInv
<1>3. facets[o.subject] \in Seq(Agents) /\ pc \in {"mint", "put"}
  BY <1>2 DEF GoogleInv, GoogleTypeOK
<1>4. logins' = [logins EXCEPT ![l] = q] /\ UNCHANGED <<rotation, facets, sessions, approved>>
  BY DEF ReadLinks
<1> HIDE DEF o, pc
<1>5. /\ q \in Callbacks /\ q.kind = o.kind /\ q.pc = pc /\ q.agent = o.agent
      /\ q.subject = o.subject /\ q.links = facets[o.subject]
  BY <1>2, <1>3 DEF Callbacks
<1> HIDE DEF q
<1>6. q \in Login
  BY <1>5 DEF Login, Callbacks
<1>7. LoginFits(q, approved)
  BY <1>1, <1>2, <1>5 DEF LoginFits, GoogleInv, FacetsFit
<1> QED
  BY <1>4, <1>6, <1>7, LoginMovesAlone

LEMMA PutLinksKeeps ==
  ASSUME GoogleInv, NEW l \in Logins, PutLinks(l)
  PROVE  GoogleInv'
<1> DEFINE o == logins[l]
           q == [o EXCEPT !.pc = "mint"]
           list == Append(o.links, o.agent)
<1>1. o \in Login /\ o # NoLogin /\ o.pc = "put" /\ o.kind # "rotate"
  BY DEF PutLinks, AtLogin, GoogleInv, GoogleTypeOK
<1>2. o \in Callbacks /\ o.subject \in Subjects /\ LoginFits(o, approved) /\ o.links \in Seq(Agents)
  BY <1>1, LoginKinds DEF GoogleInv, Callbacks
<1>3. /\ logins' = [logins EXCEPT ![l] = q] /\ UNCHANGED <<rotation, sessions, approved>>
      /\ facets' = [facets EXCEPT ![o.subject] = list]
  BY DEF PutLinks
<1> HIDE DEF o
<1>4. /\ q \in Callbacks /\ q.kind = o.kind /\ q.pc = "mint" /\ q.agent = o.agent
      /\ q.subject = o.subject /\ q.links = o.links
  BY <1>2 DEF Callbacks
<1> HIDE DEF q
<1>5. q \in Login
  BY <1>4 DEF Login, Callbacks
<1>6. LoginFits(q, approved)
  BY <1>1, <1>2, <1>4 DEF LoginFits
<1>7. list \in Seq(Agents) /\ \A i \in DOMAIN list : Linked(o.subject, list[i], approved)
  <2>1. o.agent \in Agents /\ Linked(o.subject, o.agent, approved)
        /\ \A i \in DOMAIN o.links : Linked(o.subject, o.links[i], approved)
    BY <1>1, <1>2 DEF LoginFits
  <2>2. /\ list \in Seq(Agents) /\ DOMAIN list = 1 .. Len(o.links) + 1 /\ DOMAIN o.links = 1 .. Len(o.links)
        /\ Len(o.links) \in Nat /\ list[Len(o.links) + 1] = o.agent
        /\ \A i \in 1 .. Len(o.links) : list[i] = o.links[i]
    BY <1>2, <2>1
  <2> HIDE DEF list
  <2> QED
    BY <2>1, <2>2
<1> HIDE DEF list
<1>8. facets' \in [Subjects -> Seq(Agents)] /\ FacetsFit(facets', approved)
  BY <1>2, <1>3, <1>7 DEF GoogleInv, GoogleTypeOK, FacetsFit
<1> QED
  BY <1>3, <1>5, <1>6, <1>8, LoginMoves DEF GoogleInv, GoogleTypeOK

LEMMA MintedFits ==
  ASSUME GoogleInv, NEW t \in Session, sessions' = sessions \union {t},
         IsHomeOf(t.google, t.agent) \/ (t.grade = "login" /\ <<t.google, t.agent>> \in approved)
  PROVE  sessions' \subseteq Session /\ SessionsFit(sessions', approved)
BY DEF GoogleInv, GoogleTypeOK, SessionsFit

(* A session for a home, or for an agent the index lists.                   *)
LEMMA MintsKeep ==
  ASSUME GoogleInv, NEW l \in Logins, Mint(l) \/ LoginByFacet(l)
  PROVE  GoogleInv'
<1> DEFINE o == logins[l]
           done == [o EXCEPT !.pc = "done"]
<1>1. /\ o \in Login /\ o # NoLogin /\ logins' = [logins EXCEPT ![l] = done]
      /\ o.pc \in {"mint", "begin"} /\ UNCHANGED <<rotation, facets, approved>>
  BY DEF Mint, LoginByFacet, AtLogin, GoogleInv, GoogleTypeOK
<1>2. o \in Callbacks /\ o.kind # "rotate" /\ o.subject \in Subjects /\ LoginFits(o, approved)
  BY <1>1, LoginKinds DEF GoogleInv
<1>3. done \in Login /\ LoginFits(done, approved)
  BY <1>1, <1>2, LoginDone
<1>4. sessions' \subseteq Session /\ SessionsFit(sessions', approved)
  <2>1. CASE sessions' = sessions
    BY <2>1 DEF GoogleInv, GoogleTypeOK
  <2>2. CASE Mint(l)
    <3>1. CASE o.kind = "home"
      <4> DEFINE t == [agent |-> o.agent, grade |-> "custody", google |-> o.subject]
      <4>1. o.agent \in Agents /\ IsHomeOf(o.subject, o.agent) /\ sessions' = sessions \union {t}
        BY <1>2, <2>2, <3>1 DEF Mint, AtLogin, LoginFits
      <4>2. t \in Session /\ IsHomeOf(t.google, t.agent)
        BY <1>2, <4>1 DEF Session
      <4> HIDE DEF t
      <4> QED
        BY <4>1, <4>2, MintedFits
    <3>2. CASE o.kind # "home"
      BY <2>1, <2>2, <3>2 DEF Mint
    <3> QED
      BY <3>1, <3>2
  <2>3. CASE LoginByFacet(l)
    <3>1. CASE facets[o.subject] = <<>>
      BY <2>1, <2>3, <3>1 DEF LoginByFacet
    <3>2. CASE facets[o.subject] # <<>>
      <4> DEFINE a == Head(facets[o.subject])
                 t == [agent |-> a, grade |-> "login", google |-> o.subject]
      <4>1. sessions' = sessions \union {t}
        BY <2>3, <3>2 DEF LoginByFacet, ReadOidcFacet
      <4>2. facets[o.subject] \in Seq(Agents)
        BY <1>2 DEF GoogleInv, GoogleTypeOK
      <4>3. 1 \in DOMAIN facets[o.subject] /\ a = facets[o.subject][1] /\ a \in Agents
        BY <3>2, <4>2
      <4>4. Linked(o.subject, a, approved)
        BY <1>2, <4>3 DEF GoogleInv, FacetsFit
      <4> HIDE DEF a
      <4>5. t \in Session /\ t.google = o.subject /\ t.agent = a /\ t.grade = "login"
        BY <1>2, <4>3 DEF Session
      <4> HIDE DEF t
      <4> QED
        BY <4>1, <4>4, <4>5, MintedFits DEF Linked
    <3> QED
      BY <3>1, <3>2
  <2> QED
    BY <2>2, <2>3
<1> HIDE DEF done
<1> QED
  BY <1>1, <1>3, <1>4, LoginMoves DEF GoogleInv, GoogleTypeOK

LEMMA BeginRotateKeeps ==
  ASSUME GoogleInv, NEW l \in Logins, NEW t \in sessions, BeginRotate(l, t)
  PROVE  GoogleInv'
<1> DEFINE q == [kind |-> "rotate", subject |-> t.google, pc |-> "put", next |-> rotation[t.google] + 1]
<1>1. t \in Session
  BY DEF GoogleInv, GoogleTypeOK
<1>2. t.google \in Subjects
  BY <1>1 DEF BeginRotate, MayRotate, Session
<1>3. rotation[t.google] \in Nat /\ rotation[t.google] < MaxRotation /\ MaxRotation \in Nat
  BY <1>2, GoogleAssumption DEF BeginRotate, GoogleInv, GoogleTypeOK
<1>4. rotation[t.google] + 1 \in 1 .. MaxRotation + 1
  BY <1>3
<1>5. q \in Rotations /\ q.kind = "rotate" /\ q.next = rotation[t.google] + 1
  BY <1>2, <1>4 DEF Rotations
<1>6. logins' = [logins EXCEPT ![l] = q] /\ UNCHANGED <<rotation, facets, sessions, approved>>
  BY DEF BeginRotate
<1> HIDE DEF q
<1>7. q \in Login
  BY <1>5 DEF Login, Rotations
<1>8. LoginFits(q, approved)
  BY <1>3, <1>5 DEF LoginFits
<1> QED
  BY <1>6, <1>7, <1>8, LoginMovesAlone

LEMMA PutRotationKeeps ==
  ASSUME GoogleInv, NEW l \in Logins, PutRotation(l)
  PROVE  GoogleInv'
<1> DEFINE o == logins[l]
           done == [o EXCEPT !.pc = "done"]
<1>1. /\ o \in Login /\ o # NoLogin /\ o.kind = "rotate" /\ logins' = [logins EXCEPT ![l] = done]
      /\ rotation' = [rotation EXCEPT ![o.subject] = o.next] /\ UNCHANGED <<facets, sessions, approved>>
  BY DEF PutRotation, AtLogin, GoogleInv, GoogleTypeOK
<1>2. o \in Rotations /\ o.subject \in Subjects /\ LoginFits(o, approved)
  BY <1>1, LoginKinds DEF GoogleInv
<1>3. o.next \in 1 .. MaxRotation + 1 /\ o.next <= MaxRotation
  BY <1>1, <1>2 DEF Rotations, LoginFits
<1>4. rotation' \in [Subjects -> 0 .. MaxRotation]
  BY <1>1, <1>2, <1>3, GoogleAssumption DEF GoogleInv, GoogleTypeOK
<1>5. done \in Login /\ LoginFits(done, approved)
  BY <1>1, <1>2, LoginDone
<1> HIDE DEF done
<1> QED
  BY <1>1, <1>4, <1>5, LoginMoves DEF GoogleInv, GoogleTypeOK

LEMMA GoogleStepInv == GoogleInv /\ [GoogleNext]_googleVars => GoogleInv'
<1> SUFFICES ASSUME GoogleInv, [GoogleNext]_googleVars PROVE GoogleInv'
  OBVIOUS
<1>1. CASE UNCHANGED googleVars
  BY <1>1 DEF googleVars, GoogleInv, GoogleTypeOK
<1>2. ASSUME NEW a \in WalletAgents, WalletLogin(a) PROVE GoogleInv'
  BY <1>2, SessionsElsewhereKeep DEF WalletLogin, Agents
<1>3. ASSUME NEW t \in sessions, StepUp(t) PROVE GoogleInv'
  <2>1. t.agent \in Agents
    BY DEF GoogleInv, GoogleTypeOK, Session
  <2> QED
    BY <1>3, <2>1, SessionsElsewhereKeep DEF StepUp
<1> QED
  BY <1>1, <1>2, <1>3, GoogleBeginKeeps, AuthoriseLinkKeeps, BeginRotateKeeps, DeriveHomeKeeps, FallBackKeeps,
     ReadLinksKeeps, PutLinksKeeps, MintsKeep, PutRotationKeeps DEF GoogleNext

(* A Google account signs in to its own homes and to agents whose own       *)
(* custody-grade session approved the link (callback, stepup, rotate).      *)
THEOREM GoogleLoginsApproved == GoogleSpec => [](GoogleTypeOK /\ LoginIsApproved)
<1>1. GoogleInit => GoogleInv
  <2> SUFFICES ASSUME GoogleInit PROVE GoogleInv
    OBVIOUS
  <2>1. GoogleTypeOK
    BY GoogleAssumption DEF GoogleInit, GoogleTypeOK
  <2> QED
    BY <2>1 DEF GoogleInit, GoogleInv, FacetsFit, SessionsFit
<1>2. GoogleInv => GoogleTypeOK /\ LoginIsApproved
  BY DEF GoogleInv, SessionsFit, LoginIsApproved, IsHomeOf
<1> QED
  BY <1>1, <1>2, GoogleStepInv, PTL DEF GoogleSpec
-----------------------------------------------------------------------------
(* Social custody *)

(* A deployed account has spent a nonce and is held by the key its address  *)
(* derives from, or by a device, or by both.                                *)
AccountFits(a, held) ==
  held.nonce \in Nat \ {0} /\ held.holders # {} /\ held.holders \subseteq {a.key, Device}

(* A first operation is signed by the key of the address; the accounts that *)
(* receive grants are derived from the asking key; a descriptor answered is *)
(* the account's own.                                                       *)
DemandFits(q) ==
  /\ q.seq = 0 \/ q.grants => q.site.key = q.key
  /\ q.kind = "name" => q.label \in Labels /\ ~q.grants
  /\ q.slip # Nothing => q.grants /\ q.slip = DescriptorOf(q)

(* No two requests create the same organisation or agent, and only such     *)
(* requests leave stamps.                                                   *)
GrantsApart(asked) ==
  \A r, s \in Demands :
    r # s /\ asked[r] # Nothing /\ asked[s] # Nothing /\ asked[r].grants /\ asked[s].grants
      => asked[r].site # asked[s].site

StampsFit(stamped, asked) ==
  \A a \in stamped : \E r \in Demands : asked[r] # Nothing /\ asked[r].grants /\ asked[r].site = a

SocialInv ==
  /\ SocialTypeOK
  /\ \A a \in DOMAIN accounts : AccountFits(a, accounts[a])
  /\ \A r \in Demands : demands[r] # Nothing => DemandFits(demands[r])
  /\ GrantsApart(demands)
  /\ StampsFit(stamps, demands)

(* A request moves on: its answer may change, what it asks for does not.    *)
SameRequest(q, p) ==
  /\ q.kind = p.kind /\ q.key = p.key /\ q.site = p.site /\ q.label = p.label
  /\ q.grants = p.grants /\ q.seq = p.seq

LEMMA DemandMoves ==
  ASSUME SocialInv, NEW r \in Demands, demands[r] # Nothing, NEW q \in Demand,
         SameRequest(q, demands[r]), q.slip # Nothing => q.grants /\ q.slip = DescriptorOf(q),
         demands' = [demands EXCEPT ![r] = q]
  PROVE  /\ demands' \in [Demands -> Demand \union {Nothing}]
         /\ demands'[r] = q /\ \A s \in Demands : s # r => demands'[s] = demands[s]
         /\ q # Nothing /\ DemandFits(q)
         /\ GrantsApart(demands')
         /\ \A stamped : StampsFit(stamped, demands) => StampsFit(stamped, demands')
<1>1. q # Nothing
  BY NothingAssumption
<1>2. demands \in [Demands -> Demand \union {Nothing}]
  BY DEF SocialInv, SocialTypeOK
<1>3. DemandFits(q)
  BY DEF SocialInv, DemandFits, SameRequest
<1>4. demands'[r] = q /\ \A s \in Demands : s # r => demands'[s] = demands[s]
  BY <1>2
<1>5. GrantsApart(demands')
  BY <1>1, <1>4 DEF SocialInv, GrantsApart, SameRequest
<1>6. ASSUME NEW stamped, StampsFit(stamped, demands)
      PROVE  StampsFit(stamped, demands')
  BY <1>1, <1>4, <1>6 DEF StampsFit, SameRequest
<1> QED
  BY <1>1, <1>2, <1>3, <1>4, <1>5, <1>6

(* A request enters: with the key of a new address, or for an account that  *)
(* is deployed.                                                             *)
LEMMA EnterKeeps ==
  ASSUME SocialInv, NEW r \in Demands, NEW kind \in Kinds, NEW k \in Keys, NEW a \in Sites,
         NEW lb \in Labels \union {Nothing}, NEW n \in Labels \union {Nothing},
         kind # "name" => a.key = k,
         kind = "name" => lb \in Labels /\ Deployed(a),
         kind \in {"org", "agent"} => \A s \in Demands : demands[s] # Nothing => demands[s].site # a,
         Enter(r, kind, k, a, lb, n)
  PROVE  SocialInv'
<1> DEFINE here == kind \in {"claim", "bare"} /\ Deployed(a)
           grant == kind \in {"org", "agent"}
           pc == IF here THEN "done" ELSE "estimate"
           ans == IF here THEN "already" ELSE "none"
           num == NonceOf(a)
           q == [kind |-> kind, key |-> k, site |-> a, label |-> lb, node |-> n, grants |-> grant,
                 seq |-> num, pc |-> pc, answer |-> ans, slip |-> Nothing]
<1>1. demands[r] = Nothing /\ demands' = [demands EXCEPT ![r] = q]
      /\ UNCHANGED <<sponsored, accounts, nameOwner, claimed, stamps>>
  BY DEF Enter
<1>2. num \in Nat /\ (Deployed(a) => num # 0)
  BY DEF SocialInv, AccountFits, NonceOf, Deployed
<1>3. pc \in {"estimate", "done"} /\ ans \in {"already", "none"} /\ grant \in BOOLEAN
      /\ (grant => kind \in {"org", "agent"})
  OBVIOUS
<1> HIDE DEF here, grant, pc, ans, num
<1>4. q \in Demand /\ q.kind = kind /\ q.key = k /\ q.site = a /\ q.label = lb /\ q.grants = grant
      /\ q.seq = num /\ q.answer = ans /\ q.slip = Nothing
  BY <1>2, <1>3 DEF Demand
<1> HIDE DEF q
<1>5. q # Nothing
  BY <1>4, NothingAssumption
<1>6. demands \in [Demands -> Demand \union {Nothing}]
  BY DEF SocialInv, SocialTypeOK
<1>7. demands'[r] = q /\ \A s \in Demands : s # r => demands'[s] = demands[s]
  BY <1>1, <1>6
<1>8. SocialTypeOK'
  BY <1>1, <1>4, <1>6 DEF SocialInv, SocialTypeOK
<1>9. DemandFits(q)
  BY <1>2, <1>3, <1>4 DEF DemandFits, Kinds
<1>10. GrantsApart(demands')
  BY <1>3, <1>4, <1>7 DEF SocialInv, GrantsApart
<1>11. StampsFit(stamps, demands')
  BY <1>1, <1>7 DEF SocialInv, StampsFit
<1> QED
  BY <1>1, <1>7, <1>8, <1>9, <1>10, <1>11 DEF SocialInv

LEMMA BootstrapsKeep ==
  ASSUME SocialInv, NEW r \in Demands, NEW k \in Keys,
         \/ Bootstrap(r, k)
         \/ \E l, n \in Labels :
              \/ BootstrapAndClaim(r, k, l, n)
              \/ \E x \in 0 .. MaxSalt : BootstrapOrg(r, k, x, l, n)
              \/ \E a \in Sites : NameAgent(r, k, a, l, n)
         \/ \E x \in 0 .. MaxSalt, l, n \in Labels \union {Nothing} : BootstrapAgent(r, k, x, l, n)
  PROVE  SocialInv'
<1>1. Person(k) \in Sites /\ Person(k).key = k
  BY SocialAssumption DEF Person, Sites
<1>2. ASSUME NEW x \in 0 .. MaxSalt, FreshSalt(x), NEW a, a = [key |-> k, salt |-> x]
      PROVE  /\ a \in Sites /\ a.key = k
             /\ \A s \in Demands : demands[s] # Nothing => demands[s].site # a
  BY <1>2 DEF Sites, FreshSalt
<1>3. CASE Bootstrap(r, k)
  BY <1>1, <1>3, EnterKeeps DEF Bootstrap, Kinds
<1>4. ASSUME NEW l \in Labels, NEW n \in Labels, BootstrapAndClaim(r, k, l, n)
      PROVE  SocialInv'
  BY <1>1, <1>4, EnterKeeps DEF BootstrapAndClaim, Kinds
<1>5. ASSUME NEW l \in Labels, NEW n \in Labels, NEW x \in 0 .. MaxSalt, BootstrapOrg(r, k, x, l, n)
      PROVE  SocialInv'
  <2> DEFINE a == [key |-> k, salt |-> x]
  <2>1. FreshSalt(x) /\ Enter(r, "org", k, a, l, n)
    BY <1>5 DEF BootstrapOrg
  <2>2. a \in Sites /\ a.key = k /\ \A s \in Demands : demands[s] # Nothing => demands[s].site # a
    BY <1>2, <2>1
  <2> HIDE DEF a
  <2> QED
    BY <2>1, <2>2, EnterKeeps DEF Kinds
<1>6. ASSUME NEW l \in Labels, NEW n \in Labels, NEW a \in Sites, NameAgent(r, k, a, l, n)
      PROVE  SocialInv'
  <2>1. Deployed(a) /\ Enter(r, "name", k, a, l, n)
    BY <1>6 DEF NameAgent, HoldersOf
  <2> QED
    BY <2>1, EnterKeeps DEF Kinds
<1>7. ASSUME NEW l \in Labels \union {Nothing}, NEW n \in Labels \union {Nothing},
             NEW x \in 0 .. MaxSalt, BootstrapAgent(r, k, x, l, n)
      PROVE  SocialInv'
  <2> DEFINE a == [key |-> k, salt |-> x]
  <2>1. FreshSalt(x) /\ Enter(r, "agent", k, a, l, n)
    BY <1>7 DEF BootstrapAgent
  <2>2. a \in Sites /\ a.key = k /\ \A s \in Demands : demands[s] # Nothing => demands[s].site # a
    BY <1>2, <2>1
  <2> HIDE DEF a
  <2> QED
    BY <2>1, <2>2, EnterKeeps DEF Kinds
<1> QED
  BY <1>3, <1>4, <1>5, <1>6, <1>7

(* The answers that promise nothing.                                        *)
LEMMA AnswersKeep ==
  ASSUME SocialInv, NEW r \in Demands, Estimate(r) \/ GiveUp(r)
  PROVE  SocialInv'
<1> DEFINE o == demands[r]
<1>1. o \in Demand /\ o # Nothing /\ UNCHANGED <<sponsored, accounts, nameOwner, claimed, stamps>>
  BY DEF Estimate, GiveUp, SocialInv, SocialTypeOK
<1>2. PICK pc \in {"sent", "late", "done"}, ans \in {"none", "failed"} : Answer(r, pc, ans)
  BY DEF Estimate, GiveUp
<1> DEFINE q == [o EXCEPT !.pc = pc, !.answer = ans]
<1>3. demands' = [demands EXCEPT ![r] = q]
  BY <1>2 DEF Answer, SocialInv, SocialTypeOK
<1> HIDE DEF o
<1>4. q \in Demand /\ SameRequest(q, o) /\ q.slip = o.slip /\ q.answer = ans
  BY <1>1 DEF Demand, SameRequest
<1> HIDE DEF q
<1>5. DemandFits(o)
  BY <1>1 DEF SocialInv, o
<1>6. q.slip # Nothing => q.grants /\ q.slip = DescriptorOf(q)
  BY <1>4, <1>5 DEF DemandFits, SameRequest, DescriptorOf
<1>7. /\ demands' \in [Demands -> Demand \union {Nothing}]
      /\ demands'[r] = q /\ \A s \in Demands : s # r => demands'[s] = demands[s]
      /\ q # Nothing /\ DemandFits(q)
      /\ GrantsApart(demands')
      /\ \A stamped : StampsFit(stamped, demands) => StampsFit(stamped, demands')
  BY <1>1, <1>3, <1>4, <1>6, DemandMoves DEF o
<1>8. SocialTypeOK'
  BY <1>1, <1>7 DEF SocialInv, SocialTypeOK
<1> QED
  BY <1>1, <1>7, <1>8 DEF SocialInv

(* What an executed operation does to its account ...                       *)
LEMMA ExecuteFits ==
  ASSUME SocialInv, NEW q \in Demand, DemandFits(q), Validates(q), Execute(q)
  PROVE  /\ DOMAIN accounts' \subseteq Sites
         /\ \A a \in DOMAIN accounts' :
              /\ AccountFits(a, accounts'[a])
              /\ accounts'[a].nonce \in Nat /\ accounts'[a].holders \subseteq Keys \union {Device}
<1> DEFINE set == IF q.seq = 0 THEN {q.key} ELSE HoldersOf(q.site)
           now == [nonce |-> q.seq + 1, holders |-> set]
<1>1. q.site \in Sites /\ q.key \in Keys /\ q.seq \in Nat /\ q.site.key \in Keys
  BY DEF Demand, Sites
<1>2. set # {} /\ set \subseteq {q.site.key, Device}
  <2>1. CASE q.seq = 0
    BY <2>1 DEF DemandFits
  <2>2. CASE q.seq # 0
    <3>1. q.site \in DOMAIN accounts
      BY <1>1, <2>2 DEF Validates, NonceOf, Deployed
    <3> QED
      BY <2>2, <3>1 DEF SocialInv, AccountFits, HoldersOf, Deployed
  <2> QED
    BY <2>1, <2>2
<1>3. accounts' = [a \in DOMAIN accounts \union {q.site} |->
                     IF a = q.site THEN now ELSE accounts[a]]
  BY DEF Execute
<1> HIDE DEF set
<1>4. now.nonce = q.seq + 1 /\ now.holders = set
  OBVIOUS
<1> HIDE DEF now
<1>5. AccountFits(q.site, now) /\ now.nonce \in Nat /\ now.holders \subseteq Keys \union {Device}
  BY <1>1, <1>2, <1>4 DEF AccountFits
<1> QED
  BY <1>1, <1>3, <1>5 DEF SocialInv, SocialTypeOK

(* ... and to the names, the claims and the stamps.                         *)
LEMMA BatchFits ==
  ASSUME SocialInv, NEW r \in Demands, NEW q, q = demands[r], q # Nothing, Batch(q)
  PROVE  /\ nameOwner' \in [Labels -> Sites \union {Nothing, Stranger}]
         /\ BatchSucceeds(q) /\ Registers(q) => nameOwner'[q.label] = q.site
         /\ claimed' \subseteq Sites /\ stamps' \subseteq Sites
         /\ \A a \in stamps' \ stamps : a = q.site /\ BatchSucceeds(q) /\ q.grants
         /\ StampsFit(stamps', demands)
<1>1. q \in Demand
  BY DEF SocialInv, SocialTypeOK
<1>2. q.site \in Sites /\ q.label \in Labels \union {Nothing}
  BY <1>1 DEF Demand
<1>3. nameOwner \in [Labels -> Sites \union {Nothing, Stranger}]
      /\ claimed \subseteq Sites /\ stamps \subseteq Sites
  BY DEF SocialInv, SocialTypeOK
<1>4. /\ nameOwner' \in [Labels -> Sites \union {Nothing, Stranger}]
      /\ BatchSucceeds(q) /\ Registers(q) => nameOwner'[q.label] = q.site
  BY <1>2, <1>3 DEF Batch, Registers
<1>5. stamps' = IF BatchSucceeds(q) /\ q.grants THEN stamps \union {q.site} ELSE stamps
  BY DEF Batch
<1>6. claimed' \subseteq Sites
  BY <1>2, <1>3 DEF Batch
<1>7. StampsFit(stamps', demands)
  BY <1>5 DEF SocialInv, StampsFit
<1> QED
  BY <1>2, <1>3, <1>4, <1>5, <1>6, <1>7

LEMMA LandKeeps ==
  ASSUME SocialInv, NEW r \in Demands, Land(r)
  PROVE  SocialInv'
<1> DEFINE o == demands[r]
           ans == IF o.pc = "late" THEN "failed" ELSE InnerOutcome(o, Validates(o), BatchSucceeds(o))
           slip == IF ans = "ok" /\ o.grants THEN DescriptorOf(o) ELSE Nothing
           q == [o EXCEPT !.pc = "done", !.answer = ans, !.slip = slip]
<1>1. o \in Demand /\ o # Nothing /\ DemandFits(o)
  BY DEF Land, SocialInv, SocialTypeOK
<1>2. /\ demands' = [demands EXCEPT ![r] = q] /\ UNCHANGED sponsored
      /\ IF Validates(o) THEN Execute(o) ELSE UNCHANGED <<accounts, nameOwner, claimed, stamps>>
  BY DEF Land, SocialInv, SocialTypeOK
<1>3. ans \in {"failed", "ok", "reverted"}
  BY DEF InnerOutcome
<1>4. slip \in Descriptors \union {Nothing} /\ (slip # Nothing => o.grants /\ slip = DescriptorOf(o))
  BY <1>1 DEF DescriptorOf, Descriptors, Demand, Sites, Keys
<1> HIDE DEF o, ans, slip
<1>5. q \in Demand /\ SameRequest(q, o) /\ q.slip = slip
  BY <1>1, <1>3, <1>4 DEF Demand, SameRequest
<1> HIDE DEF q
<1>6. q.slip # Nothing => q.grants /\ q.slip = DescriptorOf(q)
  BY <1>4, <1>5 DEF SameRequest, DescriptorOf
<1>7. /\ demands' \in [Demands -> Demand \union {Nothing}]
      /\ demands'[r] = q /\ \A s \in Demands : s # r => demands'[s] = demands[s]
      /\ q # Nothing /\ DemandFits(q)
      /\ GrantsApart(demands')
      /\ \A stamped : StampsFit(stamped, demands) => StampsFit(stamped, demands')
  BY <1>1, <1>2, <1>5, <1>6, DemandMoves DEF o
<1>8. CASE ~Validates(o)
  <2>1. UNCHANGED <<sponsored, accounts, nameOwner, claimed, stamps>>
    BY <1>2, <1>8
  <2>2. SocialTypeOK'
    BY <1>7, <2>1 DEF SocialInv, SocialTypeOK
  <2> QED
    BY <1>7, <2>1, <2>2 DEF SocialInv
<1>9. CASE Validates(o)
  <2>1. Execute(o) /\ Batch(o)
    BY <1>2, <1>9 DEF Execute
  <2>2. /\ DOMAIN accounts' \subseteq Sites
        /\ \A a \in DOMAIN accounts' :
             /\ AccountFits(a, accounts'[a])
             /\ accounts'[a].nonce \in Nat /\ accounts'[a].holders \subseteq Keys \union {Device}
    BY <1>1, <1>9, <2>1, ExecuteFits
  <2>3. /\ nameOwner' \in [Labels -> Sites \union {Nothing, Stranger}]
        /\ claimed' \subseteq Sites /\ stamps' \subseteq Sites
        /\ StampsFit(stamps', demands)
    BY <1>1, <2>1, BatchFits DEF o
  <2>4. SocialTypeOK'
    BY <1>2, <1>7, <2>2, <2>3 DEF SocialInv, SocialTypeOK
  <2> QED
    BY <1>7, <2>2, <2>3, <2>4 DEF SocialInv
<1> QED
  BY <1>8, <1>9

(* An operation of the member's own leaves the account with the derived key *)
(* or the device.                                                           *)
LEMMA OwnFits ==
  ASSUME SocialInv, NEW a \in Sites, NEW holders,
         holders # {}, holders \subseteq HoldersOf(a) \union {Device}, SendsOwn(a, holders),
         nameOwner' \in [Labels -> Sites \union {Nothing, Stranger}]
  PROVE  SocialInv'
<1> DEFINE now == [nonce |-> accounts[a].nonce + 1, holders |-> holders]
<1>1. /\ a \in DOMAIN accounts /\ accounts' = [accounts EXCEPT ![a] = now]
      /\ UNCHANGED <<sponsored, claimed, stamps, demands>>
  BY DEF SendsOwn, Deployed
<1>2. now.nonce = accounts[a].nonce + 1 /\ now.holders = holders
  OBVIOUS
<1> HIDE DEF now
<1>3. HoldersOf(a) \subseteq {a.key, Device} /\ HoldersOf(a) \subseteq Keys \union {Device}
      /\ accounts[a].nonce \in Nat
  BY <1>1 DEF SocialInv, SocialTypeOK, AccountFits, HoldersOf, Deployed
<1>4. AccountFits(a, now) /\ now.nonce \in Nat /\ now.holders \subseteq Keys \union {Device}
  BY <1>2, <1>3 DEF AccountFits
<1>5. /\ DOMAIN accounts' = DOMAIN accounts
      /\ \A b \in DOMAIN accounts : accounts'[b] = IF b = a THEN now ELSE accounts[b]
  BY <1>1
<1>6. SocialTypeOK' /\ \A b \in DOMAIN accounts' : AccountFits(b, accounts'[b])
  BY <1>1, <1>4, <1>5 DEF SocialInv, SocialTypeOK
<1> QED
  BY <1>1, <1>6 DEF SocialInv

LEMMA OwnKeeps ==
  ASSUME SocialInv, NEW a \in Sites,
         \/ \E holders \in SUBSET (HoldersOf(a) \union {Device}) : ChangeHolders(a, holders)
         \/ \E l \in Labels, to \in Sites \union {Stranger} : TransferName(a, l, to)
  PROVE  SocialInv'
<1>1. ASSUME NEW holders, ChangeHolders(a, holders)
      PROVE  SocialInv'
  <2>1. nameOwner' \in [Labels -> Sites \union {Nothing, Stranger}]
    BY <1>1 DEF ChangeHolders, SocialInv, SocialTypeOK
  <2> QED
    BY <1>1, <2>1, OwnFits DEF ChangeHolders
<1>2. ASSUME NEW l \in Labels, NEW to \in Sites \union {Stranger}, TransferName(a, l, to)
      PROVE  SocialInv'
  <2>1. nameOwner' \in [Labels -> Sites \union {Nothing, Stranger}]
    BY <1>2 DEF TransferName, SocialInv, SocialTypeOK
  <2>2. SendsOwn(a, HoldersOf(a))
    BY <1>2 DEF TransferName
  <2>3. HoldersOf(a) # {}
    BY <2>2 DEF SendsOwn, HoldersOf, Deployed, SocialInv, AccountFits
  <2> QED
    BY <2>1, <2>2, <2>3, OwnFits
<1> QED
  BY <1>1, <1>2

LEMMA AroundKeeps ==
  ASSUME SocialInv,
         \/ StopSponsoring
         \/ \E l \in Labels : ClaimElsewhere(l)
         \/ \E l \in Labels, to \in Sites : TransferElsewhere(l, to)
  PROVE  SocialInv'
<1>1. CASE StopSponsoring
  <2>1. SocialTypeOK'
    BY <1>1 DEF StopSponsoring, SocialInv, SocialTypeOK
  <2> QED
    BY <1>1, <2>1 DEF StopSponsoring, SocialInv
<1>2. ASSUME NEW l \in Labels, ClaimElsewhere(l) \/ \E to \in Sites : TransferElsewhere(l, to)
      PROVE  SocialInv'
  <2>1. /\ UNCHANGED <<sponsored, accounts, claimed, stamps, demands>>
        /\ nameOwner' \in [Labels -> Sites \union {Nothing, Stranger}]
    BY <1>2 DEF ClaimElsewhere, TransferElsewhere, SocialInv, SocialTypeOK
  <2>2. SocialTypeOK'
    BY <2>1 DEF SocialInv, SocialTypeOK
  <2> QED
    BY <2>1, <2>2 DEF SocialInv
<1> QED
  BY <1>1, <1>2

LEMMA SocialStepInv == SocialInv /\ [SocialNext]_socialVars => SocialInv'
<1> SUFFICES ASSUME SocialInv, [SocialNext]_socialVars
             PROVE  SocialInv'
  OBVIOUS
<1>1. CASE UNCHANGED socialVars
  <2>1. SocialTypeOK'
    BY <1>1 DEF SocialInv, SocialTypeOK, socialVars
  <2> QED
    BY <1>1, <2>1 DEF SocialInv, socialVars
<1>2. CASE SocialNext
  BY <1>2, BootstrapsKeep, AnswersKeep, LandKeeps, AroundKeeps, OwnKeeps DEF SocialNext
<1> QED
  BY <1>1, <1>2

(* The descriptor of an account names the rotation its key was derived at.  *)
LEMMA DescriptorsRecover == SocialInv => DescriptorRecovers
<1> SUFFICES ASSUME SocialInv, NEW r \in Demands, NEW q, q = demands[r],
                    q # Nothing, q.slip # Nothing, Deployed(q.site), HoldersOf(q.site) # {Device},
                    NEW m \in Members
             PROVE  Recovered(m, q.slip) = IF m = q.key.member THEN HoldersOf(q.site) \ {Device} ELSE {}
  BY DEF DescriptorRecovers
<1>1. q \in Demand /\ DemandFits(q)
  BY DEF SocialInv, SocialTypeOK
<1>2. q.key \in Keys /\ q.site \in Sites /\ q.site.key = q.key
  BY <1>1 DEF DemandFits, Demand
<1>3. HoldersOf(q.site) \ {Device} = {q.key}
  BY <1>2 DEF HoldersOf, Deployed, SocialInv, AccountFits
<1> DEFINE k == [member |-> m, turn |-> q.key.turn]
<1>4. q.slip.target = q.site /\ q.slip.salt = q.site.salt /\ q.slip.turn = q.key.turn
  BY <1>1 DEF DemandFits, DescriptorOf
<1>5. k = q.key <=> m = q.key.member
  BY <1>2 DEF Keys
<1>6. [key |-> k, salt |-> q.site.salt] = q.site <=> k = q.key
  BY <1>2 DEF Sites
<1> QED
  BY <1>3, <1>4, <1>5, <1>6 DEF Recovered

(* A step that answers for a name, or adds a stamp, is the step that gives  *)
(* the account the name: the landing of that very request.                  *)
LEMMA NamesAreGiven ==
  ASSUME SocialInv, [SocialNext]_socialVars, NEW r \in Demands, NEW q, q = demands[r], q # Nothing,
         \/ q.kind = "name" /\ demands'[r].answer = "ok" /\ q.answer # "ok"
         \/ q.label # Nothing /\ q.grants /\ q.site \in stamps' \ stamps
  PROVE  nameOwner'[q.label] = q.site
<1>1. demands \in [Demands -> Demand \union {Nothing}] /\ q \in Demand /\ DemandFits(q)
  BY DEF SocialInv, SocialTypeOK
<1>2. PICK s \in Demands : Land(s)
  <2>1. CASE UNCHANGED <<demands, stamps>>
    BY <2>1
  <2>2. ASSUME NEW s \in Demands, NEW k \in Keys, NEW a \in Sites, NEW kind, NEW l, NEW n,
               Enter(s, kind, k, a, l, n)
        PROVE  FALSE
    <3>1. s # r /\ stamps' = stamps /\ demands'[r] = q
      BY <1>1, <2>2 DEF Enter
    <3> QED
      BY <3>1
  <2>3. ASSUME NEW s \in Demands, Estimate(s) \/ GiveUp(s)
        PROVE  FALSE
    <3>1. PICK pc \in {"sent", "late", "done"}, ans \in {"none", "failed"} : Answer(s, pc, ans)
      BY <2>3 DEF Estimate, GiveUp
    <3>2. stamps' = stamps
      BY <2>3 DEF Estimate, GiveUp
    <3>3. s # r => demands'[r] = q
      BY <1>1, <3>1 DEF Answer
    <3>4. s = r => demands'[r].answer = ans
      BY <1>1, <3>1 DEF Answer, Demand
    <3> QED
      BY <3>1, <3>2, <3>3, <3>4
  <2>4. ASSUME NEW s \in Demands, NEW k \in Keys,
               \/ Bootstrap(s, k)
               \/ \E l, n \in Labels :
                    \/ BootstrapAndClaim(s, k, l, n)
                    \/ \E x \in 0 .. MaxSalt : BootstrapOrg(s, k, x, l, n)
                    \/ \E a \in Sites : NameAgent(s, k, a, l, n)
               \/ \E x \in 0 .. MaxSalt, l, n \in Labels \union {Nothing} : BootstrapAgent(s, k, x, l, n)
        PROVE  FALSE
    <3>1. \A x \in 0 .. MaxSalt : [key |-> k, salt |-> x] \in Sites
      BY DEF Sites
    <3>2. Person(k) \in Sites
      BY SocialAssumption DEF Person, Sites
    <3>3. CASE Bootstrap(s, k) \/ \E l, n \in Labels : BootstrapAndClaim(s, k, l, n)
      BY <2>2, <3>2, <3>3 DEF Bootstrap, BootstrapAndClaim
    <3>4. CASE \E l, n \in Labels, x \in 0 .. MaxSalt : BootstrapOrg(s, k, x, l, n)
      BY <2>2, <3>1, <3>4 DEF BootstrapOrg
    <3>5. CASE \E l, n \in Labels, a \in Sites : NameAgent(s, k, a, l, n)
      BY <2>2, <3>5 DEF NameAgent
    <3>6. CASE \E x \in 0 .. MaxSalt, l, n \in Labels \union {Nothing} : BootstrapAgent(s, k, x, l, n)
      BY <2>2, <3>1, <3>6 DEF BootstrapAgent
    <3> QED
      BY <2>4, <3>3, <3>4, <3>5, <3>6
  <2>5. CASE UNCHANGED socialVars
    BY <2>1, <2>5 DEF socialVars
  <2>6. CASE StopSponsoring \/ (\E l \in Labels : ClaimElsewhere(l))
             \/ (\E l \in Labels, to \in Sites : TransferElsewhere(l, to))
    BY <2>1, <2>6 DEF StopSponsoring, ClaimElsewhere, TransferElsewhere
  <2>7. CASE \E a \in Sites :
               \/ \E holders \in SUBSET (HoldersOf(a) \union {Device}) : ChangeHolders(a, holders)
               \/ \E l \in Labels, to \in Sites \union {Stranger} : TransferName(a, l, to)
    BY <2>1, <2>7 DEF ChangeHolders, TransferName, SendsOwn
  <2> QED
    BY <2>3, <2>4, <2>5, <2>6, <2>7 DEF SocialNext
<1> DEFINE o == demands[s]
           ans == IF o.pc = "late" THEN "failed" ELSE InnerOutcome(o, Validates(o), BatchSucceeds(o))
<1>3. /\ o \in Demand /\ o # Nothing
      /\ s # r => demands'[r] = q
      /\ s = r => demands'[r].answer = ans
      /\ Validates(o) => Batch(o)
      /\ ~Validates(o) => stamps' = stamps
  BY <1>1, <1>2 DEF Land, Execute, Demand
<1>4. CASE q.kind = "name" /\ demands'[r].answer = "ok" /\ q.answer # "ok"
  <2>1. s = r /\ ans = "ok"
    BY <1>3, <1>4
  <2>2. Validates(q) /\ BatchSucceeds(q)
    BY <1>4, <2>1 DEF InnerOutcome
  <2>3. q.label \in Labels
    BY <1>1, <1>4 DEF DemandFits
  <2>4. Registers(q) /\ Batch(q)
    BY <1>3, <2>1, <2>2, <2>3, SocialAssumption DEF Registers
  <2> QED
    BY <2>2, <2>4, BatchFits
<1>5. CASE q.label # Nothing /\ q.grants /\ q.site \in stamps' \ stamps
  <2>1. Batch(o)
    BY <1>3, <1>5
  <2>2. q.site = o.site /\ BatchSucceeds(o) /\ o.grants
    BY <1>3, <1>5, <2>1, BatchFits
  <2>3. s = r
    BY <1>3, <1>5, <2>2 DEF SocialInv, GrantsApart
  <2> QED
    BY <1>3, <1>5, <2>1, <2>2, <2>3, BatchFits DEF Registers
<1> QED
  BY <1>4, <1>5

(* The descriptor handed out for an account leads back to its custodian, in *)
(* the sessions of the member it was derived for and in no others; the step *)
(* that answers for a name, or approves grants together with one, gives the *)
(* name to the account (bootstrap-org, bootstrap-agent, name-agent,         *)
(* recoverCustodian).                                                       *)
THEOREM SocialAccountsRecover == SocialSpec => [](SocialTypeOK /\ DescriptorRecovers) /\ NamedIsOwned
<1>1. SocialInit => SocialInv
  <2> SUFFICES ASSUME SocialInit
               PROVE  SocialInv
    OBVIOUS
  <2>1. DOMAIN accounts = {} /\ stamps = {} /\ \A r \in Demands : demands[r] = Nothing
    BY DEF SocialInit
  <2>2. SocialTypeOK
    BY <2>1 DEF SocialInit, SocialTypeOK
  <2> QED
    BY <2>1, <2>2 DEF SocialInv, GrantsApart, StampsFit
<1>2. SocialInv => SocialTypeOK
  BY DEF SocialInv
<1> DEFINE Given ==
      \A r \in Demands :
        LET q == demands[r]  p == demands'[r] IN
        /\ q # Nothing
        /\ \/ q.kind = "name" /\ p.answer = "ok" /\ q.answer # "ok"
           \/ q.label # Nothing /\ q.grants /\ q.site \in stamps' \ stamps
        => nameOwner'[q.label] = q.site
<1>3. SocialInv /\ [SocialNext]_socialVars => [Given]_socialVars
  BY NamesAreGiven
<1> QED
  BY <1>1, <1>2, <1>3, SocialStepInv, DescriptorsRecover, PTL DEF SocialSpec, NamedIsOwned

-----------------------------------------------------------------------------
(* The OIDC flow *)

(* The kinds of requests.                                                   *)
GrantRequest ==
  [pc : {"read", "verify", "bind", "link", "readIndex", "putIndex", "putCode"},
   kind : {"grant"}, key : GrantIds, deleg : Delegations, org : Orgs \union {None},
   raw : Grant \union {None}, seen : SUBSET Orgs, late : BOOLEAN]
ExchangeRequest ==
  [pc : {"read"}, kind : {"exchange"}, key : Requests, client : Clients,
   verifier : Challenges, raw : Code \union {None}, late : BOOLEAN]
ReauthRequest ==
  [pc : {"verify", "readBinding", "putBinding"}, kind : {"reauth"},
   deleg : Delegations, client : Clients]
Over == [kind |-> "answered", pc |-> "done"]

(* A delegation that was signed, names the client's delegate and was        *)
(* granted for the client; a challenge the home authorised for it.          *)
Entitled(d, client, made, kept) ==
  d \in made /\ DelegateMatches(d, client) /\ <<d, client>> \in kept
Authorised(client, proof, given) ==
  \E g \in GrantIds : given[g] = [client |-> client, challenge |-> proof]
CodeFits(c, given, made, kept) ==
  Entitled(c.deleg, c.client, made, kept) /\ Authorised(c.client, c.challenge, given)
TokenFits(t, given, made, kept) ==
  Entitled(t.deleg, t.client, made, kept)
    /\ (t.proof # None => Authorised(t.client, t.proof, given))

(* What a request has established by the step it stands at, given the       *)
(* stored grants, the grants authorised, the delegations signed, the pairs  *)
(* granted and the codes handed out.                                        *)
GrantFits(q, store, given, made, kept) ==
  /\ given[q.key] # None
  /\ q.raw # None => q.raw = given[q.key]
  /\ q.late => q.raw = None
  /\ q.pc # "read" => q.raw # None /\ DelegateMatches(q.deleg, q.raw.client) /\ store[q.key] = None
  /\ q.pc \in {"bind", "link", "readIndex", "putIndex", "putCode"} => q.deleg \in made
  /\ q.pc \in {"link", "readIndex", "putIndex", "putCode"} => <<q.deleg, q.raw.client>> \in kept
  /\ q.pc \in {"link", "readIndex", "putIndex"} => q.org \in Orgs
ExchangeFits(q, given, made, kept, handed) ==
  /\ q.raw # None => CodeFits(q.raw, given, made, kept)
  /\ q.late => q.raw = None
  /\ q.key \in handed
ReauthFits(q, made, kept) ==
  /\ DelegateMatches(q.deleg, q.client)
  /\ q.pc \in {"readBinding", "putBinding"} => q.deleg \in made
  /\ q.pc = "putBinding" => <<q.deleg, q.client>> \in kept
RequestFits(q, store, given, made, kept, handed) ==
  /\ q.kind = "grant" => GrantFits(q, store, given, made, kept)
  /\ q.kind = "exchange" => ExchangeFits(q, given, made, kept, handed)
  /\ q.kind = "reauth" => ReauthFits(q, made, kept)

(* A stored grant is the authorised one; once a grant id or a code has been *)
(* answered for, it is gone from the store, and a code is written once.     *)
StoreFits(store, given, done) ==
  \A g \in GrantIds : /\ store[g] # None => given[g] = store[g]
                      /\ g \in done => store[g] = None /\ given[g] # None
CodesFit(held, given, made, kept) ==
  \A c \in Requests : held[c] # None => CodeFits(held[c], given, made, kept)
ReturnsFit(asked, held, done, handed) ==
  \A c \in Requests : /\ c \in handed => asked[c] # None /\ asked[c].kind = "answered"
                      /\ c \in done => c \in handed /\ held[c] = None
BindingsFit(bound, kept) == \A d \in Delegations : bound[d] # None => <<d, bound[d]>> \in kept
TokensFit(tokens, given, made, kept) == \A t \in tokens : TokenFits(t, given, made, kept)

OidcInv ==
  /\ OidcTypeOK
  /\ StoreFits(grants, allowed, answered)
  /\ \A r \in Requests : requests[r] # None =>
       RequestFits(requests[r], grants, allowed, signed, enrolled, returned)
  /\ CodesFit(codes, allowed, signed, enrolled)
  /\ ReturnsFit(requests, codes, answered, returned)
  /\ BindingsFit(binding, enrolled)
  /\ TokensFit(delivered, allowed, signed, enrolled)
  /\ live \subseteq signed
  /\ ~reused

LEMMA RequestKinds ==
  ASSUME NEW q
  PROVE  /\ q \in Request /\ q.kind = "grant" => q \in GrantRequest
         /\ q \in Request /\ q.kind = "exchange" => q \in ExchangeRequest
         /\ q \in Request /\ q.kind = "reauth" => q \in ReauthRequest
         /\ q \in GrantRequest \union ExchangeRequest \union ReauthRequest \union {Over} => q \in Request
         /\ q \in Request => q # None
<1>1. q \in Request /\ q.kind = "grant" => q \in GrantRequest
  BY DEF Request, GrantRequest
<1>2. q \in Request /\ q.kind = "exchange" => q \in ExchangeRequest
  BY DEF Request, ExchangeRequest
<1>3. q \in Request /\ q.kind = "reauth" => q \in ReauthRequest
  BY DEF Request, ReauthRequest
<1>4. q \in GrantRequest \union ExchangeRequest \union ReauthRequest \union {Over} => q \in Request
  BY DEF Request, GrantRequest, ExchangeRequest, ReauthRequest, Over
<1> QED
  BY <1>1, <1>2, <1>3, <1>4, RecordsAssumption

LEMMA OverFits ==
  /\ Over \in Request /\ Over.kind = "answered"
  /\ RequestFits(Over, grants', allowed', signed', enrolled', returned')
<1>1. Over.kind = "answered"
  BY DEF Over
<1> QED
  BY <1>1, RequestKinds DEF RequestFits

(* What was established stays so: grants, signatures and codes are only     *)
(* ever added to the history, and a grant that is gone does not come back.  *)
HistoryGrows ==
  /\ signed \subseteq signed' /\ enrolled \subseteq enrolled' /\ returned \subseteq returned'
  /\ \A g \in GrantIds : allowed[g] # None =>
       allowed'[g] = allowed[g] /\ (grants[g] = None => grants'[g] = None)

LEMMA AuthorisedGrows ==
  ASSUME HistoryGrows, NEW client \in Clients, NEW proof \in Challenges,
         Authorised(client, proof, allowed)
  PROVE  Authorised(client, proof, allowed')
<1> DEFINE grant == [client |-> client, challenge |-> proof]
<1>1. grant # None
  BY RecordsAssumption DEF Grant
<1>2. \E g \in GrantIds : allowed[g] = grant
  BY DEF Authorised
<1> HIDE DEF grant
<1>3. \E g \in GrantIds : allowed'[g] = grant
  BY <1>1, <1>2 DEF HistoryGrows
<1> QED
  BY <1>3 DEF Authorised, grant

LEMMA CodeGrows ==
  ASSUME HistoryGrows, NEW c \in Code, CodeFits(c, allowed, signed, enrolled)
  PROVE  CodeFits(c, allowed', signed', enrolled')
<1>1. c.client \in Clients /\ c.challenge \in Challenges
  BY DEF Code
<1>2. Authorised(c.client, c.challenge, allowed')
  BY <1>1, AuthorisedGrows DEF CodeFits
<1> QED
  BY <1>2 DEF CodeFits, Entitled, HistoryGrows

LEMMA GrowthKeeps ==
  ASSUME OidcInv, HistoryGrows
  PROVE  /\ \A s \in Requests : requests[s] # None =>
              RequestFits(requests[s], grants', allowed', signed', enrolled', returned')
         /\ CodesFit(codes, allowed', signed', enrolled')
         /\ BindingsFit(binding, enrolled')
         /\ TokensFit(delivered, allowed', signed', enrolled')
<1>1. ASSUME NEW s \in Requests, requests[s] # None
      PROVE  RequestFits(requests[s], grants', allowed', signed', enrolled', returned')
  <2> DEFINE q == requests[s]
  <2>1. q \in Request /\ RequestFits(q, grants, allowed, signed, enrolled, returned)
    BY <1>1 DEF OidcInv, OidcTypeOK
  <2> HIDE DEF q
  <2>2. ASSUME q.kind = "grant"
        PROVE  GrantFits(q, grants', allowed', signed', enrolled')
    <3>1. q.key \in GrantIds
      BY <2>1, <2>2, RequestKinds DEF GrantRequest
    <3> QED
      BY <2>1, <2>2, <3>1 DEF RequestFits, GrantFits, HistoryGrows
  <2>3. ASSUME q.kind = "exchange"
        PROVE  ExchangeFits(q, allowed', signed', enrolled', returned')
    <3>1. q.raw \in Code \union {None}
      BY <2>1, <2>3, RequestKinds DEF ExchangeRequest
    <3>2. ExchangeFits(q, allowed, signed, enrolled, returned)
      BY <2>1, <2>3 DEF RequestFits
    <3>3. q.raw # None => CodeFits(q.raw, allowed', signed', enrolled')
      BY <3>1, <3>2, CodeGrows DEF ExchangeFits
    <3> QED
      BY <3>2, <3>3 DEF ExchangeFits, HistoryGrows
  <2>4. ASSUME q.kind = "reauth"
        PROVE  ReauthFits(q, signed', enrolled')
    BY <2>1, <2>4 DEF RequestFits, ReauthFits, HistoryGrows
  <2>5. RequestFits(q, grants', allowed', signed', enrolled', returned')
    BY <2>2, <2>3, <2>4 DEF RequestFits
  <2> QED
    BY <2>5 DEF q
<1>2. CodesFit(codes, allowed', signed', enrolled')
  BY CodeGrows DEF OidcInv, OidcTypeOK, CodesFit
<1>3. BindingsFit(binding, enrolled')
  BY DEF OidcInv, BindingsFit, HistoryGrows
<1>4. ASSUME NEW t \in delivered
      PROVE  TokenFits(t, allowed', signed', enrolled')
  <2>1. t.client \in Clients /\ t.proof \in Challenges \union {None}
    BY DEF OidcInv, OidcTypeOK
  <2>2. TokenFits(t, allowed, signed, enrolled)
    BY DEF OidcInv, TokensFit
  <2>3. t.proof # None => Authorised(t.client, t.proof, allowed')
    BY <2>1, <2>2, AuthorisedGrows DEF TokenFits
  <2> QED
    BY <2>2, <2>3 DEF TokenFits, Entitled, HistoryGrows
<1> QED
  BY <1>1, <1>2, <1>3, <1>4 DEF TokensFit

(* One request changes, and it has not returned a code.                     *)
LEMMA RequestMoves ==
  ASSUME OidcInv, HistoryGrows, NEW r \in Requests, NEW q \in Request,
         requests[r] = None \/ requests[r].kind # "answered",
         requests' = [requests EXCEPT ![r] = q],
         RequestFits(q, grants', allowed', signed', enrolled', returned')
  PROVE  /\ requests' \in [Requests -> Request \union {None}]
         /\ requests'[r] = q /\ q # None /\ \A s \in Requests : s # r => requests'[s] = requests[s]
         /\ r \notin returned /\ r \notin answered
         /\ \A s \in Requests : requests'[s] # None =>
              RequestFits(requests'[s], grants', allowed', signed', enrolled', returned')
         /\ ReturnsFit(requests', codes, answered, returned)
<1>1. requests \in [Requests -> Request \union {None}]
  BY DEF OidcInv, OidcTypeOK
<1>2. /\ requests' \in [Requests -> Request \union {None}]
      /\ requests'[r] = q /\ \A s \in Requests : s # r => requests'[s] = requests[s]
  BY <1>1
<1>3. r \notin returned /\ r \notin answered
  BY DEF OidcInv, ReturnsFit
<1>4. \A s \in Requests : requests'[s] # None =>
        RequestFits(requests'[s], grants', allowed', signed', enrolled', returned')
  BY <1>2, GrowthKeeps
<1>5. ReturnsFit(requests', codes, answered, returned)
  BY <1>2, <1>3 DEF OidcInv, ReturnsFit
<1> QED
  BY <1>2, <1>3, <1>4, <1>5, RequestKinds

(* ... and nothing else does.                                               *)
LEMMA RequestMovesAlone ==
  ASSUME OidcInv, NEW r \in Requests, NEW q \in Request,
         requests[r] = None \/ requests[r].kind # "answered",
         requests' = [requests EXCEPT ![r] = q], UNCHANGED <<kvVars, live, oidcHistory>>,
         RequestFits(q, grants, allowed, signed, enrolled, returned)
  PROVE  OidcInv'
<1>1. /\ UNCHANGED <<grants, codes, binding, links, index, live>>
      /\ UNCHANGED <<allowed, signed, enrolled, answered, returned, delivered, reused>>
  BY DEF kvVars, oidcHistory
<1>2. HistoryGrows
  BY <1>1 DEF HistoryGrows
<1>3. RequestFits(q, grants', allowed', signed', enrolled', returned')
  BY <1>1
<1>4. /\ requests' \in [Requests -> Request \union {None}]
      /\ \A s \in Requests : requests'[s] # None =>
           RequestFits(requests'[s], grants', allowed', signed', enrolled', returned')
      /\ ReturnsFit(requests', codes, answered, returned)
  BY <1>2, <1>3, RequestMoves
<1>5. OidcTypeOK'
  BY <1>1, <1>4 DEF OidcInv, OidcTypeOK
<1> QED
  BY <1>1, <1>4, <1>5 DEF OidcInv

(* A request that begins is recorded with what it read.                     *)
LEMMA BeginGrantKeeps ==
  ASSUME OidcInv, NEW r \in Requests, NEW g \in GrantIds, NEW d \in Delegations,
         NEW org \in Orgs \union {None}, BeginGrant(r, g, d, org)
  PROVE  OidcInv'
<1> DEFINE late == g \in answered
           raw == grants[g]
           q == [pc |-> "read", kind |-> "grant", key |-> g, deleg |-> d, org |-> org,
                 raw |-> raw, seen |-> {}, late |-> late]
<1>1. /\ requests[r] = None /\ allowed[g] # None /\ requests' = [requests EXCEPT ![r] = q]
      /\ UNCHANGED <<kvVars, live, oidcHistory>>
  BY DEF BeginGrant
<1>2. /\ raw \in Grant \union {None} /\ late \in BOOLEAN
      /\ (raw # None => raw = allowed[g]) /\ (late => raw = None)
  BY DEF OidcInv, OidcTypeOK, StoreFits
<1> HIDE DEF late, raw
<1>3. /\ q \in GrantRequest /\ q.kind = "grant" /\ q.pc = "read" /\ q.key = g /\ q.raw = raw
      /\ q.late = late
  BY <1>2 DEF GrantRequest
<1> HIDE DEF q
<1>4. RequestFits(q, grants, allowed, signed, enrolled, returned)
  BY <1>1, <1>2, <1>3 DEF RequestFits, GrantFits
<1> QED
  BY <1>1, <1>3, <1>4, RequestKinds, RequestMovesAlone

LEMMA BeginExchangeKeeps ==
  ASSUME OidcInv, NEW r \in Requests, NEW c \in Requests, NEW client \in Clients,
         NEW verifier \in Challenges, BeginExchange(r, c, client, verifier)
  PROVE  OidcInv'
<1> DEFINE late == c \in answered
           raw == codes[c]
           q == [pc |-> "read", kind |-> "exchange", key |-> c, client |-> client,
                 verifier |-> verifier, raw |-> raw, late |-> late]
<1>1. /\ requests[r] = None /\ c \in returned /\ requests' = [requests EXCEPT ![r] = q]
      /\ UNCHANGED <<kvVars, live, oidcHistory>>
  BY DEF BeginExchange
<1>2. /\ raw \in Code \union {None} /\ late \in BOOLEAN /\ (late => raw = None)
      /\ raw # None => CodeFits(raw, allowed, signed, enrolled)
  BY DEF OidcInv, OidcTypeOK, ReturnsFit, CodesFit
<1> HIDE DEF late, raw
<1>3. q \in ExchangeRequest /\ q.kind = "exchange" /\ q.key = c /\ q.raw = raw /\ q.late = late
  BY <1>2 DEF ExchangeRequest
<1> HIDE DEF q
<1>4. RequestFits(q, grants, allowed, signed, enrolled, returned)
  BY <1>1, <1>2, <1>3 DEF RequestFits, ExchangeFits
<1> QED
  BY <1>1, <1>3, <1>4, RequestKinds, RequestMovesAlone

LEMMA BeginReauthKeeps ==
  ASSUME OidcInv, NEW r \in Requests, NEW d \in Delegations, NEW client \in Clients,
         BeginReauth(r, d, client)
  PROVE  OidcInv'
<1> DEFINE q == [pc |-> "verify", kind |-> "reauth", deleg |-> d, client |-> client]
<1>1. /\ requests[r] = None /\ DelegateMatches(d, client) /\ requests' = [requests EXCEPT ![r] = q]
      /\ UNCHANGED <<kvVars, live, oidcHistory>>
  BY DEF BeginReauth
<1>2. q \in ReauthRequest /\ q.kind = "reauth" /\ q.pc = "verify" /\ q.deleg = d /\ q.client = client
  BY DEF ReauthRequest
<1> HIDE DEF q
<1>3. RequestFits(q, grants, allowed, signed, enrolled, returned)
  BY <1>1, <1>2 DEF RequestFits, ReauthFits
<1> QED
  BY <1>1, <1>2, <1>3, RequestKinds, RequestMovesAlone

(* Where a request goes: to its next step, or to its answer.                *)
Moved(q, pc) == [q EXCEPT !.pc = pc]

LEMMA GotoMoves ==
  ASSUME OidcInv, NEW r \in Requests, NEW pc, Goto(r, pc)
  PROVE  /\ pc = "done" => requests' = [requests EXCEPT ![r] = Over]
         /\ pc # "done" => requests' = [requests EXCEPT ![r] = Moved(requests[r], pc)]
<1>1. requests \in [Requests -> Request \union {None}]
  BY DEF OidcInv, OidcTypeOK
<1>2. CASE pc = "done"
  BY <1>1, <1>2 DEF Goto, Over
<1>3. CASE pc # "done"
  BY <1>1, <1>3 DEF Goto, Moved
<1> QED
  BY <1>2, <1>3

LEMMA GrantMoves ==
  ASSUME NEW o \in GrantRequest, NEW pc,
         pc \in {"read", "verify", "bind", "link", "readIndex", "putIndex", "putCode"}
  PROVE  /\ Moved(o, pc) \in Request /\ Moved(o, pc).kind = "grant" /\ Moved(o, pc).pc = pc
         /\ Moved(o, pc).key = o.key /\ Moved(o, pc).deleg = o.deleg /\ Moved(o, pc).org = o.org
         /\ Moved(o, pc).raw = o.raw /\ Moved(o, pc).late = o.late
<1> DEFINE q == Moved(o, pc)
<1>1. /\ q \in GrantRequest /\ q.kind = "grant" /\ q.pc = pc /\ q.key = o.key /\ q.deleg = o.deleg
      /\ q.org = o.org /\ q.raw = o.raw /\ q.late = o.late
  BY DEF GrantRequest, Moved
<1> QED
  BY <1>1, RequestKinds

LEMMA ReauthMoves ==
  ASSUME NEW o \in ReauthRequest, NEW pc, pc \in {"verify", "readBinding", "putBinding"}
  PROVE  /\ Moved(o, pc) \in Request /\ Moved(o, pc).kind = "reauth" /\ Moved(o, pc).pc = pc
         /\ Moved(o, pc).deleg = o.deleg /\ Moved(o, pc).client = o.client
<1> DEFINE q == Moved(o, pc)
<1>1. q \in ReauthRequest /\ q.kind = "reauth" /\ q.pc = pc /\ q.deleg = o.deleg /\ q.client = o.client
  BY DEF ReauthRequest, Moved
<1> QED
  BY <1>1, RequestKinds

LEMMA AtGrant ==
  ASSUME OidcInv, NEW r \in Requests, NEW pc, At(r, "grant", pc)
  PROVE  /\ requests[r] \in GrantRequest /\ requests[r].kind # "answered" /\ requests[r].pc = pc
         /\ requests[r].key \in GrantIds /\ requests[r].deleg \in Delegations
         /\ requests[r].raw \in Grant \union {None}
         /\ GrantFits(requests[r], grants, allowed, signed, enrolled)
<1>1. requests[r] \in Request /\ requests[r].kind = "grant" /\ requests[r].pc = pc
  BY DEF At, OidcInv, OidcTypeOK
<1>2. requests[r] \in GrantRequest
  BY <1>1, RequestKinds
<1>3. GrantFits(requests[r], grants, allowed, signed, enrolled)
  BY <1>1 DEF At, OidcInv, RequestFits
<1> QED
  BY <1>1, <1>2, <1>3 DEF GrantRequest

LEMMA AtReauth ==
  ASSUME OidcInv, NEW r \in Requests, NEW pc, At(r, "reauth", pc)
  PROVE  /\ requests[r] \in ReauthRequest /\ requests[r].kind # "answered" /\ requests[r].pc = pc
         /\ requests[r].deleg \in Delegations /\ requests[r].client \in Clients
         /\ ReauthFits(requests[r], signed, enrolled)
<1>1. requests[r] \in Request /\ requests[r].kind = "reauth" /\ requests[r].pc = pc
  BY DEF At, OidcInv, OidcTypeOK
<1>2. requests[r] \in ReauthRequest
  BY <1>1, RequestKinds
<1>3. ReauthFits(requests[r], signed, enrolled)
  BY <1>1 DEF At, OidcInv, RequestFits
<1> QED
  BY <1>1, <1>2, <1>3 DEF ReauthRequest

(* The steps of the silent re-authentication.                               *)
LEMMA CheckReauthKeeps ==
  ASSUME OidcInv, NEW r \in Requests, VerifyReauth(r) \/ ReadBinding(r)
  PROVE  OidcInv'
<1> DEFINE o == requests[r]
<1>1. PICK from : At(r, "reauth", from)
  BY DEF VerifyReauth, ReadBinding
<1>2. /\ o \in ReauthRequest /\ o.kind # "answered" /\ o.deleg \in Delegations /\ o.client \in Clients
      /\ ReauthFits(o, signed, enrolled)
  BY <1>1, AtReauth
<1>3. PICK pc \in {"readBinding", "putBinding", "done"} :
        /\ Goto(r, pc)
        /\ pc = "readBinding" => o.deleg \in live
        /\ pc = "putBinding" => o.pc = "readBinding" /\ binding[o.deleg] = o.client
  BY DEF VerifyReauth, ReadBinding, At, BindingMatches
<1>4. UNCHANGED <<kvVars, live, oidcHistory>>
  BY DEF VerifyReauth, ReadBinding
<1>5. CASE pc = "done"
  <2>1. requests' = [requests EXCEPT ![r] = Over]
    BY <1>3, <1>5, GotoMoves
  <2>2. Over \in Request /\ RequestFits(Over, grants, allowed, signed, enrolled, returned)
    BY RequestKinds DEF RequestFits, Over
  <2> QED
    BY <1>2, <1>4, <2>1, <2>2, RequestMovesAlone
<1>6. CASE pc # "done"
  <2> DEFINE q == Moved(o, pc)
  <2>1. requests' = [requests EXCEPT ![r] = q]
    BY <1>3, <1>6, GotoMoves
  <2> HIDE DEF o
  <2>2. q \in Request /\ q.kind = "reauth" /\ q.pc = pc /\ q.deleg = o.deleg /\ q.client = o.client
    BY <1>2, <1>3, <1>6, ReauthMoves
  <2> HIDE DEF q
  <2>3. o.deleg \in signed
    BY <1>2, <1>3, <1>6 DEF OidcInv, ReauthFits
  <2>4. pc = "putBinding" => <<o.deleg, o.client>> \in enrolled
    <3>1. o.client # None
      BY <1>2, OidcAssumption
    <3> QED
      BY <1>2, <1>3, <3>1 DEF OidcInv, BindingsFit
  <2>5. RequestFits(q, grants, allowed, signed, enrolled, returned)
    BY <1>2, <2>2, <2>3, <2>4 DEF RequestFits, ReauthFits
  <2> QED
    BY <1>2, <1>4, <2>1, <2>2, <2>5, RequestMovesAlone DEF o
<1> QED
  BY <1>5, <1>6

(* The grant ids are not codes.                                             *)
LEMMA GrantAnswered ==
  ASSUME NEW asked, NEW held, NEW done, NEW handed, NEW g \in GrantIds,
         ReturnsFit(asked, held, done, handed)
  PROVE  ReturnsFit(asked, held, done \union {g}, handed)
BY OidcAssumption DEF ReturnsFit

(* The steps of a grant request.                                            *)
LEMMA DeleteGrantKeeps ==
  ASSUME OidcInv, NEW r \in Requests, DeleteGrant(r)
  PROVE  OidcInv'
<1> DEFINE o == requests[r]
           ok == o.raw # None /\ DelegateMatches(o.deleg, o.raw.client)
           q == IF ok THEN Moved(o, "verify") ELSE Over
<1>1. /\ o \in GrantRequest /\ o.kind # "answered" /\ o.key \in GrantIds
      /\ GrantFits(o, grants, allowed, signed, enrolled)
  BY AtGrant DEF DeleteGrant
<1>2. /\ grants' = [grants EXCEPT ![o.key] = None] /\ Goto(r, IF ok THEN "verify" ELSE "done")
      /\ answered' = IF ok THEN answered ELSE answered \union {o.key}
      /\ UNCHANGED <<codes, binding, links, index, live, allowed, signed, enrolled, returned, delivered, reused>>
  BY DEF DeleteGrant
<1>3. requests' = [requests EXCEPT ![r] = q]
  BY <1>2, GotoMoves
<1>4. /\ grants \in [GrantIds -> Grant \union {None}] /\ grants' \in [GrantIds -> Grant \union {None}]
      /\ grants'[o.key] = None /\ \A g \in GrantIds : g # o.key => grants'[g] = grants[g]
  BY <1>1, <1>2 DEF OidcInv, OidcTypeOK
<1>5. HistoryGrows
  BY <1>2, <1>4 DEF HistoryGrows
<1>6. q \in Request /\ RequestFits(q, grants', allowed', signed', enrolled', returned')
  <2>1. CASE ok
    <3> DEFINE p == Moved(o, "verify")
    <3> HIDE DEF o
    <3>1. /\ p \in Request /\ p.kind = "grant" /\ p.pc = "verify" /\ p.key = o.key /\ p.deleg = o.deleg
          /\ p.org = o.org /\ p.raw = o.raw /\ p.late = o.late
      BY <1>1, GrantMoves
    <3>2. q = p
      BY <2>1
    <3> HIDE DEF p, q
    <3>3. GrantFits(p, grants', allowed', signed', enrolled')
      BY <1>1, <1>2, <1>4, <2>1, <3>1 DEF GrantFits
    <3> QED
      BY <3>1, <3>2, <3>3 DEF RequestFits
  <2>2. CASE ~ok
    BY <2>2, OverFits
  <2> QED
    BY <2>1, <2>2
<1> HIDE DEF q
<1>7. /\ requests' \in [Requests -> Request \union {None}]
      /\ \A s \in Requests : requests'[s] # None =>
           RequestFits(requests'[s], grants', allowed', signed', enrolled', returned')
      /\ ReturnsFit(requests', codes, answered, returned)
  BY <1>1, <1>3, <1>5, <1>6, RequestMoves
<1> HIDE DEF o, ok
<1>8. answered' = answered \/ answered' = answered \union {o.key}
  BY <1>2
<1>9. StoreFits(grants', allowed, answered')
  BY <1>1, <1>4, <1>8 DEF OidcInv, StoreFits, GrantFits
<1>10. ReturnsFit(requests', codes, answered', returned)
  BY <1>1, <1>7, <1>8, GrantAnswered
<1>11. OidcTypeOK'
  BY <1>1, <1>2, <1>4, <1>7, <1>8 DEF OidcInv, OidcTypeOK
<1> QED
  BY <1>2, <1>7, <1>9, <1>10, <1>11 DEF OidcInv

LEMMA VerifyGrantKeeps ==
  ASSUME OidcInv, NEW r \in Requests, VerifyGrant(r)
  PROVE  OidcInv'
<1> DEFINE o == requests[r]
           ok == o.deleg \in live
           q == IF ok THEN Moved(o, "bind") ELSE Over
<1>1. /\ o \in GrantRequest /\ o.kind # "answered" /\ o.key \in GrantIds /\ o.pc = "verify"
      /\ GrantFits(o, grants, allowed, signed, enrolled)
  BY AtGrant DEF VerifyGrant
<1>2. /\ Goto(r, IF ok THEN "bind" ELSE "done")
      /\ answered' = IF ok THEN answered ELSE answered \union {o.key}
      /\ UNCHANGED <<grants, codes, binding, links, index>>
      /\ UNCHANGED <<live, allowed, signed, enrolled, returned, delivered, reused>>
  BY DEF VerifyGrant, kvVars
<1>3. requests' = [requests EXCEPT ![r] = q]
  BY <1>2, GotoMoves
<1>4. HistoryGrows
  BY <1>2 DEF HistoryGrows
<1>5. q \in Request /\ RequestFits(q, grants', allowed', signed', enrolled', returned')
  <2>1. CASE ok
    <3> DEFINE p == Moved(o, "bind")
    <3>1. o.deleg \in signed
      BY <2>1 DEF OidcInv
    <3> HIDE DEF o
    <3>2. /\ p \in Request /\ p.kind = "grant" /\ p.pc = "bind" /\ p.key = o.key /\ p.deleg = o.deleg
          /\ p.org = o.org /\ p.raw = o.raw /\ p.late = o.late
      BY <1>1, GrantMoves
    <3>3. q = p
      BY <2>1
    <3> HIDE DEF p, q
    <3>4. GrantFits(p, grants', allowed', signed', enrolled')
      BY <1>1, <1>2, <3>1, <3>2 DEF GrantFits
    <3> QED
      BY <3>2, <3>3, <3>4 DEF RequestFits
  <2>2. CASE ~ok
    BY <2>2, OverFits
  <2> QED
    BY <2>1, <2>2
<1> HIDE DEF q
<1>6. /\ requests' \in [Requests -> Request \union {None}]
      /\ \A s \in Requests : requests'[s] # None =>
           RequestFits(requests'[s], grants', allowed', signed', enrolled', returned')
      /\ ReturnsFit(requests', codes, answered, returned)
  BY <1>1, <1>3, <1>4, <1>5, RequestMoves
<1> HIDE DEF o, ok
<1>7. answered' = answered \/ answered' = answered \union {o.key}
  BY <1>2
<1>8. StoreFits(grants, allowed, answered')
  BY <1>1, <1>7 DEF OidcInv, StoreFits, GrantFits
<1>9. ReturnsFit(requests', codes, answered', returned)
  BY <1>1, <1>6, <1>7, GrantAnswered
<1>10. OidcTypeOK'
  BY <1>1, <1>2, <1>6, <1>7 DEF OidcInv, OidcTypeOK
<1> QED
  BY <1>2, <1>6, <1>8, <1>9, <1>10 DEF OidcInv

LEMMA BindKeeps ==
  ASSUME OidcInv, NEW r \in Requests, Bind(r)
  PROVE  OidcInv'
<1> DEFINE o == requests[r]
           pc == IF o.org = None THEN "putCode" ELSE "link"
           q == Moved(o, pc)
           pair == <<o.deleg, o.raw.client>>
<1>1. /\ o \in GrantRequest /\ o.kind # "answered" /\ o.key \in GrantIds /\ o.pc = "bind"
      /\ o.deleg \in Delegations /\ o.raw \in Grant \union {None}
      /\ GrantFits(o, grants, allowed, signed, enrolled)
  BY AtGrant DEF Bind
<1>2. /\ Goto(r, pc) /\ binding' = [binding EXCEPT ![o.deleg] = o.raw.client]
      /\ enrolled' = enrolled \union {pair}
      /\ UNCHANGED <<grants, codes, links, index, live, allowed, signed, answered, returned, delivered, reused>>
  BY DEF Bind
<1>3. pc \in {"putCode", "link"} /\ (pc = "link" => o.org # None)
  OBVIOUS
<1>4. o.org \in Orgs \union {None}
  BY <1>1 DEF GrantRequest
<1> HIDE DEF pc
<1>5. requests' = [requests EXCEPT ![r] = q]
  BY <1>2, <1>3, GotoMoves
<1> HIDE DEF o
<1>6. o.raw.client \in Clients
  BY <1>1 DEF GrantFits, Grant
<1>7. HistoryGrows
  BY <1>2 DEF HistoryGrows
<1>8. /\ q \in Request /\ q.kind = "grant" /\ q.pc = pc /\ q.key = o.key /\ q.deleg = o.deleg
      /\ q.org = o.org /\ q.raw = o.raw /\ q.late = o.late
  BY <1>1, <1>3, GrantMoves
<1> HIDE DEF q
<1>9. GrantFits(q, grants', allowed', signed', enrolled')
  BY <1>1, <1>2, <1>3, <1>4, <1>8 DEF GrantFits
<1>10. RequestFits(q, grants', allowed', signed', enrolled', returned')
  BY <1>8, <1>9 DEF RequestFits
<1>11. /\ requests' \in [Requests -> Request \union {None}]
       /\ \A s \in Requests : requests'[s] # None =>
            RequestFits(requests'[s], grants', allowed', signed', enrolled', returned')
       /\ ReturnsFit(requests', codes, answered, returned)
  BY <1>1, <1>5, <1>7, <1>8, <1>10, RequestMoves DEF o
<1>12. BindingsFit(binding', enrolled')
  <2>1. binding \in [Delegations -> Clients \union {None}] /\ BindingsFit(binding, enrolled)
    BY DEF OidcInv, OidcTypeOK
  <2> QED
    BY <1>1, <1>2, <2>1 DEF BindingsFit
<1>13. /\ CodesFit(codes, allowed', signed', enrolled')
       /\ TokensFit(delivered, allowed', signed', enrolled')
  BY <1>7, GrowthKeeps
<1>14. OidcTypeOK'
  <2>1. binding' \in [Delegations -> Clients \union {None}] /\ enrolled' \subseteq Delegations \X Clients
    BY <1>1, <1>2, <1>6 DEF OidcInv, OidcTypeOK
  <2> QED
    BY <1>2, <1>11, <2>1 DEF OidcInv, OidcTypeOK
<1> QED
  BY <1>2, <1>11, <1>12, <1>13, <1>14 DEF OidcInv

(* The organisation's link and index hold nothing the others read.          *)
LEMMA OrgStepsKeep ==
  ASSUME OidcInv, NEW r \in Requests, Link(r) \/ ReadIndex(r) \/ PutIndex(r)
  PROVE  OidcInv'
<1> DEFINE o == requests[r]
           SameGrant(q) == /\ q \in GrantRequest /\ q.kind = "grant"
                           /\ q.pc \in {"readIndex", "putIndex", "putCode"}
                           /\ q.key = o.key /\ q.deleg = o.deleg /\ q.org = o.org
                           /\ q.raw = o.raw /\ q.late = o.late
<1>1. /\ o \in GrantRequest /\ o.kind # "answered" /\ o.pc \in {"link", "readIndex", "putIndex"}
      /\ GrantFits(o, grants, allowed, signed, enrolled)
  BY AtGrant DEF Link, ReadIndex, PutIndex
<1>2. /\ links' \subseteq Orgs /\ index' \subseteq Orgs
      /\ UNCHANGED <<grants, codes, binding, live>>
      /\ UNCHANGED <<allowed, signed, enrolled, answered, returned, delivered, reused>>
  <2>1. o.org \in Orgs /\ o.seen \subseteq Orgs /\ links \subseteq Orgs /\ index \subseteq Orgs
    BY <1>1 DEF GrantFits, GrantRequest, OidcInv, OidcTypeOK
  <2> QED
    BY <2>1 DEF Link, ReadIndex, PutIndex, kvVars, oidcHistory
<1>3. PICK q : SameGrant(q) /\ requests' = [requests EXCEPT ![r] = q]
  <2>1. CASE Link(r)
    <3> DEFINE q == Moved(o, "readIndex")
    <3>1. requests' = [requests EXCEPT ![r] = q]
      BY <2>1, GotoMoves DEF Link
    <3> HIDE DEF o
    <3>2. SameGrant(q)
      BY <1>1 DEF Moved, GrantRequest
    <3> HIDE DEF q, SameGrant
    <3> QED
      BY <3>1, <3>2
  <2>2. CASE ReadIndex(r)
    <3> DEFINE pc == IF o.org \in index THEN "putCode" ELSE "putIndex"
               q == [o EXCEPT !.seen = index, !.pc = pc]
    <3>1. requests' = [requests EXCEPT ![r] = q]
      BY <2>2 DEF ReadIndex, OidcInv, OidcTypeOK
    <3>2. pc \in {"putCode", "putIndex"} /\ index \subseteq Orgs
      BY DEF OidcInv, OidcTypeOK
    <3> HIDE DEF o, pc
    <3>3. SameGrant(q)
      BY <1>1, <3>2 DEF GrantRequest
    <3> HIDE DEF q, SameGrant
    <3> QED
      BY <3>1, <3>3
  <2>3. CASE PutIndex(r)
    <3> DEFINE q == Moved(o, "putCode")
    <3>1. requests' = [requests EXCEPT ![r] = q]
      BY <2>3, GotoMoves DEF PutIndex
    <3> HIDE DEF o
    <3>2. SameGrant(q)
      BY <1>1 DEF Moved, GrantRequest
    <3> HIDE DEF q, SameGrant
    <3> QED
      BY <3>1, <3>2
  <2> QED
    BY <2>1, <2>2, <2>3
<1> HIDE DEF o
<1>4. GrantFits(q, grants', allowed', signed', enrolled')
  BY <1>1, <1>2, <1>3 DEF GrantFits
<1>5. q \in Request /\ RequestFits(q, grants', allowed', signed', enrolled', returned')
  BY <1>3, <1>4, RequestKinds DEF RequestFits
<1>6. HistoryGrows
  BY <1>2 DEF HistoryGrows
<1>7. /\ requests' \in [Requests -> Request \union {None}]
      /\ \A s \in Requests : requests'[s] # None =>
           RequestFits(requests'[s], grants', allowed', signed', enrolled', returned')
      /\ ReturnsFit(requests', codes, answered, returned)
  BY <1>1, <1>3, <1>5, <1>6, RequestMoves DEF o
<1>8. OidcTypeOK'
  BY <1>2, <1>7 DEF OidcInv, OidcTypeOK
<1> QED
  BY <1>2, <1>7, <1>8 DEF OidcInv

(* A code is written once, under the request's own key, for what the grant  *)
(* request has checked.                                                     *)
LEMMA PutCodeKeeps ==
  ASSUME OidcInv, NEW r \in Requests, PutCode(r)
  PROVE  OidcInv'
<1> DEFINE o == requests[r]
           code == [client |-> o.raw.client, challenge |-> o.raw.challenge, deleg |-> o.deleg]
<1>1. /\ o \in GrantRequest /\ o.kind # "answered" /\ o.key \in GrantIds /\ o.pc = "putCode"
      /\ o.deleg \in Delegations /\ o.raw \in Grant \union {None} /\ o.late \in BOOLEAN
      /\ GrantFits(o, grants, allowed, signed, enrolled)
  BY AtGrant DEF PutCode, GrantRequest
<1>2. /\ codes' = [codes EXCEPT ![r] = code] /\ Goto(r, "done")
      /\ answered' = answered \union {o.key} /\ returned' = returned \union {r}
      /\ UNCHANGED <<grants, binding, links, index, live, allowed, signed, enrolled, delivered>>
  BY DEF PutCode
<1>3. reused' = (reused \/ o.late)
  BY DEF PutCode
<1>4. requests' = [requests EXCEPT ![r] = Over]
  BY <1>2, GotoMoves
<1> HIDE DEF o
<1>5. o.raw \in Grant /\ o.raw = allowed[o.key] /\ ~o.late
  BY <1>1 DEF GrantFits
<1>6. /\ o.raw.client \in Clients /\ o.raw.challenge \in Challenges
      /\ o.raw = [client |-> o.raw.client, challenge |-> o.raw.challenge]
  BY <1>5 DEF Grant
<1>7. /\ code \in Code /\ code.client = o.raw.client /\ code.challenge = o.raw.challenge
      /\ code.deleg = o.deleg
  BY <1>1, <1>6 DEF Code
<1> HIDE DEF code
<1>8. Authorised(code.client, code.challenge, allowed)
  BY <1>1, <1>5, <1>6, <1>7 DEF Authorised
<1>9. Entitled(code.deleg, code.client, signed, enrolled)
  BY <1>1, <1>7 DEF Entitled, GrantFits
<1>10. CodeFits(code, allowed, signed, enrolled)
  BY <1>8, <1>9 DEF CodeFits
<1>11. HistoryGrows
  BY <1>2 DEF HistoryGrows
<1>12. Over \in Request /\ Over.kind = "answered"
       /\ RequestFits(Over, grants', allowed', signed', enrolled', returned')
  BY OverFits
<1>13. /\ requests' \in [Requests -> Request \union {None}]
       /\ requests'[r] = Over /\ Over # None /\ \A s \in Requests : s # r => requests'[s] = requests[s]
       /\ r \notin returned /\ r \notin answered
       /\ \A s \in Requests : requests'[s] # None =>
            RequestFits(requests'[s], grants', allowed', signed', enrolled', returned')
       /\ ReturnsFit(requests', codes, answered, returned)
  BY <1>1, <1>4, <1>11, <1>12, RequestMoves DEF o
<1>14. /\ codes' \in [Requests -> Code \union {None}]
       /\ codes'[r] = code /\ \A c \in Requests : c # r => codes'[c] = codes[c]
  BY <1>2, <1>7 DEF OidcInv, OidcTypeOK
<1>15. ReturnsFit(requests', codes', answered', returned')
  <2>1. ReturnsFit(requests', codes', answered, returned')
    BY <1>2, <1>12, <1>13, <1>14 DEF ReturnsFit
  <2> QED
    BY <1>1, <1>2, <2>1, GrantAnswered
<1>16. StoreFits(grants, allowed, answered')
  BY <1>1, <1>2 DEF OidcInv, StoreFits, GrantFits
<1>17. CodesFit(codes', allowed, signed, enrolled)
  BY <1>10, <1>14 DEF OidcInv, CodesFit
<1>18. ~reused' /\ reused' \in BOOLEAN
  BY <1>3, <1>5 DEF OidcInv
<1>19. OidcTypeOK'
  BY <1>1, <1>2, <1>13, <1>14, <1>18 DEF OidcInv, OidcTypeOK
<1> QED
  BY <1>2, <1>13, <1>15, <1>16, <1>17, <1>18, <1>19 DEF OidcInv

(* A token by code: what was read is the code, unless it was spent before.  *)
LEMMA FinishExchangeKeeps ==
  ASSUME OidcInv, NEW r \in Requests, FinishExchange(r)
  PROVE  OidcInv'
<1> DEFINE o == requests[r]
           t == [client |-> o.client, proof |-> o.verifier, deleg |-> o.raw.deleg]
           served == o.raw # None /\ CodeBound(o)
<1>1. o \in Request /\ o # None /\ o.kind = "exchange"
  BY DEF FinishExchange, At, OidcInv, OidcTypeOK
<1>2. o \in ExchangeRequest /\ o.kind # "answered"
  BY <1>1, RequestKinds
<1>3. ExchangeFits(o, allowed, signed, enrolled, returned)
  BY <1>1 DEF OidcInv, RequestFits
<1>4. /\ codes' = [codes EXCEPT ![o.key] = None] /\ Goto(r, "done")
      /\ answered' = answered \union {o.key}
      /\ UNCHANGED <<grants, binding, links, index, live, allowed, signed, enrolled, returned>>
      /\ IF served THEN delivered' = delivered \union {t} ELSE delivered' = delivered
  BY DEF FinishExchange
<1>5. IF served THEN reused' = (reused \/ o.late) ELSE reused' = reused
  BY DEF FinishExchange
<1>6. requests' = [requests EXCEPT ![r] = Over]
  BY <1>4, GotoMoves
<1> HIDE DEF o
<1>7. /\ o.key \in Requests /\ o.client \in Clients /\ o.verifier \in Challenges
      /\ o.raw \in Code \union {None} /\ o.late \in BOOLEAN
  BY <1>2 DEF ExchangeRequest
<1>8. ASSUME served
      PROVE  t \in [client : Clients, proof : Challenges \union {None}, deleg : Delegations]
             /\ TokenFits(t, allowed, signed, enrolled) /\ ~o.late
  <2>1. CodeFits(o.raw, allowed, signed, enrolled) /\ o.raw \in Code /\ ~o.late
    BY <1>3, <1>7, <1>8 DEF ExchangeFits
  <2>2. o.raw.deleg \in Delegations /\ o.raw.client = o.client /\ o.raw.challenge = o.verifier
    BY <1>8, <2>1 DEF Code, CodeBound
  <2>3. /\ t \in [client : Clients, proof : Challenges \union {None}, deleg : Delegations]
        /\ t.client = o.client /\ t.proof = o.verifier /\ t.deleg = o.raw.deleg
    BY <1>7, <2>2
  <2> HIDE DEF t
  <2>4. TokenFits(t, allowed, signed, enrolled)
    BY <2>1, <2>2, <2>3 DEF TokenFits, CodeFits
  <2> QED
    BY <2>1, <2>3, <2>4
<1> HIDE DEF t, served
<1>9. ~reused'
  BY <1>5, <1>8 DEF OidcInv
<1>10. reused' \in BOOLEAN
  BY <1>9, <1>5, <1>7 DEF OidcInv, OidcTypeOK
<1>11. /\ delivered' \subseteq [client : Clients, proof : Challenges \union {None}, deleg : Delegations]
       /\ TokensFit(delivered', allowed, signed, enrolled)
  BY <1>4, <1>8 DEF OidcInv, OidcTypeOK, TokensFit
<1>12. HistoryGrows
  BY <1>4 DEF HistoryGrows
<1>13. Over \in Request /\ RequestFits(Over, grants', allowed', signed', enrolled', returned')
  BY OverFits
<1>14. /\ requests' \in [Requests -> Request \union {None}]
       /\ \A s \in Requests : requests'[s] # None =>
            RequestFits(requests'[s], grants', allowed', signed', enrolled', returned')
       /\ ReturnsFit(requests', codes, answered, returned)
  BY <1>2, <1>6, <1>12, <1>13, RequestMoves DEF o
<1>15. /\ codes' \in [Requests -> Code \union {None}]
       /\ codes'[o.key] = None /\ \A c \in Requests : c # o.key => codes'[c] = codes[c]
  BY <1>4, <1>7 DEF OidcInv, OidcTypeOK
<1>16. ReturnsFit(requests', codes', answered', returned)
  BY <1>3, <1>4, <1>14, <1>15 DEF ReturnsFit, ExchangeFits
<1>17. StoreFits(grants, allowed, answered')
  BY <1>4, <1>7, OidcAssumption DEF OidcInv, StoreFits
<1>18. CodesFit(codes', allowed, signed, enrolled)
  BY <1>15 DEF OidcInv, CodesFit
<1>19. OidcTypeOK'
  BY <1>4, <1>7, <1>10, <1>11, <1>14, <1>15 DEF OidcInv, OidcTypeOK
<1> QED
  BY <1>4, <1>9, <1>11, <1>14, <1>16, <1>17, <1>18, <1>19 DEF OidcInv

(* A token by delegation.                                                   *)
LEMMA PutBindingKeeps ==
  ASSUME OidcInv, NEW r \in Requests, PutBinding(r)
  PROVE  OidcInv'
<1> DEFINE o == requests[r]
           t == [client |-> o.client, proof |-> None, deleg |-> o.deleg]
<1>1. /\ o \in ReauthRequest /\ o.kind # "answered" /\ o.pc = "putBinding"
      /\ o.deleg \in Delegations /\ o.client \in Clients /\ ReauthFits(o, signed, enrolled)
  BY AtReauth DEF PutBinding
<1>2. /\ binding' = [binding EXCEPT ![o.deleg] = o.client] /\ Goto(r, "done")
      /\ delivered' = delivered \union {t}
      /\ UNCHANGED <<grants, codes, links, index, live, allowed, signed, enrolled, answered, returned, reused>>
  BY DEF PutBinding
<1>3. requests' = [requests EXCEPT ![r] = Over]
  BY <1>2, GotoMoves
<1> HIDE DEF o
<1>4. /\ t \in [client : Clients, proof : Challenges \union {None}, deleg : Delegations]
      /\ t.client = o.client /\ t.proof = None /\ t.deleg = o.deleg
  BY <1>1
<1> HIDE DEF t
<1>5. TokenFits(t, allowed, signed, enrolled)
  BY <1>1, <1>4 DEF TokenFits, Entitled, ReauthFits
<1>6. HistoryGrows
  BY <1>2 DEF HistoryGrows
<1>7. Over \in Request /\ RequestFits(Over, grants', allowed', signed', enrolled', returned')
  BY OverFits
<1>8. /\ requests' \in [Requests -> Request \union {None}]
      /\ \A s \in Requests : requests'[s] # None =>
           RequestFits(requests'[s], grants', allowed', signed', enrolled', returned')
      /\ ReturnsFit(requests', codes, answered, returned)
  BY <1>1, <1>3, <1>6, <1>7, RequestMoves DEF o
<1>9. binding' \in [Delegations -> Clients \union {None}] /\ BindingsFit(binding', enrolled)
  <2>1. binding \in [Delegations -> Clients \union {None}] /\ BindingsFit(binding, enrolled)
    BY DEF OidcInv, OidcTypeOK
  <2> QED
    BY <1>1, <1>2, <2>1 DEF BindingsFit, ReauthFits
<1>10. TokensFit(delivered', allowed, signed, enrolled)
  BY <1>2, <1>5 DEF OidcInv, TokensFit
<1>11. OidcTypeOK'
  BY <1>2, <1>4, <1>8, <1>9 DEF OidcInv, OidcTypeOK
<1> QED
  BY <1>2, <1>8, <1>9, <1>10, <1>11 DEF OidcInv

(* What happens around the requests.                                        *)
LEMMA ChainKeeps ==
  ASSUME OidcInv, NEW d \in Delegations, Sign(d) \/ Lapse(d)
  PROVE  OidcInv'
<1>1. /\ UNCHANGED <<grants, codes, binding, links, index, requests>>
      /\ UNCHANGED <<allowed, enrolled, answered, returned, delivered, reused>>
      /\ signed \subseteq signed' /\ signed' \subseteq Delegations
      /\ live' \subseteq Delegations /\ live' \subseteq signed'
  BY DEF Sign, Lapse, kvVars, oidcHistory, OidcInv, OidcTypeOK
<1>2. HistoryGrows
  BY <1>1 DEF HistoryGrows
<1>3. OidcTypeOK'
  BY <1>1 DEF OidcInv, OidcTypeOK
<1> QED
  BY <1>1, <1>2, <1>3, GrowthKeeps DEF OidcInv

LEMMA ExpireKeeps ==
  ASSUME OidcInv, Expire
  PROVE  OidcInv'
<1>1. UNCHANGED <<links, index, live, requests>>
      /\ UNCHANGED <<allowed, signed, enrolled, answered, returned, delivered, reused>>
  BY DEF Expire, oidcHistory
<1>2. /\ grants' \in [GrantIds -> Grant \union {None}]
      /\ \A g \in GrantIds : grants'[g] = grants[g] \/ grants'[g] = None
  BY DEF Expire, OidcInv, OidcTypeOK
<1>3. /\ codes' \in [Requests -> Code \union {None}]
      /\ \A c \in Requests : codes'[c] = codes[c] \/ codes'[c] = None
  BY DEF Expire, OidcInv, OidcTypeOK
<1>4. /\ binding' \in [Delegations -> Clients \union {None}]
      /\ \A d \in Delegations : binding'[d] = binding[d] \/ binding'[d] = None
  BY DEF Expire, OidcInv, OidcTypeOK
<1>5. HistoryGrows
  BY <1>1, <1>2 DEF HistoryGrows
<1>6. StoreFits(grants', allowed, answered)
  BY <1>2 DEF OidcInv, StoreFits
<1>7. CodesFit(codes', allowed, signed, enrolled) /\ ReturnsFit(requests, codes', answered, returned)
  BY <1>3 DEF OidcInv, CodesFit, ReturnsFit
<1>8. BindingsFit(binding', enrolled)
  BY <1>4 DEF OidcInv, BindingsFit
<1>9. \A s \in Requests : requests[s] # None =>
        RequestFits(requests[s], grants', allowed', signed', enrolled', returned')
  BY <1>5, GrowthKeeps
<1>10. OidcTypeOK'
  BY <1>1, <1>2, <1>3, <1>4 DEF OidcInv, OidcTypeOK
<1> QED
  BY <1>1, <1>6, <1>7, <1>8, <1>9, <1>10 DEF OidcInv

LEMMA AuthorizeGrantKeeps ==
  ASSUME OidcInv, NEW g \in GrantIds, NEW client \in Clients, NEW challenge \in Challenges,
         AuthorizeGrant(g, client, challenge)
  PROVE  OidcInv'
<1> DEFINE grant == [client |-> client, challenge |-> challenge]
<1>1. grant \in Grant /\ grant # None
  BY RecordsAssumption DEF Grant
<1>2. /\ allowed[g] = None
      /\ grants' = [grants EXCEPT ![g] = grant] /\ allowed' = [allowed EXCEPT ![g] = grant]
      /\ UNCHANGED <<codes, binding, links, index, live, requests>>
      /\ UNCHANGED <<signed, enrolled, answered, returned, delivered, reused>>
  BY DEF AuthorizeGrant
<1> HIDE DEF grant
<1>3. /\ grants' \in [GrantIds -> Grant \union {None}] /\ allowed' \in [GrantIds -> Grant \union {None}]
      /\ grants'[g] = grant /\ allowed'[g] = grant
      /\ \A h \in GrantIds : h # g => grants'[h] = grants[h] /\ allowed'[h] = allowed[h]
  BY <1>1, <1>2 DEF OidcInv, OidcTypeOK
<1>4. HistoryGrows
  BY <1>2, <1>3 DEF HistoryGrows
<1>5. StoreFits(grants', allowed', answered)
  BY <1>2, <1>3 DEF OidcInv, StoreFits
<1>6. OidcTypeOK'
  BY <1>2, <1>3 DEF OidcInv, OidcTypeOK
<1>7. /\ \A s \in Requests : requests[s] # None =>
           RequestFits(requests[s], grants', allowed', signed', enrolled', returned')
      /\ CodesFit(codes, allowed', signed', enrolled')
      /\ BindingsFit(binding, enrolled')
      /\ TokensFit(delivered, allowed', signed', enrolled')
  BY <1>4, GrowthKeeps
<1> QED
  BY <1>2, <1>5, <1>6, <1>7 DEF OidcInv

LEMMA OidcStepInv == OidcInv /\ [OidcNext]_oidcVars => OidcInv'
<1> SUFFICES ASSUME OidcInv, [OidcNext]_oidcVars
             PROVE  OidcInv'
  OBVIOUS
<1>1. CASE UNCHANGED oidcVars
  <2>1. /\ UNCHANGED <<grants, codes, binding, links, index, live, requests>>
        /\ UNCHANGED <<allowed, signed, enrolled, answered, returned, delivered, reused>>
    BY <1>1 DEF oidcVars, kvVars, oidcHistory
  <2>2. OidcTypeOK'
    BY <2>1 DEF OidcInv, OidcTypeOK
  <2> QED
    BY <2>1, <2>2 DEF OidcInv
<1>2. ASSUME NEW r \in Requests, GrantStep(r) \/ TokenStep(r)
      PROVE  OidcInv'
  BY <1>2, DeleteGrantKeeps, VerifyGrantKeeps, BindKeeps, OrgStepsKeep, PutCodeKeeps,
     FinishExchangeKeeps, CheckReauthKeeps, PutBindingKeeps DEF GrantStep, TokenStep
<1>3. CASE OidcNext
  BY <1>2, <1>3, ChainKeeps, ExpireKeeps, AuthorizeGrantKeeps, BeginGrantKeeps,
     BeginExchangeKeeps, BeginReauthKeeps DEF OidcNext
<1> QED
  BY <1>1, <1>3

LEMMA TokensEntitled == OidcInv => TokenIsEntitled
<1> SUFFICES ASSUME OidcInv, NEW t \in delivered
             PROVE  /\ t.deleg \in signed
                    /\ DelegateIn[t.deleg] = DelegateOf[t.client]
                    /\ <<t.deleg, t.client>> \in enrolled
                    /\ t.proof # None =>
                         \E g \in GrantIds : allowed[g] = [client |-> t.client, challenge |-> t.proof]
  BY DEF TokenIsEntitled, OidcInv
<1>1. TokenFits(t, allowed, signed, enrolled)
  BY DEF OidcInv, TokensFit
<1> QED
  BY <1>1 DEF TokenFits, Entitled, Authorised, DelegateMatches

(* An id_token is delivered only for a signed delegation that names the     *)
(* client's delegate and was granted for that client, by code only against  *)
(* the verifier the home authorised, and never for a code or grant id that  *)
(* had been answered before the request began, however grant, token and     *)
(* expiry interleave over the key-value store (grant, token).               *)
THEOREM TokensAreEntitled == OidcSpec => [](OidcTypeOK /\ TokenIsEntitled)
<1>1. OidcInit => OidcInv
  <2> SUFFICES ASSUME OidcInit
               PROVE  OidcInv
    OBVIOUS
  <2>1. /\ \A g \in GrantIds : grants[g] = None
        /\ \A r \in Requests : requests[r] = None /\ codes[r] = None
        /\ \A d \in Delegations : binding[d] = None
        /\ answered = {} /\ returned = {} /\ delivered = {} /\ live = {}
    BY DEF OidcInit
  <2>2. OidcTypeOK
    BY DEF OidcInit, OidcTypeOK
  <2>3. ~reused
    BY DEF OidcInit
  <2> QED
    BY <2>1, <2>2, <2>3 DEF OidcInv, StoreFits, CodesFit, ReturnsFit, BindingsFit, TokensFit
<1>2. OidcInv => OidcTypeOK
  BY DEF OidcInv
<1> QED
  BY <1>1, <1>2, OidcStepInv, TokensEntitled, PTL DEF OidcSpec

-----------------------------------------------------------------------------
(* The parts together *)

(* The whole implements the specification of each part.                     *)
LEMMA WholeImplementsParts ==
  Spec => /\ OidcSpec /\ GoogleSpec /\ SocialSpec /\ FederatedSpec
          /\ [](focus \in {"oidc", "google", "social", "federated"})
<1>1. Init => /\ OidcInit /\ GoogleInit /\ SocialInit /\ FederatedInit
              /\ focus \in {"oidc", "google", "social", "federated"}
  BY DEF Init
<1>2. [Next]_vars => /\ [OidcNext]_oidcVars /\ [GoogleNext]_googleVars
                     /\ [SocialNext]_socialVars /\ [FederatedNext]_federatedVars
                     /\ UNCHANGED focus
  BY DEF Next, vars, OidcStep, GoogleStep, SocialStep, FederatedStep
<1>3. focus \in {"oidc", "google", "social", "federated"} /\ UNCHANGED focus
        => (focus \in {"oidc", "google", "social", "federated"})'
  OBVIOUS
<1> QED
  BY <1>1, <1>2, <1>3, PTL DEF Spec, OidcSpec, GoogleSpec, SocialSpec, FederatedSpec

(* The broker and the custody behind it keep their types.                   *)
THEOREM TypeCorrect == Spec => []TypeOK
<1>1. /\ focus \in {"oidc", "google", "social", "federated"}
      /\ OidcTypeOK /\ GoogleTypeOK /\ SocialTypeOK /\ FederatedTypeOK
      => TypeOK
  BY DEF TypeOK
<1> QED
  BY <1>1, WholeImplementsParts, TokensAreEntitled, GoogleLoginsApproved, SocialAccountsRecover,
     FederatedTokensLive, PTL

(* Each keeps beside the others what it promises by itself.                 *)
THEOREM InvariantsTogether ==
  Spec => /\ [](TokenIsEntitled /\ LoginIsApproved /\ DescriptorRecovers /\ StoredTokenIsAlive)
          /\ NamedIsOwned
BY WholeImplementsParts, TokensAreEntitled, GoogleLoginsApproved, SocialAccountsRecover,
   FederatedTokensLive, PTL

=============================================================================
