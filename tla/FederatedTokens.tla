-------------------------- MODULE FederatedTokens --------------------------
(***************************************************************************)
(* A person's provider tokens, kept by demo-a2a and used on behalf of apps. *)
(* A read loads the record, refreshes it near its expiry, writes it back    *)
(* and calls the provider, each in its own await, while other reads do the  *)
(* same, a new sign-in stores new tokens, and consent is withdrawn.         *)
(***************************************************************************)
EXTENDS Naturals

CONSTANTS
  Apps,
  Reads,      \* read requests
  MaxTokens,  \* bound on the refresh tokens the provider issues
  NoRead


(* Refresh tokens are numbered as issued; 0 is no token.                    *)
RefreshTokens == 1 .. MaxTokens

(* "bridge" and "exchange" come over the bridge, "app" with a delegation.   *)
ReadRequest ==
  [kind : {"app", "bridge", "exchange"}, app : Apps \union {NoRead},
   pc : {"verify", "grant", "load", "refresh", "store", "call", "done"},
   token : 0 .. MaxTokens, served : BOOLEAN]

ASSUME FederatedAssumption == MaxTokens \in Nat \ {0} /\ NoRead \notin ReadRequest

VARIABLES
  rotates,   \* the provider replaces a refresh token when it is used
  issued,    \* number of refresh tokens issued
  alive,     \* refresh tokens the provider accepts
  stored,    \* youversion:<sa> in FED_TOKENS
  granted,   \* grant:<sa>:<app>
  withdrawn, \* apps whose delegation is revoked on chain
  reads,
  lost       \* history: an answer of the provider, or the work after it, was lost

federatedVars == <<rotates, issued, alive, stored, granted, withdrawn, reads, lost>>

FederatedInit ==
  /\ rotates \in BOOLEAN
  /\ issued = 0 /\ alive = {} /\ stored = 0
  /\ granted = {} /\ withdrawn = {}
  /\ reads = [r \in Reads |-> NoRead]
  /\ lost = FALSE

AtRead(r, pc) == reads[r] # NoRead /\ reads[r].pc = pc

Proceed(r, pc) == reads' = [reads EXCEPT ![r].pc = pc]

-----------------------------------------------------------------------------
(* Sign-in and consent *)

(* /custody/youversion/store-token: the broker passes on a new grant.       *)
StoreToken ==
  /\ issued < MaxTokens
  /\ issued' = issued + 1
  /\ alive' = alive \union {issued + 1}
  /\ stored' = issued + 1
  /\ UNCHANGED <<rotates, granted, withdrawn, reads, lost>>

(* setYouVersionGrant: an empty list deletes the record.                    *)
GrantRecords(a, on) == IF on THEN granted \union {a} ELSE granted \ {a}

(* /custody/youversion/set-grant                                            *)
SetGrant(a, on) ==
  /\ granted' = GrantRecords(a, on)
  /\ UNCHANGED <<rotates, issued, alive, stored, withdrawn, reads, lost>>

(* The person revokes the delegation to an app on chain.                    *)
Withdraw(a) ==
  /\ withdrawn' = withdrawn \union {a}
  /\ UNCHANGED <<rotates, issued, alive, stored, granted, reads, lost>>

-----------------------------------------------------------------------------
(* Reads *)

BeginRead(r, kind, a) ==
  /\ reads[r] = NoRead
  /\ reads' = [reads EXCEPT ![r] =
       [kind |-> kind, app |-> a,
        pc |-> IF kind = "app" THEN "verify" ELSE "load", token |-> 0, served |-> FALSE]]
  /\ UNCHANGED <<rotates, issued, alive, stored, granted, withdrawn, lost>>

(* /custody/youversion/fetch and /custody/youversion/data-exchange-token    *)
(* trust the bridge and start at the load.                                  *)
BeginFetch(r) == BeginRead(r, "bridge", NoRead)
BeginDataExchange(r) == BeginRead(r, "exchange", NoRead)

(* /mcp/youversion/:type checks the delegation and the grant first.         *)
BeginMcpRead(r, a) == BeginRead(r, "app", a)

(* verifyDelegation: the revocation registry is read before the signature.  *)
VerifyDelegation(r) ==
  /\ AtRead(r, "verify")
  /\ Proceed(r, IF reads[r].app \in withdrawn THEN "done" ELSE "grant")
  /\ UNCHANGED <<rotates, issued, alive, stored, granted, withdrawn, lost>>

HasGrant(r) == reads[r].app \in granted

GetGrant(r) ==
  /\ AtRead(r, "grant")
  /\ Proceed(r, IF HasGrant(r) THEN "load" ELSE "done")
  /\ UNCHANGED <<rotates, issued, alive, stored, granted, withdrawn, lost>>

(* loadFederatedToken; near its expiry the access token is refreshed.       *)
Load(r, near) ==
  /\ AtRead(r, "load")
  /\ reads' = [reads EXCEPT ![r].token = stored,
                            ![r].pc = IF stored = 0 THEN "done" ELSE IF near THEN "refresh" ELSE "call"]
  /\ UNCHANGED <<rotates, issued, alive, stored, granted, withdrawn, lost>>

Successor_Kept(t) == t

(* The refresh token the provider returns, or the old one if it returns     *)
(* none.                                                                    *)
Successor(t) == IF rotates THEN issued + 1 ELSE t

(* refreshYouVersionToken: accepted                                         *)
Refresh(r) ==
  LET t == reads[r].token IN
  /\ AtRead(r, "refresh") /\ t \in alive
  /\ rotates => issued < MaxTokens
  /\ issued' = IF rotates THEN issued + 1 ELSE issued
  /\ alive' = IF rotates THEN (alive \ {t}) \union {issued + 1} ELSE alive
  /\ reads' = [reads EXCEPT ![r].token = Successor(t), ![r].pc = "store"]
  /\ UNCHANGED <<rotates, stored, granted, withdrawn, lost>>

(* refreshYouVersionToken: refused; the old access token is used.           *)
RefreshRefused(r) ==
  /\ AtRead(r, "refresh")
  /\ Proceed(r, "call")
  /\ UNCHANGED <<rotates, issued, alive, stored, granted, withdrawn, lost>>

(* The provider has rotated the token, and its answer, or the worker before *)
(* it stored the answer, is lost.                                           *)
LoseRefresh(r) ==
  /\ \/ AtRead(r, "store") /\ UNCHANGED alive
     \/ /\ AtRead(r, "refresh") /\ reads[r].token \in alive
        /\ alive' = IF rotates THEN alive \ {reads[r].token} ELSE alive
  /\ Proceed(r, "done")
  /\ lost' = TRUE
  /\ UNCHANGED <<rotates, issued, stored, granted, withdrawn>>

(* storeFederatedToken                                                      *)
Store(r) ==
  /\ AtRead(r, "store")
  /\ stored' = reads[r].token
  /\ Proceed(r, "call")
  /\ UNCHANGED <<rotates, issued, alive, granted, withdrawn, lost>>

(* The call to the provider and the answer, which holds only the data.      *)
Call(r, ok) ==
  /\ AtRead(r, "call")
  /\ reads' = [reads EXCEPT ![r].pc = "done", ![r].token = 0, ![r].served = ok]
  /\ UNCHANGED <<rotates, issued, alive, stored, granted, withdrawn, lost>>

FederatedNext ==
  \/ StoreToken
  \/ \E a \in Apps : (\E on \in BOOLEAN : SetGrant(a, on)) \/ Withdraw(a)
  \/ \E r \in Reads :
       \/ BeginFetch(r) \/ BeginDataExchange(r)
       \/ \E a \in Apps : BeginMcpRead(r, a)
       \/ VerifyDelegation(r) \/ GetGrant(r)
       \/ \E near \in BOOLEAN : Load(r, near)
       \/ Refresh(r) \/ RefreshRefused(r) \/ LoseRefresh(r) \/ Store(r)
       \/ \E ok \in BOOLEAN : Call(r, ok)

FederatedSpec == FederatedInit /\ [][FederatedNext]_federatedVars

-----------------------------------------------------------------------------
(* Properties *)

FederatedTypeOK ==
  /\ rotates \in BOOLEAN
  /\ issued \in 0 .. MaxTokens
  /\ alive \subseteq RefreshTokens
  /\ stored \in 0 .. MaxTokens
  /\ granted \subseteq Apps
  /\ withdrawn \subseteq Apps
  /\ reads \in [Reads -> ReadRequest \union {NoRead}]
  /\ lost \in BOOLEAN

(* The person stays linked: however reads and sign-ins interleave, the      *)
(* stored refresh token is one the provider accepts, unless a read is about *)
(* to write its successor or an answer was lost.  Two reads may load the    *)
(* same token, and a read that loaded the old one may write over the tokens *)
(* of a new sign-in (fetchYouVersionData).                                  *)
StoredTokenIsAlive ==
  stored # 0 /\ ~ lost /\ (\A r \in Reads : ~ AtRead(r, "store")) => stored \in alive
=============================================================================
