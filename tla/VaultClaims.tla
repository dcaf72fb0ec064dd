---------------------------- MODULE VaultClaims ----------------------------
(* What the comments of the demo server say of its required audit row.      *)
EXTENDS Vault

(* index.ts on the audit of a key release: "if the commit can't persist,    *)
(* the write throws and the caller fails closed (no decrypt, no data)".     *)
ReleaseIsAudited ==
  \A c \in VaultCalls :
    answer[c] # Null /\ call[c].resource \in Sensitive => c \in released

=============================================================================
