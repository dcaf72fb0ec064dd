----------------------------- MODULE McpClaims -----------------------------
(* What the comments of the verifier say and the code does not do.          *)
EXTENDS McpRuntime

(* token.ts accepts a call of a quorum-gated tool whose delegation carries  *)
(* the quorum caveat and whose caller declares on-chain redemption: "Accept;*)
(* the on-chain layer is responsible for the actual signature check".       *)
QuorumCaveatIsAccepted ==
  [][\A r \in Requests :
       /\ CheckDelegation(r)
       /\ RequiresQuorum(ToolOf(r)) /\ "quorum" \in CaveatsOf[DelegationOf(r)]
       /\ DelegationOf(r) \notin revoked
       => request'[r] # None]_vars
=============================================================================
