------------------------------- MODULE MCMcp -------------------------------
(* One session and one delegation; a token may be forwarded twice.          *)
EXTENDS McpClaims, TLC

CONSTANTS s1, d1, j1, n1, n2, o1, r1, r2, read, admin, pay, none

MCRiskOf == [t \in Tools |-> IF t = pay THEN "high" ELSE "low"]
PlainCaveats == [d \in Delegations |-> {"timestamp", "toolScope"}]
QuorumCaveats == [d \in Delegations |-> {"timestamp", "quorum"}]
ProductionAndDemo ==
  {[durable |-> TRUE, failHard |-> TRUE], [durable |-> FALSE, failHard |-> FALSE]}
Symmetry == Permutations(Requests) \union Permutations(Nonces)
=============================================================================
