------------------------------- MODULE MCX402 -------------------------------
(* One grant, three mandates of which two share a quote nonce.              *)
EXTENDS X402Rail

CONSTANTS g1, m1, m2, m3, n1, n2

MCGrantOf == [m \in Mandates |-> g1]
MCNonceOf == [m \in Mandates |-> IF m = m3 THEN n2 ELSE n1]
MCAmountOf == [m \in Mandates |-> IF m = m1 THEN 1 ELSE 2]
Terms(n) == [g \in Grants |-> n]
MCMaxPerCharge == Terms(2)
MCMaxAggregate == Terms(3)
MCOneCall == Terms(1)
MCWindow == Terms(2)
MCFunds == Terms(5)
MCExpires == [m \in Mandates |-> 2]
=============================================================================
