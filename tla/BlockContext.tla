---- MODULE BlockContext ----
(***************************************************************************)
(* What the registries and the escrow share: the accounts that call them    *)
(* and the block timestamp.  A transaction is one step: it either passes    *)
(* every check or reverts and changes nothing.                              *)
(***************************************************************************)
EXTENDS Integers, Sequences, FiniteSets

CONSTANTS
  Accounts,  \* addresses that send transactions and sign
  None,      \* address(0)
  MaxTime    \* bound on block.timestamp

ASSUME BlockAssumption == None \notin Accounts /\ MaxTime \in Nat

VARIABLE now

Tick == now < MaxTime /\ now' = now + 1

====
