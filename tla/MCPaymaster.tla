---------------------------- MODULE MCPaymaster ----------------------------
(* Two operations wait in the timelock at a time.                           *)
EXTENDS Paymaster, TLC

CONSTANTS o1, o2, g1, s1, v1, p1, none

MCCalls ==
  {[fn |-> "unpause"], [fn |-> "setGuardian", who |-> g1],
   [fn |-> "setDevMode", flag |-> FALSE],
   [fn |-> "setPauseMirror", flag |-> FALSE],
   [fn |-> "setAccepted", senders |-> {s1}, flag |-> TRUE],
   [fn |-> "setVerifyingSigner", who |-> None],
   [fn |-> "scheduleDepositWithdrawal", to |-> p1, amount |-> 1],
   [fn |-> "scheduleDepositWithdrawal", to |-> p1, amount |-> 0],
   [fn |-> "executeDepositWithdrawal"], [fn |-> "cancelDepositWithdrawal"],
   [fn |-> "withdrawTo", to |-> p1, amount |-> 1], [fn |-> "acceptOwnership"]}
Symmetry == Permutations(Operations)
=============================================================================
