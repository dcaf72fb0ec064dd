----------------------------- MODULE Governance -----------------------------
(***************************************************************************)
(* AgenticGovernance and the TimelockController in front of it: the         *)
(* guardian pauses at once; everything else is an operation that waits in   *)
(* the timelock.  An operation whose call reverts stays in the timelock.    *)
(* The signer list (setSigner) is left out: no contract reads it.           *)
(***************************************************************************)
EXTENDS Integers

CONSTANTS
  Operations,     \* operation ids of the timelock; a fresh salt is a fresh id
  Guardians,
  Calls,          \* the calls governance makes
  TimelockDelay,  \* minDelay of the timelock
  None,           \* no operation, the zero address
  MaxTime         \* bound on the clock

GovernanceCall ==
  [fn : {"unpause"}]
    \union [fn : {"setGuardian"}, who : Guardians]

Operation == [call : Calls, ready : Nat]

ASSUME GovernanceAssumption ==
  /\ TimelockDelay \in Nat /\ MaxTime \in Nat
  /\ None \notin Operation /\ None \notin Guardians

VARIABLES
  now,
  operations,  \* the timelock
  paused, guardian,
  pausedAt     \* history: when the guardian last paused; 0 while not paused

governanceVars == <<now, operations, paused, guardian, pausedAt>>

GovernanceInit ==
  /\ now = 0
  /\ operations = [o \in Operations |-> None]
  /\ paused = FALSE
  /\ guardian \in Guardians
  /\ pausedAt = 0

-----------------------------------------------------------------------------
(* The timelock *)

ScheduleOperation(o, c) ==
  /\ operations[o] = None
  /\ operations' = [operations EXCEPT ![o] = [call |-> c, ready |-> now + TimelockDelay]]
  /\ UNCHANGED <<now, paused, guardian, pausedAt>>

CancelOperation(o) ==
  /\ operations[o] # None
  /\ operations' = [operations EXCEPT ![o] = None]
  /\ UNCHANGED <<now, paused, guardian, pausedAt>>

OperationReady(o) == operations[o].ready <= now

(* The timelock makes the call fn of operation o.                           *)
Runs(o, fn) ==
  /\ operations[o] # None
  /\ operations[o].call.fn = fn
  /\ OperationReady(o)
  /\ operations' = [operations EXCEPT ![o] = None]
  /\ UNCHANGED now

(* When operation o became public.                                          *)
ScheduledAt(o) == operations[o].ready - TimelockDelay

-----------------------------------------------------------------------------
(* AgenticGovernance *)

Pause(g) ==
  /\ g = guardian
  /\ paused' = TRUE
  /\ pausedAt' = now
  /\ UNCHANGED <<now, operations, guardian>>

Unpause_ByGuardian(o) ==
  /\ paused' = FALSE
  /\ pausedAt' = 0
  /\ UNCHANGED <<now, operations, guardian>>
Unpause(o) ==
  /\ Runs(o, "unpause")
  /\ paused' = FALSE
  /\ pausedAt' = 0
  /\ UNCHANGED guardian

SetGuardian(o) ==
  /\ Runs(o, "setGuardian")
  /\ guardian' = operations[o].call.who
  /\ UNCHANGED <<paused, pausedAt>>

(* execute: the call is forwarded, so that the target sees governance as    *)
(* its caller.                                                              *)
Execute(o, fn) ==
  /\ Runs(o, fn)
  /\ UNCHANGED <<paused, guardian, pausedAt>>

Tick ==
  /\ now < MaxTime
  /\ now' = now + 1
  /\ UNCHANGED <<operations, paused, guardian, pausedAt>>

GovernanceNext ==
  \/ \E o \in Operations :
       \/ \E c \in Calls : ScheduleOperation(o, c)
       \/ CancelOperation(o) \/ SetGuardian(o)
  \/ Tick

-----------------------------------------------------------------------------
(* Properties *)

GovernanceTypeOK ==
  /\ now \in Nat
  /\ operations \in [Operations -> Operation \union {None}]
  /\ paused \in BOOLEAN
  /\ guardian \in Guardians
  /\ pausedAt \in Nat

(* A pause holds for a full timelock delay: unpause comes from an operation *)
(* that waited, so it comes early only when it was scheduled before the     *)
(* pause and was left in the timelock.                                      *)
PauseHolds ==
  [][paused /\ ~paused' =>
       \/ now >= pausedAt + TimelockDelay
       \/ \E o \in Operations :
            /\ operations[o] # None /\ operations'[o] = None
            /\ operations[o].call.fn = "unpause"
            /\ ScheduledAt(o) <= pausedAt]_governanceVars
=============================================================================
