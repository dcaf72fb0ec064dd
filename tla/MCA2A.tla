------------------------------- MODULE MCA2A -------------------------------
(* Two task ids, which colliding messages may take again, three messages, a *)
(* request in flight and the alarm handler; constants in MCA2A.cfg.         *)
EXTENDS A2ATasks

CONSTANTS m1, m2, m3

(* The messages are interchangeable throughout a behaviour, so they are     *)
(* named in the order in which they are reserved.                           *)
InOrder == (m3 \in seen => m2 \in seen) /\ (m2 \in seen => m1 \in seen)

=============================================================================
