---------------------------- MODULE MCAuditTrail ----------------------------
(***************************************************************************)
(* Instances of AuditTrail: two users, blocks three deep, two writes in a  *)
(* transaction and a partition window of two quarters.                     *)
(***************************************************************************)
EXTENDS AuditTrail, TLC

CONSTANTS u1, u2

MCUsers == {u1, u2}
MCSymmetry == Permutations(MCUsers)
=============================================================================
