---------------------------- MODULE MCDisbursement ----------------------------
(* Instances of Disbursement for TLC. *)
EXTENDS Disbursement, TLC

CONSTANTS r1, r2, r3, a, b, nobody

RequestSymmetry == Permutations({r1, r2, r3})
===============================================================================
