------------------------------- MODULE MCUploads -------------------------------
(* Instances of Uploads for TLC. *)
EXTENDS Uploads, TLC

CONSTANTS r1, r2, r3, i1, i2, k1, k2, c1, c2, none

Symmetry == Permutations({r1, r2, r3}) \cup Permutations({i1, i2})
              \cup Permutations({k1, k2}) \cup Permutations({c1, c2})
================================================================================
