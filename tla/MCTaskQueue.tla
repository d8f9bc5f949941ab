----------------------------- MODULE MCTaskQueue -----------------------------
(* Instances of TaskQueue for TLC. *)
EXTENDS TaskQueue, TLC

CONSTANTS r1, r2, t1, m1, m2

\* One task, delivered twice.
OneTaskTarget == (m1 :> t1) @@ (m2 :> t1)
SingleTarget == (m1 :> t1)
OneTaskVersion == (t1 :> 1)

OneTaskSymmetry == Permutations({r1, r2}) \cup Permutations({m1, m2})
==============================================================================
