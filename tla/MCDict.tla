------------------------------- MODULE MCDict -------------------------------
(***************************************************************************)
(* Small instances of Dict for TLC.  Tables start at two buckets, so that  *)
(* a few keys are enough to grow, shrink and collide.                      *)
(***************************************************************************)
EXTENDS Dict

CONSTANTS k1, k2, k3, k4

(* k1 and k3 share a bucket of the smallest table, k1 and k4 of the next. *)
SmallHash == [k \in Key |-> CASE k = k1 -> 1 [] k = k2 -> 0
                              [] k = k3 -> 3 [] k = k4 -> 5]

=============================================================================
