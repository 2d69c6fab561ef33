--------------------------- MODULE MCDictIterator ---------------------------
(***************************************************************************)
(* A small instance of DictIterator for TLC, with MCDict's hashes.         *)
(***************************************************************************)
EXTENDS DictIterator

CONSTANTS k1, k2, k3, k4

SmallHash == [k \in Key |-> CASE k = k1 -> 1 [] k = k2 -> 0
                              [] k = k3 -> 3 [] k = k4 -> 5]

=============================================================================
