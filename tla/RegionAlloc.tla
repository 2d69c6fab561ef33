----------------------------- MODULE RegionAlloc -----------------------------
(***************************************************************************)
(* What a memory allocator promises: the regions its users hold never      *)
(* overlap, and no region changes between the call that grants it and the  *)
(* call that returns it.  usmm's heap blocks and slices together implement *)
(* it (Usmm!OwnedRegions), whatever list, bitmap and chain do underneath.  *)
(***************************************************************************)
CONSTANT Cell         \* the addresses of the managed memory

VARIABLE owned        \* the regions held, each a set of cells

Init == owned = {}

(* A region of unused cells is granted. *)
Grant == \E region \in owned' \ owned :
            /\ region \subseteq Cell
            /\ region \cap UNION owned = {}
            /\ owned' = owned \cup {region}

Return == \E region \in owned : owned' = owned \ {region}

Next == Grant \/ Return

Spec == Init /\ [][Next]_owned

(* No two regions share a cell. *)
Disjoint == /\ owned \subseteq SUBSET Cell
            /\ \A r, q \in owned : r # q => r \cap q = {}

=============================================================================
