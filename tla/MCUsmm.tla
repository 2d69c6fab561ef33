------------------------------- MODULE MCUsmm -------------------------------
(***************************************************************************)
(* Small instances of Usmm for TLC.                                        *)
(***************************************************************************)
EXTENDS Usmm, Functions

(* Two classes: three slices a slab, and two. *)
SmallSliceSize == [c \in Class |-> IF c = 1 THEN 2 ELSE 3]

(* One class of two slices a slab. *)
OneSliceSize == [c \in Class |-> 3]

(* No class: heap blocks only. *)
NoSliceSize == [c \in Class |-> 3]

(* The bound of usmm_shared: the application holds at most five slices. *)
FewSlicesHeld == FoldFunction(+, 0, [s \in Slab |-> Cardinality(slices[s])]) =< 5

=============================================================================
