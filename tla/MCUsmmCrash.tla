---------------------------- MODULE MCUsmmCrash ----------------------------
(***************************************************************************)
(* Small instances of UsmmCrash for TLC.                                   *)
(***************************************************************************)
EXTENDS UsmmCrash

TwoSlices == [c \in Class |-> 2]

=============================================================================
