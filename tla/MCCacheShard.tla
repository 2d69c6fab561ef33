---------------------------- MODULE MCCacheShard ----------------------------
(***************************************************************************)
(* A small instance of CacheShard for TLC.                                 *)
(***************************************************************************)
EXTENDS CacheShard, TLC

(* One digit, and a longer text. *)
SmallItemSize == [d \in Data |-> IF d = Text THEN 2 ELSE 1]

(* Keys are interchangeable, and so are the replies. *)
ShardSymmetry == Permutations(Key) \cup Permutations(Conn)

=============================================================================
