------------------------------- MODULE Bitmap -------------------------------
(***************************************************************************)
(* The slab bitmap of usmm (src/usmm/bitmap.c), one bit per slab.          *)
(*                                                                         *)
(* A bitmap is represented by the set of the positions whose bit is 0:     *)
(* usmm_init sets all eight million bits and clears those of the slabs     *)
(* that exist, so every position outside the set reads as 1, the ones past *)
(* the last slab included.                                                 *)
(***************************************************************************)
EXTENDS Integers

ByteBits == 8

bitmap_test(bm, index) == index \notin bm

(* Mistake: the last bit of the range is left clear. *)
SetAllButLast(bm, start, end) == bm \ (start .. end - 2)

bitmap_set_range(bm, start, end) == bm \ (start .. end - 1)

(* Mistake: the last bit of the range is left set. *)
ClearAllButLast(bm, start, end) == bm \cup (start .. end - 2)

bitmap_clr_range(bm, start, end) == bm \cup (start .. end - 1)

(* All eight bits of byte b are 0. *)
ByteClear(bm, b) ==
    \A k \in 0 .. ByteBits - 1 : ~bitmap_test(bm, ByteBits * b + k)

(* Where the search for fewer than eight bits can stop: the mask of range
   ones is shifted inside one byte at a time, by 0 .. 7 - range, so a hit
   never crosses a byte, never ends at a byte's last bit, and never lies in
   the tail of max % 8 bits. *)
ShortHits(bm, range, max) ==
    {p \in 0 .. ByteBits * (max \div ByteBits) - 1 :
        /\ p % ByteBits < ByteBits - range
        /\ \A k \in 0 .. range - 1 : ~bitmap_test(bm, p + k)}

(* Where the search for eight bits or more can stop: at the first bit of a
   byte, when range \div 8 whole bytes are clear from there on and the HIGH
   range % 8 bits of the byte after them are clear too. *)
LongHits(bm, range, max) ==
    LET count == range \div ByteBits
        rin   == range % ByteBits
    IN  {p \in 0 .. ByteBits * ((max - count - 1) \div ByteBits) - 1 :
            /\ p % ByteBits = 0
            /\ \A j \in 0 .. count - 1 : ByteClear(bm, p \div ByteBits + j)
            /\ \A k \in ByteBits - rin .. ByteBits - 1 :
                  ~bitmap_test(bm, p + ByteBits * count + k)}

Hits(bm, range, max) ==
    IF range < ByteBits THEN ShortHits(bm, range, max)
                        ELSE LongHits(bm, range, max)

(* The first hit, as a set of at most one index: empty stands for -1. *)
bitmap_find_range(bm, range, max) ==
    {p \in Hits(bm, range, max) : \A q \in Hits(bm, range, max) : p =< q}

=============================================================================
