-------------------------------- MODULE Usmm --------------------------------
(***************************************************************************)
(* User-mode shared memory management (src/usmm/usmm.c, usmm_slab.c).      *)
(*                                                                         *)
(* A mapped region is cut into N slabs.  Slab 0 holds the controller; the  *)
(* others are handed out in two ways: whole, in runs of consecutive slabs  *)
(* found through the bitmap (usmm_heap_alloc), or cut into slices of one   *)
(* class size (usmm_slice_alloc), a slab being linked into exactly one     *)
(* list: free_slabs, the list of its class, or full_slabs.                 *)
(*                                                                         *)
(* A list is the set of its members: the code takes the first entry, the   *)
(* model any entry, so what holds here holds for every list order.  The    *)
(* free_slice chain of a slab is likewise the set of its slice numbers.    *)
(* The heap blocks held are a set, too: the search tests the first bit of  *)
(* a run, so a block held is never granted again as it is.                 *)
(*                                                                         *)
(* The bytes of a heap block are the application's.  Once a slab has been  *)
(* given out twice the manager reads some of them.  In list_del they may   *)
(* be anything (ListDelDies).  Of what it reads later, the length word of  *)
(* an overlapped block and the header of a slab taken from its slices, the *)
(* model keeps what the manager wrote last, and what list_del writes there *)
(* is left out.  Past that point it has some of the program's behaviours   *)
(* and not all: it shows that a property fails, never that one holds.      *)
(***************************************************************************)
EXTENDS Integers, FiniteSets, Bitmap

CONSTANTS
    N,          \* conf.length / conf.slab: the slabs, the controller's included
    Class,      \* the size classes, the indices of gs_slab_array
    NoClass,    \* the slice size 0 of a slab that is not cut
    SliceSize,  \* the slice size of each class (gs_slab_array)
    SlabSize,   \* conf.slab
    HeadSize,   \* sizeof(usmm_slab_t), at the start of every slice slab
    NLenSize,   \* the length word in front of a heap block
    HeapSizes   \* the sizes the application asks usmm_heap_alloc for

ASSUME NAssumption     == N \in Nat \ {0}
ASSUME ClassAssumption == IsFiniteSet(Class) /\ NoClass \notin Class
(* A slab has room for a length word and more (2 MB against 8 bytes). *)
ASSUME SizeAssumption  == /\ SlabSize \in Nat \ {0}
                          /\ HeadSize \in Nat
                          /\ NLenSize \in 0 .. SlabSize - 1
                          /\ HeapSizes \subseteq Nat

(* The slices of class c a slab holds (usmm_slab_create's slab->total). *)
Total(c) == (SlabSize - HeadSize) \div SliceSize[c]

(* Slabs are at least twice as long as their header and the largest slice
   (2 MB against 128 kB), so that no slab holds a single slice. *)
ASSUME SliceAssumption == /\ SliceSize \in [Class -> Nat \ {0}]
                          /\ \A c \in Class : Total(c) \in Nat /\ Total(c) >= 2

VARIABLES
    slab_bitmap,      \* the slabs whose bit is 0 (see Bitmap)
    free_slabs,       \* the list us->free_slabs
    full_slabs,       \* the list us->full_slabs
    slabs,            \* us->slabs: one list for each class
    header,           \* the usmm_slab_t at the start of each slab
    stat_free_slabs,
    stat_full_slabs,
    stat_slices,      \* the counters of each class
    heaps,            \* the heap blocks the application holds
    slices,           \* the slices of each slab the application holds
    died              \* an ASSERT failed, or a NULL link was followed

lists == <<free_slabs, full_slabs, slabs>>
stats == <<stat_free_slabs, stat_full_slabs, stat_slices>>
app   == <<heaps, slices>>
vars  == <<slab_bitmap, lists, header, stats, app, died>>

Slab    == 1 .. N - 1
Magic   == -1                     \* the first word of a slab's magic
NULL    == -1

SliceIndex == {0} \cup UNION {0 .. Total(c) - 1 : c \in Class}

Header == [word       : Int,      \* the first word: magic, or a block's length
           slice      : Class \cup {NoClass},
           used       : Int,
           free_slice : SUBSET SliceIndex]

Stat == [used : Int, slabs : Int, full : Int]

Heap == [start : Slab, num : Nat, size : HeapSizes]

TypeOK ==
    /\ slab_bitmap \subseteq Slab
    /\ free_slabs \subseteq Slab
    /\ full_slabs \subseteq Slab
    /\ slabs \in [Class -> SUBSET Slab]
    /\ header \in [Slab -> Header]
    /\ stat_free_slabs \in Int
    /\ stat_full_slabs \in Int
    /\ stat_slices \in [Class -> Stat]
    /\ heaps \subseteq Heap
    /\ slices \in [Slab -> SUBSET SliceIndex]
    /\ died \in BOOLEAN

-----------------------------------------------------------------------------
(* usmm_slab.c: operations on one slab's header. *)

usmm_slab_init ==
    [word |-> Magic, slice |-> NoClass, used |-> 0, free_slice |-> {}]

usmm_slab_fini ==
    [word |-> 0, slice |-> NoClass, used |-> 0, free_slice |-> {}]

(* Mistake: the chain has one slice more than fits. *)
OneSliceMore(h, c) == [h EXCEPT !.slice = c, !.free_slice = 0 .. Total(c)]

(* Builds the chain of all slices; used is not touched. *)
usmm_slab_create(h, c) ==
    [h EXCEPT !.slice = c, !.free_slice = 0 .. Total(c) - 1]

(* The pointers usmm_slab_alloc may return: a slice of the chain, or NULL. *)
Popped(h) == IF h.free_slice = {} THEN {NULL} ELSE h.free_slice

(* Mistake: used is not incremented. *)
AllocUncounted(h, ptr) == [h EXCEPT !.free_slice = @ \ {ptr}]

usmm_slab_alloc(h, ptr) ==
    IF ptr = NULL THEN h
    ELSE [h EXCEPT !.used = @ + 1, !.free_slice = @ \ {ptr}]

(* Mistake: used is not decremented. *)
FreeUncounted(h, ptr) == [h EXCEPT !.free_slice = @ \cup {ptr}]

usmm_slab_free(h, ptr) ==
    [h EXCEPT !.used = @ - 1, !.free_slice = @ \cup {ptr}]

(* Mistake: a slab with one slice in use counts as empty. *)
NearlyEmpty(h) == h.used =< 1

usmm_slab_isempty(h) == h.used = 0

usmm_slab_isfull(h) ==
    /\ h.used # 0
    /\ h.slice # NoClass
    /\ h.used = Total(h.slice)

-----------------------------------------------------------------------------
Init ==
    /\ slab_bitmap = Slab
    /\ free_slabs = Slab
    /\ full_slabs = {}
    /\ slabs = [c \in Class |-> {}]
    /\ header = [s \in Slab |-> usmm_slab_init]
    /\ stat_free_slabs = N - 1
    /\ stat_full_slabs = 0
    /\ stat_slices = [c \in Class |-> [used |-> 0, slabs |-> 0, full |-> 0]]
    /\ heaps = {}
    /\ slices = [s \in Slab |-> {}]
    /\ died = FALSE

(* The process ends at a failed ASSERT; what is mapped stays as it is. *)
Die == died' = TRUE /\ UNCHANGED <<slab_bitmap, lists, header, stats, app>>

-----------------------------------------------------------------------------
(* usmm_heap_alloc, usmm_heap_free: whole slabs. *)

(* USMM_ALIGN(size, conf.slab) / conf.slab *)
HeapNum(size) == (size + SlabSize - 1) \div SlabSize

Run(start, num) == start .. start + num - 1

(* The slabs of the blocks held: all but the length word is the application's. *)
HeapSlabs == UNION {Run(b.start, b.num) : b \in heaps}

(* The manager keeps slab s in some list. *)
Linked(s) == \/ s \in free_slabs
             \/ s \in full_slabs
             \/ \E c \in Class : s \in slabs[c]

(* Whether list_del, applied to the slabs of S, ends the process: it does at a
   link that is zero, it does not while it meets the manager's own links, and
   the link of a slab in a held block is whatever the application put there. *)
ListDelDies(S) ==
    {dies \in BOOLEAN :
        /\ (\E s \in S \ HeapSlabs : ~Linked(s)) => dies
        /\ (\A s \in S : Linked(s) /\ s \notin HeapSlabs) => ~dies}

(* Mistakes: a heap block leaves the lists as they are, or only its first slab
   is unlinked. *)
UnlinkNone(S) == UNCHANGED lists

UnlinkFirst(S) == /\ free_slabs' = free_slabs \ {s \in S : \A t \in S : s =< t}
                  /\ UNCHANGED <<full_slabs, slabs>>

(* list_del unlinks a slab from the list it is in, whichever that is. *)
ListDel(S) == /\ free_slabs' = free_slabs \ S
              /\ full_slabs' = full_slabs \ S
              /\ slabs' = [c \in Class |-> slabs[c] \ S]

HeapTake(start, num, size) ==
    /\ slab_bitmap' = bitmap_set_range(slab_bitmap, start, start + num)
    /\ ListDel(Run(start, num))
    /\ header' = [s \in Slab |->
                    IF s \notin Run(start, num) THEN header[s]
                    ELSE IF s = start
                         THEN [usmm_slab_fini EXCEPT !.word = num]
                         ELSE usmm_slab_fini]
    /\ stat_free_slabs' = stat_free_slabs - num
    /\ heaps' = heaps \cup {[start |-> start, num |-> num, size |-> size]}
    /\ UNCHANGED <<stat_full_slabs, stat_slices, slices, died>>

(* ASSERT(range > 1) in bitmap_find_range. *)
HeapAssert(size) == HeapNum(size) > 1

HeapAlloc(size) ==
    /\ ~died
    /\ LET num == HeapNum(size)
           found == bitmap_find_range(slab_bitmap, num, N)
       IN  \/ ~HeapAssert(size) /\ Die
           \/ HeapAssert(size) /\ found = {} /\ UNCHANGED vars  \* NULL
           \/ \E start \in found :
                 /\ HeapAssert(size)
                 /\ \E dies \in ListDelDies(Run(start, num)) :
                       IF dies THEN Die ELSE HeapTake(start, num, size)

(* The length is read back from the word in front of the block. *)
HeapFree(b) ==
    LET run == Run(b.start, header[b.start].word)
    IN  /\ ~died
        /\ header' = [s \in Slab |-> IF s \in run THEN usmm_slab_init
                                                  ELSE header[s]]
        /\ free_slabs' = free_slabs \cup run
        /\ slab_bitmap' = bitmap_clr_range(slab_bitmap, b.start,
                                           b.start + header[b.start].word)
        /\ stat_free_slabs' = stat_free_slabs + header[b.start].word
        /\ heaps' = heaps \ {b}
        /\ UNCHANGED <<full_slabs, slabs, stat_full_slabs, stat_slices,
                       slices, died>>

-----------------------------------------------------------------------------
(* usmm_slice_alloc, usmm_slice_free: slices of a class. *)

(* The slab served from: one of the class's list, else a new one. *)
Fresh(c) == slabs[c] = {}

(* Mistake: full slabs are taken for free ones. *)
FullForFree(c) == IF Fresh(c) THEN free_slabs \cup full_slabs ELSE slabs[c]

SlabFor(c) == IF Fresh(c) THEN free_slabs ELSE slabs[c]

SliceTake(c, s, ptr) ==
    LET h == IF Fresh(c) THEN usmm_slab_create(header[s], c) ELSE header[s]
        g == usmm_slab_alloc(h, ptr)
        new  == IF Fresh(c) THEN 1 ELSE 0
        full == IF usmm_slab_isfull(g) THEN 1 ELSE 0
    IN  /\ header' = [header EXCEPT ![s] = g]
        /\ free_slabs' = IF Fresh(c) THEN free_slabs \ {s} ELSE free_slabs
        /\ slabs' = [slabs EXCEPT ![c] = IF full = 1 THEN @ \ {s}
                                                     ELSE @ \cup {s}]
        /\ full_slabs' = IF full = 1 THEN full_slabs \cup {s} ELSE full_slabs
        /\ stat_free_slabs' = stat_free_slabs - new
        /\ stat_full_slabs' = stat_full_slabs + full
        /\ stat_slices' = [stat_slices EXCEPT
                ![c] = [used  |-> @.used + 1,
                        slabs |-> @.slabs + new,
                        full  |-> @.full + full]]
        /\ slices' = [slices EXCEPT ![s] = IF ptr = NULL THEN @
                                                         ELSE @ \cup {ptr}]
        /\ UNCHANGED <<slab_bitmap, heaps, died>>

SliceAlloc(c) ==
    /\ ~died
    /\ \/ SlabFor(c) = {} /\ UNCHANGED vars                  \* no more memory
       \/ \E s \in SlabFor(c) :
            \E ptr \in Popped(IF Fresh(c) THEN usmm_slab_create(header[s], c)
                                          ELSE header[s]) :
                SliceTake(c, s, ptr)

(* ASSERT(slab->slice == slice), and ASSERT(0) when used is 0. *)
SliceAssert(s) == header[s].slice # NoClass /\ header[s].used # 0

(* A full slab goes back to its class's list, an emptied one to free_slabs. *)
SliceGive(s, ptr) ==
    LET c == header[s].slice
        g == usmm_slab_free(header[s], ptr)
        full == IF usmm_slab_isfull(header[s]) THEN 1 ELSE 0
        empty == IF full = 0 /\ usmm_slab_isempty(g) THEN 1 ELSE 0
    IN  /\ header' = [header EXCEPT ![s] = IF empty = 1 THEN usmm_slab_init
                                                        ELSE g]
        /\ full_slabs' = IF full = 1 THEN full_slabs \ {s} ELSE full_slabs
        /\ slabs' = [slabs EXCEPT ![c] = IF full = 1 THEN @ \cup {s}
                                         ELSE IF empty = 1 THEN @ \ {s}
                                         ELSE @]
        /\ free_slabs' = IF empty = 1 THEN free_slabs \cup {s} ELSE free_slabs
        /\ stat_free_slabs' = stat_free_slabs + empty
        /\ stat_full_slabs' = stat_full_slabs - full
        /\ stat_slices' = [stat_slices EXCEPT
                ![c] = [used  |-> @.used - 1,
                        slabs |-> @.slabs - empty,
                        full  |-> @.full - full]]
        /\ slices' = [slices EXCEPT ![s] = @ \ {ptr}]
        /\ UNCHANGED <<slab_bitmap, heaps, died>>

SliceFree(s, ptr) ==
    /\ ~died
    /\ IF SliceAssert(s) THEN SliceGive(s, ptr) ELSE Die

-----------------------------------------------------------------------------
(* The application frees only what it holds.  Nothing else restrains it. *)

FreeSome == \/ \E b \in heaps : HeapFree(b)
            \/ \E s \in Slab : \E ptr \in slices[s] : SliceFree(s, ptr)

Next == \/ \E size \in HeapSizes : HeapAlloc(size)
        \/ \E c \in Class : SliceAlloc(c)
        \/ FreeSome

Spec == Init /\ [][Next]_vars

(* The documented use: large blocks are allocated at initialisation, before
   any slice is in use (README.md:39).  Sizes are those the bitmap search is
   sound for, which is an assumption: usmm_test.c asks for others, too. *)
SoundNum(num) == num > 1 /\ (num < ByteBits \/ num % ByteBits = 0)

HeapAtStart(size) == /\ \A s \in Slab : slices[s] = {}
                     /\ SoundNum(HeapNum(size))

DocNext == \/ \E size \in HeapSizes : HeapAtStart(size) /\ HeapAlloc(size)
           \/ \E c \in Class : SliceAlloc(c)
           \/ FreeSome

DocSpec == Init /\ [][DocNext]_vars

-----------------------------------------------------------------------------
(* What makes the manager correct. *)

(* No heap block overlaps another one or runs past the last slab: two calls
   of usmm_heap_alloc never give out the same slab, whatever was freed in
   between (usmm_heap_alloc with bitmap_find_range).  It holds for the lengths
   of SoundNum and fails for others, since the bitmap alone decides. *)
HeapBlocksDisjoint ==
    /\ \A b \in heaps : b.num > 1 /\ Run(b.start, b.num) \subseteq Slab
    /\ \A a, b \in heaps :
          a # b => Run(a.start, a.num) \cap Run(b.start, b.num) = {}

(* No slab is part of a heap block and cut into slices the application holds:
   the two levels, bitmap and free list, agree on who owns a slab. *)
LevelsDisjoint == \A s \in HeapSlabs : slices[s] = {}

(* The bitmap says exactly which slabs belong to a heap block, and the length
   word of every block survives until usmm_heap_free reads it. *)
BitmapIsHeap ==
    /\ slab_bitmap = Slab \ HeapSlabs
    /\ \A b \in heaps : header[b.start].word = b.num

(* A slab is in the list its header calls for, and in no other: in no list
   when it is part of a heap block, else in free_slabs when it is not cut,
   in its class's list while a slice is free, in full_slabs when none is. *)
SlabPlaced ==
    \A s \in Slab :
        LET h == header[s]
        IN  /\ s \in free_slabs <=> s \notin HeapSlabs /\ h.slice = NoClass
            /\ s \in full_slabs <=> usmm_slab_isfull(h)
            /\ \A c \in Class :
                  s \in slabs[c] <=> h.slice = c /\ ~usmm_slab_isfull(h)

(* Each slice of a cut slab is either in the chain or held by the application,
   never both and never neither; used counts those held, and a slab nothing is
   held of does not stay cut (usmm_slice_free gives it back). *)
SliceAccounts ==
    \A s \in Slab :
        LET h == header[s]
        IN  /\ h.used = Cardinality(slices[s])
            /\ h.free_slice \cap slices[s] = {}
            /\ h.slice \in Class =>
                  /\ h.free_slice \cup slices[s] = 0 .. Total(h.slice) - 1
                  /\ slices[s] # {}
            /\ h.slice = NoClass => h.free_slice \cup slices[s] = {}

(* The two slab counters are the lengths of the lists they count. *)
SlabCountersMatch ==
    /\ stat_free_slabs = Cardinality(free_slabs)
    /\ stat_full_slabs = Cardinality(full_slabs)

(* The counters of each class: its slabs, those of them that are full, and the
   slices in use over all of them. *)
ClassCountersMatch ==
    \A c \in Class :
        LET mine == {s \in Slab : header[s].slice = c}
        IN  /\ stat_slices[c].slabs = Cardinality(mine)
            /\ stat_slices[c].full = Cardinality(mine \cap full_slabs)
            /\ stat_slices[c].used =
                  Cardinality(UNION {{s} \X slices[s] : s \in mine})

(* No counter drifts from what it counts, whatever path a slab or a slice takes:
   the statistics are never recomputed. *)
CountersMatch == SlabCountersMatch /\ ClassCountersMatch

(* A request for a class is refused only when no slab of that class has a
   free slice and every slab is in use: NULL always means out of memory. *)
NullMeansFull ==
    \A c \in Class :
        (\E s \in Slab : \/ slices[s] = {} /\ s \notin HeapSlabs
                         \/ /\ header[s].slice = c
                            /\ slices[s] # 0 .. Total(c) - 1)
        => /\ SlabFor(c) # {}
           /\ Fresh(c) \/ \A s \in slabs[c] : header[s].free_slice # {}

(* No ASSERT of usmm.c, usmm_slab.c or bitmap.c fails, and no list_del meets
   a header that was zeroed, however allocations and frees interleave. *)
NeverDies == ~died

(* While the application holds a slice of a slab, the slab is not cut again
   for another class: the slices it holds keep their size. *)
HeldSlabKeepsClass ==
    [][\A s \in Slab : slices[s] # {} /\ slices'[s] # {}
                          => header'[s].slice = header[s].slice]_vars

-----------------------------------------------------------------------------
(* Usmm implements RegionAlloc: the memory behind the pointers it returns. *)

Cells == 0 .. N * SlabSize - 1

(* The bytes after the length word of a heap block (nlen + 1). *)
HeapCells(b) ==
    b.start * SlabSize + NLenSize .. (b.start + b.num) * SlabSize - 1

(* Slice i of a slab of class c (usmm_slab_create). *)
SliceStart(s, c, i) == s * SlabSize + HeadSize + i * SliceSize[c]

SliceCells(s, c, i) ==
    SliceStart(s, c, i) .. SliceStart(s, c, i) + SliceSize[c] - 1

OwnedRegions ==
    {HeapCells(b) : b \in heaps}
        \cup UNION {{SliceCells(s, header[s].slice, i) : i \in slices[s]}
                        : s \in {t \in Slab : slices[t] # {}}}

Regions == INSTANCE RegionAlloc WITH Cell <- Cells, owned <- OwnedRegions

(* Every step of the memory manager grants one unused region, returns one held
   region, or changes nothing its users hold: no pointer returned overlaps
   another one, byte for byte, and none moves or shrinks while it is held. *)
ImplementsRegionAlloc == Regions!Spec

-----------------------------------------------------------------------------
(* What the documentation says and the code does not do. *)

(* usmm_heap_alloc can give out the largest contiguous block there is
   (README.md:38). *)
LargestRunServed ==
    \A num \in 2 .. N :
        (\E s \in Slab : Run(s, num) \subseteq slab_bitmap)
            => bitmap_find_range(slab_bitmap, num, N) # {}

(* The granule of usmm_heap_alloc is a slab less what the block's own length
   word takes (README.md:37): a block has room for what was asked. *)
BlockHoldsRequest ==
    \A b \in heaps : NLenSize + b.size =< b.num * SlabSize

=============================================================================
