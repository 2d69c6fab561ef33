----------------------------- MODULE UsmmProofs -----------------------------
(***************************************************************************)
(* What holds of Usmm under its documented use, for every number of slabs, *)
(* every set of classes and every set of sizes, and of SizeClass for every *)
(* width of an int that holds the sizes.                                   *)
(***************************************************************************)
EXTENDS Usmm, SizeClass, FiniteSetTheorems, TLAPS

(* The inductive invariant.  None of its parts is inductive alone:
     - that no list_del dies, and that the counters stay exact, needs SlabPlaced
       (a slab whose bit is 0 is in free_slabs while no slice is held);
     - SlabPlaced needs SliceAccounts (a cut slab has a slice in use, so it is
       not taken for an empty one) and LevelsDisjoint (a heap block is not cut);
     - LevelsDisjoint needs BitmapIsHeap (what the bitmap search finds is in no
       block) and the search's soundness, lemma FoundRunFree;
     - BitmapIsHeap needs HeapBlocksDisjoint (freeing one block clears no bit
       of another). *)
IInv ==
    /\ TypeOK
    /\ HeapBlocksDisjoint
    /\ LevelsDisjoint
    /\ BitmapIsHeap
    /\ SlabPlaced
    /\ SliceAccounts
    /\ SlabCountersMatch
    /\ NeverDies

-----------------------------------------------------------------------------
(* The bitmap search. *)

(* A clear byte is eight clear bits (ByteClear's bits are b*8 .. b*8+7). *)
LEMMA ByteClearBits ==
    ASSUME NEW bm, NEW b \in Nat, ByteClear(bm, b),
           NEW i \in Nat, i \div ByteBits = b
    PROVE  i \in bm
<1>1. /\ i = ByteBits * b + (i - ByteBits * b)
      /\ i - ByteBits * b \in 0 .. ByteBits - 1
  BY DEF ByteBits
<1> QED
  BY <1>1 DEF ByteClear, bitmap_test

(* For the sizes of SoundNum, bitmap_find_range answers with a free run. *)
LEMMA FoundRunFree ==
    ASSUME NEW bm, NEW max \in Nat, NEW num \in Nat, SoundNum(num),
           NEW p \in bitmap_find_range(bm, num, max)
    PROVE  p \in Nat /\ Run(p, num) \subseteq bm
<1>1. p \in Hits(bm, num, max)
  BY DEF bitmap_find_range
<1>2. CASE num < ByteBits
  <2>1. p \in ShortHits(bm, num, max)
    BY <1>1, <1>2 DEF Hits
  <2>2. p \in Nat /\ \A k \in 0 .. num - 1 : p + k \in bm
    BY <2>1 DEF ShortHits, bitmap_test, ByteBits
  <2>3. ASSUME NEW i \in Run(p, num) PROVE i \in bm
    <3>1. i - p \in 0 .. num - 1 /\ i = p + (i - p)
      BY <2>2 DEF Run
    <3> QED
      BY <3>1, <2>2
  <2> QED
    BY <2>2, <2>3
<1>3. CASE ~(num < ByteBits)
  <2> DEFINE count == num \div ByteBits
  <2>1. p \in LongHits(bm, num, max)
    BY <1>1, <1>3 DEF Hits
  <2>2. num = ByteBits * count /\ count \in Nat
    BY <1>3 DEF SoundNum, ByteBits
  <2>3. /\ p \in Nat
        /\ p = ByteBits * (p \div ByteBits)
        /\ \A j \in 0 .. count - 1 : ByteClear(bm, p \div ByteBits + j)
    BY <2>1 DEF LongHits, ByteBits
  <2>4. ASSUME NEW i \in Run(p, num) PROVE i \in bm
    <3> DEFINE b == p \div ByteBits
    <3>1. i \in Nat /\ i >= p /\ i < p + ByteBits * count
      BY <2>2, <2>3 DEF Run, ByteBits
    <3>2. b \in Nat /\ p = ByteBits * b
      BY <2>3 DEF ByteBits
    <3>3. i \div ByteBits - b \in 0 .. count - 1
      BY <3>1, <3>2, <2>2 DEF ByteBits
    <3>4. ByteClear(bm, b + (i \div ByteBits - b))
      BY <3>3, <2>3
    <3>5. i \div ByteBits \in Nat /\ b + (i \div ByteBits - b) = i \div ByteBits
      BY <3>1, <3>2 DEF ByteBits
    <3> QED
      BY <3>1, <3>4, <3>5, ByteClearBits
  <2> QED
    BY <2>3, <2>4
<1> QED
  BY <1>2, <1>3

-----------------------------------------------------------------------------
(* Counting. *)

LEMMA RunCardinality ==
    ASSUME NEW start \in Nat, NEW num \in Nat
    PROVE  IsFiniteSet(Run(start, num)) /\ Cardinality(Run(start, num)) = num
BY FS_Interval, start + num - 1 \in Int DEF Run

LEMMA SlabFinite == IsFiniteSet(Slab)
BY FS_Interval, NAssumption DEF Slab

LEMMA CardinalityMinus ==
    ASSUME NEW S, IsFiniteSet(S), NEW T \in SUBSET S
    PROVE  Cardinality(S \ T) = Cardinality(S) - Cardinality(T)
<1>1. S \cap T = T
  OBVIOUS
<1> QED
  BY <1>1, FS_Difference

LEMMA CardinalityPlus ==
    ASSUME NEW S, IsFiniteSet(S), NEW T, IsFiniteSet(T), S \cap T = {}
    PROVE  Cardinality(S \cup T) = Cardinality(S) + Cardinality(T)
<1>1. /\ Cardinality(S \cup T)
            = Cardinality(S) + Cardinality(T) - Cardinality(S \cap T)
      /\ Cardinality(S \cap T) = 0
  BY FS_Union, FS_EmptySet
<1>2. Cardinality(S) \in Nat /\ Cardinality(T) \in Nat
  BY FS_CardinalityType
<1> QED
  BY <1>1, <1>2

LEMMA FirstCardinality ==
    ASSUME NEW n \in Nat
    PROVE  Cardinality(0 .. n - 1) = n
<1>1. Cardinality(0 .. n - 1) = IF 0 > n - 1 THEN 0 ELSE (n - 1) - 0 + 1
  BY FS_Interval, 0 \in Int, n - 1 \in Int
<1> QED
  BY <1>1

LEMMA SlicesFinite ==
    ASSUME NEW c \in Class, NEW S, S \subseteq 0 .. Total(c) - 1
    PROVE  IsFiniteSet(S) /\ Cardinality(S) \in Nat
<1>1. IsFiniteSet(0 .. Total(c) - 1)
  BY FS_Interval, SliceAssumption
<1> QED
  BY <1>1, FS_Subset, FS_CardinalityType

-----------------------------------------------------------------------------
LEMMA InitIInv == Init => IInv
<1> SUFFICES ASSUME Init PROVE IInv
  OBVIOUS
<1> USE DEF Init
<1>1. HeapSlabs = {}
  BY DEF HeapSlabs
<1>2. TypeOK
  <2>1. usmm_slab_init \in Header
    BY DEF usmm_slab_init, Header, Magic
  <2>2. stat_slices \in [Class -> Stat]
    BY DEF Stat
  <2>3. /\ header \in [Slab -> Header]
        /\ stat_free_slabs \in Int /\ stat_full_slabs \in Int
    BY <2>1, NAssumption
  <2>4. /\ slabs \in [Class -> SUBSET Slab]
        /\ slices \in [Slab -> SUBSET SliceIndex]
    OBVIOUS
  <2>5. died \in BOOLEAN
    OBVIOUS
  <2>6. slab_bitmap \subseteq Slab /\ free_slabs \subseteq Slab
    OBVIOUS
  <2>7. full_slabs \subseteq Slab /\ heaps \subseteq Heap
    OBVIOUS
  <2> QED
    BY <2>2, <2>3, <2>4, <2>5, <2>6, <2>7 DEF TypeOK
<1>3. HeapBlocksDisjoint /\ LevelsDisjoint /\ BitmapIsHeap /\ NeverDies
  BY <1>1 DEF HeapBlocksDisjoint, LevelsDisjoint, BitmapIsHeap, NeverDies
<1>4. SlabPlaced
  BY <1>1, ClassAssumption
     DEF SlabPlaced, usmm_slab_isfull, usmm_slab_init
<1>5. SliceAccounts
  BY ClassAssumption, FS_EmptySet DEF SliceAccounts, usmm_slab_init
<1>6. SlabCountersMatch
  <2>1. Cardinality(Slab) = N - 1
    BY FS_Interval, NAssumption DEF Slab
  <2> QED
    BY <2>1, FS_EmptySet DEF SlabCountersMatch
<1> QED
  BY <1>2, <1>3, <1>4, <1>5, <1>6 DEF IInv

-----------------------------------------------------------------------------
(* usmm_heap_alloc, when no slice is held: the run found is on the free list. *)
LEMMA HeapTakeIInv ==
    ASSUME IInv, NEW size \in HeapSizes, HeapAtStart(size),
           NEW start \in bitmap_find_range(slab_bitmap, HeapNum(size), N),
           HeapTake(start, HeapNum(size), size)
    PROVE  IInv'
<1> DEFINE num == HeapNum(size)
           R == Run(start, num)
           b0 == [start |-> start, num |-> num, size |-> size]
<1> USE DEF IInv
<1>1. num \in Nat /\ num > 1
  BY SizeAssumption DEF HeapAtStart, SoundNum, HeapNum
<1>2. start \in Nat /\ R \subseteq slab_bitmap
  BY <1>1, FoundRunFree, NAssumption DEF HeapAtStart
<1>3. slab_bitmap = Slab \ HeapSlabs
  BY DEF BitmapIsHeap
<1>4. start \in R /\ start \in Slab /\ R \subseteq Slab
  BY <1>1, <1>2, <1>3 DEF Run
<1>5. \A s \in Slab : slices[s] = {} /\ header[s].slice = NoClass
  BY ClassAssumption
     DEF HeapAtStart, SliceAccounts, TypeOK, Header
<1>6. free_slabs = Slab \ HeapSlabs
  BY <1>5 DEF SlabPlaced, TypeOK
<1>7. \A s \in Slab : ~usmm_slab_isfull(header[s])
  BY <1>5 DEF usmm_slab_isfull
<1>8. full_slabs = {} /\ \A c \in Class : slabs[c] = {}
  BY <1>5, <1>7, ClassAssumption DEF SlabPlaced, TypeOK
<1>9. HeapSlabs' = HeapSlabs \cup R
  <2>1. heaps' = heaps \cup {b0} /\ Run(b0.start, b0.num) = R
    BY DEF HeapTake
  <2> HIDE DEF b0, R
  <2> QED
    BY <2>1 DEF HeapSlabs
<1>10. TypeOK'
  <2>1. b0 \in Heap
    BY <1>1, <1>4 DEF Heap
  <2>2. header' \in [Slab -> Header]
    BY <1>1 DEF TypeOK, HeapTake, Header, usmm_slab_fini
  <2> QED
    BY <1>1, <2>1, <2>2
       DEF TypeOK, HeapTake, ListDel, bitmap_set_range
<1>11. HeapBlocksDisjoint'
  <2>1. \A b \in heaps : Run(b.start, b.num) \cap R = {}
    BY <1>2, <1>3 DEF HeapSlabs
  <2> QED
    BY <2>1, <1>1, <1>4 DEF HeapBlocksDisjoint, HeapTake
<1>12. LevelsDisjoint'
  BY <1>5, <1>9, <1>4 DEF LevelsDisjoint, HeapTake
<1>13. BitmapIsHeap'
  <2>1. slab_bitmap' = slab_bitmap \ R
    <3>1. slab_bitmap' = bitmap_set_range(slab_bitmap, start, start + num)
      BY DEF HeapTake
    <3> QED
      BY <3>1, <1>1, <1>2 DEF bitmap_set_range, Run
  <2>2. \A b \in heaps : b.start \in HeapSlabs /\ b.start \in Slab
    BY DEF HeapBlocksDisjoint, HeapSlabs, Run, TypeOK, Heap, Slab
  <2>3. \A b \in heaps : header'[b.start].word = b.num
    BY <2>2, <1>2, <1>3 DEF HeapTake, BitmapIsHeap
  <2>4. header'[start].word = num
    BY <1>4 DEF HeapTake, usmm_slab_fini
  <2>5. heaps' = heaps \cup {b0} /\ b0.start = start /\ b0.num = num
    BY DEF HeapTake
  <2>6. slab_bitmap' = Slab \ HeapSlabs'
    BY <2>1, <1>3, <1>9
  <2> HIDE DEF b0, num
  <2> QED
    BY <2>3, <2>4, <2>5, <2>6 DEF BitmapIsHeap
<1>14. \A s \in Slab : header'[s].slice = NoClass /\ header'[s].used = 0
                       /\ header'[s].free_slice = {}
  <2>1. \A s \in Slab : header[s].used = 0 /\ header[s].free_slice = {}
    BY <1>5, FS_EmptySet DEF SliceAccounts
  <2> QED
    BY <2>1, <1>5 DEF HeapTake, usmm_slab_fini
<1>15. SlabPlaced'
  <2>1. free_slabs' = Slab \ HeapSlabs'
    BY <1>6, <1>9 DEF HeapTake, ListDel
  <2>2. full_slabs' = {} /\ \A c \in Class : slabs'[c] = {}
    BY <1>8 DEF HeapTake, ListDel
  <2> QED
    BY <2>1, <2>2, <1>14, ClassAssumption
       DEF SlabPlaced, usmm_slab_isfull
<1>16. SliceAccounts'
  <2>1. \A s \in Slab : slices'[s] = {}
    BY <1>5 DEF HeapTake
  <2> QED
    BY <2>1, <1>14, ClassAssumption, FS_EmptySet DEF SliceAccounts
<1>17. SlabCountersMatch'
  <2>1. R \subseteq free_slabs /\ IsFiniteSet(free_slabs)
    BY <1>2, <1>3, <1>6, SlabFinite, FS_Subset
  <2>2. Cardinality(free_slabs \ R) = Cardinality(free_slabs) - num
    BY <2>1, <1>1, <1>2, CardinalityMinus, RunCardinality
  <2> QED
    BY <2>2, <1>8 DEF SlabCountersMatch, HeapTake, ListDel
<1>18. NeverDies'
  BY DEF NeverDies, HeapTake
<1> QED
  BY <1>10, <1>11, <1>12, <1>13, <1>15, <1>16, <1>17, <1>18

-----------------------------------------------------------------------------
(* usmm_heap_free: the word in front of the block still holds its length. *)
LEMMA HeapFreeIInv ==
    ASSUME IInv, NEW b \in heaps, HeapFree(b)
    PROVE  IInv'
<1> DEFINE R == Run(b.start, b.num)
<1> USE DEF IInv
<1>1. /\ b.start \in Slab /\ b.num \in Nat /\ b.num > 1
      /\ header[b.start].word = b.num
      /\ R \subseteq Slab
  BY DEF TypeOK, Heap, BitmapIsHeap, HeapBlocksDisjoint
<1>2. /\ header' = [s \in Slab |-> IF s \in R THEN usmm_slab_init
                                             ELSE header[s]]
      /\ free_slabs' = free_slabs \cup R
      /\ slab_bitmap' = bitmap_clr_range(slab_bitmap, b.start,
                                         b.start + b.num)
      /\ stat_free_slabs' = stat_free_slabs + b.num
      /\ heaps' = heaps \ {b}
      /\ UNCHANGED <<full_slabs, slabs, stat_full_slabs, stat_slices,
                     slices, died>>
  BY <1>1 DEF HeapFree
<1>3. b.start \in Nat /\ slab_bitmap' = slab_bitmap \cup R
  BY <1>1, <1>2 DEF bitmap_clr_range, Run, Slab
<1>4. R \subseteq HeapSlabs
  BY DEF HeapSlabs
<1>5. \A a \in heaps' : /\ Run(a.start, a.num) \cap R = {}
                        /\ a \in heaps /\ a.start \notin R
  <2>1. \A a \in heaps : a.start \in Run(a.start, a.num)
    BY DEF Run, HeapBlocksDisjoint, TypeOK, Heap, Slab
  <2> QED
    BY <2>1, <1>2 DEF HeapBlocksDisjoint
<1>6. HeapSlabs' = HeapSlabs \ R
  BY <1>2, <1>5 DEF HeapSlabs
<1>7. \A s \in R : slices[s] = {} /\ header[s].slice = NoClass
  BY <1>1, <1>4, ClassAssumption
     DEF LevelsDisjoint, SliceAccounts, TypeOK, Header
<1>8. \A s \in R : /\ s \notin free_slabs /\ s \notin full_slabs
                   /\ \A c \in Class : s \notin slabs[c]
  BY <1>1, <1>4, <1>7, ClassAssumption DEF SlabPlaced, usmm_slab_isfull
<1>9. TypeOK'
  <2>1. usmm_slab_init \in Header
    BY DEF usmm_slab_init, Header, Magic
  <2>2. header' \in [Slab -> Header]
    BY <1>2, <2>1 DEF TypeOK
  <2> QED
    BY <2>2, <1>1, <1>2, <1>3 DEF TypeOK
<1>10. HeapBlocksDisjoint'
  BY <1>2, <1>5 DEF HeapBlocksDisjoint
<1>11. LevelsDisjoint'
  BY <1>2, <1>6 DEF LevelsDisjoint
<1>12. BitmapIsHeap'
  <2>1. slab_bitmap' = Slab \ HeapSlabs'
    BY <1>1, <1>3, <1>4, <1>6 DEF BitmapIsHeap
  <2>2. \A a \in heaps' : a.start \in Slab
    BY <1>5 DEF TypeOK, Heap
  <2>3. \A a \in heaps' : header'[a.start].word = a.num
    BY <2>2, <1>2, <1>5 DEF BitmapIsHeap
  <2> QED
    BY <2>1, <2>3 DEF BitmapIsHeap
<1>13. /\ \A s \in R : header'[s] = usmm_slab_init
       /\ \A s \in Slab \ R : header'[s] = header[s]
  BY <1>1, <1>2
<1>14. SlabPlaced'
  <2>1. ASSUME NEW s \in Slab
        PROVE  /\ s \in free_slabs' <=> /\ s \notin HeapSlabs'
                                        /\ header'[s].slice = NoClass
               /\ s \in full_slabs' <=> usmm_slab_isfull(header'[s])
               /\ \A c \in Class : s \in slabs'[c] <=>
                    header'[s].slice = c /\ ~usmm_slab_isfull(header'[s])
    <3>1. CASE s \in R
      BY <3>1, <1>2, <1>6, <1>8, <1>13, ClassAssumption
         DEF usmm_slab_init, usmm_slab_isfull
    <3>2. CASE s \notin R
      BY <3>2, <1>2, <1>6, <1>13 DEF SlabPlaced
    <3> QED
      BY <3>1, <3>2
  <2> QED
    BY <2>1 DEF SlabPlaced
<1>15. SliceAccounts'
  <2>1. ASSUME NEW s \in R
        PROVE  /\ slices'[s] = {} /\ header'[s].used = 0
               /\ header'[s].free_slice = {} /\ header'[s].slice = NoClass
    BY <1>2, <1>7, <1>13 DEF usmm_slab_init
  <2> QED
    BY <2>1, <1>2, <1>13, FS_EmptySet, ClassAssumption DEF SliceAccounts
<1>16. SlabCountersMatch'
  <2>1. IsFiniteSet(free_slabs) /\ free_slabs \cap R = {}
    BY <1>8, SlabFinite, FS_Subset DEF TypeOK
  <2>2. IsFiniteSet(R) /\ Cardinality(R) = b.num
    BY <1>1, <1>3, RunCardinality
  <2>3. Cardinality(free_slabs \cup R) = Cardinality(free_slabs) + b.num
    BY <2>1, <2>2, CardinalityPlus
  <2> QED
    BY <2>3, <1>2 DEF SlabCountersMatch
<1>17. NeverDies'
  BY <1>2 DEF NeverDies
<1> QED
  BY <1>9, <1>10, <1>11, <1>12, <1>14, <1>15, <1>16, <1>17

-----------------------------------------------------------------------------
(* The state of the slab usmm_slice_alloc serves from: it is in no heap block,
   not full, and its chain is not empty. *)
LEMMA SlabForFacts ==
    ASSUME IInv, NEW c \in Class, NEW s \in SlabFor(c), NEW h,
           h = IF Fresh(c) THEN usmm_slab_create(header[s], c) ELSE header[s]
    PROVE  /\ s \in Slab /\ s \notin HeapSlabs /\ s \notin full_slabs
           /\ h \in Header /\ h.slice = c /\ h.word = header[s].word
           /\ h.free_slice \cap slices[s] = {}
           /\ h.free_slice \cup slices[s] = 0 .. Total(c) - 1
           /\ h.used = Cardinality(slices[s])
           /\ h.free_slice # {}
           /\ Fresh(c) => s \in free_slabs /\ header[s].slice = NoClass
           /\ ~Fresh(c) => s \in slabs[c] /\ header[s].slice = c
<1> USE DEF IInv
<1>1. Total(c) \in Nat /\ Total(c) >= 2
  BY SliceAssumption
<1>2. CASE Fresh(c)
  <2>1. s \in free_slabs /\ s \in Slab
    BY <1>2 DEF SlabFor, TypeOK
  <2>2. header[s].slice = NoClass /\ s \notin HeapSlabs
    BY <2>1 DEF SlabPlaced
  <2>3. header[s] \in Header
    BY <2>1 DEF TypeOK
  <2>4. s \notin full_slabs
    BY <2>1, <2>2 DEF SlabPlaced, usmm_slab_isfull
  <2>5. slices[s] = {} /\ header[s].used = Cardinality(slices[s])
    BY <2>1, <2>2 DEF SliceAccounts
  <2>6. 0 .. Total(c) - 1 \in SUBSET SliceIndex
    BY DEF SliceIndex
  <2>7. /\ h \in Header /\ h.slice = c /\ h.word = header[s].word
        /\ h.used = header[s].used /\ h.free_slice = 0 .. Total(c) - 1
    BY <1>2, <2>3, <2>6 DEF usmm_slab_create, Header
  <2>8. 0 \in 0 .. Total(c) - 1
    BY <1>1
  <2> QED
    BY <1>2, <2>1, <2>2, <2>4, <2>5, <2>7, <2>8
<1>3. CASE ~Fresh(c)
  <2>1. s \in slabs[c] /\ s \in Slab /\ h = header[s]
    BY <1>3 DEF SlabFor, TypeOK
  <2>2. h.slice = c /\ ~usmm_slab_isfull(h)
    BY <2>1 DEF SlabPlaced
  <2>3. /\ h.used = Cardinality(slices[s])
        /\ h.free_slice \cap slices[s] = {}
        /\ h.free_slice \cup slices[s] = 0 .. Total(c) - 1
        /\ slices[s] # {}
    BY <2>1, <2>2 DEF SliceAccounts
  <2>4. s \notin HeapSlabs
    BY <2>3 DEF LevelsDisjoint
  <2>5. s \notin full_slabs /\ h \in Header
    BY <2>1, <2>2 DEF SlabPlaced, TypeOK
  <2>6. h.free_slice # {}
    <3>1. SUFFICES ASSUME h.free_slice = {} PROVE FALSE
      OBVIOUS
    <3>2. slices[s] = 0 .. Total(c) - 1
      BY <3>1, <2>3
    <3>3. Cardinality(slices[s]) = Total(c)
      BY <3>2, <1>1, FirstCardinality
    <3> QED
      BY <3>3, <2>2, <2>3, <1>1, ClassAssumption DEF usmm_slab_isfull
  <2> QED
    BY <1>3, <2>1, <2>2, <2>3, <2>4, <2>5, <2>6
<1> QED
  BY <1>2, <1>3

(* usmm_slice_alloc when a slab is found: one slice leaves the chain. *)
LEMMA SliceTakeIInv ==
    ASSUME IInv, NEW c \in Class, NEW s \in SlabFor(c),
           NEW ptr \in Popped(IF Fresh(c) THEN usmm_slab_create(header[s], c)
                                          ELSE header[s]),
           SliceTake(c, s, ptr)
    PROVE  IInv'
<1> DEFINE h == IF Fresh(c) THEN usmm_slab_create(header[s], c) ELSE header[s]
           g == usmm_slab_alloc(h, ptr)
           isfull == usmm_slab_isfull(g)
<1> USE DEF IInv
<1>1. /\ s \in Slab /\ s \notin HeapSlabs /\ s \notin full_slabs
      /\ h \in Header /\ h.slice = c /\ h.word = header[s].word
      /\ h.free_slice \cap slices[s] = {}
      /\ h.free_slice \cup slices[s] = 0 .. Total(c) - 1
      /\ h.used = Cardinality(slices[s])
      /\ h.free_slice # {}
      /\ Fresh(c) => s \in free_slabs /\ header[s].slice = NoClass
      /\ ~Fresh(c) => s \in slabs[c] /\ header[s].slice = c
  BY SlabForFacts
<1>2. Total(c) \in Nat /\ Total(c) >= 2
  BY SliceAssumption
<1>3. ptr \in h.free_slice /\ ptr \in 0 .. Total(c) - 1 /\ ptr # NULL
  BY <1>1 DEF Popped, NULL
<1> HIDE DEF h
<1>4. /\ g \in Header /\ g.slice = c /\ g.word = header[s].word
      /\ g.used = h.used + 1 /\ g.free_slice = h.free_slice \ {ptr}
  <2>1. g = [h EXCEPT !.used = @ + 1, !.free_slice = @ \ {ptr}]
    BY <1>3 DEF usmm_slab_alloc
  <2>2. /\ g.used = h.used + 1 /\ g.free_slice = h.free_slice \ {ptr}
        /\ g.slice = h.slice /\ g.word = h.word
    BY <2>1, <1>1 DEF Header
  <2>3. g \in Header
    <3>1. /\ h.word \in Int /\ h.slice \in Class \cup {NoClass}
          /\ h.used \in Int /\ h.free_slice \in SUBSET SliceIndex
      BY <1>1 DEF Header
    <3>2. /\ h.used + 1 \in Int
          /\ h.free_slice \ {ptr} \in SUBSET SliceIndex
      BY <3>1
    <3>3. g = [word |-> h.word, slice |-> h.slice, used |-> h.used + 1,
               free_slice |-> h.free_slice \ {ptr}]
      BY <2>1, <1>1 DEF Header
    <3> QED
      BY <3>1, <3>2, <3>3 DEF Header
  <2> QED
    BY <2>2, <2>3, <1>1
<1>5. /\ header' = [header EXCEPT ![s] = g]
      /\ free_slabs' = IF Fresh(c) THEN free_slabs \ {s} ELSE free_slabs
      /\ slabs' = [slabs EXCEPT ![c] = IF isfull THEN @ \ {s} ELSE @ \cup {s}]
      /\ full_slabs' = IF isfull THEN full_slabs \cup {s} ELSE full_slabs
      /\ stat_free_slabs' = stat_free_slabs - (IF Fresh(c) THEN 1 ELSE 0)
      /\ stat_full_slabs' = stat_full_slabs + (IF isfull THEN 1 ELSE 0)
      /\ slices' = [slices EXCEPT ![s] = @ \cup {ptr}]
      /\ UNCHANGED <<slab_bitmap, heaps, died>>
  <2>1. CASE isfull
    BY <2>1, <1>3 DEF SliceTake, h
  <2>2. CASE ~isfull
    BY <2>2, <1>3 DEF SliceTake, h
  <2> QED
    BY <2>1, <2>2
<1>6. stat_slices' \in [Class -> Stat]
  BY DEF SliceTake, TypeOK, Stat
<1> HIDE DEF g, isfull
<1>7. HeapSlabs' = HeapSlabs
  BY <1>5 DEF HeapSlabs
<1>8. /\ header'[s] = g /\ slices'[s] = slices[s] \cup {ptr}
      /\ \A t \in Slab \ {s} : header'[t] = header[t] /\ slices'[t] = slices[t]
  BY <1>1, <1>5 DEF TypeOK
<1>9. TypeOK'
  <2>1. slices' \in [Slab -> SUBSET SliceIndex]
    <3>1. ptr \in SliceIndex
      BY <1>3 DEF SliceIndex
    <3> QED
      BY <3>1, <1>5 DEF TypeOK
  <2>2. header' \in [Slab -> Header]
    BY <1>4, <1>5 DEF TypeOK
  <2>3. slabs' \in [Class -> SUBSET Slab]
    BY <1>1, <1>5 DEF TypeOK
  <2> QED
    BY <1>1, <1>5, <1>6, <2>1, <2>2, <2>3 DEF TypeOK
<1>10. HeapBlocksDisjoint' /\ NeverDies'
  BY <1>5 DEF HeapBlocksDisjoint, NeverDies
<1>11. LevelsDisjoint'
  BY <1>1, <1>7, <1>8 DEF LevelsDisjoint, HeapSlabs, HeapBlocksDisjoint
<1>12. BitmapIsHeap'
  <2>1. \A b \in heaps : b.start \in Slab
    BY DEF TypeOK, Heap
  <2>2. \A b \in heaps : header'[b.start].word = header[b.start].word
    BY <2>1, <1>4, <1>8
  <2> QED
    BY <2>2, <1>5, <1>7 DEF BitmapIsHeap
<1>13. isfull <=> g.used = Total(c)
  BY <1>1, <1>2, <1>4, ClassAssumption DEF isfull, usmm_slab_isfull
<1>14. SlabPlaced'
  <2>1. ASSUME NEW t \in Slab
        PROVE  /\ t \in free_slabs' <=> /\ t \notin HeapSlabs'
                                        /\ header'[t].slice = NoClass
               /\ t \in full_slabs' <=> usmm_slab_isfull(header'[t])
               /\ \A d \in Class : t \in slabs'[d] <=>
                    header'[t].slice = d /\ ~usmm_slab_isfull(header'[t])
    <3>1. CASE t = s
      <4>1. s \notin free_slabs'
        BY <1>1, <1>5, ClassAssumption DEF SlabPlaced
      <4>2. s \in full_slabs' <=> isfull
        BY <1>1, <1>5
      <4>3. \A d \in Class \ {c} : s \notin slabs[d]
        BY <1>1, ClassAssumption DEF SlabPlaced
      <4>4. \A d \in Class : s \in slabs'[d] <=> d = c /\ ~isfull
        BY <1>5, <4>3 DEF TypeOK
      <4> QED
        BY <3>1, <4>1, <4>2, <4>4, <1>4, <1>8, ClassAssumption DEF isfull
    <3>2. CASE t # s
      <4>1. \A d \in Class : t \in slabs'[d] <=> t \in slabs[d]
        BY <3>2, <1>5 DEF TypeOK
      <4>2. /\ t \in free_slabs' <=> t \in free_slabs
            /\ t \in full_slabs' <=> t \in full_slabs
        BY <3>2, <1>5
      <4> QED
        BY <3>2, <4>1, <4>2, <1>7, <1>8 DEF SlabPlaced
    <3> QED
      BY <3>1, <3>2
  <2> QED
    BY <2>1 DEF SlabPlaced
<1>15. IsFiniteSet(slices[s]) /\ Cardinality(slices[s]) \in Nat
  BY <1>1, SlicesFinite
<1>16. Cardinality(slices'[s]) = Cardinality(slices[s]) + 1
  <2>1. ptr \notin slices[s]
    BY <1>1, <1>3
  <2> QED
    BY <2>1, <1>8, <1>15, FS_AddElement, ZenonT(60)
<1>17. SliceAccounts'
  <2>1. /\ header'[s].used = Cardinality(slices'[s])
        /\ header'[s].free_slice \cap slices'[s] = {}
        /\ header'[s].slice = c /\ c # NoClass
        /\ header'[s].free_slice \cup slices'[s] = 0 .. Total(c) - 1
        /\ slices'[s] # {}
    BY <1>1, <1>3, <1>4, <1>8, <1>16, ClassAssumption
  <2> QED
    BY <2>1, <1>8 DEF SliceAccounts
<1>18. SlabCountersMatch'
  <2>1. IsFiniteSet(free_slabs) /\ IsFiniteSet(full_slabs)
    BY SlabFinite, FS_Subset DEF TypeOK
  <2>2. Fresh(c) => Cardinality(free_slabs \ {s}) = Cardinality(free_slabs) - 1
    BY <2>1, <1>1, FS_RemoveElement
  <2>3. Cardinality(full_slabs \cup {s}) = Cardinality(full_slabs) + 1
    BY <2>1, <1>1, FS_AddElement
  <2>4. stat_free_slabs' = Cardinality(free_slabs')
    <3>1. CASE Fresh(c)
      BY <3>1, <2>2, <1>5 DEF SlabCountersMatch
    <3>2. CASE ~Fresh(c)
      BY <3>2, <1>5 DEF SlabCountersMatch, TypeOK
    <3> QED
      BY <3>1, <3>2
  <2>5. stat_full_slabs' = Cardinality(full_slabs')
    <3>1. CASE isfull
      BY <3>1, <2>3, <1>5 DEF SlabCountersMatch
    <3>2. CASE ~isfull
      BY <3>2, <1>5 DEF SlabCountersMatch, TypeOK
    <3> QED
      BY <3>1, <3>2
  <2> QED
    BY <2>4, <2>5 DEF SlabCountersMatch
<1> QED
  BY <1>9, <1>10, <1>11, <1>12, <1>14, <1>17, <1>18

-----------------------------------------------------------------------------
(* What usmm_slice_free finds in the header of a held slice's slab. *)
LEMMA HeldSlabFacts ==
    ASSUME IInv, NEW s \in Slab, NEW ptr \in slices[s], NEW h, h = header[s]
    PROVE  /\ h \in Header /\ h.slice \in Class /\ h.used # 0
           /\ s \notin HeapSlabs /\ s \notin free_slabs
           /\ h.used = Cardinality(slices[s])
           /\ h.free_slice \cap slices[s] = {}
           /\ h.free_slice \cup slices[s] = 0 .. Total(h.slice) - 1
           /\ IsFiniteSet(slices[s])
           /\ s \in full_slabs <=> usmm_slab_isfull(h)
<1> USE DEF IInv
<1>1. h \in Header
  BY DEF TypeOK
<1>2. h.slice \in Class
  BY <1>1 DEF SliceAccounts, Header
<1>3. /\ h.used = Cardinality(slices[s])
      /\ h.free_slice \cap slices[s] = {}
      /\ h.free_slice \cup slices[s] = 0 .. Total(h.slice) - 1
  BY <1>2 DEF SliceAccounts
<1>4. IsFiniteSet(slices[s])
  BY <1>2, <1>3, SlicesFinite
<1>5. h.used # 0
  BY <1>3, <1>4, FS_EmptySet
<1>6. s \notin HeapSlabs
  BY DEF LevelsDisjoint
<1>7. s \notin free_slabs /\ (s \in full_slabs <=> usmm_slab_isfull(h))
  BY <1>2, ClassAssumption DEF SlabPlaced
<1> QED
  BY <1>1, <1>2, <1>3, <1>4, <1>5, <1>6, <1>7

(* usmm_slice_free: the slab leaves full_slabs, or the heap of cut slabs. *)
LEMMA SliceGiveIInv ==
    ASSUME IInv, NEW s \in Slab, NEW ptr \in slices[s], SliceGive(s, ptr)
    PROVE  IInv'
<1> DEFINE h == header[s]
           c == h.slice
           g == usmm_slab_free(h, ptr)
           isfull == usmm_slab_isfull(h)
           isempty == ~isfull /\ g.used = 0
           gone == IF isempty THEN usmm_slab_init ELSE g
<1> USE DEF IInv
<1>1. /\ h \in Header /\ c \in Class /\ h.used # 0
      /\ s \notin HeapSlabs /\ s \notin free_slabs
      /\ h.used = Cardinality(slices[s])
      /\ h.free_slice \cap slices[s] = {}
      /\ h.free_slice \cup slices[s] = 0 .. Total(c) - 1
      /\ IsFiniteSet(slices[s])
      /\ s \in full_slabs <=> isfull
  BY HeldSlabFacts
<1>2. Total(c) \in Nat /\ Total(c) >= 2 /\ c # NoClass
  BY <1>1, SliceAssumption, ClassAssumption
<1>3. /\ g \in Header /\ g.slice = c /\ g.word = h.word
      /\ g.used = h.used - 1 /\ g.free_slice = h.free_slice \cup {ptr}
  <2>1. /\ h.word \in Int /\ h.slice \in Class \cup {NoClass}
        /\ h.used \in Int /\ h.free_slice \in SUBSET SliceIndex
    BY <1>1 DEF Header
  <2>2. ptr \in SliceIndex
    BY DEF TypeOK
  <2>3. /\ h.used - 1 \in Int
        /\ h.free_slice \cup {ptr} \in SUBSET SliceIndex
    BY <2>1, <2>2
  <2>4. g = [word |-> h.word, slice |-> h.slice, used |-> h.used - 1,
             free_slice |-> h.free_slice \cup {ptr}]
    <3>1. g = [h EXCEPT !.used = @ - 1, !.free_slice = @ \cup {ptr}]
      BY DEF usmm_slab_free
    <3> HIDE DEF h, g
    <3> QED
      BY <3>1, <1>1 DEF Header
  <2> HIDE DEF h, g
  <2> QED
    BY <2>1, <2>3, <2>4, <1>1 DEF Header
<1>4. /\ header' = [header EXCEPT ![s] = gone]
      /\ free_slabs' = IF isempty THEN free_slabs \cup {s} ELSE free_slabs
      /\ slabs' = [slabs EXCEPT ![c] = IF isfull THEN @ \cup {s}
                                       ELSE IF isempty THEN @ \ {s} ELSE @]
      /\ full_slabs' = IF isfull THEN full_slabs \ {s} ELSE full_slabs
      /\ stat_free_slabs' = stat_free_slabs + (IF isempty THEN 1 ELSE 0)
      /\ stat_full_slabs' = stat_full_slabs - (IF isfull THEN 1 ELSE 0)
      /\ slices' = [slices EXCEPT ![s] = @ \ {ptr}]
      /\ UNCHANGED <<slab_bitmap, heaps, died>>
  <2>1. CASE isfull
    BY <2>1 DEF SliceGive
  <2>2. CASE ~isfull /\ g.used = 0
    BY <2>2 DEF SliceGive, usmm_slab_isempty
  <2>3. CASE ~isfull /\ g.used # 0
    BY <2>3 DEF SliceGive, usmm_slab_isempty
  <2> QED
    BY <2>1, <2>2, <2>3
<1>5. stat_slices' \in [Class -> Stat]
  BY <1>1 DEF SliceGive, TypeOK, Stat
<1>6. isfull <=> h.used = Total(c)
  BY <1>1, <1>2 DEF usmm_slab_isfull
<1>7. ~usmm_slab_isfull(g)
  <2>1. Cardinality(slices[s]) =< Total(c)
    <3>1. slices[s] \in SUBSET (0 .. Total(c) - 1)
      BY <1>1
    <3>2. Cardinality(0 .. Total(c) - 1) = Total(c)
      BY <1>2, FirstCardinality
    <3>3. IsFiniteSet(0 .. Total(c) - 1)
      BY <1>2, FS_Interval
    <3> QED
      BY <3>1, <3>2, <3>3, FS_Subset, ZenonT(60)
  <2>2. Cardinality(slices[s]) \in Nat
    BY <1>1, FS_CardinalityType
  <2> QED
    BY <2>1, <2>2, <1>1, <1>2, <1>3 DEF usmm_slab_isfull
<1>8. gone \in Header /\ ~usmm_slab_isfull(gone)
  <2>1. usmm_slab_init \in Header /\ ~usmm_slab_isfull(usmm_slab_init)
    BY DEF usmm_slab_init, Header, Magic, usmm_slab_isfull
  <2> QED
    BY <2>1, <1>3, <1>7
<1>9. gone.slice = IF isempty THEN NoClass ELSE c
  BY <1>3 DEF usmm_slab_init
<1> HIDE DEF h, g, isfull, gone
<1>10. HeapSlabs' = HeapSlabs
  BY <1>4 DEF HeapSlabs
<1>11. /\ header'[s] = gone /\ slices'[s] = slices[s] \ {ptr}
       /\ \A t \in Slab \ {s} : header'[t] = header[t] /\ slices'[t] = slices[t]
  BY <1>4 DEF TypeOK
<1>12. TypeOK'
  <2>1. slices' \in [Slab -> SUBSET SliceIndex]
    BY <1>4 DEF TypeOK
  <2>2. header' \in [Slab -> Header]
    BY <1>8, <1>4 DEF TypeOK
  <2>3. slabs' \in [Class -> SUBSET Slab]
    BY <1>1, <1>4 DEF TypeOK
  <2> QED
    BY <1>4, <1>5, <2>1, <2>2, <2>3 DEF TypeOK
<1>13. HeapBlocksDisjoint' /\ NeverDies'
  BY <1>4 DEF HeapBlocksDisjoint, NeverDies
<1>14. LevelsDisjoint'
  BY <1>1, <1>10, <1>11 DEF LevelsDisjoint, HeapSlabs, HeapBlocksDisjoint
<1>15. BitmapIsHeap'
  <2>1. \A b \in heaps : b.start \in Slab /\ b.start \in HeapSlabs
    BY DEF TypeOK, Heap, HeapBlocksDisjoint, HeapSlabs, Run, Slab
  <2>2. \A b \in heaps : header'[b.start].word = header[b.start].word
    BY <2>1, <1>1, <1>11
  <2> QED
    BY <2>2, <1>4, <1>10 DEF BitmapIsHeap
<1>16. SlabPlaced'
  <2>1. ASSUME NEW t \in Slab
        PROVE  /\ t \in free_slabs' <=> /\ t \notin HeapSlabs'
                                        /\ header'[t].slice = NoClass
               /\ t \in full_slabs' <=> usmm_slab_isfull(header'[t])
               /\ \A d \in Class : t \in slabs'[d] <=>
                    header'[t].slice = d /\ ~usmm_slab_isfull(header'[t])
    <3>1. CASE t = s
      <4>1. s \in free_slabs' <=> isempty
        BY <1>1, <1>4
      <4>2. s \notin full_slabs'
        BY <1>1, <1>4
      <4>3. \A d \in Class : s \in slabs[d] <=> d = c /\ ~isfull
        BY <1>1 DEF SlabPlaced, h, isfull
      <4>4. \A d \in Class : s \in slabs'[d] <=> d = c /\ ~isempty
        BY <1>1, <1>4, <4>3 DEF TypeOK
      <4> QED
        BY <3>1, <4>1, <4>2, <4>4, <1>1, <1>2, <1>8, <1>9, <1>10, <1>11,
           ClassAssumption
    <3>2. CASE t # s
      <4>1. \A d \in Class : t \in slabs'[d] <=> t \in slabs[d]
        BY <3>2, <1>4 DEF TypeOK
      <4>2. /\ t \in free_slabs' <=> t \in free_slabs
            /\ t \in full_slabs' <=> t \in full_slabs
        BY <3>2, <1>4
      <4> QED
        BY <3>2, <4>1, <4>2, <1>10, <1>11 DEF SlabPlaced
    <3> QED
      BY <3>1, <3>2
  <2> QED
    BY <2>1 DEF SlabPlaced
<1>17. Cardinality(slices'[s]) = h.used - 1 /\ IsFiniteSet(slices'[s])
  BY <1>1, <1>11, FS_RemoveElement
<1>18. isempty <=> slices'[s] = {}
  <2>1. g.used = 0 <=> slices'[s] = {}
    BY <1>3, <1>17, FS_EmptySet
  <2>2. isfull => g.used # 0
    BY <1>2, <1>3, <1>6
  <2> QED
    BY <2>1, <2>2
<1>19. SliceAccounts'
  <2>1. /\ header'[s].used = Cardinality(slices'[s])
        /\ header'[s].free_slice \cap slices'[s] = {}
        /\ header'[s].slice \in Class =>
              /\ header'[s].free_slice \cup slices'[s]
                    = 0 .. Total(header'[s].slice) - 1
              /\ slices'[s] # {}
        /\ header'[s].slice = NoClass
              => header'[s].free_slice \cup slices'[s] = {}
    <3>1. CASE isempty
      <4>1. gone = usmm_slab_init
        BY <3>1 DEF gone
      <4> QED
        <5>1. slices'[s] = {} /\ Cardinality(slices'[s]) = 0
          BY <3>1, <1>18, FS_EmptySet
        <5>2. /\ header'[s].slice = NoClass /\ header'[s].used = 0
              /\ header'[s].free_slice = {}
          BY <4>1, <1>11 DEF usmm_slab_init
        <5> QED
          BY <5>1, <5>2, ClassAssumption
    <3>2. CASE ~isempty
      <4>1. gone = g
        BY <3>2 DEF gone
      <4> QED
        BY <4>1, <3>2, <1>1, <1>2, <1>3, <1>11, <1>17, <1>18
    <3> QED
      BY <3>1, <3>2
  <2> QED
    BY <2>1, <1>11 DEF SliceAccounts
<1>20. SlabCountersMatch'
  <2>1. IsFiniteSet(free_slabs) /\ IsFiniteSet(full_slabs)
    BY SlabFinite, FS_Subset DEF TypeOK
  <2>2. Cardinality(free_slabs \cup {s}) = Cardinality(free_slabs) + 1
    BY <2>1, <1>1, FS_AddElement
  <2>3. isfull => Cardinality(full_slabs \ {s}) = Cardinality(full_slabs) - 1
    BY <2>1, <1>1, FS_RemoveElement
  <2>4. stat_free_slabs' = Cardinality(free_slabs')
    <3>1. CASE isempty
      BY <3>1, <2>2, <1>4 DEF SlabCountersMatch
    <3>2. CASE ~isempty
      BY <3>2, <1>4 DEF SlabCountersMatch, TypeOK
    <3> QED
      BY <3>1, <3>2
  <2>5. stat_full_slabs' = Cardinality(full_slabs')
    <3>1. CASE isfull
      BY <3>1, <2>3, <1>4 DEF SlabCountersMatch
    <3>2. CASE ~isfull
      BY <3>2, <1>4 DEF SlabCountersMatch, TypeOK
    <3> QED
      BY <3>1, <3>2
  <2> QED
    BY <2>4, <2>5 DEF SlabCountersMatch
<1> QED
  BY <1>12, <1>13, <1>14, <1>15, <1>16, <1>19, <1>20

-----------------------------------------------------------------------------
(* Every step of the documented use preserves the invariant. *)
LEMMA StepIInv == IInv /\ [DocNext]_vars => IInv'
<1> SUFFICES ASSUME IInv, [DocNext]_vars PROVE IInv'
  OBVIOUS
<1>1. CASE UNCHANGED vars
  BY <1>1
     DEF IInv, TypeOK, HeapBlocksDisjoint, LevelsDisjoint, BitmapIsHeap,
         HeapSlabs, SlabPlaced, SliceAccounts, SlabCountersMatch, NeverDies,
         vars, lists, stats, app
<1>2. ASSUME NEW size \in HeapSizes, HeapAtStart(size), HeapAlloc(size)
      PROVE  IInv'
  <2> DEFINE num == HeapNum(size)
             found == bitmap_find_range(slab_bitmap, num, N)
  <2>1. HeapAssert(size) /\ num \in Nat
    BY <1>2, SizeAssumption DEF HeapAtStart, SoundNum, HeapAssert, HeapNum
  <2>2. CASE UNCHANGED vars
    BY <2>2, <1>1
  <2>3. ASSUME NEW start \in found, NEW dies \in ListDelDies(Run(start, num)),
               IF dies THEN Die ELSE HeapTake(start, num, size)
        PROVE  IInv'
    <3>1. Run(start, num) \subseteq slab_bitmap
      BY <1>2, <2>1, FoundRunFree, NAssumption DEF HeapAtStart
    <3>2. \A s \in Run(start, num) :
             s \in Slab /\ s \notin HeapSlabs /\ slices[s] = {}
      BY <3>1, <1>2 DEF IInv, BitmapIsHeap, HeapAtStart
    <3>3. \A s \in Run(start, num) : header[s].slice = NoClass
      BY <3>2 DEF IInv, SliceAccounts, TypeOK, Header
    <3>4. \A s \in Run(start, num) : Linked(s) /\ s \notin HeapSlabs
      BY <3>2, <3>3 DEF IInv, SlabPlaced, Linked
    <3>5. ~dies
      BY <3>4 DEF ListDelDies
    <3> QED
      BY <3>4, <3>5, <2>3, <1>2, HeapTakeIInv
  <2> QED
    BY <2>1, <2>2, <2>3, <1>2 DEF HeapAlloc
<1>3. ASSUME NEW c \in Class, SliceAlloc(c) PROVE IInv'
  BY <1>1, <1>3, SliceTakeIInv DEF SliceAlloc
<1>4. ASSUME NEW b \in heaps, HeapFree(b) PROVE IInv'
  BY <1>4, HeapFreeIInv
<1>5. ASSUME NEW s \in Slab, NEW ptr \in slices[s], SliceFree(s, ptr)
      PROVE  IInv'
  <2>1. header[s].slice # NoClass /\ header[s].used # 0
    BY HeldSlabFacts, ClassAssumption
  <2> QED
    BY <2>1, <1>5, SliceGiveIInv DEF SliceFree, SliceAssert
<1> QED
  BY <1>1, <1>2, <1>3, <1>4, <1>5 DEF DocNext, FreeSome

(* Every state usmm_init, usmm_heap_alloc, usmm_heap_free, usmm_slice_alloc and
   usmm_slice_free can reach in documented use satisfies the inductive
   invariant; the theorems below read their property off it. *)
THEOREM Invariance == DocSpec => []IInv
<1>1. Init => IInv
  BY InitIInv
<1>2. IInv /\ [DocNext]_vars => IInv'
  BY StepIInv
<1> QED
  BY <1>1, <1>2, PTL DEF DocSpec

(* Every variable keeps its type: no counter of usmm_init, usmm_heap_alloc,
   usmm_heap_free, usmm_slice_alloc or usmm_slice_free leaves the integers, no
   slab outside 1 .. N - 1 enters a list. *)
THEOREM TypeCorrect == DocSpec => []TypeOK
BY Invariance, PTL DEF IInv

(* usmm never gives out one slab twice: the blocks of usmm_heap_alloc are
   disjoint, and none of their slabs is cut into slices that are held. *)
THEOREM NoSlabGivenTwice == DocSpec => [](HeapBlocksDisjoint /\ LevelsDisjoint)
BY Invariance, PTL DEF IInv

(* The bitmap is 1 exactly for the slabs of heap blocks (and the controller),
   and usmm_heap_free reads back the length usmm_heap_alloc wrote. *)
THEOREM BitmapExact == DocSpec => []BitmapIsHeap
BY Invariance, PTL DEF IInv

(* Slabs are in the list they belong to and in no other. *)
THEOREM ListsExact == DocSpec => []SlabPlaced
BY Invariance, PTL DEF IInv

(* Each slice of a slab usmm_slab_create has cut is either in its chain or held,
   and used counts those held. *)
THEOREM SlicesAccounted == DocSpec => []SliceAccounts
BY Invariance, PTL DEF IInv

(* The slab counters that usmm_stat prints are the lengths of the lists. *)
THEOREM CountersExact == DocSpec => []SlabCountersMatch
BY Invariance, PTL DEF IInv

(* No ASSERT of the manager fails in documented use, and list_del never meets
   a header that usmm_slab_fini has cleared. *)
THEOREM AssertsHold == DocSpec => []NeverDies
BY Invariance, PTL DEF IInv

-----------------------------------------------------------------------------
(* Refusals. *)

LEMMA NullMeansFullIInv == IInv => NullMeansFull
<1> SUFFICES ASSUME IInv, NEW c \in Class,
                    NEW t \in Slab,
                    \/ slices[t] = {} /\ t \notin HeapSlabs
                    \/ header[t].slice = c /\ slices[t] # 0 .. Total(c) - 1
             PROVE  /\ SlabFor(c) # {}
                    /\ Fresh(c) \/ \A s \in slabs[c] : header[s].free_slice # {}
  BY DEF NullMeansFull
<1>1. header[t] \in Header /\ header[t].used = Cardinality(slices[t])
  BY DEF IInv, TypeOK, SliceAccounts
<1>2. SlabFor(c) # {}
  <2>1. CASE slices[t] = {} /\ t \notin HeapSlabs
    <3>1. header[t].slice = NoClass
      BY <2>1, <1>1 DEF IInv, SliceAccounts, Header
    <3>2. t \in free_slabs
      BY <3>1, <2>1 DEF IInv, SlabPlaced
    <3> QED
      BY <3>2 DEF SlabFor, Fresh
  <2>2. CASE header[t].slice = c /\ slices[t] # 0 .. Total(c) - 1
    <3>1. slices[t] \subseteq 0 .. Total(c) - 1
      BY <2>2 DEF IInv, SliceAccounts
    <3>2. Cardinality(slices[t]) # Total(c)
      <4>1. Total(c) \in Nat
        BY SliceAssumption
      <4>2. IsFiniteSet(0 .. Total(c) - 1) /\ Cardinality(0 .. Total(c) - 1) = Total(c)
        BY <4>1, FS_Interval, SMTT(30)
      <4> QED
        BY <4>2, <3>1, <2>2, FS_Subset
    <3>3. ~usmm_slab_isfull(header[t])
      BY <3>2, <2>2, <1>1 DEF usmm_slab_isfull
    <3>4. t \in slabs[c]
      BY <3>3, <2>2 DEF IInv, SlabPlaced
    <3> QED
      BY <3>4 DEF SlabFor, Fresh
  <2> QED
    BY <2>1, <2>2
<1>3. ASSUME NEW s \in slabs[c], header[s].free_slice = {} PROVE FALSE
  <2>1. s \in Slab
    BY <1>3 DEF IInv, TypeOK
  <2>2. header[s].slice = c /\ ~usmm_slab_isfull(header[s])
    BY <1>3, <2>1 DEF IInv, SlabPlaced
  <2>3. slices[s] = 0 .. Total(c) - 1
    BY <2>1, <2>2, <1>3 DEF IInv, SliceAccounts
  <2>4. Total(c) \in Nat /\ Total(c) >= 2
    BY SliceAssumption
  <2>5. header[s].used = Total(c)
    <3>1. Cardinality(0 .. Total(c) - 1) = Total(c)
      BY <2>4, FS_Interval
    <3> QED
      BY <3>1, <2>1, <2>3 DEF IInv, SliceAccounts
  <2> QED
    BY <2>2, <2>4, <2>5, ClassAssumption DEF usmm_slab_isfull
<1> QED
  BY <1>2, <1>3

(* usmm_slice_alloc answers NULL only when every slab is in use and no slab of
   the class has a slice left, and never takes a class's slab that is empty. *)
THEOREM RefusesOnlyWhenFull == DocSpec => []NullMeansFull
BY Invariance, NullMeansFullIInv, PTL

-----------------------------------------------------------------------------
(* Held slices. *)

LEMMA StepKeepsClass ==
    ASSUME IInv, [DocNext]_vars
    PROVE  [\A s \in Slab : slices[s] # {} /\ slices'[s] # {}
                               => header'[s].slice = header[s].slice]_vars
<1> SUFFICES ASSUME DocNext, NEW t \in Slab, slices[t] # {}, slices'[t] # {}
             PROVE  header'[t].slice = header[t].slice
  BY DEF vars
<1> DEFINE unchanged == header'[t] = header[t]
<1>0. header \in [Slab -> Header]
  BY DEF IInv, TypeOK
<1>1. ASSUME NEW size \in HeapSizes, HeapAtStart(size), HeapAlloc(size)
      PROVE  FALSE
  BY <1>1 DEF HeapAtStart
<1>2. ASSUME NEW c \in Class, SliceAlloc(c) PROVE header'[t].slice = header[t].slice
  <2>1. CASE UNCHANGED vars
    BY <2>1 DEF vars
  <2>2. ASSUME NEW s \in SlabFor(c),
               NEW ptr \in Popped(IF Fresh(c) THEN usmm_slab_create(header[s], c)
                                              ELSE header[s]),
               SliceTake(c, s, ptr)
        PROVE  header'[t].slice = header[t].slice
    <3>1. s \in Slab /\ header[s] \in Header
      BY <1>0 DEF IInv, TypeOK, SlabFor
    <3>2. CASE t # s
      BY <3>1, <3>2, <2>2, <1>0 DEF SliceTake
    <3>3. CASE t = s
      <4>1. header[s].slice \in Class
        BY <3>3, <3>1 DEF IInv, SliceAccounts, Header
      <4>2. ~Fresh(c)
        BY <4>1, <3>1, ClassAssumption DEF IInv, SlabPlaced, SlabFor
      <4>3. header'[s] = usmm_slab_alloc(header[s], ptr)
        BY <4>2, <2>2, <1>0, <3>1 DEF SliceTake
      <4> QED
        BY <4>3, <3>3, <3>1 DEF usmm_slab_alloc, Header
    <3> QED
      BY <3>2, <3>3
  <2> QED
    BY <2>1, <2>2, <1>2 DEF SliceAlloc
<1>3. ASSUME NEW b \in heaps, HeapFree(b) PROVE header'[t].slice = header[t].slice
  <2>1. b.start \in Slab /\ header[b.start].word = b.num
    BY DEF IInv, TypeOK, Heap, BitmapIsHeap
  <2>2. t \notin Run(b.start, header[b.start].word)
    BY <2>1 DEF IInv, LevelsDisjoint, HeapSlabs
  <2> QED
    BY <2>2, <1>3 DEF HeapFree
<1>4. ASSUME NEW s \in Slab, NEW ptr \in slices[s], SliceFree(s, ptr)
      PROVE  header'[t].slice = header[t].slice
  <2>1. /\ header[s] \in Header /\ header[s].slice \in Class /\ header[s].used # 0
        /\ header[s].used = Cardinality(slices[s])
    BY HeldSlabFacts
  <2>2. SliceGive(s, ptr)
    BY <2>1, <1>4, ClassAssumption DEF SliceFree, SliceAssert
  <2>3. CASE t # s
    BY <2>3, <2>2, <1>0 DEF SliceGive
  <2>4. CASE t = s
    <3> DEFINE g == usmm_slab_free(header[s], ptr)
    <3>1. slices'[s] = slices[s] \ {ptr}
      BY <2>2 DEF SliceGive, IInv, TypeOK
    <3>2. IsFiniteSet(slices[s])
      <4>1. slices[s] \subseteq 0 .. Total(header[s].slice) - 1
        BY <2>1 DEF IInv, SliceAccounts
      <4> QED
        BY <4>1, <2>1, SlicesFinite
    <3>3. g.used = header[s].used - 1 /\ g.slice = header[s].slice
      BY <2>1 DEF usmm_slab_free, Header
    <3>4. Cardinality(slices[s] \ {ptr}) = header[s].used - 1
      BY <2>1, <3>2, FS_RemoveElement
    <3>5. Cardinality(slices[s] \ {ptr}) # 0
      BY <3>1, <3>2, <2>4, FS_EmptySet, FS_RemoveElement
    <3>6. ~usmm_slab_isempty(g)
      BY <3>3, <3>4, <3>5 DEF usmm_slab_isempty
    <3>7. header'[s] = g
      BY <3>6, <2>2, <1>0 DEF SliceGive
    <3> QED
      BY <3>7, <3>3, <2>4
  <2> QED
    BY <2>3, <2>4
<1> QED
  BY <1>1, <1>2, <1>3, <1>4 DEF DocNext, FreeSome

(* While slices of a slab are held, usmm_slab_create never cuts it again and
   usmm_slab_init never clears its slice size. *)
THEOREM HeldSlicesKeepSize == DocSpec => HeldSlabKeepsClass
<1>1. IInv /\ [DocNext]_vars
        => [\A s \in Slab : slices[s] # {} /\ slices'[s] # {}
                               => header'[s].slice = header[s].slice]_vars
  BY StepKeepsClass
<1> QED
  BY <1>1, Invariance, PTL DEF DocSpec, HeldSlabKeepsClass

-----------------------------------------------------------------------------
(* The counters of the classes. *)

(* The slabs of class c, the pairs of a slab of M with one of its slices, and
   the pairs the application holds of class c. *)
Mine(c) == {s \in Slab : header[s].slice = c}

Pairs(M, held) == UNION {{s} \X held[s] : s \in M}

Held(c) == Pairs(Mine(c), slices)

ClassCountersHold ==
    \A c \in Class :
        /\ IsFiniteSet(Held(c))
        /\ stat_slices[c].slabs = Cardinality(Mine(c))
        /\ stat_slices[c].full = Cardinality(Mine(c) \cap full_slabs)
        /\ stat_slices[c].used = Cardinality(Held(c))

LEMMA PairsAre ==
    ASSUME NEW M, NEW held, NEW s, NEW i
    PROVE  <<s, i>> \in Pairs(M, held) <=> s \in M /\ i \in held[s]
BY DEF Pairs

(* One more slice of one slab is one more pair. *)
LEMMA PairsOneMore ==
    ASSUME NEW M, NEW L, NEW held, NEW more, NEW s, NEW i,
           L = M \cup {s}, s \in M \/ held[s] = {},
           \A t \in M \ {s} : more[t] = held[t],
           more[s] = held[s] \cup {i}, i \notin held[s]
    PROVE  /\ Pairs(L, more) = Pairs(M, held) \cup {<<s, i>>}
           /\ <<s, i>> \notin Pairs(M, held)
<1>1. <<s, i>> \notin Pairs(M, held)
  BY PairsAre
<1>2. ASSUME NEW p \in Pairs(L, more) PROVE p \in Pairs(M, held) \cup {<<s, i>>}
  <2>1. PICK t \in L : \E j \in more[t] : p = <<t, j>>
    BY <1>2 DEF Pairs
  <2> QED
    BY <2>1, PairsAre
<1>3. ASSUME NEW p \in Pairs(M, held) PROVE p \in Pairs(L, more)
  <2>1. PICK t \in M : \E j \in held[t] : p = <<t, j>>
    BY <1>3 DEF Pairs
  <2>2. t \in L /\ \A j \in held[t] : j \in more[t]
    BY <2>1
  <2> QED
    BY <2>1, <2>2, PairsAre
<1>4. <<s, i>> \in Pairs(L, more)
  BY PairsAre
<1> QED
  BY <1>1, <1>2, <1>3, <1>4

LEMMA PairsSame ==
    ASSUME NEW M, NEW held, NEW more, \A t \in M : more[t] = held[t]
    PROVE  Pairs(M, more) = Pairs(M, held)
BY DEF Pairs

(* usmm_slice_alloc of slab s, which is or becomes one of class c. *)
LEMMA SliceTakeClasses ==
    ASSUME IInv, ClassCountersHold, NEW c \in Class, NEW s \in SlabFor(c),
           NEW ptr \in Popped(IF Fresh(c) THEN usmm_slab_create(header[s], c)
                                          ELSE header[s]),
           SliceTake(c, s, ptr)
    PROVE  /\ ClassCountersHold'
           /\ s \in Slab /\ ptr \in 0 .. Total(c) - 1 /\ ptr \notin slices[s]
           /\ s \notin HeapSlabs
           /\ slices[s] # {} => header[s].slice = c
           /\ header' = [header EXCEPT ![s] = header'[s]] /\ header'[s].slice = c
           /\ slices' = [slices EXCEPT ![s] = @ \cup {ptr}]
           /\ heaps' = heaps
<1> DEFINE h == IF Fresh(c) THEN usmm_slab_create(header[s], c) ELSE header[s]
           g == usmm_slab_alloc(h, ptr)
           new  == IF Fresh(c) THEN 1 ELSE 0
           full == IF usmm_slab_isfull(g) THEN 1 ELSE 0
<1>1. /\ s \in Slab /\ s \notin HeapSlabs /\ s \notin full_slabs
      /\ h \in Header /\ h.slice = c
      /\ h.free_slice \cap slices[s] = {}
      /\ h.free_slice \cup slices[s] = 0 .. Total(c) - 1
      /\ h.free_slice # {}
      /\ Fresh(c) => header[s].slice = NoClass
      /\ ~Fresh(c) => header[s].slice = c
  BY SlabForFacts
<1>2. Total(c) \in Nat
  BY SliceAssumption
<1>3. ptr \in h.free_slice /\ ptr \in 0 .. Total(c) - 1 /\ ptr # NULL /\ ptr \notin slices[s]
  BY <1>1, <1>2 DEF Popped, NULL
<1> HIDE DEF h
<1>4. g.slice = c
  BY <1>1, <1>3 DEF usmm_slab_alloc, Header
<1>5. /\ header' = [header EXCEPT ![s] = g]
      /\ full_slabs' = IF full = 1 THEN full_slabs \cup {s} ELSE full_slabs
      /\ stat_slices' = [stat_slices EXCEPT
                ![c] = [used  |-> @.used + 1,
                        slabs |-> @.slabs + new,
                        full  |-> @.full + full]]
      /\ slices' = [slices EXCEPT ![s] = @ \cup {ptr}]
      /\ heaps' = heaps
  BY <1>3 DEF SliceTake, h
<1>6. new \in {0, 1} /\ full \in {0, 1} /\ (new = 1 <=> Fresh(c))
  OBVIOUS
<1> HIDE DEF g, new, full
<1>7. /\ header \in [Slab -> Header] /\ slices \in [Slab -> SUBSET SliceIndex]
      /\ stat_slices \in [Class -> Stat]
  BY DEF IInv, TypeOK
<1>8. /\ header'[s] = g /\ slices'[s] = slices[s] \cup {ptr}
      /\ \A t \in Slab \ {s} : header'[t] = header[t] /\ slices'[t] = slices[t]
  BY <1>1, <1>5, <1>7
<1>9. slices[s] # {} => header[s].slice = c
  BY <1>1, <1>7, ClassAssumption DEF IInv, SliceAccounts, Header
<1>10. NoClass \notin Class
  BY ClassAssumption
<1>11. Mine(c)' = Mine(c) \cup {s} /\ (s \in Mine(c) <=> ~Fresh(c))
  BY <1>1, <1>4, <1>8, <1>10 DEF Mine
<1>12. \A b \in Class \ {c} : Mine(b)' = Mine(b) /\ s \notin Mine(b)
  BY <1>1, <1>4, <1>8, <1>10 DEF Mine
<1>13. IsFiniteSet(Mine(c)) /\ IsFiniteSet(Mine(c) \cap full_slabs)
       /\ Cardinality(Mine(c)) \in Nat /\ Cardinality(Mine(c) \cap full_slabs) \in Nat
  BY SlabFinite, FS_Subset, FS_CardinalityType DEF Mine
<1>14. /\ Held(c)' = Held(c) \cup {<<s, ptr>>} /\ <<s, ptr>> \notin Held(c)
  <2>1. s \in Mine(c) \/ slices[s] = {}
    BY <1>1, <1>9 DEF Mine
  <2>2. \A t \in Mine(c) \ {s} : slices'[t] = slices[t]
    BY <1>8 DEF Mine
  <2>3. /\ Pairs(Mine(c)', slices') = Pairs(Mine(c), slices) \cup {<<s, ptr>>}
        /\ <<s, ptr>> \notin Pairs(Mine(c), slices)
    BY <2>1, <2>2, <1>3, <1>8, <1>11, PairsOneMore
  <2>4. Held(c)' = Pairs(Mine(c)', slices')
    BY DEF Held, Pairs
  <2> QED
    BY <2>3, <2>4 DEF Held
<1>15. \A b \in Class \ {c} : Held(b)' = Held(b)
  <2> SUFFICES ASSUME NEW b \in Class \ {c} PROVE Held(b)' = Held(b)
    OBVIOUS
  <2>1. \A t \in Mine(b) : slices'[t] = slices[t]
    BY <1>8, <1>12 DEF Mine
  <2>2. Pairs(Mine(b), slices') = Pairs(Mine(b), slices)
    BY <2>1, PairsSame
  <2>3. Held(b)' = Pairs(Mine(b), slices')
    BY <1>12 DEF Held, Pairs
  <2> QED
    BY <2>2, <2>3 DEF Held
<1>16. \A b \in Class \ {c} : Mine(b)' \cap full_slabs' = Mine(b) \cap full_slabs
  BY <1>5, <1>12
<1>17. \A b \in Class \ {c} : stat_slices'[b] = stat_slices[b]
  BY <1>5, <1>7
<1>18. /\ stat_slices'[c].used = stat_slices[c].used + 1
       /\ stat_slices'[c].slabs = stat_slices[c].slabs + new
       /\ stat_slices'[c].full = stat_slices[c].full + full
  BY <1>5, <1>7
<1>19. stat_slices'[c].slabs = Cardinality(Mine(c)')
  <2>1. Cardinality(Mine(c) \cup {s}) = IF s \in Mine(c) THEN Cardinality(Mine(c))
                                        ELSE Cardinality(Mine(c)) + 1
    BY <1>13, FS_AddElement
  <2>2. stat_slices[c].slabs = Cardinality(Mine(c))
    BY DEF ClassCountersHold
  <2> QED
    BY <2>1, <2>2, <1>6, <1>11, <1>13, <1>18
<1>20. stat_slices'[c].full = Cardinality(Mine(c)' \cap full_slabs')
  <2>1. stat_slices[c].full = Cardinality(Mine(c) \cap full_slabs)
    BY DEF ClassCountersHold
  <2>2. CASE full = 1
    <3>1. Mine(c)' \cap full_slabs' = (Mine(c) \cap full_slabs) \cup {s}
      BY <2>2, <1>5, <1>11
    <3>2. s \notin Mine(c) \cap full_slabs
      BY <1>1
    <3>3. Cardinality((Mine(c) \cap full_slabs) \cup {s})
             = Cardinality(Mine(c) \cap full_slabs) + 1
      BY <3>2, <1>13, FS_AddElement
    <3> QED
      BY <3>1, <3>3, <2>1, <2>2, <1>18
  <2>3. CASE full = 0
    <3>1. Mine(c)' \cap full_slabs' = Mine(c) \cap full_slabs
      BY <2>3, <1>1, <1>5, <1>11
    <3>2. stat_slices'[c].full = stat_slices[c].full
      BY <2>1, <2>3, <1>13, <1>18
    <3> QED
      BY <3>1, <3>2, <2>1
  <2> QED
    BY <2>2, <2>3, <1>6
<1>21. stat_slices'[c].used = Cardinality(Held(c)') /\ IsFiniteSet(Held(c)')
  <2>1. stat_slices[c].used = Cardinality(Held(c)) /\ IsFiniteSet(Held(c))
    BY DEF ClassCountersHold
  <2> QED
    BY <2>1, <1>14, <1>18, FS_AddElement
<1>22. ASSUME NEW b \in Class
       PROVE  /\ IsFiniteSet(Held(b)')
              /\ stat_slices'[b].slabs = Cardinality(Mine(b)')
              /\ stat_slices'[b].full = Cardinality(Mine(b)' \cap full_slabs')
              /\ stat_slices'[b].used = Cardinality(Held(b)')
  <2>1. CASE b = c
    BY <2>1, <1>19, <1>20, <1>21
  <2>2. CASE b # c
    <3>1. /\ IsFiniteSet(Held(b))
          /\ stat_slices[b].slabs = Cardinality(Mine(b))
          /\ stat_slices[b].full = Cardinality(Mine(b) \cap full_slabs)
          /\ stat_slices[b].used = Cardinality(Held(b))
      BY DEF ClassCountersHold
    <3>2. /\ Held(b)' = Held(b) /\ Mine(b)' = Mine(b) /\ stat_slices'[b] = stat_slices[b]
          /\ Mine(b)' \cap full_slabs' = Mine(b) \cap full_slabs
      BY <2>2, <1>12, <1>15, <1>16, <1>17
    <3> QED
      BY <3>1, <3>2
  <2> QED
    BY <2>1, <2>2
<1>23. ClassCountersHold'
  BY <1>22 DEF ClassCountersHold
<1>24. header' = [header EXCEPT ![s] = header'[s]] /\ header'[s].slice = c
  BY <1>4, <1>5, <1>8
<1> QED
  BY <1>1, <1>3, <1>5, <1>9, <1>23, <1>24

(* usmm_slice_free of a slice of slab s, of class c. *)
LEMMA SliceGiveClasses ==
    ASSUME IInv, ClassCountersHold, NEW s \in Slab, NEW ptr \in slices[s],
           SliceGive(s, ptr), NEW c, c = header[s].slice
    PROVE  /\ ClassCountersHold'
           /\ c \in Class /\ s \notin HeapSlabs /\ ptr \in 0 .. Total(c) - 1
           /\ header' = [header EXCEPT ![s] = header'[s]]
           /\ slices'[s] # {} => header'[s].slice = c
           /\ slices' = [slices EXCEPT ![s] = @ \ {ptr}]
           /\ heaps' = heaps
<1> DEFINE g == usmm_slab_free(header[s], ptr)
           full == IF usmm_slab_isfull(header[s]) THEN 1 ELSE 0
           empty == IF full = 0 /\ usmm_slab_isempty(g) THEN 1 ELSE 0
<1>1. /\ header[s] \in Header /\ c \in Class
      /\ s \notin HeapSlabs
      /\ header[s].used = Cardinality(slices[s])
      /\ header[s].free_slice \cup slices[s] = 0 .. Total(c) - 1
      /\ IsFiniteSet(slices[s])
      /\ s \in full_slabs <=> usmm_slab_isfull(header[s])
  BY HeldSlabFacts
<1>2. Total(c) \in Nat /\ Total(c) >= 2
  BY <1>1, SliceAssumption
<1>3. g.slice = c /\ g.used = header[s].used - 1
  BY <1>1 DEF usmm_slab_free, Header
<1>4. /\ header' = [header EXCEPT ![s] = IF empty = 1 THEN usmm_slab_init ELSE g]
      /\ full_slabs' = IF full = 1 THEN full_slabs \ {s} ELSE full_slabs
      /\ stat_slices' = [stat_slices EXCEPT
                ![c] = [used  |-> @.used - 1,
                        slabs |-> @.slabs - empty,
                        full  |-> @.full - full]]
      /\ slices' = [slices EXCEPT ![s] = @ \ {ptr}]
      /\ heaps' = heaps
  BY DEF SliceGive
<1>5. /\ full \in {0, 1} /\ empty \in {0, 1}
      /\ full = 1 <=> s \in full_slabs
      /\ empty = 1 => full = 0
      /\ empty = 1 <=> slices[s] \ {ptr} = {}
  <2>1. Cardinality(slices[s] \ {ptr}) = Cardinality(slices[s]) - 1 /\ IsFiniteSet(slices[s] \ {ptr})
    BY <1>1, FS_RemoveElement
  <2>2. g.used = 0 <=> slices[s] \ {ptr} = {}
    BY <2>1, <1>1, <1>3, FS_EmptySet
  <2>3. usmm_slab_isempty(g) => ~usmm_slab_isfull(header[s])
    <3>1. header[s].used \in Int
      BY <1>1 DEF Header
    <3> QED
      BY <3>1, <1>2, <1>3 DEF usmm_slab_isempty, usmm_slab_isfull
  <2> QED
    BY <2>2, <2>3, <1>1 DEF usmm_slab_isempty
<1> HIDE DEF g, full, empty
<1>6. /\ header \in [Slab -> Header] /\ slices \in [Slab -> SUBSET SliceIndex]
      /\ stat_slices \in [Class -> Stat]
  BY DEF IInv, TypeOK
<1>7. /\ empty = 1 => header'[s].slice = NoClass
      /\ empty = 0 => header'[s].slice = c
      /\ slices'[s] = slices[s] \ {ptr}
      /\ \A t \in Slab \ {s} : header'[t] = header[t] /\ slices'[t] = slices[t]
  BY <1>3, <1>4, <1>6 DEF usmm_slab_init
<1>8. NoClass \notin Class
  BY ClassAssumption
<1>9. /\ Mine(c) = Mine(c)' \cup {s}
      /\ s \in Mine(c)' <=> empty = 0
  BY <1>1, <1>5, <1>7, <1>8 DEF Mine
<1>10. \A b \in Class \ {c} : Mine(b)' = Mine(b) /\ s \notin Mine(b)
  BY <1>1, <1>5, <1>7, <1>8 DEF Mine
<1>11. /\ IsFiniteSet(Mine(c)) /\ IsFiniteSet(Mine(c) \cap full_slabs)
       /\ Cardinality(Mine(c)) \in Nat /\ Cardinality(Mine(c) \cap full_slabs) \in Nat
  BY SlabFinite, FS_Subset, FS_CardinalityType DEF Mine
<1>12. Held(c) = Held(c)' \cup {<<s, ptr>>} /\ <<s, ptr>> \notin Held(c)'
  <2>1. s \in Mine(c)' \/ slices'[s] = {}
    BY <1>5, <1>7, <1>9
  <2>2. \A t \in Mine(c)' \ {s} : slices[t] = slices'[t]
    BY <1>7 DEF Mine
  <2>3. slices[s] = slices'[s] \cup {ptr} /\ ptr \notin slices'[s]
    BY <1>7
  <2>4. /\ Pairs(Mine(c), slices) = Pairs(Mine(c)', slices') \cup {<<s, ptr>>}
        /\ <<s, ptr>> \notin Pairs(Mine(c)', slices')
    BY <2>1, <2>2, <2>3, <1>9, PairsOneMore
  <2>5. Held(c)' = Pairs(Mine(c)', slices')
    BY DEF Held, Pairs
  <2> QED
    BY <2>4, <2>5 DEF Held
<1>13. \A b \in Class \ {c} : Held(b)' = Held(b)
  <2> SUFFICES ASSUME NEW b \in Class \ {c} PROVE Held(b)' = Held(b)
    OBVIOUS
  <2>1. \A t \in Mine(b) : slices'[t] = slices[t]
    BY <1>7, <1>10 DEF Mine
  <2>2. Pairs(Mine(b), slices') = Pairs(Mine(b), slices)
    BY <2>1, PairsSame
  <2>3. Held(b)' = Pairs(Mine(b), slices')
    BY <1>10 DEF Held, Pairs
  <2> QED
    BY <2>2, <2>3 DEF Held
<1>14. \A b \in Class \ {c} : Mine(b)' \cap full_slabs' = Mine(b) \cap full_slabs
  BY <1>4, <1>10
<1>15. \A b \in Class \ {c} : stat_slices'[b] = stat_slices[b]
  BY <1>4, <1>6
<1>16. /\ stat_slices'[c].used = stat_slices[c].used - 1
       /\ stat_slices'[c].slabs = stat_slices[c].slabs - empty
       /\ stat_slices'[c].full = stat_slices[c].full - full
  BY <1>1, <1>4, <1>6
<1>17. stat_slices'[c].slabs = Cardinality(Mine(c)')
  <2>1. stat_slices[c].slabs = Cardinality(Mine(c))
    BY <1>1 DEF ClassCountersHold
  <2>2. CASE empty = 1
    <3>1. Mine(c)' = Mine(c) \ {s} /\ s \in Mine(c)
      BY <2>2, <1>9
    <3>2. Cardinality(Mine(c) \ {s}) = Cardinality(Mine(c)) - 1
      BY <3>1, <1>11, FS_RemoveElement
    <3> QED
      BY <3>1, <3>2, <2>1, <2>2, <1>16
  <2>3. CASE empty = 0
    <3>1. Mine(c)' = Mine(c)
      BY <2>3, <1>9
    <3>2. stat_slices'[c].slabs = stat_slices[c].slabs
      BY <2>1, <2>3, <1>11, <1>16
    <3> QED
      BY <3>1, <3>2, <2>1
  <2> QED
    BY <2>2, <2>3, <1>5
<1>18. stat_slices'[c].full = Cardinality(Mine(c)' \cap full_slabs')
  <2>1. stat_slices[c].full = Cardinality(Mine(c) \cap full_slabs)
    BY <1>1 DEF ClassCountersHold
  <2>2. CASE full = 1
    <3>1. /\ Mine(c)' \cap full_slabs' = (Mine(c) \cap full_slabs) \ {s}
          /\ s \in Mine(c) \cap full_slabs
      BY <2>2, <1>4, <1>5, <1>9
    <3>2. Cardinality((Mine(c) \cap full_slabs) \ {s})
             = Cardinality(Mine(c) \cap full_slabs) - 1
      BY <3>1, <1>11, FS_RemoveElement
    <3> QED
      BY <3>1, <3>2, <2>1, <2>2, <1>16
  <2>3. CASE full = 0
    <3>1. Mine(c)' \cap full_slabs' = Mine(c) \cap full_slabs
      BY <2>3, <1>4, <1>5, <1>9
    <3>2. stat_slices'[c].full = stat_slices[c].full
      BY <2>1, <2>3, <1>11, <1>16
    <3> QED
      BY <3>1, <3>2, <2>1
  <2> QED
    BY <2>2, <2>3, <1>5
<1>19. stat_slices'[c].used = Cardinality(Held(c)') /\ IsFiniteSet(Held(c)')
  <2>1. stat_slices[c].used = Cardinality(Held(c)) /\ IsFiniteSet(Held(c))
    BY <1>1 DEF ClassCountersHold
  <2>2. Held(c)' = Held(c) \ {<<s, ptr>>} /\ <<s, ptr>> \in Held(c)
    BY <1>12
  <2>3. /\ IsFiniteSet(Held(c) \ {<<s, ptr>>})
        /\ Cardinality(Held(c) \ {<<s, ptr>>}) = Cardinality(Held(c)) - 1
    BY <2>1, <2>2, FS_RemoveElement
  <2> QED
    BY <2>1, <2>2, <2>3, <1>16
<1>20. ASSUME NEW b \in Class
       PROVE  /\ IsFiniteSet(Held(b)')
              /\ stat_slices'[b].slabs = Cardinality(Mine(b)')
              /\ stat_slices'[b].full = Cardinality(Mine(b)' \cap full_slabs')
              /\ stat_slices'[b].used = Cardinality(Held(b)')
  <2>1. CASE b = c
    BY <2>1, <1>17, <1>18, <1>19
  <2>2. CASE b # c
    <3>1. /\ IsFiniteSet(Held(b))
          /\ stat_slices[b].slabs = Cardinality(Mine(b))
          /\ stat_slices[b].full = Cardinality(Mine(b) \cap full_slabs)
          /\ stat_slices[b].used = Cardinality(Held(b))
      BY DEF ClassCountersHold
    <3>2. /\ Held(b)' = Held(b) /\ Mine(b)' = Mine(b) /\ stat_slices'[b] = stat_slices[b]
          /\ Mine(b)' \cap full_slabs' = Mine(b) \cap full_slabs
      BY <2>2, <1>10, <1>13, <1>14, <1>15
    <3> QED
      BY <3>1, <3>2
  <2> QED
    BY <2>1, <2>2
<1>21. ClassCountersHold'
  BY <1>20 DEF ClassCountersHold
<1>22. header' = [header EXCEPT ![s] = header'[s]]
  BY <1>4, <1>6
<1>23. slices'[s] # {} => header'[s].slice = c
  BY <1>5, <1>7
<1> QED
  BY <1>1, <1>4, <1>21, <1>22, <1>23

(* A step that leaves the slabs of the slice level, their slices and the counters
   of the classes alone. *)
LEMMA ClassesAlone ==
    ASSUME ClassCountersHold, UNCHANGED <<slices, stat_slices>>,
           \A s \in Slab : header'[s].slice \in Class \/ header[s].slice \in Class
                => /\ header'[s].slice = header[s].slice
                   /\ s \in full_slabs' <=> s \in full_slabs
    PROVE  ClassCountersHold'
<1>1. \A c \in Class : /\ Mine(c)' = Mine(c)
                       /\ Mine(c)' \cap full_slabs' = Mine(c) \cap full_slabs
  BY DEF Mine
<1>2. ASSUME NEW c \in Class PROVE Held(c)' = Held(c)
  <2>1. Held(c)' = Pairs(Mine(c)', slices')
    BY DEF Held, Pairs
  <2> QED
    BY <2>1, <1>1 DEF Held
<1> QED
  BY <1>1, <1>2 DEF ClassCountersHold

LEMMA InitClasses == Init => ClassCountersHold
<1> SUFFICES ASSUME Init, NEW c \in Class
             PROVE  /\ IsFiniteSet(Held(c))
                    /\ stat_slices[c].slabs = Cardinality(Mine(c))
                    /\ stat_slices[c].full = Cardinality(Mine(c) \cap full_slabs)
                    /\ stat_slices[c].used = Cardinality(Held(c))
  BY DEF ClassCountersHold
<1>1. Mine(c) = {}
  BY ClassAssumption DEF Mine, Init, usmm_slab_init
<1>2. Held(c) = {} /\ Mine(c) \cap full_slabs = {}
  BY <1>1 DEF Held, Pairs
<1>3. /\ stat_slices[c].slabs = 0 /\ stat_slices[c].full = 0 /\ stat_slices[c].used = 0
  BY DEF Init
<1> QED
  BY <1>1, <1>2, <1>3, FS_EmptySet

(* The steps of the application and the manager, each with what it changes of what
   the application holds; the regions below need no more of them. *)
Took(start, num, size) ==
    /\ start \in Slab /\ num \in Nat /\ num > 1 /\ size \in HeapSizes
    /\ Run(start, num) \subseteq Slab
    /\ \A s \in Slab : slices[s] = {}
    /\ \A s \in Run(start, num) : s \notin HeapSlabs
    /\ heaps' = heaps \cup {[start |-> start, num |-> num, size |-> size]}
    /\ slices' = slices

GaveBack(b) ==
    /\ b \in heaps /\ heaps' = heaps \ {b}
    /\ slices' = slices
    /\ \A s \in Slab \ HeapSlabs : header'[s] = header[s]

TookSlice(c, s, ptr) ==
    /\ c \in Class /\ s \in Slab /\ s \notin HeapSlabs
    /\ ptr \in 0 .. Total(c) - 1 /\ ptr \notin slices[s]
    /\ slices[s] # {} => header[s].slice = c
    /\ header' = [header EXCEPT ![s] = header'[s]] /\ header'[s].slice = c
    /\ slices' = [slices EXCEPT ![s] = @ \cup {ptr}]
    /\ heaps' = heaps

GaveSlice(c, s, ptr) ==
    /\ c \in Class /\ s \in Slab /\ s \notin HeapSlabs
    /\ ptr \in 0 .. Total(c) - 1 /\ ptr \in slices[s]
    /\ header[s].slice = c
    /\ header' = [header EXCEPT ![s] = header'[s]]
    /\ slices'[s] # {} => header'[s].slice = c
    /\ slices' = [slices EXCEPT ![s] = @ \ {ptr}]
    /\ heaps' = heaps

LEMMA StepKinds ==
    ASSUME IInv, ClassCountersHold, [DocNext]_vars
    PROVE  /\ ClassCountersHold'
           /\ \/ UNCHANGED <<heaps, slices, header>>
              \/ \E start, num, size : Took(start, num, size)
              \/ \E b : GaveBack(b)
              \/ \E c, s, ptr : TookSlice(c, s, ptr) \/ GaveSlice(c, s, ptr)
<1> DEFINE Goal == /\ ClassCountersHold'
                   /\ \/ UNCHANGED <<heaps, slices, header>>
                      \/ \E start, num, size : Took(start, num, size)
                      \/ \E b : GaveBack(b)
                      \/ \E c, s, ptr : TookSlice(c, s, ptr) \/ GaveSlice(c, s, ptr)
<1>1. CASE UNCHANGED vars
  <2>1. UNCHANGED <<heaps, slices, header, stat_slices, full_slabs>>
    BY <1>1 DEF vars, lists, stats, app
  <2> QED
    BY <2>1, ClassesAlone
<1>2. ASSUME NEW size \in HeapSizes, HeapAtStart(size), HeapAlloc(size) PROVE Goal
  <2> DEFINE num == HeapNum(size)
             found == bitmap_find_range(slab_bitmap, num, N)
  <2>1. HeapAssert(size) /\ num \in Nat /\ num > 1
    BY <1>2, SizeAssumption DEF HeapAtStart, SoundNum, HeapAssert, HeapNum
  <2>2. CASE UNCHANGED vars
    BY <2>2, <1>1
  <2>3. ASSUME NEW start \in found, NEW dies \in ListDelDies(Run(start, num)),
               IF dies THEN Die ELSE HeapTake(start, num, size)
        PROVE  Goal
    <3>1. Run(start, num) \subseteq slab_bitmap /\ start \in Nat
      BY <1>2, <2>1, FoundRunFree, NAssumption DEF HeapAtStart
    <3>2. /\ Run(start, num) \subseteq Slab
          /\ \A s \in Run(start, num) : s \notin HeapSlabs
      BY <3>1 DEF IInv, BitmapIsHeap
    <3>3. \A s \in Slab : slices[s] = {}
      BY <1>2 DEF HeapAtStart
    <3>4. \A s \in Slab : header[s].slice = NoClass
      BY <3>3 DEF IInv, SliceAccounts, TypeOK, Header
    <3>5. \A s \in Run(start, num) : Linked(s) /\ s \notin HeapSlabs
      BY <3>2, <3>4 DEF IInv, SlabPlaced, Linked
    <3>6. HeapTake(start, num, size)
      BY <2>3, <3>5 DEF ListDelDies
    <3>7. start \in Slab
      BY <2>1, <3>1, <3>2 DEF Run
    <3>8. Took(start, num, size)
      BY <2>1, <3>2, <3>3, <3>6, <3>7 DEF HeapTake, Took
    <3>9. /\ UNCHANGED <<slices, stat_slices>>
          /\ header' = [s \in Slab |->
                          IF s \notin Run(start, num) THEN header[s]
                          ELSE IF s = start THEN [usmm_slab_fini EXCEPT !.word = num]
                          ELSE usmm_slab_fini]
      BY <3>6 DEF HeapTake
    <3>10. \A s \in Slab : header'[s].slice = NoClass
      BY <3>4, <3>9 DEF usmm_slab_fini
    <3>11. ClassCountersHold'
      BY <3>4, <3>9, <3>10, ClassesAlone, ClassAssumption
    <3> QED
      BY <3>8, <3>11
  <2> QED
    BY <2>1, <2>2, <2>3, <1>2 DEF HeapAlloc
<1>3. ASSUME NEW c \in Class, SliceAlloc(c) PROVE Goal
  <2>1. ASSUME NEW s \in SlabFor(c),
               NEW ptr \in Popped(IF Fresh(c) THEN usmm_slab_create(header[s], c)
                                              ELSE header[s]),
               SliceTake(c, s, ptr)
        PROVE  Goal
    <3>1. ClassCountersHold' /\ TookSlice(c, s, ptr)
      BY <2>1, SliceTakeClasses DEF TookSlice
    <3> QED
      BY <3>1
  <2> QED
    BY <2>1, <1>1, <1>3 DEF SliceAlloc
<1>4. ASSUME NEW b \in heaps, HeapFree(b) PROVE Goal
  <2>1. b.start \in Slab /\ header[b.start].word = b.num
    BY DEF IInv, TypeOK, Heap, BitmapIsHeap
  <2>2. /\ header' = [s \in Slab |-> IF s \in Run(b.start, b.num) THEN usmm_slab_init
                                     ELSE header[s]]
        /\ heaps' = heaps \ {b}
        /\ UNCHANGED <<slices, stat_slices, full_slabs>>
    BY <1>4, <2>1 DEF HeapFree
  <2>3. GaveBack(b)
    BY <2>2 DEF GaveBack, HeapSlabs
  <2>4. \A s \in Run(b.start, b.num) : s \in Slab => header[s].slice = NoClass
    BY DEF IInv, LevelsDisjoint, HeapSlabs, SliceAccounts, TypeOK, Header
  <2>5. \A s \in Slab : header'[s].slice = header[s].slice
    BY <2>2, <2>4 DEF usmm_slab_init
  <2>6. ClassCountersHold'
    BY <2>2, <2>5, ClassesAlone
  <2> QED
    BY <2>3, <2>6
<1>5. ASSUME NEW s \in Slab, NEW ptr \in slices[s], SliceFree(s, ptr) PROVE Goal
  <2>1. header[s].slice # NoClass /\ header[s].used # 0
    BY HeldSlabFacts, ClassAssumption
  <2>2. PICK c : c = header[s].slice
    OBVIOUS
  <2>3. SliceGive(s, ptr)
    BY <2>1, <1>5 DEF SliceFree, SliceAssert
  <2>4. ClassCountersHold' /\ GaveSlice(c, s, ptr)
    BY <2>2, <2>3, SliceGiveClasses DEF GaveSlice
  <2> QED
    BY <2>4
<1> QED
  BY <1>1, <1>2, <1>3, <1>4, <1>5 DEF DocNext, FreeSome

(* The counters of usmm_stat, those of the slabs and those of each class, are what the
   lists hold and the application uses, along every path a slab or a slice takes. *)
THEOREM StatisticsExact == DocSpec => []CountersMatch
<1>1. Init => ClassCountersHold
  BY InitClasses
<1>2. IInv /\ ClassCountersHold /\ [DocNext]_vars => ClassCountersHold'
  BY StepKinds
<1>3. ClassCountersHold => ClassCountersMatch
  BY DEF ClassCountersHold, ClassCountersMatch, Held, Pairs, Mine
<1>4. IInv /\ ClassCountersHold => CountersMatch
  BY <1>3 DEF IInv, CountersMatch
<1> QED
  BY <1>1, <1>2, <1>4, Invariance, PTL DEF DocSpec

-----------------------------------------------------------------------------
(* The memory behind the pointers. *)

(* The cell x lies in slab s. *)
Within(x, s) == s * SlabSize =< x /\ x < (s + 1) * SlabSize

LEMMA TimesMonotone ==
    ASSUME NEW a \in Int, NEW b \in Int, NEW k \in Nat, a =< b
    PROVE  a * k =< b * k
<1>1. (b - a) * k >= 0
  OBVIOUS
<1> QED
  BY <1>1

LEMMA SlabsApart ==
    ASSUME NEW x \in Int, NEW s \in Int, NEW t \in Int, Within(x, s), Within(x, t)
    PROVE  s = t
<1> USE SizeAssumption
<1>1. CASE s + 1 =< t
  <2>1. (s + 1) * SlabSize =< t * SlabSize
    BY <1>1, TimesMonotone
  <2> QED
    BY <2>1 DEF Within
<1>2. CASE t + 1 =< s
  <2>1. (t + 1) * SlabSize =< s * SlabSize
    BY <1>2, TimesMonotone
  <2> QED
    BY <2>1 DEF Within
<1> QED
  BY <1>1, <1>2

LEMMA WithinCells ==
    ASSUME NEW x \in Int, NEW s \in Slab, Within(x, s)
    PROVE  x \in Cells
<1>1. s \in Int /\ 0 =< s /\ s + 1 =< N /\ N \in Int /\ SlabSize \in Nat
  BY NAssumption, SizeAssumption DEF Slab
<1>2. (s + 1) * SlabSize =< N * SlabSize /\ 0 * SlabSize =< s * SlabSize
  BY <1>1, TimesMonotone
<1>3. s * SlabSize \in Int /\ (s + 1) * SlabSize \in Int /\ N * SlabSize \in Int
      /\ 0 * SlabSize = 0
  BY <1>1
<1> QED
  BY <1>2, <1>3 DEF Cells, Within

(* The slices of a slab lie in it, behind its header. *)
LEMMA SliceInSlab ==
    ASSUME NEW s \in Slab, NEW c \in Class, NEW i \in 0 .. Total(c) - 1
    PROVE  /\ SliceCells(s, c, i) # {}
           /\ \A x \in SliceCells(s, c, i) : x \in Int /\ Within(x, s)
<1> DEFINE k == SliceSize[c]
<1>1. /\ s \in Int /\ k \in Nat /\ k > 0 /\ SlabSize \in Nat /\ HeadSize \in Nat
      /\ Total(c) \in Nat /\ i \in Int /\ i >= 0 /\ i + 1 =< Total(c)
  BY SizeAssumption, SliceAssumption DEF Slab
<1>2. Total(c) * k =< SlabSize - HeadSize
  BY <1>1 DEF Total
<1>3. (i + 1) * k =< Total(c) * k /\ 0 * k =< i * k
  BY <1>1, TimesMonotone
<1>4. /\ i * k \in Int /\ (i + 1) * k = i * k + k /\ s * SlabSize \in Int
      /\ (s + 1) * SlabSize = s * SlabSize + SlabSize /\ 0 * k = 0
  BY <1>1
<1>5. /\ SliceStart(s, c, i) \in Int
      /\ s * SlabSize =< SliceStart(s, c, i)
      /\ SliceStart(s, c, i) + k =< (s + 1) * SlabSize
  <2> HIDE DEF k
  <2>1. SliceStart(s, c, i) = s * SlabSize + HeadSize + i * k
    BY DEF SliceStart, k
  <2>2. Total(c) * k \in Int
    BY <1>1
  <2> QED
    BY <2>1, <2>2, <1>1, <1>2, <1>3, <1>4
<1>6. SliceStart(s, c, i) \in SliceCells(s, c, i)
  BY <1>1, <1>5 DEF SliceCells
<1>7. ASSUME NEW x \in SliceCells(s, c, i) PROVE x \in Int /\ Within(x, s)
  <2>1. x \in Int /\ SliceStart(s, c, i) =< x /\ x =< SliceStart(s, c, i) + k - 1
    BY <1>1, <1>5 DEF SliceCells
  <2> QED
    BY <2>1, <1>1, <1>4, <1>5 DEF Within
<1> QED
  BY <1>6, <1>7

(* Two slices of a slab share no cell. *)
LEMMA SlicesApart ==
    ASSUME NEW s \in Slab, NEW c \in Class, NEW i \in 0 .. Total(c) - 1,
           NEW j \in 0 .. Total(c) - 1, i < j
    PROVE  SliceCells(s, c, i) \cap SliceCells(s, c, j) = {}
<1> DEFINE k == SliceSize[c]
<1>1. /\ s \in Int /\ k \in Nat /\ k > 0 /\ SlabSize \in Nat /\ HeadSize \in Nat
      /\ Total(c) \in Nat /\ i \in Int /\ j \in Int /\ i + 1 =< j
  BY SizeAssumption, SliceAssumption DEF Slab
<1>2. (i + 1) * k =< j * k
  BY <1>1, TimesMonotone
<1> HIDE DEF k
<1>3. /\ i * k \in Int /\ j * k \in Int /\ (i + 1) * k = i * k + k /\ s * SlabSize \in Int
  BY <1>1
<1>4. /\ SliceStart(s, c, i) \in Int /\ SliceStart(s, c, j) \in Int
      /\ SliceStart(s, c, i) + k =< SliceStart(s, c, j)
  <2>1. /\ SliceStart(s, c, i) = s * SlabSize + HeadSize + i * k
        /\ SliceStart(s, c, j) = s * SlabSize + HeadSize + j * k
    BY DEF SliceStart, k
  <2> QED
    BY <2>1, <1>1, <1>2, <1>3
<1> QED
  BY <1>1, <1>4 DEF SliceCells, k

(* A heap block lies in its slabs. *)
LEMMA HeapInSlabs ==
    ASSUME NEW b, b.start \in Slab, b.num \in Nat, b.num > 1,
           Run(b.start, b.num) \subseteq Slab
    PROVE  /\ HeapCells(b) # {}
           /\ \A x \in HeapCells(b) :
                 /\ x \in Int
                 /\ b.start * SlabSize =< x /\ x < (b.start + b.num) * SlabSize
                 /\ x \in Cells
                 /\ \A t \in Int : Within(x, t) => t \in Run(b.start, b.num)
<1> DEFINE lo == b.start * SlabSize
           hi == (b.start + b.num) * SlabSize
<1>1. /\ b.start \in Int /\ b.start + b.num \in Int /\ 0 =< b.start
      /\ SlabSize \in Nat /\ SlabSize > 0
      /\ NLenSize \in Int /\ 0 =< NLenSize /\ NLenSize < SlabSize
  BY SizeAssumption DEF Slab
<1>2. b.start + b.num =< N /\ N \in Int
  <2>1. b.start + b.num - 1 \in Run(b.start, b.num)
    BY <1>1 DEF Run
  <2> QED
    BY <2>1, <1>1, NAssumption DEF Slab
<1>3. (b.start + 1) * SlabSize =< hi /\ hi =< N * SlabSize /\ 0 * SlabSize =< lo
  BY <1>1, <1>2, TimesMonotone
<1>4. /\ lo \in Int /\ hi \in Int /\ (b.start + 1) * SlabSize = lo + SlabSize
      /\ N * SlabSize \in Int /\ 0 * SlabSize = 0
  BY <1>1, <1>2
<1>5. HeapCells(b) = lo + NLenSize .. hi - 1
  BY DEF HeapCells
<1> HIDE DEF lo, hi
<1>6. lo + NLenSize \in HeapCells(b)
  BY <1>1, <1>3, <1>4, <1>5
<1>7. ASSUME NEW x \in HeapCells(b)
      PROVE  x \in Int /\ lo =< x /\ x < hi /\ x \in Cells
  BY <1>1, <1>3, <1>4, <1>5, SMTT(30) DEF Cells
<1>8. ASSUME NEW x \in HeapCells(b), NEW t \in Int, Within(x, t)
      PROVE  t \in Run(b.start, b.num)
  <2>1. x \in Int /\ lo =< x /\ x < hi
    BY <1>7
  <2> DEFINE from == t * SlabSize
             to == (t + 1) * SlabSize
  <2>2. from \in Int /\ to \in Int
    BY <1>1
  <2>3. from =< x /\ x < to
    BY <1>8 DEF Within
  <2>4. t + 1 =< b.start => to =< lo
    BY <1>1, TimesMonotone DEF lo
  <2>5. b.start + b.num =< t => hi =< from
    BY <1>1, TimesMonotone DEF hi
  <2> HIDE DEF from, to
  <2>6. ~ t + 1 =< b.start /\ ~ b.start + b.num =< t
    BY <2>1, <2>2, <2>3, <2>4, <2>5, <1>4
  <2> QED
    BY <2>6, <1>1 DEF Run
<1> QED
  BY <1>6, <1>7, <1>8 DEF lo, hi

(* Blocks whose slabs are apart are apart. *)
LEMMA HeapsApart ==
    ASSUME NEW a, NEW b, a.start \in Slab, a.num \in Nat, a.num > 1,
           b.start \in Slab, b.num \in Nat, b.num > 1,
           Run(a.start, a.num) \subseteq Slab, Run(b.start, b.num) \subseteq Slab,
           Run(a.start, a.num) \cap Run(b.start, b.num) = {}
    PROVE  HeapCells(a) \cap HeapCells(b) = {}
<1>1. /\ a.start \in Int /\ b.start \in Int /\ SlabSize \in Nat
      /\ a.start + a.num \in Int /\ b.start + b.num \in Int
  BY SizeAssumption DEF Slab
<1>2. a.start + a.num =< b.start \/ b.start + b.num =< a.start
  <2>1. CASE a.start =< b.start
    <3>1. b.start \in Run(b.start, b.num)
      BY <1>1 DEF Run
    <3>2. b.start \notin Run(a.start, a.num)
      BY <3>1
    <3> QED
      BY <3>2, <2>1, <1>1 DEF Run
  <2>2. CASE b.start =< a.start
    <3>1. a.start \in Run(a.start, a.num)
      BY <1>1 DEF Run
    <3>2. a.start \notin Run(b.start, b.num)
      BY <3>1
    <3> QED
      BY <3>2, <2>2, <1>1 DEF Run
  <2> QED
    BY <2>1, <2>2, <1>1
<1>3. \/ (a.start + a.num) * SlabSize =< b.start * SlabSize
      \/ (b.start + b.num) * SlabSize =< a.start * SlabSize
  BY <1>1, <1>2, TimesMonotone
<1>4. /\ (a.start + a.num) * SlabSize \in Int /\ b.start * SlabSize \in Int
      /\ (b.start + b.num) * SlabSize \in Int /\ a.start * SlabSize \in Int
  BY <1>1
<1>5. \A x \in HeapCells(a) :
         x \in Int /\ a.start * SlabSize =< x /\ x < (a.start + a.num) * SlabSize
  BY HeapInSlabs
<1>6. \A x \in HeapCells(b) :
         x \in Int /\ b.start * SlabSize =< x /\ x < (b.start + b.num) * SlabSize
  BY HeapInSlabs
<1>7. ASSUME NEW x, x \in HeapCells(a), x \in HeapCells(b) PROVE FALSE
  <2>1. /\ x \in Int
        /\ a.start * SlabSize =< x /\ x < (a.start + a.num) * SlabSize
        /\ b.start * SlabSize =< x /\ x < (b.start + b.num) * SlabSize
    BY <1>5, <1>6, <1>7
  <2> QED
    BY <2>1, <1>3, <1>4
<1> QED
  BY <1>7

LEMMA SliceOutsideBlock ==
    ASSUME NEW b, b.start \in Slab, b.num \in Nat, b.num > 1,
           Run(b.start, b.num) \subseteq Slab,
           NEW s \in Slab, s \notin Run(b.start, b.num),
           NEW c \in Class, NEW i \in 0 .. Total(c) - 1
    PROVE  HeapCells(b) \cap SliceCells(s, c, i) = {}
<1>1. s \in Int
  BY DEF Slab
<1>2. \A x \in SliceCells(s, c, i) : x \in Int /\ Within(x, s)
  BY SliceInSlab
<1>3. \A x \in HeapCells(b) : \A t \in Int : Within(x, t) => t \in Run(b.start, b.num)
  BY HeapInSlabs
<1> QED
  BY <1>1, <1>2, <1>3

LEMMA TwoSlices ==
    ASSUME NEW s \in Slab, NEW c \in Class, NEW i \in 0 .. Total(c) - 1,
           NEW t \in Slab, NEW e \in Class, NEW j \in 0 .. Total(e) - 1,
           s # t \/ (c = e /\ i # j)
    PROVE  SliceCells(s, c, i) \cap SliceCells(t, e, j) = {}
<1>1. CASE s # t
  <2>1. s \in Int /\ t \in Int
    BY DEF Slab
  <2>2. \A x \in SliceCells(s, c, i) : x \in Int /\ Within(x, s)
    BY SliceInSlab
  <2>3. \A x \in SliceCells(t, e, j) : x \in Int /\ Within(x, t)
    BY SliceInSlab
  <2> QED
    BY <2>1, <2>2, <2>3, <1>1, SlabsApart
<1>2. CASE s = t /\ c = e /\ i # j
  <2>1. i < j \/ j < i
    BY <1>2
  <2> QED
    BY <2>1, <1>2, SlicesApart
<1> QED
  BY <1>1, <1>2

(* What is held, of blocks and of slices. *)
LEMMA HeldFacts ==
    ASSUME IInv
    PROVE  /\ \A b \in heaps : /\ b.start \in Slab /\ b.num \in Nat /\ b.num > 1
                               /\ Run(b.start, b.num) \subseteq Slab
                               /\ Run(b.start, b.num) \subseteq HeapSlabs
           /\ \A s \in Slab : \A i \in slices[s] :
                 /\ header[s].slice \in Class /\ i \in 0 .. Total(header[s].slice) - 1
                 /\ s \notin HeapSlabs
<1>1. \A b \in heaps : /\ b.start \in Slab /\ b.num \in Nat /\ b.num > 1
                       /\ Run(b.start, b.num) \subseteq Slab
                       /\ Run(b.start, b.num) \subseteq HeapSlabs
  BY DEF IInv, TypeOK, Heap, HeapBlocksDisjoint, HeapSlabs
<1>2. ASSUME NEW s \in Slab, NEW i \in slices[s]
      PROVE  /\ header[s].slice \in Class /\ i \in 0 .. Total(header[s].slice) - 1
             /\ s \notin HeapSlabs
  BY HeldSlabFacts
<1> QED
  BY <1>1, <1>2

LEMMA OwnedAre ==
    ASSUME NEW r
    PROVE  r \in OwnedRegions
              <=> \/ \E b \in heaps : r = HeapCells(b)
                  \/ \E s \in Slab : \E i \in slices[s] :
                        r = SliceCells(s, header[s].slice, i)
BY DEF OwnedRegions

LEMMA OwnedNext ==
    ASSUME NEW r
    PROVE  r \in OwnedRegions'
              <=> \/ \E b \in heaps' : r = HeapCells(b)
                  \/ \E s \in Slab : \E i \in slices'[s] :
                        r = SliceCells(s, header'[s].slice, i)
BY DEF OwnedRegions

LEMMA Granted ==
    ASSUME NEW R, R # {}, R \subseteq Cells,
           \A r \in OwnedRegions : r \cap R = {},
           \A r : r \in OwnedRegions' <=> r \in OwnedRegions \/ r = R
    PROVE  Regions!Next
<1>1. R \notin OwnedRegions
  OBVIOUS
<1>2. OwnedRegions' = OwnedRegions \cup {R}
  OBVIOUS
<1>3. R \in OwnedRegions' \ OwnedRegions
  BY <1>1, <1>2
<1>4. R \cap UNION OwnedRegions = {}
  OBVIOUS
<1>5. Regions!Grant
  BY <1>2, <1>3, <1>4 DEF Regions!Grant
<1> QED
  BY <1>5 DEF Regions!Next

LEMMA Returned ==
    ASSUME NEW R, R \in OwnedRegions,
           \A r : r \in OwnedRegions' <=> r \in OwnedRegions /\ r # R
    PROVE  Regions!Next
<1>1. OwnedRegions' = OwnedRegions \ {R}
  OBVIOUS
<1>2. Regions!Return
  BY <1>1 DEF Regions!Return
<1> QED
  BY <1>2 DEF Regions!Next

LEMMA TookGrants ==
    ASSUME IInv, NEW start, NEW num, NEW size, Took(start, num, size)
    PROVE  Regions!Next
<1> DEFINE b == [start |-> start, num |-> num, size |-> size]
<1>1. /\ b.start = start /\ b.num = num
  OBVIOUS
<1>2. heaps' = heaps \cup {b} /\ slices' = slices
  BY DEF Took
<1> HIDE DEF b
<1>3. /\ b.start \in Slab /\ b.num \in Nat /\ b.num > 1
      /\ Run(b.start, b.num) \subseteq Slab
      /\ \A s \in Run(b.start, b.num) : s \notin HeapSlabs
      /\ \A s \in Slab : slices[s] = {}
  BY <1>1 DEF Took
<1>4. HeapCells(b) # {} /\ HeapCells(b) \subseteq Cells
  BY <1>3, HeapInSlabs
<1>5. ASSUME NEW r \in OwnedRegions PROVE r \cap HeapCells(b) = {}
  <2>1. PICK a \in heaps : r = HeapCells(a)
    BY <1>3, <1>5, OwnedAre
  <2>2. /\ a.start \in Slab /\ a.num \in Nat /\ a.num > 1
        /\ Run(a.start, a.num) \subseteq Slab /\ Run(a.start, a.num) \subseteq HeapSlabs
    BY HeldFacts
  <2>3. Run(a.start, a.num) \cap Run(b.start, b.num) = {}
    BY <2>2, <1>3
  <2> QED
    BY <2>1, <2>2, <2>3, <1>3, HeapsApart
<1>6. ASSUME NEW r
      PROVE  r \in OwnedRegions' <=> r \in OwnedRegions \/ r = HeapCells(b)
  BY <1>2, <1>3, OwnedAre, OwnedNext
<1> QED
  BY <1>4, <1>5, <1>6, Granted

LEMMA GaveBackReturns ==
    ASSUME IInv, NEW b, GaveBack(b)
    PROVE  Regions!Next
<1>1. b \in heaps /\ heaps' = heaps \ {b} /\ slices' = slices
  BY DEF GaveBack
<1>2. /\ b.start \in Slab /\ b.num \in Nat /\ b.num > 1
      /\ Run(b.start, b.num) \subseteq Slab /\ Run(b.start, b.num) \subseteq HeapSlabs
  BY <1>1, HeldFacts
<1>3. HeapCells(b) # {}
  BY <1>2, HeapInSlabs
<1>4. ASSUME NEW a \in heaps, a # b PROVE HeapCells(a) # HeapCells(b)
  <2>1. /\ a.start \in Slab /\ a.num \in Nat /\ a.num > 1
        /\ Run(a.start, a.num) \subseteq Slab
    BY HeldFacts
  <2>2. Run(a.start, a.num) \cap Run(b.start, b.num) = {}
    BY <1>1, <1>4 DEF IInv, HeapBlocksDisjoint
  <2>3. HeapCells(a) \cap HeapCells(b) = {}
    BY <2>1, <2>2, <1>2, HeapsApart
  <2> QED
    BY <2>3, <1>3
<1>5. ASSUME NEW s \in Slab, NEW i \in slices[s]
      PROVE  /\ header'[s] = header[s]
             /\ SliceCells(s, header[s].slice, i) # HeapCells(b)
  <2>1. /\ header[s].slice \in Class /\ i \in 0 .. Total(header[s].slice) - 1
        /\ s \notin HeapSlabs
    BY HeldFacts
  <2>2. HeapCells(b) \cap SliceCells(s, header[s].slice, i) = {}
    BY <2>1, <1>2, SliceOutsideBlock
  <2> QED
    BY <2>1, <2>2, <1>3 DEF GaveBack
<1>6. ASSUME NEW r
      PROVE  r \in OwnedRegions' <=> r \in OwnedRegions /\ r # HeapCells(b)
  <2>1. ASSUME r \in OwnedRegions' PROVE r \in OwnedRegions /\ r # HeapCells(b)
    <3>1. CASE \E a \in heaps' : r = HeapCells(a)
      BY <3>1, <1>1, <1>4, OwnedAre
    <3>2. CASE \E s \in Slab : \E i \in slices'[s] : r = SliceCells(s, header'[s].slice, i)
      BY <3>2, <1>1, <1>5, OwnedAre
    <3> QED
      BY <3>1, <3>2, <2>1, OwnedNext
  <2>2. ASSUME r \in OwnedRegions, r # HeapCells(b) PROVE r \in OwnedRegions'
    <3>1. CASE \E a \in heaps : r = HeapCells(a)
      BY <3>1, <2>2, <1>1, OwnedNext
    <3>2. CASE \E s \in Slab : \E i \in slices[s] : r = SliceCells(s, header[s].slice, i)
      BY <3>2, <1>1, <1>5, OwnedNext
    <3> QED
      BY <3>1, <3>2, <2>2, OwnedAre
  <2> QED
    BY <2>1, <2>2
<1>7. HeapCells(b) \in OwnedRegions
  BY <1>1, OwnedAre
<1> QED
  BY <1>6, <1>7, Returned

LEMMA TookSliceGrants ==
    ASSUME IInv, NEW c, NEW s, NEW ptr, TookSlice(c, s, ptr)
    PROVE  Regions!Next
<1> DEFINE R == SliceCells(s, c, ptr)
<1>1. /\ c \in Class /\ s \in Slab /\ s \notin HeapSlabs
      /\ ptr \in 0 .. Total(c) - 1 /\ ptr \notin slices[s]
      /\ slices[s] # {} => header[s].slice = c
      /\ header' = [header EXCEPT ![s] = header'[s]] /\ header'[s].slice = c
      /\ slices' = [slices EXCEPT ![s] = @ \cup {ptr}]
      /\ heaps' = heaps
      /\ header \in [Slab -> Header] /\ slices \in [Slab -> SUBSET SliceIndex]
  BY DEF TookSlice, IInv, TypeOK
<1>2. /\ slices'[s] = slices[s] \cup {ptr}
      /\ \A t \in Slab \ {s} : slices'[t] = slices[t] /\ header'[t] = header[t]
  BY <1>1
<1>3. R # {} /\ R \subseteq Cells
  <2>1. R # {} /\ \A x \in R : x \in Int /\ Within(x, s)
    BY <1>1, SliceInSlab
  <2> QED
    BY <2>1, <1>1, WithinCells
<1>4. ASSUME NEW r \in OwnedRegions PROVE r \cap R = {}
  <2>1. CASE \E a \in heaps : r = HeapCells(a)
    <3>1. PICK a \in heaps : r = HeapCells(a)
      BY <2>1
    <3>2. /\ a.start \in Slab /\ a.num \in Nat /\ a.num > 1
          /\ Run(a.start, a.num) \subseteq Slab /\ s \notin Run(a.start, a.num)
      BY <1>1, HeldFacts
    <3> QED
      BY <3>1, <3>2, <1>1, SliceOutsideBlock
  <2>2. CASE \E t \in Slab : \E i \in slices[t] : r = SliceCells(t, header[t].slice, i)
    <3>1. PICK t \in Slab : \E i \in slices[t] : r = SliceCells(t, header[t].slice, i)
      BY <2>2
    <3>2. PICK i \in slices[t] : r = SliceCells(t, header[t].slice, i)
      BY <3>1
    <3>3. header[t].slice \in Class /\ i \in 0 .. Total(header[t].slice) - 1
      BY HeldFacts
    <3>4. t # s \/ (header[t].slice = c /\ i # ptr)
      BY <1>1
    <3> QED
      BY <3>2, <3>3, <3>4, <1>1, TwoSlices
  <2> QED
    BY <2>1, <2>2, OwnedAre
<1>5. ASSUME NEW r PROVE r \in OwnedRegions' <=> r \in OwnedRegions \/ r = R
  <2>1. (\E t \in Slab : \E i \in slices'[t] : r = SliceCells(t, header'[t].slice, i))
           <=> \/ \E t \in Slab : \E i \in slices[t] : r = SliceCells(t, header[t].slice, i)
               \/ r = R
    <3>1. ASSUME NEW t \in Slab, NEW i \in slices'[t], r = SliceCells(t, header'[t].slice, i)
          PROVE  \/ \E u \in Slab : \E j \in slices[u] : r = SliceCells(u, header[u].slice, j)
                 \/ r = R
      <4>1. CASE t # s
        BY <4>1, <3>1, <1>2
      <4>2. CASE t = s /\ i # ptr
        BY <4>2, <3>1, <1>1, <1>2
      <4>3. CASE t = s /\ i = ptr
        BY <4>3, <3>1, <1>1
      <4> QED
        BY <4>1, <4>2, <4>3
    <3>2. ASSUME NEW t \in Slab, NEW i \in slices[t], r = SliceCells(t, header[t].slice, i)
          PROVE  \E u \in Slab : \E j \in slices'[u] : r = SliceCells(u, header'[u].slice, j)
      <4>1. i \in slices'[t] /\ header'[t].slice = header[t].slice
        BY <1>1, <1>2
      <4> QED
        BY <4>1, <3>2
    <3>3. r = R => \E u \in Slab : \E j \in slices'[u] : r = SliceCells(u, header'[u].slice, j)
      <4>1. ptr \in slices'[s] /\ header'[s].slice = c
        BY <1>1, <1>2
      <4> QED
        BY <4>1, <1>1
    <3> QED
      BY <3>1, <3>2, <3>3
  <2> QED
    BY <2>1, <1>1, OwnedAre, OwnedNext
<1> HIDE DEF R
<1> QED
  BY <1>3, <1>4, <1>5, Granted

LEMMA GaveSliceReturns ==
    ASSUME IInv, NEW c, NEW s, NEW ptr, GaveSlice(c, s, ptr)
    PROVE  Regions!Next
<1> DEFINE R == SliceCells(s, c, ptr)
<1>1. /\ c \in Class /\ s \in Slab /\ s \notin HeapSlabs
      /\ ptr \in 0 .. Total(c) - 1 /\ ptr \in slices[s]
      /\ header[s].slice = c
      /\ header' = [header EXCEPT ![s] = header'[s]]
      /\ slices'[s] # {} => header'[s].slice = c
      /\ slices' = [slices EXCEPT ![s] = @ \ {ptr}]
      /\ heaps' = heaps
      /\ header \in [Slab -> Header] /\ slices \in [Slab -> SUBSET SliceIndex]
  BY DEF GaveSlice, IInv, TypeOK
<1>2. /\ slices'[s] = slices[s] \ {ptr}
      /\ \A t \in Slab \ {s} : slices'[t] = slices[t] /\ header'[t] = header[t]
  BY <1>1
<1>3. R # {}
  BY <1>1, SliceInSlab
<1>4. ASSUME NEW a \in heaps PROVE HeapCells(a) # R
  <2>1. /\ a.start \in Slab /\ a.num \in Nat /\ a.num > 1
        /\ Run(a.start, a.num) \subseteq Slab /\ s \notin Run(a.start, a.num)
    BY <1>1, HeldFacts
  <2>2. HeapCells(a) \cap R = {}
    BY <2>1, <1>1, SliceOutsideBlock
  <2> QED
    BY <2>2, <1>3
<1>5. ASSUME NEW t \in Slab, NEW i \in slices[t], t # s \/ i # ptr
      PROVE  SliceCells(t, header[t].slice, i) # R
  <2>1. header[t].slice \in Class /\ i \in 0 .. Total(header[t].slice) - 1
    BY HeldFacts
  <2>2. SliceCells(t, header[t].slice, i) \cap R = {}
    BY <2>1, <1>1, <1>5, TwoSlices
  <2> QED
    BY <2>2, <1>3
<1> HIDE DEF R
<1>6. ASSUME NEW t \in Slab, NEW i \in slices'[t]
      PROVE  /\ i \in slices[t] /\ (t # s \/ i # ptr)
             /\ header'[t].slice = header[t].slice
  <2>1. CASE t = s
    BY <2>1, <1>1, <1>2, <1>6
  <2>2. CASE t # s
    BY <2>2, <1>2, <1>6
  <2> QED
    BY <2>1, <2>2
<1>7. ASSUME NEW t \in Slab, NEW i \in slices[t], t # s \/ i # ptr
      PROVE  i \in slices'[t]
  BY <1>2, <1>7
<1>8. R \in OwnedRegions
  <2>1. \E t \in Slab : \E i \in slices[t] : R = SliceCells(t, header[t].slice, i)
    BY <1>1 DEF R
  <2> QED
    BY <2>1, OwnedAre
<1>9. ASSUME NEW r PROVE r \in OwnedRegions' <=> r \in OwnedRegions /\ r # R
  <2>1. ASSUME NEW t \in Slab, NEW i \in slices'[t], r = SliceCells(t, header'[t].slice, i)
        PROVE  r \in OwnedRegions /\ r # R
    <3>1. i \in slices[t] /\ r = SliceCells(t, header[t].slice, i) /\ r # R
      BY <2>1, <1>5, <1>6
    <3> QED
      BY <3>1, OwnedAre
  <2>2. ASSUME NEW t \in Slab, NEW i \in slices[t], r = SliceCells(t, header[t].slice, i), r # R
        PROVE  r \in OwnedRegions'
    <3>1. t # s \/ i # ptr
      BY <2>2, <1>1 DEF R
    <3>2. i \in slices'[t] /\ r = SliceCells(t, header'[t].slice, i)
      BY <3>1, <2>2, <1>6, <1>7
    <3> QED
      BY <3>2, OwnedNext
  <2>3. ASSUME NEW a \in heaps, r = HeapCells(a)
        PROVE  r \in OwnedRegions /\ r # R /\ r \in OwnedRegions'
    BY <2>3, <1>1, <1>4, OwnedAre, OwnedNext
  <2> QED
    BY <2>1, <2>2, <2>3, <1>1, OwnedAre, OwnedNext
<1> QED
  BY <1>8, <1>9, Returned

(* usmm is a memory allocator: no pointer it returns overlaps a region that is held, and
   none moves or shrinks until it is given back, byte for byte, for all sizes of slabs,
   headers, slices and blocks. *)
THEOREM RegionsNeverOverlap == DocSpec => ImplementsRegionAlloc
<1>1. Init => Regions!Init
  <2> SUFFICES ASSUME Init PROVE OwnedRegions = {}
    BY DEF Regions!Init
  <2>1. heaps = {} /\ \A s \in Slab : slices[s] = {}
    BY DEF Init
  <2> QED
    BY <2>1, OwnedAre
<1>2. IInv /\ ClassCountersHold /\ [DocNext]_vars => [Regions!Next]_OwnedRegions
  <2> SUFFICES ASSUME IInv, ClassCountersHold, [DocNext]_vars
               PROVE  [Regions!Next]_OwnedRegions
    OBVIOUS
  <2>1. CASE UNCHANGED <<heaps, slices, header>>
    <3>1. OwnedRegions' = OwnedRegions
      BY <2>1 DEF OwnedRegions
    <3> QED
      BY <3>1
  <2>2. ASSUME NEW start, NEW num, NEW size, Took(start, num, size) PROVE Regions!Next
    BY <2>2, TookGrants
  <2>3. ASSUME NEW b, GaveBack(b) PROVE Regions!Next
    BY <2>3, GaveBackReturns
  <2>4. ASSUME NEW c, NEW s, NEW ptr, TookSlice(c, s, ptr) \/ GaveSlice(c, s, ptr)
        PROVE  Regions!Next
    BY <2>4, TookSliceGrants, GaveSliceReturns
  <2> QED
    BY <2>1, <2>2, <2>3, <2>4, StepKinds
<1>3. Init => ClassCountersHold
  BY InitClasses
<1>4. IInv /\ ClassCountersHold /\ [DocNext]_vars => ClassCountersHold'
  BY StepKinds
<1>5. Regions!Spec <=> ImplementsRegionAlloc
  BY DEF ImplementsRegionAlloc
<1> QED
  BY <1>1, <1>2, <1>3, <1>4, <1>5, Invariance, PTL DEF DocSpec, Regions!Spec

-----------------------------------------------------------------------------
(* The heap level alone: no slices, any order of calls, also after initialisation,
   and requests for a single slab, at which the process dies. *)

(* The lengths for which the search answers with a run that is free, and those it
   is never made for. *)
LengthsSearched ==
    \A size \in HeapSizes : HeapNum(size) =< 1 \/ SoundNum(HeapNum(size))

(* The bitmap is what keeps blocks apart, so it must be exact, and so must the
   length word, since usmm_heap_free clears as many bits as that says. *)
BlocksOK ==
    /\ TypeOK
    /\ HeapBlocksDisjoint
    /\ BitmapIsHeap

LEMMA InitBlocksOK == Init => BlocksOK
<1> SUFFICES ASSUME Init PROVE BlocksOK
  OBVIOUS
<1>1. TypeOK
  BY InitIInv DEF IInv
<1>2. heaps = {} /\ HeapSlabs = {} /\ slab_bitmap = Slab
  BY DEF Init, HeapSlabs
<1> QED
  BY <1>1, <1>2 DEF BlocksOK, HeapBlocksDisjoint, BitmapIsHeap

LEMMA BlockTaken ==
    ASSUME BlocksOK, NEW start \in Nat, NEW size \in HeapSizes,
           NEW num \in Nat, num > 1,
           Run(start, num) \subseteq slab_bitmap, HeapTake(start, num, size)
    PROVE  BlocksOK'
<1> DEFINE R == Run(start, num)
           b0 == [start |-> start, num |-> num, size |-> size]
<1> USE DEF BlocksOK
<1>1. R \subseteq Slab /\ \A s \in R : s \notin HeapSlabs
  BY DEF BitmapIsHeap
<1>2. start \in R /\ start \in Slab
  BY <1>1 DEF Run
<1>3. /\ heaps' = heaps \cup {b0}
      /\ header' = [s \in Slab |->
                      IF s \notin R THEN header[s]
                      ELSE IF s = start THEN [usmm_slab_fini EXCEPT !.word = num]
                      ELSE usmm_slab_fini]
      /\ free_slabs' = free_slabs \ R /\ full_slabs' = full_slabs \ R
      /\ slabs' = [c \in Class |-> slabs[c] \ R]
  BY DEF HeapTake, ListDel
<1>4. b0.start = start /\ b0.num = num /\ b0 \in Heap
  BY <1>2 DEF Heap
<1>5. slab_bitmap' = slab_bitmap \ R
  BY DEF HeapTake, bitmap_set_range, Run
<1>6. TypeOK'
  <2>1. header' \in [Slab -> Header]
    BY <1>3 DEF TypeOK, Header, usmm_slab_fini
  <2> QED
    BY <2>1, <1>3, <1>4, <1>5 DEF TypeOK, HeapTake
<1> HIDE DEF b0, R
<1>7. HeapSlabs' = HeapSlabs \cup R
  BY <1>3, <1>4 DEF HeapSlabs, R
<1>8. HeapBlocksDisjoint'
  <2>1. \A b \in heaps : Run(b.start, b.num) \cap R = {}
    BY <1>1 DEF HeapSlabs
  <2> QED
    BY <2>1, <1>1, <1>3, <1>4 DEF HeapBlocksDisjoint, R
<1>9. \A b \in heaps' : header'[b.start].word = b.num
  <2>1. \A b \in heaps : b.start \in HeapSlabs /\ b.start \in Slab
    BY DEF HeapBlocksDisjoint, HeapSlabs, Run, TypeOK, Heap, Slab
  <2>2. \A b \in heaps : header'[b.start] = header[b.start]
    BY <2>1, <1>1, <1>3
  <2>3. header'[start].word = num
    BY <1>2, <1>3 DEF usmm_slab_fini
  <2> QED
    BY <2>2, <2>3, <1>3, <1>4 DEF BitmapIsHeap
<1> QED
  BY <1>5, <1>6, <1>7, <1>8, <1>9 DEF BitmapIsHeap

LEMMA BlockFreed ==
    ASSUME BlocksOK, NEW b \in heaps, HeapFree(b)
    PROVE  BlocksOK'
<1> DEFINE R == Run(b.start, b.num)
<1> USE DEF BlocksOK
<1>1. /\ b.start \in Slab /\ b.num \in Nat /\ b.num > 1
      /\ header[b.start].word = b.num /\ R \subseteq Slab
  BY DEF TypeOK, Heap, HeapBlocksDisjoint, BitmapIsHeap
<1>2. /\ header' = [s \in Slab |-> IF s \in R THEN usmm_slab_init ELSE header[s]]
      /\ free_slabs' = free_slabs \cup R
      /\ slab_bitmap' = bitmap_clr_range(slab_bitmap, b.start, b.start + b.num)
      /\ stat_free_slabs' = stat_free_slabs + b.num
      /\ heaps' = heaps \ {b}
      /\ UNCHANGED <<full_slabs, slabs, stat_full_slabs, stat_slices, slices, died>>
  BY <1>1 DEF HeapFree
<1>3. slab_bitmap' = slab_bitmap \cup R
  BY <1>1, <1>2 DEF bitmap_clr_range, Run, Slab
<1>4. TypeOK'
  <2>1. header' \in [Slab -> Header]
    BY <1>2 DEF TypeOK, Header, usmm_slab_init, Magic
  <2> QED
    BY <2>1, <1>1, <1>2, <1>3 DEF TypeOK
<1> HIDE DEF R
<1>5. HeapBlocksDisjoint'
  BY <1>2 DEF HeapBlocksDisjoint
<1>6. ASSUME NEW a \in heaps' PROVE Run(a.start, a.num) \cap R = {}
  BY <1>2, <1>6 DEF HeapBlocksDisjoint, R
<1>7. HeapSlabs' = HeapSlabs \ R
  BY <1>2, <1>6 DEF HeapSlabs, R
<1>8. \A a \in heaps' : header'[a.start].word = a.num
  <2> SUFFICES ASSUME NEW a \in heaps' PROVE header'[a.start].word = a.num
    OBVIOUS
  <2>1. a \in heaps /\ a.start \in Slab /\ a.start \in Run(a.start, a.num)
    BY <1>2 DEF HeapBlocksDisjoint, Run, TypeOK, Heap, Slab
  <2>2. a.start \notin R
    BY <2>1, <1>6
  <2> QED
    BY <2>1, <2>2, <1>2 DEF BitmapIsHeap
<1> QED
  BY <1>1, <1>3, <1>4, <1>5, <1>7, <1>8 DEF BitmapIsHeap, R

(* The blocks of usmm_heap_alloc never overlap, in whatever order blocks are taken and
   given back, in any of the lengths the search is sound for (bitmap.c:45).  It is the
   search that keeps them apart: where it answered with a slab of another block,
   list_del would read the application's bytes and might go on. *)
THEOREM BlocksNeverOverlap ==
    ASSUME Class = {}, LengthsSearched
    PROVE  Spec => []HeapBlocksDisjoint
<1>1. ASSUME BlocksOK, [Next]_vars PROVE BlocksOK'
  <2>1. CASE UNCHANGED vars
    BY <1>1, <2>1
       DEF BlocksOK, TypeOK, HeapBlocksDisjoint, BitmapIsHeap, HeapSlabs,
           vars, lists, stats, app
  <2>2. CASE Die
    BY <1>1, <2>2
       DEF BlocksOK, TypeOK, HeapBlocksDisjoint, BitmapIsHeap, HeapSlabs,
           Die, lists, stats, app
  <2>3. ASSUME NEW size \in HeapSizes, HeapAlloc(size) PROVE BlocksOK'
    <3> DEFINE num == HeapNum(size)
               found == bitmap_find_range(slab_bitmap, num, N)
    <3>1. HeapAssert(size) => num \in Nat /\ num > 1 /\ SoundNum(num)
      BY SizeAssumption DEF HeapAssert, HeapNum, LengthsSearched
    <3>2. ASSUME NEW start \in found, HeapAssert(size), HeapTake(start, num, size)
          PROVE  BlocksOK'
      <4>1. start \in Nat /\ Run(start, num) \subseteq slab_bitmap
        BY <3>1, <3>2, FoundRunFree, NAssumption
      <4> QED
        BY <1>1, <3>1, <3>2, <4>1, BlockTaken
    <3> QED
      BY <2>1, <2>2, <2>3, <3>2 DEF HeapAlloc
  <2>4. ASSUME NEW b \in heaps, HeapFree(b) PROVE BlocksOK'
    BY <1>1, <2>4, BlockFreed
  <2>5. ASSUME NEW s \in Slab, NEW ptr \in slices[s], SliceFree(s, ptr) PROVE BlocksOK'
    <3>1. header[s].slice = NoClass
      BY <1>1 DEF BlocksOK, TypeOK, Header
    <3> QED
      BY <2>2, <2>5, <3>1 DEF SliceFree, SliceAssert
  <2> QED
    BY <1>1, <2>1, <2>3, <2>4, <2>5 DEF Next, FreeSome
<1>2. BlocksOK => HeapBlocksDisjoint
  BY DEF BlocksOK
<1> QED
  BY <1>1, <1>2, InitBlocksOK, PTL DEF Spec

-----------------------------------------------------------------------------
(* The size classes.  usmm_slab_find finds the smallest class for every size an int
   holds, and usmm_slice_free finds the class again, also that of a size which wrapped:
   the two invariants of SizeClass, whatever the width of an int and the largest size
   asked for.

   The table of sizes is first brought into a closed form (TableSize), one case for each
   band.  A size is then found by the arithmetic of its own band alone, since the bands
   are told apart by their limits. *)

(* An int holds every slice size. *)
IntsHoldSlices == 128 * kb =< INT_MAX

(* The table as a function of the class, band by band. *)
TableSize(i) ==
    CASE i = 0         -> 8
      [] i \in 1 .. 8   -> 16 + 16 * (i - 1)
      [] i \in 9 .. 14  -> 192 + 64 * (i - 9)
      [] i \in 15 .. 20 -> 768 + 256 * (i - 15)
      [] i \in 21 .. 27 -> 4096 + 2048 * (i - 21)
      [] i \in 28 .. 35 -> 20480 + 4096 * (i - 28)
      [] i \in 36 .. 40 -> 65536 + 16384 * (i - 36)

-----------------------------------------------------------------------------
(* The entries of gs_slab_array are those of the closed form. *)
LEMMA TableClosedForm == \A i \in Index : gs_slab_array[i] = TableSize(i)
<1> SUFFICES ASSUME NEW i \in Index PROVE SlabArray[i + 1] = TableSize(i)
  BY DEF gs_slab_array
<1>1. CASE i \in 0 .. 8
  BY <1>1 DEF SlabArray, TableSize, kb
<1>2. CASE i \in 9 .. 14
  BY <1>2 DEF SlabArray, TableSize, kb
<1>3. CASE i \in 15 .. 20
  BY <1>3 DEF SlabArray, TableSize, kb
<1>4. CASE i \in 21 .. 27
  BY <1>4 DEF SlabArray, TableSize, kb
<1>5. CASE i \in 28 .. 35
  BY <1>5 DEF SlabArray, TableSize, kb
<1>6. CASE i \in 36 .. 40
  BY <1>6 DEF SlabArray, TableSize, kb
<1> QED
  BY <1>1, <1>2, <1>3, <1>4, <1>5, <1>6 DEF Index

(* The conversion of a size_t to an int keeps a size that an int holds. *)
LEMMA SizeKept == ASSUME NEW n \in 0 .. INT_MAX PROVE AsInt(n) = n
<1> DEFINE ints == 2 * (INT_MAX + 1)
<1>1. ints \in Nat /\ n \in 0 .. ints - 1
  BY WidthAssumption
<1> HIDE DEF ints
<1>2. n % ints = n
  BY <1>1
<1> QED
  BY <1>2 DEF AsInt, ints

-----------------------------------------------------------------------------
(* The band of a size is the one with the least limit it does not exceed. *)
LEMMA BandFound ==
    ASSUME NEW n \in Int, NEW b \in Bands, n =< b.upto,
           \A d \in Bands : n =< d.upto => b.upto =< d.upto
    PROVE  BandOf(n) = b
<1>1. \A d \in Bands : d.upto = b.upto => d = b
  BY SMT DEF Bands, Band, kb
<1>2. \A d \in Bands : d.upto \in Int
  BY SMT DEF Bands, Band, kb
<1>3. \A d \in Bands : (/\ n =< d.upto
                        /\ \A e \in Bands : n =< e.upto => d.upto =< e.upto) => d = b
  BY <1>1, <1>2
<1>4. BandOf(n) \in Bands /\ n =< BandOf(n).upto
      /\ \A e \in Bands : n =< e.upto => BandOf(n).upto =< e.upto
  BY Zenon DEF BandOf
<1> QED
  BY <1>3, <1>4

(* The slice sizes grow with the class. *)
LEMMA SizesGrow == \A i, j \in Index : j < i => TableSize(j) < TableSize(i)
BY SMTT(60) DEF TableSize, Index

(* Class i is the smallest that holds n bytes. *)
Fits(n, i) == /\ i \in Index
              /\ n =< TableSize(i)
              /\ \A j \in Index : j < i => TableSize(j) < n

(* It is enough to look at the class below. *)
LEMMA NextBelow ==
    ASSUME NEW n \in Int, NEW i \in Index,
           n =< TableSize(i), i # 0 => TableSize(i - 1) < n
    PROVE  Fits(n, i)
<1> SUFFICES ASSUME NEW j \in Index, j < i PROVE TableSize(j) < n
  BY DEF Fits
<1>1. i - 1 \in Index /\ (j = i - 1 \/ j < i - 1)
  BY DEF Index
<1>2. \A k \in Index : TableSize(k) \in Int
  BY DEF TableSize, Index
<1>3. TableSize(j) =< TableSize(i - 1)
  BY <1>1, <1>2, SizesGrow
<1> QED
  BY <1>1, <1>2, <1>3 DEF Index

(* In each band the arithmetic of the code gives the smallest class that fits. *)
LEMMA FindIsSmallest ==
    ASSUME NEW n \in Nat, n =< 128 * kb PROVE Fits(n, usmm_slab_find(n))
<1>1. CASE n =< 8
  <2>1. usmm_slab_find(n) = 0 /\ 0 \in Index /\ n =< TableSize(0)
    BY <1>1 DEF usmm_slab_find, TableSize, Index
  <2> QED
    BY <2>1, NextBelow
<1>2. CASE 8 < n /\ n =< 128
  <2> DEFINE b == Band(128, 16, 16, 1)
             a == USMM_ALIGN(n, 16)
             i == (Larger(a, 16) - 16) \div 16 + 1
  <2>1. b \in Bands /\ b.upto = 128 /\ b.step = 16 /\ b.least = 16 /\ b.first = 1
    BY DEF Bands, Band, kb
  <2>2. \A d \in Bands : n =< d.upto => b.upto =< d.upto
    BY <1>2 DEF Bands, Band, kb
  <2>3. usmm_slab_find(n) = i
    <3>1. BandOf(n) = b
      <4>1. n \in Int /\ n =< b.upto
        BY <1>2, <2>1
      <4> HIDE DEF b
      <4> QED
        BY <4>1, <2>1, <2>2, BandFound
    <3>2. n > 8 /\ ~(\A d \in Bands : n > d.upto)
      BY <1>2, <2>1
    <3> HIDE DEF b
    <3> QED
      BY <3>1, <3>2, <2>1 DEF usmm_slab_find, BandIndex
  <2>4. i \in 1 .. 8 /\ n =< TableSize(i) /\ TableSize(i - 1) < n
    <3> DEFINE q == (n + 15) \div 16
    <3>1. q \in 1 .. 8 /\ n =< 16 * q /\ 16 * q < n + 16
      BY <1>2
    <3>2. a = q * 16
      BY <1>2 DEF USMM_ALIGN
    <3> HIDE DEF q, a
    <3>3. i = q - 1 + 1
      BY <3>1, <3>2 DEF Larger
    <3> HIDE DEF i
    <3>4. TableSize(i) = 16 + 16 * (i - 1)
      BY <3>1, <3>3 DEF TableSize
    <3>5. TableSize(i - 1) < n
      BY <3>1, <3>3, <1>2 DEF TableSize
    <3> QED
      BY <3>1, <3>3, <3>4, <3>5
  <2> HIDE DEF i
  <2> QED
    BY <2>3, <2>4, NextBelow DEF Index
<1>3. CASE 128 < n /\ n =< 512
  <2> DEFINE b == Band(512, 64, 192, 9)
             a == USMM_ALIGN(n, 64)
             i == (Larger(a, 192) - 192) \div 64 + 9
  <2>1. b \in Bands /\ b.upto = 512 /\ b.step = 64 /\ b.least = 192 /\ b.first = 9
    BY DEF Bands, Band, kb
  <2>2. \A d \in Bands : n =< d.upto => b.upto =< d.upto
    BY <1>3 DEF Bands, Band, kb
  <2>3. usmm_slab_find(n) = i
    <3>1. BandOf(n) = b
      <4>1. n \in Int /\ n =< b.upto
        BY <1>3, <2>1
      <4> HIDE DEF b
      <4> QED
        BY <4>1, <2>1, <2>2, BandFound
    <3>2. n > 8 /\ ~(\A d \in Bands : n > d.upto)
      BY <1>3, <2>1
    <3> HIDE DEF b
    <3> QED
      BY <3>1, <3>2, <2>1 DEF usmm_slab_find, BandIndex
  <2>4. i \in 9 .. 14 /\ n =< TableSize(i) /\ TableSize(i - 1) < n
    <3> DEFINE q == (n + 63) \div 64
    <3>1. q \in 3 .. 8 /\ n =< 64 * q /\ 64 * q < n + 64
      BY <1>3
    <3>2. a = q * 64
      BY <1>3 DEF USMM_ALIGN
    <3> HIDE DEF q, a
    <3>3. i = q - 3 + 9
      BY <3>1, <3>2 DEF Larger
    <3> HIDE DEF i
    <3>4. TableSize(i) = 192 + 64 * (i - 9)
      BY <3>1, <3>3 DEF TableSize
    <3>5. TableSize(i - 1) < n
      BY <3>1, <3>3, <1>3 DEF TableSize
    <3> QED
      BY <3>1, <3>3, <3>4, <3>5
  <2> HIDE DEF i
  <2> QED
    BY <2>3, <2>4, NextBelow DEF Index
<1>4. CASE 512 < n /\ n =< 2048
  <2> DEFINE b == Band(2048, 256, 768, 15)
             a == USMM_ALIGN(n, 256)
             i == (Larger(a, 768) - 768) \div 256 + 15
  <2>1. b \in Bands /\ b.upto = 2048 /\ b.step = 256 /\ b.least = 768 /\ b.first = 15
    BY DEF Bands, Band, kb
  <2>2. \A d \in Bands : n =< d.upto => b.upto =< d.upto
    BY <1>4 DEF Bands, Band, kb
  <2>3. usmm_slab_find(n) = i
    <3>1. BandOf(n) = b
      <4>1. n \in Int /\ n =< b.upto
        BY <1>4, <2>1
      <4> HIDE DEF b
      <4> QED
        BY <4>1, <2>1, <2>2, BandFound
    <3>2. n > 8 /\ ~(\A d \in Bands : n > d.upto)
      BY <1>4, <2>1
    <3> HIDE DEF b
    <3> QED
      BY <3>1, <3>2, <2>1 DEF usmm_slab_find, BandIndex
  <2>4. i \in 15 .. 20 /\ n =< TableSize(i) /\ TableSize(i - 1) < n
    <3> DEFINE q == (n + 255) \div 256
    <3>1. q \in 3 .. 8 /\ n =< 256 * q /\ 256 * q < n + 256
      BY <1>4
    <3>2. a = q * 256
      BY <1>4 DEF USMM_ALIGN
    <3> HIDE DEF q, a
    <3>3. i = q - 3 + 15
      BY <3>1, <3>2 DEF Larger
    <3> HIDE DEF i
    <3>4. TableSize(i) = 768 + 256 * (i - 15)
      BY <3>1, <3>3 DEF TableSize
    <3>5. TableSize(i - 1) < n
      BY <3>1, <3>3, <1>4 DEF TableSize
    <3> QED
      BY <3>1, <3>3, <3>4, <3>5
  <2> HIDE DEF i
  <2> QED
    BY <2>3, <2>4, NextBelow DEF Index
<1>5. CASE 2048 < n /\ n =< 16384
  <2> DEFINE b == Band(16384, 2048, 4096, 21)
             a == USMM_ALIGN(n, 2048)
             i == (Larger(a, 4096) - 4096) \div 2048 + 21
  <2>1. b \in Bands /\ b.upto = 16384 /\ b.step = 2048 /\ b.least = 4096 /\ b.first = 21
    BY DEF Bands, Band, kb
  <2>2. \A d \in Bands : n =< d.upto => b.upto =< d.upto
    BY <1>5 DEF Bands, Band, kb
  <2>3. usmm_slab_find(n) = i
    <3>1. BandOf(n) = b
      <4>1. n \in Int /\ n =< b.upto
        BY <1>5, <2>1
      <4> HIDE DEF b
      <4> QED
        BY <4>1, <2>1, <2>2, BandFound
    <3>2. n > 8 /\ ~(\A d \in Bands : n > d.upto)
      BY <1>5, <2>1
    <3> HIDE DEF b
    <3> QED
      BY <3>1, <3>2, <2>1 DEF usmm_slab_find, BandIndex
  <2>4. i \in 21 .. 27 /\ n =< TableSize(i) /\ TableSize(i - 1) < n
    <3> DEFINE q == (n + 2047) \div 2048
    <3>1. q \in 2 .. 8 /\ n =< 2048 * q /\ 2048 * q < n + 2048
      BY <1>5
    <3>2. a = q * 2048
      BY <1>5 DEF USMM_ALIGN
    <3> HIDE DEF q, a
    <3>3. i = q - 2 + 21
      BY <3>1, <3>2 DEF Larger
    <3> HIDE DEF i
    <3>4. TableSize(i) = 4096 + 2048 * (i - 21)
      BY <3>1, <3>3 DEF TableSize
    <3>5. TableSize(i - 1) < n
      BY <3>1, <3>3, <1>5 DEF TableSize
    <3> QED
      BY <3>1, <3>3, <3>4, <3>5
  <2> HIDE DEF i
  <2> QED
    BY <2>3, <2>4, NextBelow DEF Index
<1>6. CASE 16384 < n /\ n =< 49152
  <2> DEFINE b == Band(49152, 4096, 20480, 28)
             a == USMM_ALIGN(n, 4096)
             i == (Larger(a, 20480) - 20480) \div 4096 + 28
  <2>1. b \in Bands /\ b.upto = 49152 /\ b.step = 4096 /\ b.least = 20480 /\ b.first = 28
    BY DEF Bands, Band, kb
  <2>2. \A d \in Bands : n =< d.upto => b.upto =< d.upto
    BY <1>6 DEF Bands, Band, kb
  <2>3. usmm_slab_find(n) = i
    <3>1. BandOf(n) = b
      <4>1. n \in Int /\ n =< b.upto
        BY <1>6, <2>1
      <4> HIDE DEF b
      <4> QED
        BY <4>1, <2>1, <2>2, BandFound
    <3>2. n > 8 /\ ~(\A d \in Bands : n > d.upto)
      BY <1>6, <2>1
    <3> HIDE DEF b
    <3> QED
      BY <3>1, <3>2, <2>1 DEF usmm_slab_find, BandIndex
  <2>4. i \in 28 .. 35 /\ n =< TableSize(i) /\ TableSize(i - 1) < n
    <3> DEFINE q == (n + 4095) \div 4096
    <3>1. q \in 5 .. 12 /\ n =< 4096 * q /\ 4096 * q < n + 4096
      BY <1>6
    <3>2. a = q * 4096
      BY <1>6 DEF USMM_ALIGN
    <3> HIDE DEF q, a
    <3>3. i = q - 5 + 28
      BY <3>1, <3>2 DEF Larger
    <3> HIDE DEF i
    <3>4. TableSize(i) = 20480 + 4096 * (i - 28)
      BY <3>1, <3>3 DEF TableSize
    <3>5. TableSize(i - 1) < n
      BY <3>1, <3>3, <1>6 DEF TableSize
    <3> QED
      BY <3>1, <3>3, <3>4, <3>5
  <2> HIDE DEF i
  <2> QED
    BY <2>3, <2>4, NextBelow DEF Index
<1>7. CASE 49152 < n /\ n =< 131072
  <2> DEFINE b == Band(131072, 16384, 65536, 36)
             a == USMM_ALIGN(n, 16384)
             i == (Larger(a, 65536) - 65536) \div 16384 + 36
  <2>1. b \in Bands /\ b.upto = 131072 /\ b.step = 16384 /\ b.least = 65536 /\ b.first = 36
    BY DEF Bands, Band, kb
  <2>2. \A d \in Bands : n =< d.upto => b.upto =< d.upto
    BY <1>7 DEF Bands, Band, kb
  <2>3. usmm_slab_find(n) = i
    <3>1. BandOf(n) = b
      <4>1. n \in Int /\ n =< b.upto
        BY <1>7, <2>1
      <4> HIDE DEF b
      <4> QED
        BY <4>1, <2>1, <2>2, BandFound
    <3>2. n > 8 /\ ~(\A d \in Bands : n > d.upto)
      BY <1>7, <2>1
    <3> HIDE DEF b
    <3> QED
      BY <3>1, <3>2, <2>1 DEF usmm_slab_find, BandIndex
  <2>4. i \in 36 .. 40 /\ n =< TableSize(i) /\ TableSize(i - 1) < n
    <3> DEFINE q == (n + 16383) \div 16384
    <3>1. q \in 4 .. 8 /\ n =< 16384 * q /\ 16384 * q < n + 16384
      BY <1>7
    <3>2. a = q * 16384
      BY <1>7 DEF USMM_ALIGN
    <3> HIDE DEF q, a
    <3>3. i = q - 4 + 36
      BY <3>1, <3>2 DEF Larger
    <3> HIDE DEF i
    <3>4. TableSize(i) = 65536 + 16384 * (i - 36)
      BY <3>1, <3>3 DEF TableSize
    <3>5. TableSize(i - 1) < n
      BY <3>1, <3>3, <1>7 DEF TableSize
    <3> QED
      BY <3>1, <3>3, <3>4, <3>5
  <2> HIDE DEF i
  <2> QED
    BY <2>3, <2>4, NextBelow DEF Index
<1>8. n =< 131072
  BY DEF kb
<1> QED
  BY <1>1, <1>2, <1>3, <1>4, <1>5, <1>6, <1>7, <1>8

(* A larger request is refused. *)
LEMMA LargerRefused == ASSUME NEW n \in Int, n > 128 * kb PROVE usmm_slab_find(n) = -1
BY DEF usmm_slab_find, Bands, Band, kb

-----------------------------------------------------------------------------
(* A request is a number of bytes up to MaxSize. *)
InRange == asked \in 0 .. MaxSize

LEMMA SizesInRange == SizeSpec => []InRange
<1>1. SizeInit => InRange
  BY WidthAssumption DEF SizeInit, InRange
<1>2. InRange /\ [SizeNext]_asked => InRange'
  BY WidthAssumption DEF SizeNext, InRange
<1> QED
  BY <1>1, <1>2, PTL DEF SizeSpec

(* Of every request an int can hold, the class served from is the smallest that
   holds it, and only a request beyond 128 kB is refused (usmm.c:56). *)
THEOREM SmallestFit == SizeSpec => []ClassIsSmallestFit
<1>1. InRange => ClassIsSmallestFit
  <2> SUFFICES ASSUME InRange, asked =< INT_MAX PROVE ClassIsSmallestFit
    BY DEF ClassIsSmallestFit
  <2>1. asked \in Nat /\ ClassFor(asked) = usmm_slab_find(asked)
    BY SizeKept, WidthAssumption DEF InRange, ClassFor
  <2>2. CASE asked > 128 * kb
    BY <2>1, <2>2, LargerRefused DEF ClassIsSmallestFit
  <2>3. CASE asked =< 128 * kb
    <3>1. Fits(asked, ClassFor(asked))
      BY <2>1, <2>3, FindIsSmallest
    <3>2. ~(asked > 128 * kb)
      BY <2>1, <2>3 DEF kb
    <3> QED
      BY <3>1, <3>2, TableClosedForm DEF Fits, ClassIsSmallestFit
  <2> QED
    BY <2>1, <2>2, <2>3 DEF kb
<1> QED
  BY <1>1, SizesInRange, PTL

(* Whatever a size becomes as an int, it is refused or served from one of the classes. *)
LEMMA ClassInTable ==
    ASSUME NEW n \in Nat, ClassFor(n) # -1 PROVE ClassFor(n) \in Index
<1> DEFINE k == AsInt(n)
<1>1. k \in Int
  BY WidthAssumption DEF AsInt
<1>2. ClassFor(n) = usmm_slab_find(k)
  BY DEF ClassFor
<1> HIDE DEF k
<1>3. CASE k < 0
  BY <1>1, <1>2, <1>3 DEF usmm_slab_find, Index
<1>4. CASE k >= 0
  <2>1. k =< 128 * kb
    BY <1>1, <1>2, LargerRefused DEF kb
  <2>2. k \in Nat
    BY <1>1, <1>4
  <2> QED
    BY <1>2, <2>1, <2>2, FindIsSmallest DEF Fits
<1> QED
  BY <1>1, <1>3, <1>4

(* The slice size of the class served from is a size of that class itself, so the
   ASSERT of usmm_slice_free on the size it looks up holds (usmm.c:314). *)
THEOREM FreeFindsIt == ASSUME IntsHoldSlices PROVE SizeSpec => []FreeFindsSameClass
<1>1. \A i \in Index : /\ usmm_slab_find(TableSize(i)) = i
                      /\ ClassFor(TableSize(i)) = i
  <2> SUFFICES ASSUME NEW i \in Index
               PROVE  usmm_slab_find(TableSize(i)) = i /\ ClassFor(TableSize(i)) = i
    OBVIOUS
  <2>1. TableSize(i) \in Nat /\ TableSize(i) =< 128 * kb
    BY DEF TableSize, Index, kb
  <2>2. Fits(TableSize(i), usmm_slab_find(TableSize(i)))
    BY <2>1, FindIsSmallest
  <2>3. usmm_slab_find(TableSize(i)) = i
    <3> DEFINE k == usmm_slab_find(TableSize(i))
    <3>1. k \in Index /\ TableSize(i) =< TableSize(k) /\ (i < k => TableSize(i) < TableSize(i))
      BY <2>2 DEF Fits
    <3> HIDE DEF k
    <3>2. TableSize(k) \in Int
      BY <3>1 DEF TableSize, Index
    <3>3. ~(k < i)
      BY <3>1, <3>2, <2>1, SizesGrow
    <3> QED
      BY <3>1, <3>3, <2>1 DEF Index, k
  <2>4. AsInt(TableSize(i)) = TableSize(i)
    BY <2>1, SizeKept, WidthAssumption DEF IntsHoldSlices, kb
  <2> QED
    BY <2>3, <2>4 DEF ClassFor
<1>2. InRange => FreeFindsSameClass
  <2> SUFFICES ASSUME InRange, ClassFor(asked) # -1
               PROVE  LET i == ClassFor(asked)
                      IN  /\ usmm_slab_find(gs_slab_array[i]) = i
                          /\ i = ClassFor(gs_slab_array[i])
    BY DEF FreeFindsSameClass
  <2>1. ClassFor(asked) \in Index
    BY WidthAssumption, ClassInTable DEF InRange
  <2> QED
    BY <2>1, <1>1, TableClosedForm
<1> QED
  BY <1>2, SizesInRange, PTL

=============================================================================
