--------------------------- MODULE UsmmCrashProofs ---------------------------
(***************************************************************************)
(* What crashes leave intact in usmm's mapping (module UsmmCrash), for any *)
(* number of slabs, classes, slices and crashes.                           *)
(***************************************************************************)
EXTENDS UsmmCrash, FiniteSetTheorems, TLAPS

SliceStep == {"create", "link", "pop", "count", "test", "full",
              "uncount", "leavefull", "relink", "drain", "reinit", "release"}

HeapStep == {"set", "unlink", "wipe", "length", "hand over", "renew", "add", "clear"}

BootStep == {"start", "lists", "slabs"}

(* The local variables of each call. *)
BootOp  == [at : BootStep \cup {"idle"}]
SliceOp == [at : SliceStep, slab : Slab, class : Class,
            ptr : SliceIndex \cup {NULL}, full : BOOLEAN]
BlockOp == [at : HeapStep, start : Slab, num : Nums, i : Slab]

OpType == op \in BootOp \cup SliceOp \cup BlockOp

Unlinked(s) == s \notin free_slabs \cup full_slabs /\ \A c \in Class : s \notin slabs[c]

Outside(s) == \A b \in blocks : s \notin Run(b.start, b.num)

(* What holds of one slab, whatever call is in progress: the parts of the invariants
   that are about it. *)
SlabOK(s) ==
    LET h == header[s]
    IN  /\ IsFiniteSet(held[s])
        /\ held[s] \cap h.free_slice = {}
        /\ Cardinality(held[s]) =< h.used
        /\ s \in free_slabs => s \notin full_slabs /\ h = usmm_slab_init
        /\ \A c \in Class :
              s \in slabs[c] => s \notin free_slabs \cup full_slabs /\ h.slice = c
        /\ ~Outside(s) => Unlinked(s) /\ s \notin slab_bitmap /\ held[s] = {}
        /\ \A b \in blocks : b.start = s => h.word = b.num

BlocksApart ==
    /\ \A b \in blocks : Run(b.start, b.num) \subseteq Slab
    /\ \A a, b \in blocks : a = b \/ Run(a.start, a.num) \cap Run(b.start, b.num) = {}

(* Before the controller is complete nobody holds anything, and the lists are
   those usmm_init makes. *)
BootOK ==
    /\ op.at \in {"lists", "slabs"} => magic
    /\ ~magic \/ op.at \in {"lists", "slabs"} =>
          /\ op.at \in BootStep
          /\ full_slabs = {} /\ \A c \in Class : slabs[c] = {}
          /\ blocks = {} /\ \A s \in Slab : held[s] = {}

(* What a call of the slice level may rely on at each of its writes. *)
SliceOpOK ==
    op.at \in SliceStep =>
        LET h == header[op.slab]
        IN  /\ Outside(op.slab)
            /\ op.at \in {"create", "link", "full", "relink", "reinit", "release"}
                  => Unlinked(op.slab)
            /\ op.at \in {"create", "link", "pop"} => op.ptr = NULL
            /\ op.at \in {"pop", "count", "test"} => op.slab \in slabs[op.class]
            /\ op.at \in {"create", "release"} => h = usmm_slab_init
            /\ op.at \in {"link", "full", "uncount", "leavefull", "relink", "drain"}
                  => h.slice = op.class
            /\ op.at \in {"link", "drain", "reinit"} => h.used = 0
            /\ op.at = "uncount" => Cardinality(held[op.slab]) + 1 =< h.used
            /\ op.at \in {"test", "full"} /\ op.ptr # NULL
                  => Cardinality(held[op.slab]) + 1 =< h.used
            /\ op.at \in {"count", "test", "full"} /\ op.ptr # NULL
                  => op.ptr \notin held[op.slab] \cup h.free_slice

(* What a call of the heap level may rely on.  The slabs before i are done. *)
HeapOpOK ==
    op.at \in HeapStep =>
        LET run == Run(op.start, op.num)
        IN  /\ run \subseteq Slab /\ op.i \in run
            /\ \A s \in run : Outside(s) /\ held[s] = {}
            /\ op.at = "set" => \A s \in run : s < op.i => s \notin slab_bitmap
            /\ op.at \in {"unlink", "wipe", "length", "hand over"}
                  => run \cap slab_bitmap = {}
            /\ op.at = "unlink" => \A s \in run : s < op.i => Unlinked(s)
            /\ op.at = "wipe" => \A s \in run : s =< op.i => Unlinked(s)
            /\ op.at \in {"length", "hand over"} => \A s \in run : Unlinked(s)
            /\ op.at = "hand over" => header[op.start].word = op.num
            /\ op.at \in {"renew", "add"} => \A s \in run : s >= op.i => Unlinked(s)
            /\ op.at = "clear" => \A s \in run : s > op.i => Unlinked(s)
            /\ op.at = "add" => header[op.i] = usmm_slab_init

IInv ==
    /\ TypeOK /\ OpType
    /\ \A s \in Slab : SlabOK(s)
    /\ BlocksApart
    /\ BootOK /\ SliceOpOK /\ HeapOpOK

-----------------------------------------------------------------------------
(* The call in progress, with its local variables. *)

LEMMA SliceOpFields ==
    ASSUME OpType, op.at \in SliceStep
    PROVE  \E s \in Slab, c \in Class, p \in SliceIndex \cup {NULL}, f \in BOOLEAN :
              op = [at |-> op.at, slab |-> s, class |-> c, ptr |-> p, full |-> f]
<1>1. op \in SliceOp
  BY DEF OpType, BootOp, SliceOp, BlockOp, SliceStep, BootStep, HeapStep
<1> QED
  BY <1>1 DEF SliceOp

LEMMA HeapOpFields ==
    ASSUME OpType, op.at \in HeapStep
    PROVE  \E start \in Slab, num \in Nums, i \in Slab :
              op = [at |-> op.at, start |-> start, num |-> num, i |-> i]
<1>1. op \in BlockOp
  BY DEF OpType, BootOp, SliceOp, BlockOp, SliceStep, BootStep, HeapStep
<1> QED
  BY <1>1 DEF BlockOp

LEMMA HeaderTypes ==
    /\ usmm_slab_init \in Header /\ usmm_slab_fini \in Header
    /\ \A c \in Class : usmm_slab_create(usmm_slab_init, c) \in Header
    /\ \A c \in Class : 0 .. Total[c] - 1 \subseteq SliceIndex
    /\ SliceIndex \subseteq Nat /\ NULL \notin SliceIndex
<1>1. usmm_slab_init \in Header /\ usmm_slab_fini \in Header
  BY DEF usmm_slab_init, usmm_slab_fini, Header, Magic
<1>2. \A c \in Class : 0 .. Total[c] - 1 \subseteq SliceIndex
  BY DEF SliceIndex
<1>3. \A c \in Class : usmm_slab_create(usmm_slab_init, c) \in Header
  BY <1>1, <1>2 DEF usmm_slab_create, Header
<1>4. SliceIndex \subseteq Nat
  BY CrashAssumption DEF SliceIndex
<1> QED
  BY <1>1, <1>2, <1>3, <1>4 DEF NULL

(* A slab no write reaches, of a mapping whose blocks stay, stays as it is. *)
Same(t) ==
    /\ header'[t] = header[t] /\ held'[t] = held[t]
    /\ t \in free_slabs' <=> t \in free_slabs
    /\ t \in full_slabs' <=> t \in full_slabs
    /\ \A c \in Class : t \in slabs'[c] <=> t \in slabs[c]
    /\ t \in slab_bitmap' <=> t \in slab_bitmap

LEMMA SameSlab ==
    ASSUME NEW t \in Slab, SlabOK(t), Same(t), blocks' = blocks
    PROVE  SlabOK(t)'
BY DEF SlabOK, Same, Outside, Unlinked

(* What is left to show of a write of the slice level. *)
LEMMA SliceWrite ==
    ASSUME IInv, NEW s \in Slab, magic, magic' = magic, blocks' = blocks,
           \A t \in Slab : t # s => Same(t),
           TypeOK', OpType', SlabOK(s)', SliceOpOK',
           op'.at \in SliceStep \cup {"idle"}
    PROVE  IInv'
<1>1. \A t \in Slab : SlabOK(t)'
  BY SameSlab DEF IInv
<1>2. BlocksApart'
  BY DEF IInv, BlocksApart
<1>3. BootOK' /\ HeapOpOK'
  BY DEF BootOK, HeapOpOK, SliceStep, HeapStep
<1> QED
  BY <1>1, <1>2, <1>3 DEF IInv

LEMMA SliceUnlink ==
    ASSUME TypeOK, NEW s \in Slab, ListDel(s)
    PROVE  /\ Unlinked(s)'
           /\ \A t \in Slab : t # s =>
                 /\ t \in free_slabs' <=> t \in free_slabs
                 /\ t \in full_slabs' <=> t \in full_slabs
                 /\ \A c \in Class : t \in slabs'[c] <=> t \in slabs[c]
           /\ free_slabs' \subseteq Slab /\ full_slabs' \subseteq Slab
           /\ slabs' \in [Class -> SUBSET Slab]
           /\ node' \in [Slab -> {"none", "self", "linked", "poisoned"}]
BY DEF TypeOK, ListDel, Unlink, Unlinked

(* A block in whose run the slab is not does not start there. *)
LEMMA NoStart ==
    ASSUME TypeOK, NEW s \in Slab, Outside(s), NEW b \in blocks
    PROVE  b.start # s
<1>1. b.start \in Slab /\ b.num \in Nat \ {0, 1}
  BY CrashAssumption DEF TypeOK
<1>2. s \notin b.start .. b.start + b.num - 1
  BY DEF Outside, Run
<1> QED
  BY <1>1, <1>2, CrashAssumption DEF Slab

LEMMA NoneHeld ==
    ASSUME NEW s \in Slab, SlabOK(s), header[s].used = 0
    PROVE  held[s] = {}
BY FS_EmptySet, FS_CardinalityType DEF SlabOK
-----------------------------------------------------------------------------
(* usmm_slice_alloc *)

LEMMA AllocReuseIInv == ASSUME IInv, NEW c \in Class, AllocReuse(c) PROVE IInv'
<1> USE DEF IInv
<1>1. PICK s \in Slab : s \in slabs[c] /\ op' = NewOp("pop", s, c, NULL, FALSE)
  BY DEF AllocReuse, TypeOK
<1>2. UNCHANGED <<persistent, app, crashes>> /\ op.at = "idle"
  BY <1>1 DEF TypeOK, AllocReuse, At
<1>3. SlabOK(s) /\ magic /\ Outside(s)
  BY <1>1, <1>2 DEF SlabOK, BootOK, Unlinked, BootStep
<1>4. op' = [at |-> "pop", slab |-> s, class |-> c, ptr |-> NULL, full |-> FALSE]
  BY <1>1 DEF NewOp
<1>5. TypeOK' /\ \A t \in Slab : Same(t)
  BY <1>2 DEF TypeOK, Same, persistent, lists, app
<1>6. Outside(s)' /\ OpType'
  BY <1>2, <1>3, <1>4 DEF OpType, SliceOp, SliceStep, Outside, app
<1>7. SliceOpOK'
  <2>1. s \in slabs'[c]
    BY <1>1, <1>2 DEF persistent, lists
  <2> QED
    BY <1>4, <1>6, <2>1 DEF SliceOpOK
<1>8. SlabOK(s)'
  BY <1>2, <1>3, <1>5, SameSlab DEF app
<1> QED
  BY <1>2, <1>3, <1>4, <1>5, <1>6, <1>7, <1>8, SliceWrite
     DEF persistent, app, SliceStep

LEMMA AllocFreshIInv == ASSUME IInv, NEW c \in Class, AllocFresh(c) PROVE IInv'
<1> USE DEF IInv
<1>1. PICK s \in free_slabs : ListDel(s) /\ op' = NewOp("create", s, c, NULL, FALSE)
  BY DEF AllocFresh
<1>2. /\ s \in Slab /\ op.at = "idle"
      /\ UNCHANGED <<magic, heads, slab_bitmap, header, app, crashes>>
  BY <1>1 DEF TypeOK, AllocFresh, At
<1>3. SlabOK(s) /\ magic /\ Outside(s) /\ header[s] = usmm_slab_init
  BY <1>1, <1>2 DEF SlabOK, BootOK, Unlinked, BootStep
<1>4. op' = [at |-> "create", slab |-> s, class |-> c, ptr |-> NULL, full |-> FALSE]
  BY <1>1 DEF NewOp
<1>5. TypeOK' /\ \A t \in Slab : t # s => Same(t)
  BY <1>1, <1>2, SliceUnlink DEF TypeOK, Same, app
<1>6. Unlinked(s)' /\ Outside(s)' /\ OpType'
  <2>1. Unlinked(s)'
    BY <1>1, <1>2, SliceUnlink
  <2> QED
    BY <1>2, <1>3, <1>4, <2>1 DEF OpType, SliceOp, SliceStep, Outside, app
<1>7. SliceOpOK'
  BY <1>2, <1>3, <1>4, <1>6 DEF SliceOpOK
<1>8. SlabOK(s)'
  BY <1>2, <1>3, <1>6 DEF SlabOK, Unlinked, app
<1> QED
  BY <1>2, <1>3, <1>4, <1>5, <1>6, <1>7, <1>8, SliceWrite DEF app, SliceStep

LEMMA CreateIInv == ASSUME IInv, Create PROVE IInv'
<1> USE DEF IInv
<1>1. PICK s \in Slab, c \in Class, p \in SliceIndex \cup {NULL}, f \in BOOLEAN :
         op = [at |-> "create", slab |-> s, class |-> c, ptr |-> p, full |-> f]
  BY SliceOpFields DEF Create, At, SliceStep
<1>2. op' = [at |-> "link", slab |-> s, class |-> c, ptr |-> p, full |-> f]
  BY <1>1 DEF Create, Goto
<1>3. /\ Outside(s) /\ Unlinked(s) /\ header[s] = usmm_slab_init
      /\ SlabOK(s) /\ magic /\ p = NULL
  BY <1>1 DEF SliceOpOK, SliceStep, BootOK, BootStep
<1>4. held[s] = {}
  BY <1>3, NoneHeld DEF usmm_slab_init
<1>5. /\ header' = [header EXCEPT ![s] = usmm_slab_create(header[s], c)]
      /\ UNCHANGED <<magic, heads, lists, slab_bitmap, node, app, crashes>>
  BY <1>1 DEF Create
<1>6. header'[s] = usmm_slab_create(usmm_slab_init, c)
  BY <1>3, <1>5 DEF TypeOK
<1>7. header'[s].slice = c /\ header'[s].used = 0 /\ header'[s].word = header[s].word
  BY <1>3, <1>6 DEF usmm_slab_create, usmm_slab_init
<1>8. TypeOK' /\ \A t \in Slab : t # s => Same(t)
  BY <1>3, <1>5, HeaderTypes DEF TypeOK, Same, lists, app
<1>9. Outside(s)' /\ Unlinked(s)' /\ OpType'
  BY <1>2, <1>3, <1>5 DEF OpType, SliceOp, SliceStep, Outside, Unlinked, lists, app
<1>10. SlabOK(s)'
  <2>1. held'[s] = {}
    BY <1>4, <1>5 DEF app
  <2>2. \A b \in blocks' : b.start = s => header'[s].word = b.num
    BY <1>3, <1>5, <1>7 DEF SlabOK, app
  <2> QED
    BY <1>7, <1>9, <2>1, <2>2, FS_EmptySet DEF SlabOK, Unlinked
<1>11. SliceOpOK'
  BY <1>2, <1>3, <1>7, <1>9 DEF SliceOpOK
<1> QED
  BY <1>2, <1>3, <1>5, <1>8, <1>9, <1>10, <1>11, SliceWrite DEF app, SliceStep

LEMMA LinkIInv == ASSUME IInv, Link PROVE IInv'
<1> USE DEF IInv
<1>1. PICK s \in Slab, c \in Class, p \in SliceIndex \cup {NULL}, f \in BOOLEAN :
         op = [at |-> "link", slab |-> s, class |-> c, ptr |-> p, full |-> f]
  BY SliceOpFields DEF Link, At, SliceStep
<1>2. op' = [at |-> "pop", slab |-> s, class |-> c, ptr |-> p, full |-> f]
  BY <1>1 DEF Link, Goto
<1>3. /\ Outside(s) /\ Unlinked(s) /\ header[s].slice = c
      /\ SlabOK(s) /\ magic /\ p = NULL
  BY <1>1 DEF SliceOpOK, SliceStep, BootOK, BootStep
<1>4. /\ slabs' = [slabs EXCEPT ![c] = @ \cup {s}]
      /\ node' = [node EXCEPT ![s] = "linked"]
      /\ UNCHANGED <<magic, heads, free_slabs, full_slabs, slab_bitmap, header, app, crashes>>
  BY <1>1 DEF Link
<1>5. \A t \in Slab, d \in Class : t \in slabs'[d] <=> t \in slabs[d] \/ (t = s /\ d = c)
  BY <1>4 DEF TypeOK
<1>6. TypeOK' /\ \A t \in Slab : t # s => Same(t)
  BY <1>4, <1>5 DEF TypeOK, Same, app
<1>7. Outside(s)' /\ OpType'
  BY <1>2, <1>3, <1>4 DEF OpType, SliceOp, SliceStep, Outside, app
<1>8. SlabOK(s)'
  BY <1>3, <1>4, <1>5, <1>7 DEF SlabOK, Unlinked, app
<1>9. SliceOpOK'
  BY <1>2, <1>3, <1>5, <1>7, SMTT(30) DEF SliceOpOK
<1> QED
  BY <1>2, <1>3, <1>4, <1>6, <1>7, <1>8, <1>9, SliceWrite DEF app, SliceStep

LEMMA PopIInv == ASSUME IInv, Pop PROVE IInv'
<1> USE DEF IInv
<1>1. PICK s \in Slab, c \in Class, p \in SliceIndex \cup {NULL}, f \in BOOLEAN :
         op = [at |-> "pop", slab |-> s, class |-> c, ptr |-> p, full |-> f]
  BY SliceOpFields, ZenonT(60) DEF Pop, At, SliceStep
<1>2. /\ Outside(s) /\ s \in slabs[c] /\ p = NULL
      /\ SlabOK(s) /\ magic
  BY <1>1 DEF SliceOpOK, SliceStep, BootOK, BootStep
<1>3. UNCHANGED <<magic, heads, lists, slab_bitmap, node, app, crashes>>
  BY DEF Pop
<1>4. Outside(s)' /\ s \in slabs'[c]
  BY <1>2, <1>3 DEF Outside, lists, app
<1>5. CASE header' = header /\ op' = [op EXCEPT !.at = "test"]
  <2>1. op' = [at |-> "test", slab |-> s, class |-> c, ptr |-> NULL, full |-> f]
    BY <1>1, <1>2, <1>5
  <2>2. TypeOK' /\ \A t \in Slab : Same(t)
    BY <1>3, <1>5 DEF TypeOK, Same, lists, app
  <2>3. SlabOK(s)' /\ OpType' /\ SliceOpOK'
    BY <1>2, <1>3, <1>4, <2>1, <2>2, SameSlab DEF OpType, SliceOp, SliceStep, SliceOpOK, app
  <2> QED
    BY <1>2, <1>3, <2>1, <2>2, <2>3, SliceWrite DEF app, SliceStep
<1>6. ASSUME NEW ptr \in header[s].free_slice,
             header' = [header EXCEPT ![s].free_slice = @ \ {ptr}],
             op' = [op EXCEPT !.at = "count", !.ptr = ptr]
      PROVE  IInv'
  <2>1. op' = [at |-> "count", slab |-> s, class |-> c, ptr |-> ptr, full |-> f]
    BY <1>1, <1>6
  <2>2. ptr \in SliceIndex /\ ptr \notin held[s]
    BY <1>2 DEF TypeOK, Header, SlabOK
  <2>3. header'[s] = [header[s] EXCEPT !.free_slice = @ \ {ptr}]
    BY <1>6 DEF TypeOK
  <2>4. /\ header'[s].free_slice = header[s].free_slice \ {ptr}
        /\ header'[s].used = header[s].used /\ header'[s].slice = header[s].slice
        /\ header'[s].word = header[s].word
    BY <2>3 DEF TypeOK, Header
  <2>5. TypeOK' /\ \A t \in Slab : t # s => Same(t)
    <3>1. header'[s] \in Header
      BY <2>3 DEF TypeOK, Header
    <3> QED
      BY <1>3, <1>6, <3>1 DEF TypeOK, Same, lists, app
  <2>6. SlabOK(s)'
    BY <1>2, <1>3, <1>4, <2>4 DEF SlabOK, lists, app
  <2>7. OpType' /\ SliceOpOK'
    BY <1>3, <1>4, <2>1, <2>2, <2>4 DEF OpType, SliceOp, SliceStep, SliceOpOK, app
  <2> QED
    BY <1>2, <1>3, <2>1, <2>5, <2>6, <2>7, SliceWrite DEF app, SliceStep
<1> QED
  BY <1>1, <1>5, <1>6 DEF Pop, Goto

LEMMA CountIInv == ASSUME IInv, Count PROVE IInv'
<1> USE DEF IInv
<1>1. PICK s \in Slab, c \in Class, p \in SliceIndex \cup {NULL}, f \in BOOLEAN :
         op = [at |-> "count", slab |-> s, class |-> c, ptr |-> p, full |-> f]
  BY SliceOpFields DEF Count, At, SliceStep
<1>2. op' = [at |-> "test", slab |-> s, class |-> c, ptr |-> p, full |-> f]
  BY <1>1 DEF Count, Goto
<1>3. /\ Outside(s) /\ s \in slabs[c]
      /\ p # NULL => p \notin held[s] \cup header[s].free_slice
      /\ SlabOK(s) /\ magic
  BY <1>1 DEF SliceOpOK, SliceStep, BootOK, BootStep
<1>4. /\ header' = [header EXCEPT ![s].used = @ + 1]
      /\ UNCHANGED <<magic, heads, lists, slab_bitmap, node, app, crashes>>
  BY <1>1 DEF Count
<1>5. header'[s] = [header[s] EXCEPT !.used = @ + 1] /\ header[s] \in Header
  BY <1>4 DEF TypeOK
<1>6. /\ header'[s].used = header[s].used + 1 /\ header[s].used \in Nat
      /\ header'[s].free_slice = header[s].free_slice
      /\ header'[s].slice = header[s].slice /\ header'[s].word = header[s].word
  BY <1>5 DEF Header
<1>7. TypeOK' /\ \A t \in Slab : t # s => Same(t)
  <2>1. header'[s] \in Header
    BY <1>5 DEF Header
  <2> QED
    BY <1>4, <2>1 DEF TypeOK, Same, lists, app
<1>8. Cardinality(held[s]) \in Nat /\ Cardinality(held[s]) =< header[s].used
  BY <1>3, FS_CardinalityType DEF SlabOK
<1>9. Outside(s)' /\ s \in slabs'[c] /\ OpType'
  BY <1>2, <1>3, <1>4 DEF OpType, SliceOp, SliceStep, Outside, lists, app
<1>10. SlabOK(s)'
  BY <1>3, <1>4, <1>6, <1>8, <1>9 DEF SlabOK, lists, app
<1>11. SliceOpOK'
  BY <1>2, <1>3, <1>4, <1>6, <1>8, <1>9 DEF SliceOpOK, app
<1> QED
  BY <1>2, <1>3, <1>4, <1>7, <1>9, <1>10, <1>11, SliceWrite DEF app, SliceStep

(* Handing the pointer over keeps what the slab needs. *)
LEMMA ReturnSlab ==
    ASSUME TypeOK, NEW s \in Slab, NEW p \in SliceIndex \cup {NULL}, SlabOK(s), Outside(s),
           held' = [held EXCEPT ![s] = IF p = NULL THEN @ ELSE @ \cup {p}],
           p # NULL => /\ p \notin held[s] \cup header[s].free_slice
                       /\ Cardinality(held[s]) + 1 =< header[s].used
    PROVE  /\ held' \in [Slab -> SUBSET SliceIndex]
           /\ IsFiniteSet(held'[s]) /\ held'[s] \cap header[s].free_slice = {}
           /\ Cardinality(held'[s]) =< header[s].used
           /\ \A t \in Slab : t # s => held'[t] = held[t]
<1>1. held'[s] = IF p = NULL THEN held[s] ELSE held[s] \cup {p}
  BY DEF TypeOK
<1>2. CASE p = NULL
  BY <1>1, <1>2 DEF TypeOK, SlabOK
<1>3. CASE p # NULL
  <2>1. IsFiniteSet(held'[s]) /\ Cardinality(held'[s]) = Cardinality(held[s]) + 1
    BY <1>1, <1>3, FS_AddElement, SMTT(30) DEF SlabOK
  <2> QED
    BY <1>1, <1>3, <2>1 DEF TypeOK, SlabOK
<1> QED
  BY <1>2, <1>3

LEMMA TestFullIInv == ASSUME IInv, TestFull PROVE IInv'
<1> USE DEF IInv
<1>1. PICK s \in Slab, c \in Class, p \in SliceIndex \cup {NULL}, f \in BOOLEAN :
         op = [at |-> "test", slab |-> s, class |-> c, ptr |-> p, full |-> f]
  BY SliceOpFields DEF TestFull, At, SliceStep
<1>2. /\ Outside(s) /\ s \in slabs[c] /\ SlabOK(s) /\ magic
      /\ p # NULL => /\ p \notin held[s] \cup header[s].free_slice
                     /\ Cardinality(held[s]) + 1 =< header[s].used
  BY <1>1 DEF SliceOpOK, SliceStep, BootOK, BootStep
<1>3. UNCHANGED <<magic, heads, slab_bitmap, header, crashes, blocks>>
  BY DEF TestFull, Return, app
<1>4. Outside(s)' /\ header[s].slice = c
  BY <1>2, <1>3 DEF Outside, SlabOK
<1>5. CASE ListDel(s) /\ op' = [op EXCEPT !.at = "full"] /\ held' = held
  <2>1. op' = [at |-> "full", slab |-> s, class |-> c, ptr |-> p, full |-> f]
    BY <1>1, <1>5
  <2>2. Unlinked(s)' /\ TypeOK' /\ \A t \in Slab : t # s => Same(t)
    BY <1>3, <1>5, SliceUnlink DEF TypeOK, Same
  <2>3. SlabOK(s)'
    BY <1>2, <1>3, <1>4, <1>5, <2>2 DEF SlabOK, Unlinked
  <2>4. OpType'
    BY <2>1 DEF OpType, SliceOp, SliceStep
  <2>5. SliceOpOK'
    BY <1>2, <1>3, <1>4, <1>5, <2>1, <2>2 DEF SliceOpOK
  <2> QED
    BY <1>2, <1>3, <2>1, <2>2, <2>3, <2>4, <2>5, SliceWrite DEF SliceStep
<1>6. CASE Return /\ UNCHANGED <<lists, node>>
  <2>1. op' = Idle /\ held' = [held EXCEPT ![s] = IF p = NULL THEN @ ELSE @ \cup {p}]
    BY <1>1, <1>6 DEF Return, Finish
  <2>2. /\ held' \in [Slab -> SUBSET SliceIndex]
        /\ IsFiniteSet(held'[s]) /\ held'[s] \cap header[s].free_slice = {}
        /\ Cardinality(held'[s]) =< header[s].used
        /\ \A t \in Slab : t # s => held'[t] = held[t]
    BY <1>2, <2>1, ReturnSlab
  <2>3. TypeOK' /\ \A t \in Slab : t # s => Same(t)
    BY <1>3, <1>6, <2>2 DEF TypeOK, Same, lists
  <2>4. SlabOK(s)'
    BY <1>2, <1>3, <1>4, <1>6, <2>2 DEF SlabOK, lists
  <2>5. OpType' /\ SliceOpOK'
    BY <2>1 DEF OpType, BootOp, SliceStep, SliceOpOK, Idle
  <2> QED
    BY <1>2, <1>3, <2>1, <2>3, <2>4, <2>5, SliceWrite DEF Idle
<1> QED
  BY <1>1, <1>5, <1>6 DEF TestFull, Goto, app

LEMMA LinkFullIInv == ASSUME IInv, LinkFull PROVE IInv'
<1> USE DEF IInv
<1>1. PICK s \in Slab, c \in Class, p \in SliceIndex \cup {NULL}, f \in BOOLEAN :
         op = [at |-> "full", slab |-> s, class |-> c, ptr |-> p, full |-> f]
  BY SliceOpFields DEF LinkFull, At, SliceStep
<1>2. /\ Outside(s) /\ Unlinked(s) /\ SlabOK(s) /\ magic
      /\ p # NULL => /\ p \notin held[s] \cup header[s].free_slice
                     /\ Cardinality(held[s]) + 1 =< header[s].used
  BY <1>1 DEF SliceOpOK, SliceStep, BootOK, BootStep
<1>3. /\ full_slabs' = full_slabs \cup {s} /\ node' = [node EXCEPT ![s] = "linked"]
      /\ UNCHANGED <<magic, heads, free_slabs, slabs, slab_bitmap, header, crashes, blocks>>
      /\ op' = Idle /\ held' = [held EXCEPT ![s] = IF p = NULL THEN @ ELSE @ \cup {p}]
  BY <1>1 DEF LinkFull, Return, Finish
<1>4. /\ held' \in [Slab -> SUBSET SliceIndex]
      /\ IsFiniteSet(held'[s]) /\ held'[s] \cap header[s].free_slice = {}
      /\ Cardinality(held'[s]) =< header[s].used
      /\ \A t \in Slab : t # s => held'[t] = held[t]
  BY <1>2, <1>3, ReturnSlab
<1>5. TypeOK' /\ \A t \in Slab : t # s => Same(t)
  BY <1>3, <1>4 DEF TypeOK, Same
<1>6. Outside(s)'
  BY <1>2, <1>3 DEF Outside
<1>7. SlabOK(s)'
  BY <1>2, <1>3, <1>4, <1>6 DEF SlabOK, Unlinked
<1>8. OpType' /\ SliceOpOK'
  BY <1>3 DEF OpType, BootOp, SliceStep, SliceOpOK, Idle
<1> QED
  BY <1>2, <1>3, <1>5, <1>7, <1>8, SliceWrite DEF Idle
-----------------------------------------------------------------------------
(* usmm_slice_free *)

LEMMA FreePushIInv ==
    ASSUME IInv, NEW s \in Slab, NEW ptr \in held[s], FreePush(s, ptr)
    PROVE  IInv'
<1> USE DEF IInv
<1>1. /\ op.at = "idle" /\ SlabOK(s) /\ header[s] \in Header /\ ptr \in SliceIndex
      /\ header[s].slice # NoClass /\ header[s].used # 0
      /\ held' = [held EXCEPT ![s] = @ \ {ptr}]
      /\ header' = [header EXCEPT ![s].free_slice = @ \cup {ptr}]
      /\ op' = NewOp("uncount", s, header[s].slice, ptr, usmm_slab_isfull(header[s]))
      /\ UNCHANGED <<magic, heads, lists, slab_bitmap, node, blocks, crashes>>
  BY DEF FreePush, At, TypeOK
<1>2. header[s].slice \in Class /\ header[s].used \in Nat /\ magic /\ Outside(s)
  BY <1>1 DEF Header, BootOK, BootStep, SlabOK
<1>3. PICK c \in Class, f \in BOOLEAN :
         /\ c = header[s].slice
         /\ op' = [at |-> "uncount", slab |-> s, class |-> c, ptr |-> ptr, full |-> f]
  <2>1. usmm_slab_isfull(header[s]) \in BOOLEAN
    BY DEF usmm_slab_isfull
  <2> QED
    BY <1>1, <1>2, <2>1 DEF NewOp
<1>4. header'[s] = [header[s] EXCEPT !.free_slice = @ \cup {ptr}]
  BY <1>1 DEF TypeOK
<1>5. /\ header'[s].free_slice = header[s].free_slice \cup {ptr}
      /\ header'[s].used = header[s].used /\ header'[s].slice = header[s].slice
      /\ header'[s].word = header[s].word
  BY <1>1, <1>4 DEF Header
<1>6. held'[s] = held[s] \ {ptr}
  BY <1>1 DEF TypeOK
<1>7. /\ IsFiniteSet(held'[s]) /\ Cardinality(held'[s]) = Cardinality(held[s]) - 1
      /\ Cardinality(held'[s]) \in Nat
      /\ Cardinality(held'[s]) + 1 =< header'[s].used
  <2>1. IsFiniteSet(held[s]) /\ Cardinality(held[s]) =< header[s].used
    BY <1>1 DEF SlabOK
  <2>2. IsFiniteSet(held'[s]) /\ Cardinality(held'[s]) = Cardinality(held[s]) - 1
    BY <1>6, <2>1, FS_RemoveElement
  <2>3. Cardinality(held[s]) \in Nat /\ Cardinality(held'[s]) \in Nat
    BY <2>1, <2>2, FS_CardinalityType
  <2> QED
    BY <1>2, <1>5, <2>1, <2>2, <2>3
<1>8. TypeOK' /\ \A t \in Slab : t # s => Same(t)
  <2>1. header'[s] \in Header
    BY <1>1, <1>4 DEF Header
  <2>2. header' \in [Slab -> Header] /\ held' \in [Slab -> SUBSET SliceIndex]
    BY <1>1, <1>6, <2>1 DEF TypeOK
  <2> QED
    BY <1>1, <2>2 DEF TypeOK, Same, lists
<1>9. s \notin free_slabs /\ Outside(s)'
  BY <1>1, <1>2 DEF SlabOK, usmm_slab_init, Outside
<1>10. SlabOK(s)'
  BY <1>1, <1>2, <1>5, <1>6, <1>7, <1>9 DEF SlabOK, lists
<1>11. OpType'
  BY <1>1, <1>3 DEF OpType, SliceOp, SliceStep
<1>12. SliceOpOK'
  BY <1>3, <1>5, <1>7, <1>9 DEF SliceOpOK
<1> QED
  BY <1>1, <1>2, <1>3, <1>8, <1>10, <1>11, <1>12, SliceWrite DEF SliceStep

LEMMA UncountIInv == ASSUME IInv, Uncount PROVE IInv'
<1> USE DEF IInv
<1>1. PICK s \in Slab, c \in Class, p \in SliceIndex \cup {NULL}, f \in BOOLEAN :
         op = [at |-> "uncount", slab |-> s, class |-> c, ptr |-> p, full |-> f]
  BY SliceOpFields DEF Uncount, At, SliceStep
<1>2. /\ Outside(s) /\ header[s].slice = c /\ header[s] \in Header
      /\ Cardinality(held[s]) + 1 =< header[s].used
      /\ SlabOK(s) /\ magic
  BY <1>1 DEF SliceOpOK, SliceStep, BootOK, BootStep, TypeOK
<1>3. /\ header' = [header EXCEPT ![s].used = @ - 1]
      /\ UNCHANGED <<magic, heads, lists, slab_bitmap, node, app, crashes>>
  BY <1>1 DEF Uncount
<1>4. header'[s] = [header[s] EXCEPT !.used = @ - 1]
  BY <1>3 DEF TypeOK
<1>5. /\ header'[s].used = header[s].used - 1 /\ header[s].used \in Nat
      /\ header'[s].free_slice = header[s].free_slice
      /\ header'[s].slice = c /\ header'[s].word = header[s].word
  BY <1>2, <1>4 DEF Header
<1>6. IsFiniteSet(held[s]) /\ Cardinality(held[s]) \in Nat
  BY <1>2, FS_CardinalityType DEF SlabOK
<1>7. \/ op' = Idle
      \/ op' = [at |-> "leavefull", slab |-> s, class |-> c, ptr |-> p, full |-> f]
      \/ /\ op' = [at |-> "drain", slab |-> s, class |-> c, ptr |-> p, full |-> f]
         /\ header'[s].used = 0
  BY <1>1 DEF Uncount, Goto, Finish
<1>8. TypeOK' /\ \A t \in Slab : t # s => Same(t)
  <2>1. header'[s].used \in Nat
    BY <1>2, <1>5, <1>6
  <2>2. header'[s] \in Header
    BY <1>2, <1>4, <1>5, <2>1 DEF Header
  <2> QED
    BY <1>3, <2>2 DEF TypeOK, Same, lists, app
<1>9. Outside(s)' /\ s \notin free_slabs
  BY <1>2, <1>3, <1>6 DEF Outside, app, SlabOK, usmm_slab_init
<1>10. SlabOK(s)'
  BY <1>2, <1>3, <1>5, <1>6, <1>9 DEF SlabOK, lists, app
<1>11. OpType'
  BY <1>7 DEF OpType, BootOp, SliceOp, SliceStep, Idle
<1>12. SliceOpOK'
  BY <1>5, <1>7, <1>9 DEF SliceOpOK, SliceStep, Idle
<1>13. op'.at \in SliceStep \cup {"idle"}
  BY <1>7 DEF SliceStep, Idle
<1> QED
  BY <1>2, <1>3, <1>8, <1>10, <1>11, <1>12, <1>13, SliceWrite DEF app

LEMMA LeaveFullIInv == ASSUME IInv, LeaveFull PROVE IInv'
<1> USE DEF IInv
<1>1. PICK s \in Slab, c \in Class, p \in SliceIndex \cup {NULL}, f \in BOOLEAN :
         op = [at |-> "leavefull", slab |-> s, class |-> c, ptr |-> p, full |-> f]
  BY SliceOpFields DEF LeaveFull, At, SliceStep
<1>2. op' = [at |-> "relink", slab |-> s, class |-> c, ptr |-> p, full |-> f]
  BY <1>1 DEF LeaveFull, Goto
<1>3. Outside(s) /\ header[s].slice = c /\ SlabOK(s) /\ magic
  BY <1>1 DEF SliceOpOK, SliceStep, BootOK, BootStep
<1>4. ListDel(s) /\ UNCHANGED <<magic, heads, slab_bitmap, header, app, crashes>>
  BY <1>1 DEF LeaveFull
<1>5. Unlinked(s)' /\ TypeOK' /\ \A t \in Slab : t # s => Same(t)
  BY <1>4, SliceUnlink DEF TypeOK, Same, app
<1>6. Outside(s)' /\ OpType'
  BY <1>2, <1>3, <1>4 DEF OpType, SliceOp, SliceStep, Outside, app
<1>7. SlabOK(s)'
  BY <1>3, <1>4, <1>5, <1>6 DEF SlabOK, Unlinked, app
<1>8. SliceOpOK'
  BY <1>2, <1>3, <1>4, <1>5, <1>6 DEF SliceOpOK
<1> QED
  BY <1>2, <1>3, <1>4, <1>5, <1>6, <1>7, <1>8, SliceWrite DEF app, SliceStep

LEMMA RelinkIInv == ASSUME IInv, Relink PROVE IInv'
<1> USE DEF IInv
<1>1. PICK s \in Slab, c \in Class, p \in SliceIndex \cup {NULL}, f \in BOOLEAN :
         op = [at |-> "relink", slab |-> s, class |-> c, ptr |-> p, full |-> f]
  BY SliceOpFields DEF Relink, At, SliceStep
<1>2. Outside(s) /\ Unlinked(s) /\ header[s].slice = c /\ SlabOK(s) /\ magic
  BY <1>1 DEF SliceOpOK, SliceStep, BootOK, BootStep
<1>3. /\ slabs' = [slabs EXCEPT ![c] = @ \cup {s}]
      /\ node' = [node EXCEPT ![s] = "linked"] /\ op' = Idle
      /\ UNCHANGED <<magic, heads, free_slabs, full_slabs, slab_bitmap, header, app, crashes>>
  BY <1>1 DEF Relink, Finish
<1>4. \A t \in Slab, d \in Class : t \in slabs'[d] <=> t \in slabs[d] \/ (t = s /\ d = c)
  BY <1>3 DEF TypeOK
<1>5. TypeOK' /\ \A t \in Slab : t # s => Same(t)
  BY <1>3, <1>4 DEF TypeOK, Same, app
<1>6. Outside(s)' /\ OpType' /\ SliceOpOK'
  BY <1>2, <1>3 DEF Outside, app, OpType, BootOp, SliceOpOK, SliceStep, Idle
<1>7. SlabOK(s)'
  BY <1>2, <1>3, <1>4, <1>6 DEF SlabOK, Unlinked, app
<1> QED
  BY <1>2, <1>3, <1>5, <1>6, <1>7, SliceWrite DEF app, Idle

LEMMA DrainIInv == ASSUME IInv, Drain PROVE IInv'
<1> USE DEF IInv
<1>1. PICK s \in Slab, c \in Class, p \in SliceIndex \cup {NULL}, f \in BOOLEAN :
         op = [at |-> "drain", slab |-> s, class |-> c, ptr |-> p, full |-> f]
  BY SliceOpFields DEF Drain, At, SliceStep
<1>2. op' = [at |-> "reinit", slab |-> s, class |-> c, ptr |-> p, full |-> f]
  BY <1>1 DEF Drain, Goto
<1>3. Outside(s) /\ header[s].used = 0 /\ SlabOK(s) /\ magic
  BY <1>1 DEF SliceOpOK, SliceStep, BootOK, BootStep
<1>4. ListDel(s) /\ UNCHANGED <<magic, heads, slab_bitmap, header, app, crashes>>
  BY <1>1 DEF Drain
<1>5. Unlinked(s)' /\ TypeOK' /\ \A t \in Slab : t # s => Same(t)
  BY <1>4, SliceUnlink DEF TypeOK, Same, app
<1>6. Outside(s)' /\ OpType'
  BY <1>2, <1>3, <1>4 DEF OpType, SliceOp, SliceStep, Outside, app
<1>7. SlabOK(s)'
  BY <1>3, <1>4, <1>5, <1>6 DEF SlabOK, Unlinked, app
<1>8. SliceOpOK'
  BY <1>2, <1>3, <1>4, <1>5, <1>6 DEF SliceOpOK
<1> QED
  BY <1>2, <1>3, <1>4, <1>5, <1>6, <1>7, <1>8, SliceWrite DEF app, SliceStep

LEMMA ReinitIInv == ASSUME IInv, Reinit PROVE IInv'
<1> USE DEF IInv
<1>1. PICK s \in Slab, c \in Class, p \in SliceIndex \cup {NULL}, f \in BOOLEAN :
         op = [at |-> "reinit", slab |-> s, class |-> c, ptr |-> p, full |-> f]
  BY SliceOpFields DEF Reinit, At, SliceStep
<1>2. op' = [at |-> "release", slab |-> s, class |-> c, ptr |-> p, full |-> f]
  BY <1>1 DEF Reinit, Goto
<1>3. Outside(s) /\ Unlinked(s) /\ header[s].used = 0 /\ SlabOK(s) /\ magic
  BY <1>1 DEF SliceOpOK, SliceStep, BootOK, BootStep
<1>4. held[s] = {}
  BY <1>3, NoneHeld
<1>5. /\ header' = [header EXCEPT ![s] = usmm_slab_init]
      /\ node' = [node EXCEPT ![s] = "self"]
      /\ UNCHANGED <<magic, heads, lists, slab_bitmap, app, crashes>>
  BY <1>1 DEF Reinit
<1>6. header'[s] = usmm_slab_init
  BY <1>5 DEF TypeOK
<1>7. TypeOK' /\ \A t \in Slab : t # s => Same(t)
  BY <1>5, HeaderTypes DEF TypeOK, Same, lists, app
<1>8. Outside(s)' /\ Unlinked(s)' /\ OpType'
  BY <1>2, <1>3, <1>5 DEF OpType, SliceOp, SliceStep, Outside, Unlinked, lists, app
<1>9. SlabOK(s)'
  <2>1. held'[s] = {} /\ Cardinality({}) = 0 /\ IsFiniteSet({})
    BY <1>4, <1>5, FS_EmptySet DEF app
  <2>2. \A b \in blocks' : b.start # s
    BY <1>3, <1>5, NoStart DEF app
  <2>3. header'[s].used = 0
    BY <1>6 DEF usmm_slab_init
  <2> QED
    BY <1>6, <1>8, <2>1, <2>2, <2>3 DEF SlabOK, Unlinked
<1>10. SliceOpOK'
  <2>1. header'[s].used = 0
    BY <1>6 DEF usmm_slab_init
  <2> QED
    BY <1>2, <1>6, <1>8, <2>1 DEF SliceOpOK
<1> QED
  BY <1>2, <1>3, <1>5, <1>7, <1>8, <1>9, <1>10, SliceWrite DEF app, SliceStep

LEMMA ReleaseIInv == ASSUME IInv, Release PROVE IInv'
<1> USE DEF IInv
<1>1. PICK s \in Slab, c \in Class, p \in SliceIndex \cup {NULL}, f \in BOOLEAN :
         op = [at |-> "release", slab |-> s, class |-> c, ptr |-> p, full |-> f]
  BY SliceOpFields DEF Release, At, SliceStep
<1>2. Outside(s) /\ Unlinked(s) /\ header[s] = usmm_slab_init /\ SlabOK(s) /\ magic
  BY <1>1 DEF SliceOpOK, SliceStep, BootOK, BootStep
<1>3. /\ free_slabs' = free_slabs \cup {s}
      /\ node' = [node EXCEPT ![s] = "linked"] /\ op' = Idle
      /\ UNCHANGED <<magic, heads, full_slabs, slabs, slab_bitmap, header, app, crashes>>
  BY <1>1 DEF Release, Finish
<1>4. TypeOK' /\ \A t \in Slab : t # s => Same(t)
  BY <1>3 DEF TypeOK, Same, app
<1>5. Outside(s)' /\ OpType' /\ SliceOpOK'
  BY <1>2, <1>3 DEF Outside, app, OpType, BootOp, SliceOpOK, SliceStep, Idle
<1>6. SlabOK(s)'
  BY <1>2, <1>3, <1>5 DEF SlabOK, Unlinked, app
<1> QED
  BY <1>2, <1>3, <1>4, <1>5, <1>6, SliceWrite DEF app, Idle
-----------------------------------------------------------------------------
(* usmm_heap_alloc *)

(* What is left to show of a write of the heap level. *)
LEMMA HeapWrite ==
    ASSUME IInv, magic, magic' = magic, \A t \in Slab : SlabOK(t)', BlocksApart',
           TypeOK', OpType', HeapOpOK', op'.at \in HeapStep \cup {"idle"}
    PROVE  IInv'
<1>1. BootOK' /\ SliceOpOK'
  BY DEF BootOK, SliceOpOK, SliceStep, HeapStep
<1> QED
  BY <1>1 DEF IInv

LEMMA HeapWriteOne ==
    ASSUME IInv, magic, magic' = magic, blocks' = blocks, NEW i \in Slab,
           \A t \in Slab : t # i => Same(t), SlabOK(i)',
           TypeOK', OpType', HeapOpOK', op'.at \in HeapStep \cup {"idle"}
    PROVE  IInv'
<1>1. \A t \in Slab : SlabOK(t)'
  BY SameSlab DEF IInv
<1>2. BlocksApart'
  BY DEF IInv, BlocksApart
<1> QED
  BY <1>1, <1>2, HeapWrite

LEMMA RunMember ==
    ASSUME NEW start \in Slab, NEW num \in Nums
    PROVE  /\ start \in Int /\ num \in Nat /\ start \in Run(start, num)
           /\ \A s \in Run(start, num) : s \in Int /\ start =< s /\ s < start + num
BY CrashAssumption DEF Slab, Run

LEMMA NextSlabOp ==
    ASSUME NEW start \in Slab, NEW num \in Nums, NEW i \in Slab,
           NEW at, NEW again, NEW after,
           op = [at |-> at, start |-> start, num |-> num, i |-> i],
           NextSlab(again, after),
           Run(start, num) \subseteq Slab, i \in Run(start, num)
    PROVE  \/ /\ op' = [at |-> after, start |-> start, num |-> num, i |-> start]
              /\ \A s \in Run(start, num) : s =< i
           \/ /\ op' = [at |-> again, start |-> start, num |-> num, i |-> i + 1]
              /\ i + 1 \in Run(start, num) /\ i + 1 \in Slab
<1>1. /\ start \in Int /\ num \in Nat /\ i \in Int
      /\ \A s \in Run(start, num) : s \in Int /\ start =< s /\ s < start + num
  BY RunMember
<1>2. CASE i + 1 = start + num
  <2>1. op' = [at |-> after, start |-> start, num |-> num, i |-> start]
    BY <1>2 DEF NextSlab
  <2> QED
    BY <1>1, <1>2, <2>1
<1>3. CASE i + 1 # start + num
  <2>1. op' = [at |-> again, start |-> start, num |-> num, i |-> i + 1]
    BY <1>3 DEF NextSlab
  <2>2. i + 1 \in Run(start, num)
    BY <1>1, <1>3 DEF Run
  <2> QED
    BY <2>1, <2>2
<1> QED
  BY <1>2, <1>3

LEMMA HeapFindIInv == ASSUME IInv, NEW num \in Nums, HeapFind(num) PROVE IInv'
<1> USE DEF IInv
<1>1. PICK start \in Slab :
         Run(start, num) \subseteq slab_bitmap /\ op' = HeapOp("set", start, num)
  BY DEF HeapFind
<1>2. /\ op.at = "idle" /\ \A s \in Slab : held[s] = {}
      /\ UNCHANGED <<magic, heads, free_slabs, full_slabs, slabs, slab_bitmap, node, header,
                     blocks, held, crashes>>
  BY DEF HeapFind, At, persistent, lists, app
<1>3. magic /\ op' = [at |-> "set", start |-> start, num |-> num, i |-> start]
  BY <1>1, <1>2 DEF BootOK, BootStep, HeapOp
<1>4. TypeOK' /\ BlocksApart' /\ \A t \in Slab : Same(t)
  BY <1>2 DEF TypeOK, BlocksApart, Same
<1>5. Run(start, num) \subseteq Slab /\ \A s \in Run(start, num) : Outside(s)
  BY <1>1 DEF TypeOK, SlabOK
<1>6. HeapOpOK'
  <2>1. \A s \in Run(start, num) : Outside(s)' /\ held'[s] = {}
    BY <1>2, <1>5 DEF Outside
  <2>2. start \in Run(start, num) /\ \A s \in Run(start, num) : ~(s < start)
    BY RunMember
  <2> QED
    BY <1>3, <1>5, <2>1, <2>2 DEF HeapOpOK
<1>7. OpType' /\ op'.at \in HeapStep
  BY <1>3 DEF OpType, BlockOp, HeapStep
<1>8. \A t \in Slab : SlabOK(t)'
  BY <1>2, <1>4, SameSlab
<1> QED
  BY <1>2, <1>3, <1>4, <1>6, <1>7, <1>8, HeapWrite

LEMMA HeapSetIInv == ASSUME IInv, HeapSet PROVE IInv'
<1> USE DEF IInv
<1>1. PICK start \in Slab, num \in Nums, i \in Slab :
         op = [at |-> "set", start |-> start, num |-> num, i |-> i]
  BY HeapOpFields DEF HeapSet, At, HeapStep
<1> DEFINE run == Run(start, num)
<1>2. /\ run \subseteq Slab /\ i \in run /\ magic /\ SlabOK(i)
      /\ \A s \in run : Outside(s) /\ held[s] = {}
      /\ \A s \in run : s < i => s \notin slab_bitmap
  BY <1>1 DEF HeapOpOK, HeapStep, BootOK, BootStep
<1>3. /\ slab_bitmap' = slab_bitmap \ {i} /\ NextSlab("set", "unlink")
      /\ UNCHANGED <<magic, heads, lists, node, header, app, crashes>>
  BY <1>1 DEF HeapSet
<1>4. TypeOK' /\ \A t \in Slab : t # i => Same(t)
  BY <1>3 DEF TypeOK, Same, lists, app
<1>5. SlabOK(i)'
  BY <1>2, <1>3 DEF SlabOK, Outside, Unlinked, lists, app
<1>6. \A s \in run : Outside(s)' /\ held'[s] = {}
  BY <1>2, <1>3 DEF Outside, app
<1>7. \A s \in run : s =< i => s \notin slab_bitmap'
  BY <1>2, <1>3, RunMember
<1>8. CASE /\ op' = [at |-> "unlink", start |-> start, num |-> num, i |-> start]
           /\ \A s \in run : s =< i
  <2>1. HeapOpOK'
    <3>1. start \in run /\ \A s \in run : ~(s < start)
      BY RunMember
    <3> QED
      BY <1>2, <1>6, <1>7, <1>8, <3>1 DEF HeapOpOK
  <2>2. OpType' /\ op'.at \in HeapStep
    BY <1>8 DEF OpType, BlockOp, HeapStep
  <2> QED
    BY <1>2, <1>3, <1>4, <1>5, <2>1, <2>2, HeapWriteOne DEF app
<1>9. CASE /\ op' = [at |-> "set", start |-> start, num |-> num, i |-> i + 1]
           /\ i + 1 \in run /\ i + 1 \in Slab
  <2>1. HeapOpOK'
    <3>1. \A s \in run : s < i + 1 => s =< i
      BY <1>2, RunMember
    <3> QED
      BY <1>2, <1>6, <1>7, <1>9, <3>1 DEF HeapOpOK
  <2>2. OpType' /\ op'.at \in HeapStep
    BY <1>9 DEF OpType, BlockOp, HeapStep
  <2> QED
    BY <1>2, <1>3, <1>4, <1>5, <2>1, <2>2, HeapWriteOne DEF app
<1>10. \/ /\ op' = [at |-> "unlink", start |-> start, num |-> num, i |-> start]
          /\ \A s \in run : s =< i
       \/ /\ op' = [at |-> "set", start |-> start, num |-> num, i |-> i + 1]
          /\ i + 1 \in run /\ i + 1 \in Slab
  BY <1>1, <1>2, <1>3, NextSlabOp
<1> QED
  BY <1>8, <1>9, <1>10

LEMMA HeapUnlinkIInv == ASSUME IInv, HeapUnlink PROVE IInv'
<1> USE DEF IInv
<1>1. PICK start \in Slab, num \in Nums, i \in Slab :
         op = [at |-> "unlink", start |-> start, num |-> num, i |-> i]
  BY HeapOpFields DEF HeapUnlink, At, HeapStep
<1> DEFINE run == Run(start, num)
<1>2. /\ run \subseteq Slab /\ i \in run /\ magic /\ SlabOK(i)
      /\ run \cap slab_bitmap = {}
      /\ \A s \in run : Outside(s) /\ held[s] = {}
      /\ \A s \in run : s < i => Unlinked(s)
  BY <1>1 DEF HeapOpOK, HeapStep, BootOK, BootStep
<1>3. /\ ListDel(i) /\ op' = [at |-> "wipe", start |-> start, num |-> num, i |-> i]
      /\ UNCHANGED <<magic, heads, slab_bitmap, header, app, crashes>>
  BY <1>1 DEF HeapUnlink, Goto
<1>4. Unlinked(i)' /\ TypeOK' /\ \A t \in Slab : t # i => Same(t)
  BY <1>3, SliceUnlink DEF TypeOK, Same, app
<1>5. SlabOK(i)'
  BY <1>2, <1>3, <1>4 DEF SlabOK, Unlinked, app
<1>6. \A s \in run : Outside(s)' /\ held'[s] = {}
  BY <1>2, <1>3 DEF Outside, app
<1>7. \A s \in run : s =< i => Unlinked(s)'
  <2>1. \A s \in run : s =< i => s < i \/ s = i
    BY <1>2, RunMember
  <2> QED
    BY <1>2, <1>4, <2>1 DEF Same, Unlinked
<1>8. HeapOpOK'
  BY <1>2, <1>3, <1>6, <1>7 DEF HeapOpOK
<1>9. OpType' /\ op'.at \in HeapStep
  BY <1>3 DEF OpType, BlockOp, HeapStep
<1> QED
  BY <1>2, <1>3, <1>4, <1>5, <1>8, <1>9, HeapWriteOne DEF app

(* A slab that is in no list and in no block may get any header that leaves nothing
   to hand out. *)
LEMMA NewHeader ==
    ASSUME TypeOK, NEW i \in Slab, Outside(i), Unlinked(i), held[i] = {},
           header'[i].used \in Nat,
           UNCHANGED <<free_slabs, full_slabs, slabs, blocks, held>>
    PROVE  SlabOK(i)'
<1>1. IsFiniteSet(held'[i]) /\ Cardinality(held'[i]) = 0 /\ held'[i] = {}
  BY FS_EmptySet
<1>2. Outside(i)' /\ Unlinked(i)' /\ \A b \in blocks' : b.start # i
  BY NoStart DEF Outside, Unlinked
<1> QED
  BY <1>1, <1>2 DEF SlabOK, Unlinked

LEMMA HeapWipeIInv == ASSUME IInv, HeapWipe PROVE IInv'
<1> USE DEF IInv
<1>1. PICK start \in Slab, num \in Nums, i \in Slab :
         op = [at |-> "wipe", start |-> start, num |-> num, i |-> i]
  BY HeapOpFields DEF HeapWipe, At, HeapStep
<1> DEFINE run == Run(start, num)
<1>2. /\ run \subseteq Slab /\ i \in run /\ magic
      /\ run \cap slab_bitmap = {}
      /\ \A s \in run : Outside(s) /\ held[s] = {}
      /\ \A s \in run : s =< i => Unlinked(s)
  BY <1>1 DEF HeapOpOK, HeapStep, BootOK, BootStep
<1>3. /\ header' = [header EXCEPT ![i] = usmm_slab_fini]
      /\ node' = [node EXCEPT ![i] = "none"] /\ NextSlab("unlink", "length")
      /\ UNCHANGED <<magic, heads, lists, slab_bitmap, app, crashes>>
  BY <1>1 DEF HeapWipe
<1>4. TypeOK' /\ \A t \in Slab : t # i => Same(t)
  BY <1>3, HeaderTypes DEF TypeOK, Same, lists, app
<1>5. SlabOK(i)'
  <2>1. header'[i].used \in Nat
    BY <1>4 DEF TypeOK, Header
  <2>2. i =< i
    BY <1>2, RunMember
  <2> QED
    BY <1>2, <1>3, <2>1, <2>2, NewHeader DEF lists, app
<1>6. \A s \in run : Outside(s)' /\ held'[s] = {}
  BY <1>2, <1>3 DEF Outside, app
<1>7. \A s \in run : s =< i => Unlinked(s)'
  BY <1>2, <1>3 DEF Unlinked, lists
<1>8. CASE /\ op' = [at |-> "length", start |-> start, num |-> num, i |-> start]
           /\ \A s \in run : s =< i
  <2>1. HeapOpOK'
    <3>1. start \in run
      BY RunMember
    <3> QED
      BY <1>2, <1>3, <1>6, <1>7, <1>8, <3>1 DEF HeapOpOK
  <2>2. OpType' /\ op'.at \in HeapStep
    BY <1>8 DEF OpType, BlockOp, HeapStep
  <2> QED
    BY <1>2, <1>3, <1>4, <1>5, <2>1, <2>2, HeapWriteOne DEF app
<1>9. CASE /\ op' = [at |-> "unlink", start |-> start, num |-> num, i |-> i + 1]
           /\ i + 1 \in run /\ i + 1 \in Slab
  <2>1. HeapOpOK'
    <3>1. \A s \in run : s < i + 1 => s =< i
      BY <1>2, RunMember
    <3> QED
      BY <1>2, <1>3, <1>6, <1>7, <1>9, <3>1 DEF HeapOpOK
  <2>2. OpType' /\ op'.at \in HeapStep
    BY <1>9 DEF OpType, BlockOp, HeapStep
  <2> QED
    BY <1>2, <1>3, <1>4, <1>5, <2>1, <2>2, HeapWriteOne DEF app
<1>10. \/ /\ op' = [at |-> "length", start |-> start, num |-> num, i |-> start]
          /\ \A s \in run : s =< i
       \/ /\ op' = [at |-> "unlink", start |-> start, num |-> num, i |-> i + 1]
          /\ i + 1 \in run /\ i + 1 \in Slab
  BY <1>1, <1>2, <1>3, NextSlabOp
<1> QED
  BY <1>8, <1>9, <1>10

LEMMA HeapLengthIInv == ASSUME IInv, HeapLength PROVE IInv'
<1> USE DEF IInv
<1>1. PICK start \in Slab, num \in Nums, i \in Slab :
         op = [at |-> "length", start |-> start, num |-> num, i |-> i]
  BY HeapOpFields DEF HeapLength, At, HeapStep
<1> DEFINE run == Run(start, num)
<1>2. /\ run \subseteq Slab /\ i \in run /\ start \in run /\ magic
      /\ run \cap slab_bitmap = {}
      /\ \A s \in run : Outside(s) /\ held[s] = {} /\ Unlinked(s)
  BY <1>1, RunMember DEF HeapOpOK, HeapStep, BootOK, BootStep
<1>3. /\ header' = [header EXCEPT ![start].word = num]
      /\ op' = [at |-> "hand over", start |-> start, num |-> num, i |-> i]
      /\ UNCHANGED <<magic, heads, lists, slab_bitmap, node, app, crashes>>
  BY <1>1 DEF HeapLength, Goto
<1>4. header'[start] = [header[start] EXCEPT !.word = num] /\ header[start] \in Header
  BY <1>3 DEF TypeOK
<1>5. header'[start].word = num /\ header'[start] \in Header
  BY <1>4, RunMember DEF Header
<1>6. TypeOK' /\ \A t \in Slab : t # start => Same(t)
  BY <1>3, <1>5 DEF TypeOK, Same, lists, app
<1>7. SlabOK(start)'
  <2>1. header'[start].used \in Nat
    BY <1>5 DEF Header
  <2> QED
    BY <1>2, <1>3, <2>1, NewHeader DEF lists, app
<1>8. HeapOpOK'
  <2>1. \A s \in run : Outside(s)' /\ held'[s] = {} /\ Unlinked(s)'
    BY <1>2, <1>3 DEF Outside, Unlinked, lists, app
  <2> QED
    BY <1>2, <1>3, <1>5, <2>1 DEF HeapOpOK
<1>9. OpType' /\ op'.at \in HeapStep
  BY <1>3 DEF OpType, BlockOp, HeapStep
<1> QED
  BY <1>2, <1>3, <1>6, <1>7, <1>8, <1>9, HeapWriteOne DEF app

LEMMA HeapReturnIInv == ASSUME IInv, HeapReturn PROVE IInv'
<1> USE DEF IInv
<1>1. PICK start \in Slab, num \in Nums, i \in Slab :
         op = [at |-> "hand over", start |-> start, num |-> num, i |-> i]
  BY HeapOpFields DEF HeapReturn, At, HeapStep
<1> DEFINE run == Run(start, num)
           new == [start |-> start, num |-> num]
<1>2. /\ run \subseteq Slab /\ start \in run /\ magic
      /\ run \cap slab_bitmap = {} /\ header[start].word = num
      /\ \A s \in run : Outside(s) /\ held[s] = {} /\ Unlinked(s)
  BY <1>1, RunMember DEF HeapOpOK, HeapStep, BootOK, BootStep
<1>3. /\ blocks' = blocks \cup {new} /\ op' = Idle
      /\ UNCHANGED <<magic, heads, free_slabs, full_slabs, slabs, slab_bitmap, node, header,
                     held, crashes>>
  BY <1>1 DEF HeapReturn, Finish, persistent, lists
<1>4. TypeOK'
  BY <1>3 DEF TypeOK
<1>5. ASSUME NEW b \in blocks PROVE Run(b.start, b.num) \cap run = {}
  BY <1>2 DEF Outside
<1>6. BlocksApart'
  <2>1. \A b \in blocks' : b \in blocks \/ (b = new /\ b.start = start /\ b.num = num)
    BY <1>3
  <2>2. \A b \in blocks' : Run(b.start, b.num) \subseteq Slab
    BY <1>2, <2>1 DEF BlocksApart
  <2>3. ASSUME NEW a \in blocks', NEW b \in blocks', a # b
        PROVE  Run(a.start, a.num) \cap Run(b.start, b.num) = {}
    BY <1>5, <2>1, <2>3 DEF BlocksApart
  <2> QED
    BY <2>2, <2>3 DEF BlocksApart
<1>7. ASSUME NEW t \in Slab PROVE SlabOK(t)'
  <2>1. CASE t \in run
    <3>1. \A b \in blocks' : b.start = t => header'[t].word = b.num
      BY <1>2, <1>3, <2>1, NoStart
    <3> QED
      BY <1>2, <1>3, <2>1, <3>1 DEF SlabOK, Unlinked
  <2>2. CASE t \notin run
    <3>1. Outside(t)' <=> Outside(t)
      BY <1>3, <2>2 DEF Outside
    <3>2. \A b \in blocks' : b.start = t => header'[t].word = b.num
      BY <1>2, <1>3, <2>2 DEF SlabOK
    <3> QED
      BY <1>3, <3>1, <3>2 DEF SlabOK, Unlinked
  <2> QED
    BY <2>1, <2>2
<1>8. OpType' /\ HeapOpOK'
  BY <1>3 DEF OpType, BootOp, HeapOpOK, HeapStep, Idle
<1> QED
  BY <1>2, <1>3, <1>4, <1>6, <1>7, <1>8, HeapWrite DEF Idle

-----------------------------------------------------------------------------
(* usmm_heap_free *)

LEMMA HeapGiveIInv == ASSUME IInv, NEW b \in blocks, HeapGive(b) PROVE IInv'
<1> USE DEF IInv
<1> DEFINE start == b.start
           num == b.num
           run == Run(start, num)
<1>1. start \in Slab /\ num \in Nums
  BY DEF TypeOK
<1>2. /\ op.at = "idle" /\ magic /\ header[start].word = num
      /\ run \subseteq Slab /\ start \in run
  BY <1>1, RunMember DEF HeapGive, At, BootOK, BootStep, SlabOK, BlocksApart
<1>3. \A s \in run : Unlinked(s) /\ s \notin slab_bitmap /\ held[s] = {}
  BY <1>2 DEF SlabOK, Outside
<1>4. /\ blocks' = blocks \ {b}
      /\ op' = [at |-> "renew", start |-> start, num |-> num, i |-> start]
      /\ UNCHANGED <<magic, heads, free_slabs, full_slabs, slabs, slab_bitmap, node, header,
                     held, crashes>>
  BY <1>2 DEF HeapGive, HeapOp, persistent, lists
<1>5. TypeOK' /\ BlocksApart'
  BY <1>4 DEF TypeOK, BlocksApart
<1>6. ASSUME NEW t \in Slab PROVE SlabOK(t)'
  <2>1. Outside(t) => Outside(t)'
    BY <1>4 DEF Outside
  <2> QED
    BY <1>4, <2>1 DEF SlabOK, Unlinked
<1>7. HeapOpOK'
  <2>1. \A s \in run : Outside(s)' /\ held'[s] = {} /\ Unlinked(s)'
    BY <1>3, <1>4 DEF Outside, BlocksApart, Unlinked
  <2> QED
    BY <1>2, <1>4, <2>1 DEF HeapOpOK
<1>8. OpType' /\ op'.at \in HeapStep
  BY <1>1, <1>4 DEF OpType, BlockOp, HeapStep
<1> QED
  BY <1>2, <1>4, <1>5, <1>6, <1>7, <1>8, HeapWrite

LEMMA HeapRenewIInv == ASSUME IInv, HeapRenew PROVE IInv'
<1> USE DEF IInv
<1>1. PICK start \in Slab, num \in Nums, i \in Slab :
         op = [at |-> "renew", start |-> start, num |-> num, i |-> i]
  BY HeapOpFields DEF HeapRenew, At, HeapStep
<1> DEFINE run == Run(start, num)
<1>2. /\ run \subseteq Slab /\ i \in run /\ magic
      /\ \A s \in run : Outside(s) /\ held[s] = {}
      /\ \A s \in run : s >= i => Unlinked(s)
  BY <1>1 DEF HeapOpOK, HeapStep, BootOK, BootStep
<1>3. /\ header' = [header EXCEPT ![i] = usmm_slab_init]
      /\ node' = [node EXCEPT ![i] = "self"]
      /\ op' = [at |-> "add", start |-> start, num |-> num, i |-> i]
      /\ UNCHANGED <<magic, heads, lists, slab_bitmap, app, crashes>>
  BY <1>1 DEF HeapRenew, Goto
<1>4. TypeOK' /\ (\A t \in Slab : t # i => Same(t)) /\ header'[i] = usmm_slab_init
  BY <1>3, HeaderTypes DEF TypeOK, Same, lists, app
<1>5. SlabOK(i)'
  <2>1. header'[i].used \in Nat
    BY <1>4 DEF TypeOK, Header
  <2>2. i >= i
    BY <1>2, RunMember
  <2> QED
    BY <1>2, <1>3, <2>1, <2>2, NewHeader DEF lists, app
<1>6. HeapOpOK'
  <2>1. \A s \in run : Outside(s)' /\ held'[s] = {}
    BY <1>2, <1>3 DEF Outside, app
  <2>2. \A s \in run : s >= i => Unlinked(s)'
    BY <1>2, <1>3 DEF Unlinked, lists
  <2> QED
    BY <1>2, <1>3, <1>4, <2>1, <2>2 DEF HeapOpOK
<1>7. OpType' /\ op'.at \in HeapStep
  BY <1>3 DEF OpType, BlockOp, HeapStep
<1> QED
  BY <1>2, <1>3, <1>4, <1>5, <1>6, <1>7, HeapWriteOne DEF app

LEMMA HeapAddIInv == ASSUME IInv, HeapAdd PROVE IInv'
<1> USE DEF IInv
<1>1. PICK start \in Slab, num \in Nums, i \in Slab :
         op = [at |-> "add", start |-> start, num |-> num, i |-> i]
  BY HeapOpFields DEF HeapAdd, At, HeapStep
<1> DEFINE run == Run(start, num)
<1>2. /\ run \subseteq Slab /\ i \in run /\ magic /\ SlabOK(i)
      /\ header[i] = usmm_slab_init
      /\ \A s \in run : Outside(s) /\ held[s] = {}
      /\ \A s \in run : s >= i => Unlinked(s)
  BY <1>1 DEF HeapOpOK, HeapStep, BootOK, BootStep
<1>3. /\ free_slabs' = free_slabs \cup {i}
      /\ node' = [node EXCEPT ![i] = "linked"]
      /\ op' = [at |-> "clear", start |-> start, num |-> num, i |-> i]
      /\ UNCHANGED <<magic, heads, full_slabs, slabs, slab_bitmap, header, app, crashes>>
  BY <1>1 DEF HeapAdd, Goto
<1>4. TypeOK' /\ \A t \in Slab : t # i => Same(t)
  BY <1>3 DEF TypeOK, Same, app
<1>5. \A s \in run : Outside(s)' /\ held'[s] = {}
  BY <1>2, <1>3 DEF Outside, app
<1>6. SlabOK(i)'
  <2>1. Unlinked(i)
    BY <1>2, RunMember
  <2> QED
    BY <1>2, <1>3, <1>5, <2>1 DEF SlabOK, Unlinked, app
<1>7. HeapOpOK'
  <2>1. \A s \in run : s > i => Unlinked(s)'
    BY <1>2, <1>3, RunMember DEF Unlinked
  <2> QED
    BY <1>2, <1>3, <1>5, <2>1 DEF HeapOpOK
<1>8. OpType' /\ op'.at \in HeapStep
  BY <1>3 DEF OpType, BlockOp, HeapStep
<1> QED
  BY <1>2, <1>3, <1>4, <1>6, <1>7, <1>8, HeapWriteOne DEF app

LEMMA HeapClearIInv == ASSUME IInv, HeapClear PROVE IInv'
<1> USE DEF IInv
<1>1. PICK start \in Slab, num \in Nums, i \in Slab :
         op = [at |-> "clear", start |-> start, num |-> num, i |-> i]
  BY HeapOpFields DEF HeapClear, At, HeapStep
<1> DEFINE run == Run(start, num)
<1>2. /\ run \subseteq Slab /\ i \in run /\ magic /\ SlabOK(i)
      /\ \A s \in run : Outside(s) /\ held[s] = {}
      /\ \A s \in run : s > i => Unlinked(s)
  BY <1>1 DEF HeapOpOK, HeapStep, BootOK, BootStep
<1>3. /\ slab_bitmap' = slab_bitmap \cup {i}
      /\ \/ op' = Idle
         \/ i + 1 # start + num /\ NextSlab("renew", "idle")
      /\ UNCHANGED <<magic, heads, lists, node, header, app, crashes>>
  BY <1>1 DEF HeapClear, Finish
<1>4. TypeOK' /\ \A t \in Slab : t # i => Same(t)
  BY <1>3 DEF TypeOK, Same, lists, app
<1>5. \A s \in run : Outside(s)' /\ held'[s] = {}
  BY <1>2, <1>3 DEF Outside, app
<1>6. SlabOK(i)'
  BY <1>2, <1>3, <1>5 DEF SlabOK, Unlinked, lists, app
<1>7. CASE op' = Idle
  <2>1. OpType' /\ HeapOpOK'
    BY <1>7 DEF OpType, BootOp, HeapOpOK, HeapStep, Idle
  <2> QED
    BY <1>2, <1>3, <1>4, <1>6, <1>7, <2>1, HeapWriteOne DEF app, Idle
<1>8. CASE i + 1 # start + num /\ NextSlab("renew", "idle")
  <2>1. /\ op' = [at |-> "renew", start |-> start, num |-> num, i |-> i + 1]
        /\ i + 1 \in run /\ i + 1 \in Slab
    <3>1. op' = [at |-> "renew", start |-> start, num |-> num, i |-> i + 1]
      BY <1>1, <1>8 DEF NextSlab
    <3>2. i + 1 \in run
      BY <1>2, <1>8, RunMember DEF Run
    <3> QED
      BY <1>2, <3>1, <3>2
  <2>2. \A s \in run : s >= i + 1 => Unlinked(s)'
    BY <1>2, <1>3, RunMember DEF Unlinked, lists
  <2>3. HeapOpOK'
    BY <1>2, <1>5, <2>1, <2>2 DEF HeapOpOK
  <2>4. OpType' /\ op'.at \in HeapStep
    BY <2>1 DEF OpType, BlockOp, HeapStep
  <2> QED
    BY <1>2, <1>3, <1>4, <1>6, <2>3, <2>4, HeapWriteOne DEF app
<1> QED
  BY <1>3, <1>7, <1>8
-----------------------------------------------------------------------------
(* usmm_init, and the death of the process. *)

LEMMA InitIInv == Init => IInv
<1> SUFFICES ASSUME Init PROVE IInv
  OBVIOUS
<1>1. TypeOK
  <2>1. header \in [Slab -> Header]
    BY HeaderTypes DEF Init
  <2>2. crashes \in 0 .. MaxCrashes
    BY CrashAssumption DEF Init
  <2> QED
    BY <2>1, <2>2 DEF Init, TypeOK
<1>2. op = [at |-> "start"]
  BY DEF Init
<1>3. OpType /\ SliceOpOK /\ HeapOpOK
  BY <1>2 DEF OpType, BootOp, BootStep, SliceOpOK, SliceStep, HeapOpOK, HeapStep
<1>4. ASSUME NEW s \in Slab PROVE SlabOK(s)
  <2>1. header[s].used = 0 /\ header[s].free_slice = {} /\ held[s] = {}
    BY DEF Init, usmm_slab_init, usmm_slab_fini
  <2> QED
    BY <2>1, FS_EmptySet DEF Init, SlabOK, Outside
<1>5. BlocksApart /\ BootOK
  BY <1>2 DEF Init, BlocksApart, BootOK, BootStep
<1> QED
  BY <1>1, <1>3, <1>4, <1>5 DEF IInv

LEMMA BootIInv == ASSUME IInv, Boot PROVE IInv'
<1> USE DEF IInv
<1>1. blocks' = blocks /\ held' = held
  BY DEF Boot, Start, InitLists, InitSlab, InitClasses, app
<1>2. CASE Start
  <2>1. UNCHANGED <<heads, lists, slab_bitmap, node, header, app, crashes>>
    BY <1>2 DEF Start
  <2>2. \/ op' = Idle /\ magic /\ magic' = magic
        \/ op' = [at |-> "lists"] /\ ~magic /\ magic' = TRUE
    BY <1>2 DEF Start, Finish, Goto, At, OpType, BootOp, SliceOp, BlockOp, SliceStep, HeapStep,
                TypeOK
  <2>3. TypeOK' /\ BlocksApart' /\ \A t \in Slab : Same(t)
    BY <2>1, <2>2 DEF TypeOK, BlocksApart, Same, lists, app
  <2>4. OpType' /\ SliceOpOK' /\ HeapOpOK'
    <3>1. op' \in BootOp /\ op'.at \in {"idle", "lists"}
      BY <2>2 DEF BootOp, BootStep, Idle
    <3> QED
      BY <3>1 DEF OpType, SliceOpOK, SliceStep, HeapOpOK, HeapStep
  <2>5. BootOK'
    BY <2>1, <2>2 DEF BootOK, BootStep, Idle, lists, app
  <2> QED
    BY <1>1, <2>3, <2>4, <2>5, SameSlab
<1>3. CASE InitLists
  <2>1. /\ op.at = "lists" /\ heads' = {"free", "full"}
        /\ op' = [at |-> "slabs"]
        /\ UNCHANGED <<magic, lists, slab_bitmap, node, header, app, crashes>>
    BY <1>3 DEF InitLists, Goto, At, OpType, BootOp, SliceOp, BlockOp, SliceStep, HeapStep
  <2>2. TypeOK' /\ BlocksApart' /\ \A t \in Slab : Same(t)
    BY <2>1 DEF TypeOK, BlocksApart, Same, lists, app, Heads
  <2>3. OpType' /\ SliceOpOK' /\ HeapOpOK'
    BY <2>1 DEF OpType, BootOp, BootStep, SliceOpOK, SliceStep, HeapOpOK, HeapStep
  <2>4. BootOK'
    BY <2>1 DEF BootOK, BootStep, lists, app
  <2> QED
    BY <1>1, <2>2, <2>3, <2>4, SameSlab
<1>4. ASSUME NEW s \in Slab, InitSlab(s) PROVE IInv'
  <2>1. /\ op.at = "slabs" /\ op' = op
        /\ node' = [node EXCEPT ![s] = "linked"]
        /\ header' = [header EXCEPT ![s] = usmm_slab_init]
        /\ free_slabs' = free_slabs \cup {s}
        /\ UNCHANGED <<magic, heads, full_slabs, slabs, slab_bitmap, app, crashes>>
    BY <1>4 DEF InitSlab, At
  <2>2. /\ full_slabs = {} /\ \A c \in Class : slabs[c] = {}
        /\ blocks = {} /\ \A t \in Slab : held[t] = {}
    BY <2>1 DEF BootOK
  <2>3. TypeOK' /\ (\A t \in Slab : t # s => Same(t)) /\ header'[s] = usmm_slab_init
    BY <2>1, HeaderTypes DEF TypeOK, Same, app
  <2>4. BlocksApart' /\ BootOK'
    BY <1>1, <2>1, <2>2 DEF BlocksApart, BootOK, BootStep
  <2>5. OpType' /\ SliceOpOK' /\ HeapOpOK'
    BY <2>1 DEF OpType, SliceOpOK, SliceStep, HeapOpOK, HeapStep
  <2>6. SlabOK(s)'
    <3>1. header'[s].used = 0
      BY <2>3 DEF usmm_slab_init
    <3>2. IsFiniteSet(held'[s]) /\ Cardinality(held'[s]) = 0 /\ held'[s] = {}
      BY <1>1, <2>2, FS_EmptySet
    <3> QED
      BY <1>1, <2>1, <2>2, <2>3, <3>1, <3>2 DEF SlabOK, Outside
  <2> QED
    BY <1>1, <2>3, <2>4, <2>5, <2>6, SameSlab
<1>5. CASE InitClasses
  <2>1. /\ op.at = "slabs" /\ heads' = heads \cup Class /\ op' = Idle
        /\ UNCHANGED <<magic, lists, slab_bitmap, node, header, app, crashes>>
    BY <1>5 DEF InitClasses, At, Finish
  <2>2. TypeOK' /\ BlocksApart' /\ \A t \in Slab : Same(t)
    BY <2>1 DEF TypeOK, BlocksApart, Same, lists, app, Heads
  <2>3. OpType' /\ SliceOpOK' /\ HeapOpOK'
    BY <2>1 DEF OpType, BootOp, SliceOpOK, SliceStep, HeapOpOK, HeapStep, Idle
  <2>4. BootOK'
    BY <2>1 DEF BootOK, BootStep, Idle
  <2> QED
    BY <1>1, <2>2, <2>3, <2>4, SameSlab
<1> QED
  BY <1>2, <1>3, <1>4, <1>5 DEF Boot

LEMMA CrashIInv == ASSUME IInv, Crash PROVE IInv'
<1> USE DEF IInv
<1>1. /\ crashes < MaxCrashes /\ crashes' = crashes + 1 /\ op' = [at |-> "start"]
      /\ UNCHANGED <<magic, heads, free_slabs, full_slabs, slabs, slab_bitmap, node, header,
                     blocks, held>>
  BY DEF Crash, persistent, lists, app
<1>2. TypeOK' /\ BlocksApart' /\ \A t \in Slab : Same(t)
  <2>1. crashes' \in 0 .. MaxCrashes
    BY <1>1, CrashAssumption DEF TypeOK
  <2> QED
    BY <1>1, <2>1 DEF TypeOK, BlocksApart, Same
<1>3. OpType' /\ SliceOpOK' /\ HeapOpOK'
  BY <1>1 DEF OpType, BootOp, BootStep, SliceOpOK, SliceStep, HeapOpOK, HeapStep
<1>4. BootOK'
  BY <1>1 DEF BootOK, BootStep
<1> QED
  BY <1>1, <1>2, <1>3, <1>4, SameSlab
-----------------------------------------------------------------------------
(* Every step, and what follows. *)

LEMMA StepIInv == IInv /\ [Next]_vars => IInv'
<1> SUFFICES ASSUME IInv, [Next]_vars PROVE IInv'
  OBVIOUS
<1>1. CASE Boot
  BY <1>1, BootIInv
<1>2. CASE Alloc
  BY <1>2, AllocReuseIInv, AllocFreshIInv, CreateIInv, LinkIInv, PopIInv, CountIInv,
     TestFullIInv, LinkFullIInv DEF Alloc
<1>3. CASE Free
  BY <1>3, FreePushIInv, UncountIInv, LeaveFullIInv, RelinkIInv, DrainIInv, ReinitIInv,
     ReleaseIInv DEF Free
<1>4. CASE HeapAlloc
  BY <1>4, HeapFindIInv, HeapSetIInv, HeapUnlinkIInv, HeapWipeIInv, HeapLengthIInv,
     HeapReturnIInv DEF HeapAlloc
<1>5. CASE HeapFree
  BY <1>5, HeapGiveIInv, HeapRenewIInv, HeapAddIInv, HeapClearIInv DEF HeapFree
<1>6. CASE Crash
  BY <1>6, CrashIInv
<1>7. CASE UNCHANGED vars
  <2>1. UNCHANGED <<magic, heads, free_slabs, full_slabs, slabs, slab_bitmap, node, header,
                    blocks, held, op, crashes>>
    BY <1>7 DEF vars, persistent, lists, app
  <2>2. \A t \in Slab : SlabOK(t)'
    BY <2>1, SameSlab DEF IInv, Same
  <2>3. TypeOK' /\ OpType' /\ BlocksApart' /\ BootOK'
    BY <2>1 DEF IInv, TypeOK, OpType, BlocksApart, BootOK
  <2>4. SliceOpOK'
    BY <2>1 DEF IInv, SliceOpOK, Outside, Unlinked
  <2>5. HeapOpOK'
    BY <2>1 DEF IInv, HeapOpOK, Outside, Unlinked
  <2> QED
    BY <2>2, <2>3, <2>4, <2>5 DEF IInv
<1> QED
  BY <1>1, <1>2, <1>3, <1>4, <1>5, <1>6, <1>7 DEF Next

(* The invariant behind the theorems: what the calls rely on at every write holds for any
   number of slabs, classes and crashes, those inside usmm_init included. *)
THEOREM Invariance == Spec => []IInv
BY InitIInv, StepIInv, PTL DEF Spec

(* Every variable keeps its type, the persistent ones of the mapping included. *)
THEOREM TypeCorrect == Spec => []TypeOK
<1>1. IInv => TypeOK
  BY DEF IInv
<1> QED
  BY <1>1, Invariance, PTL

(* A slice the application holds is in no chain, wherever the process died in
   usmm_slice_alloc or usmm_slice_free. *)
THEOREM HeldStaysOut == Spec => []HeldIsNotFree
<1>1. IInv => HeldIsNotFree
  BY DEF IInv, SlabOK, HeldIsNotFree
<1> QED
  BY <1>1, Invariance, PTL

(* used covers the slices held of a slab at every write and after every crash. *)
THEOREM UsedNeverShort == Spec => []UsedCoversHeld
<1>1. IInv => UsedCoversHeld
  BY DEF IInv, SlabOK, UsedCoversHeld
<1> QED
  BY <1>1, Invariance, PTL

(* A crash leaves no slab in two lists, nor a cut slab on free_slabs. *)
THEOREM NoSlabInTwoLists == Spec => []OneListEach
<1>1. IInv => OneListEach
  BY DEF IInv, SlabOK, OneListEach
<1> QED
  BY <1>1, Invariance, PTL

(* A heap block keeps its slabs, its length and its bits through the crashes of its own
   allocation, of any other and of the slice level. *)
THEOREM BlockSurvives == Spec => []BlockIntact
<1>1. IInv => BlockIntact
  <2> SUFFICES ASSUME IInv PROVE BlockIntact
    OBVIOUS
  <2>1. ASSUME NEW b \in blocks
        PROVE  /\ header[b.start].word = b.num
               /\ \A s \in Run(b.start, b.num) :
                     /\ s \notin slab_bitmap \cup free_slabs \cup full_slabs
                     /\ held[s] = {} /\ \A c \in Class : s \notin slabs[c]
    <3>1. b.start \in Slab /\ Run(b.start, b.num) \subseteq Slab
      BY DEF IInv, TypeOK, BlocksApart
    <3>2. header[b.start].word = b.num
      BY <3>1 DEF IInv, SlabOK
    <3>3. \A s \in Run(b.start, b.num) : ~Outside(s) /\ SlabOK(s)
      BY <3>1 DEF IInv, Outside
    <3> QED
      BY <3>2, <3>3 DEF SlabOK, Unlinked
  <2>2. \A a, b \in blocks : a = b \/ Run(a.start, a.num) \cap Run(b.start, b.num) = {}
    BY DEF IInv, BlocksApart
  <2> QED
    BY <2>1, <2>2 DEF BlockIntact
<1> QED
  BY <1>1, Invariance, PTL

(* The writes that change a slab's class, in usmm_init, in usmm_slice_alloc of a fresh slab,
   in usmm_slice_free of an empty one and in the heap level, meet no slice that is held. *)
THEOREM ClassKept == Spec => HeldSlabKeepsClass
<1>1. IInv /\ [Next]_vars
         => [\A s \in Slab : held[s] # {} => header'[s].slice = header[s].slice]_vars
  <2> SUFFICES ASSUME IInv, [Next]_vars, NEW s \in Slab, held[s] # {}
               PROVE  header'[s].slice = header[s].slice
    OBVIOUS
  <2> USE DEF IInv
  <2>1. CASE header' = header
    BY <2>1
  <2>2. TypeOK /\ SlabOK(s) /\ Outside(s) /\ header[s] \in Header
    BY DEF SlabOK, TypeOK
  <2>3. CASE \E t \in Slab : InitSlab(t)
    BY <2>3 DEF InitSlab, At, BootOK
  <2>4. CASE Create
    <3>1. op.slab \in Slab /\ header[op.slab] = usmm_slab_init /\ SlabOK(op.slab)
      BY <2>4, SliceOpFields DEF Create, At, SliceStep, SliceOpOK
    <3>2. op.slab # s
      BY <3>1, NoneHeld DEF usmm_slab_init
    <3> QED
      BY <2>2, <2>4, <3>1, <3>2 DEF Create, TypeOK
  <2>5. CASE Pop
    <3>1. header' = header \/ \E ptr : header' = [header EXCEPT ![op.slab].free_slice = @ \ {ptr}]
      BY <2>5 DEF Pop
    <3>2. ASSUME NEW ptr, header' = [header EXCEPT ![op.slab].free_slice = @ \ {ptr}]
          PROVE  header'[s].slice = header[s].slice
      <4>1. CASE op.slab = s
        <5>1. header'[s] = [header[s] EXCEPT !.free_slice = @ \ {ptr}]
          BY <2>2, <3>2, <4>1 DEF TypeOK
        <5> QED
          BY <2>2, <5>1 DEF Header
      <4> QED
        BY <2>2, <3>2, <4>1 DEF TypeOK
    <3> QED
      BY <2>1, <3>1, <3>2
  <2>6. CASE Count
    BY <2>2, <2>6 DEF Count, TypeOK, Header
  <2>7. CASE \E t \in Slab : \E ptr \in held[t] : FreePush(t, ptr)
    BY <2>2, <2>7 DEF FreePush, TypeOK, Header
  <2>8. CASE Uncount
    BY <2>2, <2>8 DEF Uncount, TypeOK, Header
  <2>9. CASE Reinit
    <3>1. op.slab \in Slab /\ header[op.slab].used = 0 /\ SlabOK(op.slab)
      BY <2>9, SliceOpFields DEF Reinit, At, SliceStep, SliceOpOK
    <3>2. op.slab # s
      BY <3>1, NoneHeld
    <3> QED
      BY <2>2, <2>9, <3>1, <3>2 DEF Reinit, TypeOK
  <2>10. CASE HeapWipe \/ HeapRenew
    <3>1. op.i \in Slab /\ held[op.i] = {}
      BY <2>10, HeapOpFields DEF HeapWipe, HeapRenew, At, HeapStep, HeapOpOK
    <3> QED
      BY <2>2, <2>10, <3>1 DEF HeapWipe, HeapRenew, TypeOK
  <2>11. CASE HeapLength
    BY <2>2, <2>11 DEF HeapLength, TypeOK, Header
  <2> QED
    BY <2>1, <2>3, <2>4, <2>5, <2>6, <2>7, <2>8, <2>9, <2>10, <2>11
       DEF Next, Boot, Alloc, Free, HeapAlloc, HeapFree, Start, InitLists, InitClasses,
           AllocReuse, AllocFresh, Link, TestFull, LinkFull, LeaveFull, Relink, Drain, Release,
           HeapFind, HeapSet, HeapUnlink, HeapReturn, HeapGive, HeapAdd, HeapClear, Crash,
           persistent, vars
<1> QED
  BY <1>1, Invariance, PTL DEF Spec, HeldSlabKeepsClass
=============================================================================
