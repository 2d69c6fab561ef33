------------------------------ MODULE UsmmCrash ------------------------------
(***************************************************************************)
(* usmm across a process restart.  The managed memory is a shared mapping  *)
(* that outlives the process; the next process maps it at the same address *)
(* and goes on with the bitmap, lists and headers it finds (the reload     *)
(* branch of usmm_init).  So usmm_init and the four calls of the heap and  *)
(* the slice level are cut here into the writes they make, and the process *)
(* may die between any two.                                                *)
(*                                                                         *)
(* A list_del or a list_add is one step, as is building a slab's chain.    *)
(* The statistics counters are left to module Usmm, and so are the         *)
(* branches of the bitmap search, which only reads.                        *)
(***************************************************************************)
EXTENDS Integers, FiniteSets

CONSTANTS
    N,             \* the slabs, the controller's included
    Nums,          \* the slabs of the heap blocks the application asks for
    Class,         \* the size classes
    NoClass,       \* the slice size of a slab that is not cut
    Total,         \* the slices a slab of a class is cut into
    MaxCrashes,    \* bound: how often the process may die
    DieInInit      \* whether it may die inside usmm_init

ASSUME CrashAssumption ==
    /\ N \in Nat \ {0} /\ Nums \subseteq Nat \ {0, 1}
    /\ IsFiniteSet(Class) /\ NoClass \notin Class
    /\ Total \in [Class -> Nat \ {0, 1}]
    /\ MaxCrashes \in Nat /\ DieInInit \in BOOLEAN

VARIABLES
    magic,         \* gs_magic is in place
    heads,         \* the list heads INIT_LIST_HEAD has set
    free_slabs, full_slabs, slabs,
    slab_bitmap,   \* the slabs whose bit is 0
    node,          \* each slab's list node: linked, to itself, or poisoned
    header,        \* the first word, slice, used and free_slice of each slab
    blocks,        \* the heap blocks the application keeps
    held,          \* the slices of each slab the application keeps
    op,            \* the call in progress and where it stands
    crashes

lists      == <<free_slabs, full_slabs, slabs>>
persistent == <<magic, heads, lists, slab_bitmap, node, header>>
app        == <<blocks, held>>
vars       == <<persistent, app, op, crashes>>

Slab == 1 .. N - 1
Run(start, num) == start .. start + num - 1

NULL == -1
Magic == -1                    \* the first word of a slab that is no heap block
Idle == [at |-> "idle"]
Heads == {"free", "full"} \cup Class
SliceIndex == UNION {0 .. Total[c] - 1 : c \in Class}

Header == [word : Int, slice : Class \cup {NoClass}, used : Nat,
           free_slice : SUBSET SliceIndex]

TypeOK ==
    /\ magic \in BOOLEAN
    /\ heads \subseteq Heads
    /\ free_slabs \subseteq Slab /\ full_slabs \subseteq Slab
    /\ slabs \in [Class -> SUBSET Slab]
    /\ slab_bitmap \subseteq Slab
    /\ node \in [Slab -> {"none", "self", "linked", "poisoned"}]
    /\ header \in [Slab -> Header]
    /\ blocks \subseteq [start : Slab, num : Nums]
    /\ held \in [Slab -> SUBSET SliceIndex]
    /\ crashes \in 0 .. MaxCrashes

At(step) == op.at = step
Goto(step) == op' = [op EXCEPT !.at = step]
Finish == op' = Idle

-----------------------------------------------------------------------------
(* list.h *)

(* Mistake: the neighbours keep pointing at the entry. *)
PoisonOnly(s) ==
    node' = [node EXCEPT ![s] = "poisoned"] /\ UNCHANGED lists

Unlink(s) ==
    /\ free_slabs' = free_slabs \ {s}
    /\ full_slabs' = full_slabs \ {s}
    /\ slabs' = [c \in Class |-> slabs[c] \ {s}]
    /\ node' = [node EXCEPT ![s] = "poisoned"]

(* list_del follows the node's links; a poisoned one faults. *)
Faults(s) == node[s] \in {"none", "poisoned"}

ListDel(s) == ~Faults(s) /\ Unlink(s)

-----------------------------------------------------------------------------
(* usmm_slab.c *)

usmm_slab_init == [word |-> Magic, slice |-> NoClass, used |-> 0, free_slice |-> {}]

usmm_slab_fini == [usmm_slab_init EXCEPT !.word = 0]

usmm_slab_create(h, c) ==
    [h EXCEPT !.slice = c, !.free_slice = 0 .. Total[c] - 1]

usmm_slab_isfull(h) ==
    h.used # 0 /\ h.slice # NoClass /\ h.used = Total[h.slice]

-----------------------------------------------------------------------------
(* usmm_init of a mapping that has no magic yet. *)

Init ==
    /\ magic = FALSE
    /\ heads = {}
    /\ free_slabs = {} /\ full_slabs = {}
    /\ slabs = [c \in Class |-> {}]
    /\ node = [s \in Slab |-> "none"]
    /\ header = [s \in Slab |-> usmm_slab_fini]
    /\ slab_bitmap = Slab /\ blocks = {}
    /\ held = [s \in Slab |-> {}]
    /\ op = [at |-> "start"]
    /\ crashes = 0

(* memcmp(gs_magic, u->magic, 32): reload, or clear and write the magic. *)
Start ==
    /\ At("start")
    /\ IF magic THEN Finish /\ UNCHANGED magic
                ELSE Goto("lists") /\ magic' = TRUE
    /\ UNCHANGED <<heads, lists, slab_bitmap, node, header, app, crashes>>

(* The bitmap's bits are set first, all of them, and those of the slabs cleared:
   they are then as in a new mapping. *)
InitLists ==
    /\ At("lists")
    /\ heads' = {"free", "full"}
    /\ Goto("slabs")
    /\ UNCHANGED <<magic, lists, slab_bitmap, node, header, app, crashes>>

InitSlab(s) ==
    /\ At("slabs") /\ node[s] = "none"
    /\ node' = [node EXCEPT ![s] = "linked"]
    /\ header' = [header EXCEPT ![s] = usmm_slab_init]
    /\ free_slabs' = free_slabs \cup {s}
    /\ UNCHANGED <<magic, heads, full_slabs, slabs, slab_bitmap, app, op, crashes>>

InitClasses ==
    /\ At("slabs") /\ \A s \in Slab : node[s] # "none"
    /\ heads' = heads \cup Class
    /\ Finish
    /\ UNCHANGED <<magic, lists, slab_bitmap, node, header, app, crashes>>

-----------------------------------------------------------------------------
(* usmm_slice_alloc *)

NewOp(step, s, c, ptr, full) ==
    [at |-> step, slab |-> s, class |-> c, ptr |-> ptr, full |-> full]

AllocReuse(c) ==
    /\ At("idle") /\ heads = Heads
    /\ \E s \in slabs[c] : op' = NewOp("pop", s, c, NULL, FALSE)
    /\ UNCHANGED <<persistent, app, crashes>>

AllocFresh(c) ==
    /\ At("idle") /\ heads = Heads
    /\ slabs[c] = {}
    /\ \E s \in free_slabs : /\ ListDel(s)
                             /\ op' = NewOp("create", s, c, NULL, FALSE)
    /\ UNCHANGED <<magic, heads, slab_bitmap, header, app, crashes>>

Create ==
    /\ At("create")
    /\ header' = [header EXCEPT ![op.slab] = usmm_slab_create(@, op.class)]
    /\ Goto("link")
    /\ UNCHANGED <<magic, heads, lists, slab_bitmap, node, app, crashes>>

Link ==
    /\ At("link")
    /\ slabs' = [slabs EXCEPT ![op.class] = @ \cup {op.slab}]
    /\ node' = [node EXCEPT ![op.slab] = "linked"]
    /\ Goto("pop")
    /\ UNCHANGED <<magic, heads, free_slabs, full_slabs, slab_bitmap, header, app, crashes>>

(* Mistake: the slice is given out and stays in the chain. *)
Peek ==
    /\ At("pop")
    /\ \E ptr \in header[op.slab].free_slice : op' = [op EXCEPT !.at = "count", !.ptr = ptr]
    /\ UNCHANGED <<persistent, app, crashes>>

(* usmm_slab_alloc: free_slice moves on, then used is incremented. *)
Pop ==
    /\ At("pop")
    /\ LET chain == header[op.slab].free_slice
       IN  \/ /\ chain = {}
              /\ Goto("test")
              /\ UNCHANGED header
           \/ \E ptr \in chain :
                 /\ header' = [header EXCEPT ![op.slab].free_slice = @ \ {ptr}]
                 /\ op' = [op EXCEPT !.at = "count", !.ptr = ptr]
    /\ UNCHANGED <<magic, heads, lists, slab_bitmap, node, app, crashes>>

(* Mistake: used stays as it is. *)
CountNothing == At("count") /\ Goto("test") /\ UNCHANGED <<persistent, app, crashes>>

Count ==
    /\ At("count")
    /\ header' = [header EXCEPT ![op.slab].used = @ + 1]
    /\ Goto("test")
    /\ UNCHANGED <<magic, heads, lists, slab_bitmap, node, app, crashes>>

(* The pointer reaches the application when usmm_slice_alloc returns. *)
Return ==
    /\ held' = [held EXCEPT ![op.slab] = IF op.ptr = NULL THEN @
                                         ELSE @ \cup {op.ptr}]
    /\ Finish
    /\ UNCHANGED blocks

TestFull ==
    /\ At("test")
    /\ IF usmm_slab_isfull(header[op.slab])
       THEN /\ ListDel(op.slab) /\ Goto("full")
            /\ UNCHANGED app
       ELSE /\ Return
            /\ UNCHANGED <<lists, node>>
    /\ UNCHANGED <<magic, heads, slab_bitmap, header, crashes>>

LinkFull ==
    /\ At("full")
    /\ full_slabs' = full_slabs \cup {op.slab}
    /\ node' = [node EXCEPT ![op.slab] = "linked"]
    /\ Return
    /\ UNCHANGED <<magic, heads, free_slabs, slabs, slab_bitmap, header, crashes>>

-----------------------------------------------------------------------------
(* usmm_slice_free of a slice the application holds and has forgotten. *)

FreePush(s, ptr) ==
    /\ At("idle") /\ heads = Heads
    /\ header[s].slice # NoClass /\ header[s].used # 0        \* ASSERTs
    /\ held' = [held EXCEPT ![s] = @ \ {ptr}]
    /\ header' = [header EXCEPT ![s].free_slice = @ \cup {ptr}]
    /\ op' = NewOp("uncount", s, header[s].slice, ptr,
                   usmm_slab_isfull(header[s]))
    /\ UNCHANGED <<magic, heads, lists, slab_bitmap, node, blocks, crashes>>

(* Mistake: a slab with one slice left in use is given back. *)
UncountEarly ==
    /\ At("uncount")
    /\ header' = [header EXCEPT ![op.slab].used = @ - 1]
    /\ IF header'[op.slab].used =< 1 THEN Goto("drain") ELSE Finish
    /\ UNCHANGED <<magic, heads, lists, slab_bitmap, node, app, crashes>>

Uncount ==
    /\ At("uncount")
    /\ header' = [header EXCEPT ![op.slab].used = @ - 1]
    /\ IF op.full THEN Goto("leavefull")
       ELSE IF header'[op.slab].used = 0 THEN Goto("drain")
       ELSE Finish
    /\ UNCHANGED <<magic, heads, lists, slab_bitmap, node, app, crashes>>

LeaveFull ==
    /\ At("leavefull")
    /\ ListDel(op.slab)
    /\ Goto("relink")
    /\ UNCHANGED <<magic, heads, slab_bitmap, header, app, crashes>>

Relink ==
    /\ At("relink")
    /\ slabs' = [slabs EXCEPT ![op.class] = @ \cup {op.slab}]
    /\ node' = [node EXCEPT ![op.slab] = "linked"]
    /\ Finish
    /\ UNCHANGED <<magic, heads, free_slabs, full_slabs, slab_bitmap, header, app, crashes>>

Drain ==
    /\ At("drain")
    /\ ListDel(op.slab)
    /\ Goto("reinit")
    /\ UNCHANGED <<magic, heads, slab_bitmap, header, app, crashes>>

Reinit ==
    /\ At("reinit")
    /\ header' = [header EXCEPT ![op.slab] = usmm_slab_init]
    /\ node' = [node EXCEPT ![op.slab] = "self"]
    /\ Goto("release")
    /\ UNCHANGED <<magic, heads, lists, slab_bitmap, app, crashes>>

Release ==
    /\ At("release")
    /\ free_slabs' = free_slabs \cup {op.slab}
    /\ node' = [node EXCEPT ![op.slab] = "linked"]
    /\ Finish
    /\ UNCHANGED <<magic, heads, full_slabs, slabs, slab_bitmap, header, app, crashes>>

-----------------------------------------------------------------------------
(* usmm_heap_alloc: start and num are its local variables, i is the slab at work.
   The search finds some run of clear bits (Usmm has its branches). *)

HeapOp(step, start, num) == [at |-> step, start |-> start, num |-> num, i |-> start]

(* On to the next slab of the loop, or behind the loop. *)
NextSlab(again, after) ==
    op' = IF op.i + 1 = op.start + op.num THEN [op EXCEPT !.at = after, !.i = op.start]
          ELSE [op EXCEPT !.at = again, !.i = @ + 1]

(* Blocks are asked for while no slice is in use, as documented (see Usmm). *)
HeapFind(num) ==
    /\ At("idle") /\ heads = Heads
    /\ \A s \in Slab : held[s] = {}
    /\ \E start \in Slab : /\ Run(start, num) \subseteq slab_bitmap
                           /\ op' = HeapOp("set", start, num)
    /\ UNCHANGED <<persistent, app, crashes>>

HeapSet ==
    /\ At("set")
    /\ slab_bitmap' = slab_bitmap \ {op.i}
    /\ NextSlab("set", "unlink")
    /\ UNCHANGED <<magic, heads, lists, node, header, app, crashes>>

(* Mistake: the slab is wiped and stays in its list. *)
LeaveLinked ==
    /\ At("unlink")
    /\ Goto("wipe")
    /\ UNCHANGED <<persistent, app, crashes>>

HeapUnlink ==
    /\ At("unlink")
    /\ ListDel(op.i)
    /\ Goto("wipe")
    /\ UNCHANGED <<magic, heads, slab_bitmap, header, app, crashes>>

HeapWipe ==
    /\ At("wipe")
    /\ header' = [header EXCEPT ![op.i] = usmm_slab_fini]
    /\ node' = [node EXCEPT ![op.i] = "none"]
    /\ NextSlab("unlink", "length")
    /\ UNCHANGED <<magic, heads, lists, slab_bitmap, app, crashes>>

HeapLength ==
    /\ At("length")
    /\ header' = [header EXCEPT ![op.start].word = op.num]
    /\ Goto("hand over")
    /\ UNCHANGED <<magic, heads, lists, slab_bitmap, node, app, crashes>>

HeapReturn ==
    /\ At("hand over")
    /\ blocks' = blocks \cup {[start |-> op.start, num |-> op.num]}
    /\ Finish
    /\ UNCHANGED <<persistent, held, crashes>>

-----------------------------------------------------------------------------
(* usmm_heap_free of a block the application holds and has forgotten. *)

HeapGive(b) ==
    /\ At("idle")
    /\ blocks' = blocks \ {b}
    /\ op' = HeapOp("renew", b.start, header[b.start].word)
    /\ UNCHANGED <<persistent, held, crashes>>

HeapRenew ==
    /\ At("renew")
    /\ header' = [header EXCEPT ![op.i] = usmm_slab_init]
    /\ node' = [node EXCEPT ![op.i] = "self"]
    /\ Goto("add")
    /\ UNCHANGED <<magic, heads, lists, slab_bitmap, app, crashes>>

HeapAdd ==
    /\ At("add")
    /\ free_slabs' = free_slabs \cup {op.i}
    /\ node' = [node EXCEPT ![op.i] = "linked"]
    /\ Goto("clear")
    /\ UNCHANGED <<magic, heads, full_slabs, slabs, slab_bitmap, header, app, crashes>>

HeapClear ==
    /\ At("clear")
    /\ slab_bitmap' = slab_bitmap \cup {op.i}
    /\ IF op.i + 1 = op.start + op.num THEN Finish ELSE NextSlab("renew", "idle")
    /\ UNCHANGED <<magic, heads, lists, node, header, app, crashes>>

-----------------------------------------------------------------------------
(* The process dies and the next one calls usmm_init on the same mapping. *)
Crash ==
    /\ crashes < MaxCrashes
    /\ DieInInit \/ ~(At("start") \/ At("lists") \/ At("slabs"))
    /\ crashes' = crashes + 1
    /\ op' = [at |-> "start"]
    /\ UNCHANGED <<persistent, app>>

Alloc == \/ \E c \in Class : AllocReuse(c) \/ AllocFresh(c)
         \/ Create \/ Link \/ Pop \/ Count \/ TestFull \/ LinkFull

Free == \/ \E s \in Slab : \E ptr \in held[s] : FreePush(s, ptr)
        \/ Uncount \/ LeaveFull \/ Relink \/ Drain \/ Reinit \/ Release

HeapAlloc == \/ \E num \in Nums : HeapFind(num)
             \/ HeapSet \/ HeapUnlink \/ HeapWipe \/ HeapLength \/ HeapReturn

HeapFree == \/ \E b \in blocks : HeapGive(b)
            \/ HeapRenew \/ HeapAdd \/ HeapClear

Boot == Start \/ InitLists \/ (\E s \in Slab : InitSlab(s)) \/ InitClasses

Next == Boot \/ Alloc \/ Free \/ HeapAlloc \/ HeapFree \/ Crash

Spec == Init /\ [][Next]_vars

-----------------------------------------------------------------------------
(* What every crash leaves intact. *)

(* A slice the application holds is in no chain, so it is not given out again,
   wherever the process died in usmm_slice_alloc or usmm_slice_free. *)
HeldIsNotFree == \A s \in Slab : held[s] \cap header[s].free_slice = {}

(* used never falls below the slices held of a slab, so usmm_slice_free never
   takes a slab in use for an empty one, nor fails ASSERT(0). *)
UsedCoversHeld == \A s \in Slab : Cardinality(held[s]) =< header[s].used

(* A heap block belongs to its holder alone, and stays as usmm_heap_free needs it: no
   other block and no slice in use is in its slabs, the bitmap keeps the search away
   from them and no list offers them to the slice level, wherever a process died that
   took or gave back this block, another one or a slice. *)
BlockIntact ==
    /\ \A b \in blocks :
          /\ header[b.start].word = b.num
          /\ \A s \in Run(b.start, b.num) :
                /\ s \notin slab_bitmap \cup free_slabs \cup full_slabs
                /\ held[s] = {} /\ \A c \in Class : s \notin slabs[c]
    /\ \A a, b \in blocks : a = b \/ Run(a.start, a.num) \cap Run(b.start, b.num) = {}

(* A slab is in at most one list, and a slab on free_slabs is not cut. *)
OneListEach ==
    \A s \in Slab :
        /\ s \in free_slabs => /\ s \notin full_slabs
                               /\ header[s] = usmm_slab_init
        /\ \A c \in Class :
              s \in slabs[c] => /\ s \notin free_slabs \cup full_slabs
                                /\ header[s].slice = c

(* While a slice of a slab is held, the slab keeps its class. *)
HeldSlabKeepsClass ==
    [][\A s \in Slab : held[s] # {} => header'[s].slice = header[s].slice]_vars

-----------------------------------------------------------------------------
(* What the documentation promises of a restart and the code does not keep. *)

(* A restarted process recovers its working environment (README.md:15): when
   it serves, the lists it finds are set up. *)
ServesInitialised == At("idle") => heads = Heads

(* ... and a class is served while slabs are free. *)
ClassNotStuck ==
    At("idle") /\ free_slabs # {}
        => \A c \in Class :
              slabs[c] = {} \/ \E s \in slabs[c] : header[s].free_slice # {}

(* ... and nobody uses non-initialised list entries (list.h:32): the slab of a
   held slice is linked, so freeing the slice can unlink it. *)
HeldSlabLinked ==
    At("idle") => \A s \in Slab : held[s] # {} => ~Faults(s)

(* ... nor the slab of a bit that is clear, which the next heap block takes. *)
FreeSlabLinked == At("idle") /\ heads = Heads => \A s \in slab_bitmap : ~Faults(s)

=============================================================================
