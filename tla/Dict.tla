-------------------------------- MODULE Dict --------------------------------
(***************************************************************************)
(* The hash table behind the cache (src/cache/dict.c).                     *)
(*                                                                         *)
(* A dictionary has two tables.  It grows or shrinks by creating ht1 and   *)
(* moving the keys of ht0 to it bucket by bucket, one bucket each time the *)
(* dictionary is used, unless a safe iterator is at work.                  *)
(*                                                                         *)
(* A table is the set of its entries, each with the bucket idx it is       *)
(* chained in; the order inside a chain is left to module DictIterator.    *)
(* Memory is never short (zmalloc aborts the process, it does not fail).   *)
(***************************************************************************)
EXTENDS Integers, FiniteSets

CONSTANTS
    Key, Val, None,
    Hash,            \* dictHashKey of each key
    INITIAL_SIZE,    \* DICT_HT_INITIAL_SIZE, a power of two
    MAX_SIZE,        \* bound: the largest table, a power of two too, for LONG_MAX
    FORCE_RATIO,     \* dict_force_resize_ratio
    MAX_ITERATORS,   \* bound: safe iterators open at a time
    EmptyWhileIterating   \* whether callers empty it under an open iterator

ASSUME DictAssumption ==
    /\ IsFiniteSet(Key) /\ None \notin Val /\ None \notin Key
    /\ Hash \in [Key -> Nat]
    /\ INITIAL_SIZE \in Nat \ {0} /\ MAX_SIZE \in Nat /\ MAX_SIZE >= INITIAL_SIZE
    /\ \E p \in 0 .. MAX_SIZE : MAX_SIZE = INITIAL_SIZE * 2^p
    /\ FORCE_RATIO \in Nat /\ MAX_ITERATORS \in Nat
    /\ EmptyWhileIterating \in BOOLEAN

VARIABLES
    d,                 \* the dict: ht0, ht1, rehashidx, iterators
    dict_can_resize,   \* the global that dictDisableResize clears
    open,              \* the safe iterators in use
    ret                \* the answer of the last call

vars == <<d, dict_can_resize, open, ret>>

OK  == "DICT_OK"
ERR == "DICT_ERR"

Entry == [key : Key, val : Val, idx : Nat]

NoTable == [size |-> 0, used |-> 0, table |-> {}]          \* _dictReset

Fresh == [ht0 |-> NoTable, ht1 |-> NoTable, rehashidx |-> -1, iterators |-> 0]

Table == [size : Nat, used : Nat, table : SUBSET Entry]

TypeOK ==
    /\ d \in [ht0 : Table, ht1 : Table, rehashidx : Int, iterators : Int]
    /\ dict_can_resize \in BOOLEAN
    /\ open \in 0 .. MAX_ITERATORS

Init == d = Fresh /\ dict_can_resize = TRUE /\ open = 0 /\ ret = None

dictIsRehashing(e) == e.rehashidx # -1

dictSize(e) == e.ht0.used + e.ht1.used

Bucket(k, ht) == Hash[k] % ht.size          \* hash & sizemask

Least(S) == CHOOSE i \in S : \A j \in S : i =< j

(* The entries of one table that a search for k compares equal. *)
Matches(k, ht) ==
    IF ht.size = 0 THEN {}
    ELSE {x \in ht.table : x.idx = Bucket(k, ht) /\ x.key = k}

(* Mistake: while rehashing only the new table is searched. *)
FoundInNew(e, k) == Matches(k, IF dictIsRehashing(e) THEN e.ht1 ELSE e.ht0)

(* A search looks in ht0, and in ht1 only while rehashing. *)
Found(e, k) ==
    IF Matches(k, e.ht0) # {} \/ ~dictIsRehashing(e) THEN Matches(k, e.ht0)
    ELSE Matches(k, e.ht1)

-----------------------------------------------------------------------------
(* Resizing and rehashing. *)

Powers == {n \in INITIAL_SIZE .. MAX_SIZE : \E p \in 0 .. n : n = INITIAL_SIZE * 2^p}

_dictNextPower(size) ==
    IF size >= MAX_SIZE THEN MAX_SIZE ELSE Least({n \in Powers : n >= size})

dictExpandOK(e, size) == ~dictIsRehashing(e) /\ e.ht0.used =< size

dictExpand(e, size) ==
    LET n == [size |-> _dictNextPower(size), used |-> 0, table |-> {}]
    IN  IF ~dictExpandOK(e, size) THEN e
        ELSE IF e.ht0.size = 0 THEN [e EXCEPT !.ht0 = n]
        ELSE [e EXCEPT !.ht1 = n, !.rehashidx = 0]

_dictExpandIfNeeded(e) ==
    IF dictIsRehashing(e) THEN e
    ELSE IF e.ht0.size = 0 THEN dictExpand(e, INITIAL_SIZE)
    ELSE IF /\ e.ht0.used >= e.ht0.size
            /\ dict_can_resize \/ e.ht0.used \div e.ht0.size > FORCE_RATIO
         THEN dictExpand(e, e.ht0.used * 2)
    ELSE e

(* One turn of dictRehash's loop: the next bucket that is not empty moves,
   or, when ht0 is used up, ht1 takes its place. *)
NextBucket(e) == Least({x.idx : x \in {y \in e.ht0.table : y.idx >= e.rehashidx}})

(* Mistake: the counters move by one, however long the chain is. *)
MoveCountingOne(e, i) ==
    LET chain == {x \in e.ht0.table : x.idx = i}
        moved == {[x EXCEPT !.idx = Bucket(x.key, e.ht1)] : x \in chain}
    IN  [e EXCEPT !.ht0.table = @ \ chain, !.ht0.used = @ - 1,
                  !.ht1.table = @ \cup moved, !.ht1.used = @ + 1,
                  !.rehashidx = i + 1]

MoveBucket(e, i) ==
    LET chain == {x \in e.ht0.table : x.idx = i}
        moved == {[x EXCEPT !.idx = Bucket(x.key, e.ht1)] : x \in chain}
    IN  [e EXCEPT !.ht0.table = @ \ chain,
                  !.ht0.used  = @ - Cardinality(chain),
                  !.ht1.table = @ \cup moved,
                  !.ht1.used  = @ + Cardinality(chain),
                  !.rehashidx = i + 1]

RehashDone(e) == [e EXCEPT !.ht0 = e.ht1, !.ht1 = NoTable, !.rehashidx = -1]

(* Mistake: the migration is over when one key is left in ht0. *)
RehashEndsEarly(e) ==
    IF ~dictIsRehashing(e) THEN e
    ELSE IF e.ht0.used =< 1 THEN RehashDone(e)
    ELSE MoveBucket(e, NextBucket(e))

dictRehash(e) ==
    IF ~dictIsRehashing(e) THEN e
    ELSE IF e.ht0.used = 0 THEN RehashDone(e)
    ELSE MoveBucket(e, NextBucket(e))

(* Mistake: the test of the iterators is inverted. *)
StepUnderIterator(e) == IF e.iterators = 0 THEN e ELSE dictRehash(e)

_dictRehashStep(e) == IF e.iterators = 0 THEN dictRehash(e) ELSE e

-----------------------------------------------------------------------------
(* The calls, as functions of the dictionary. *)

(* Mistake: a new key goes to the old table even while rehashing. *)
InsertInOld(e, k, v) ==
    [e EXCEPT !.ht0.table = @ \cup {[key |-> k, val |-> v, idx |-> Bucket(k, e.ht0)]},
              !.ht0.used = @ + 1]

Insert(e, k, v) ==
    LET x(ht) == [key |-> k, val |-> v, idx |-> Bucket(k, ht)]
    IN  IF dictIsRehashing(e)
        THEN [e EXCEPT !.ht1.table = @ \cup {x(e.ht1)}, !.ht1.used = @ + 1]
        ELSE [e EXCEPT !.ht0.table = @ \cup {x(e.ht0)}, !.ht0.used = @ + 1]

(* dictAddRaw's state before it decides: a rehash step, then room. *)
Prepared(e) == _dictExpandIfNeeded(_dictRehashStep(e))

dictAdd(e, k, v) ==
    IF Found(Prepared(e), k) # {} THEN Prepared(e)
    ELSE Insert(Prepared(e), k, v)

dictFind(e) == IF e.ht0.size = 0 THEN e ELSE _dictRehashStep(e)

SetVal(e, k, v) ==
    LET set(ht) == {IF x \in Found(e, k) THEN [x EXCEPT !.val = v] ELSE x
                        : x \in ht.table}
    IN  [e EXCEPT !.ht0.table = set(e.ht0), !.ht1.table = set(e.ht1)]

(* dictAdd, and when the key is there already dictFind, one more step. *)
dictReplace(e, k, v) ==
    IF Found(Prepared(e), k) = {} THEN dictAdd(e, k, v)
    ELSE SetVal(dictFind(dictAdd(e, k, v)), k, v)

dictDelete(e, k) ==
    LET f == dictFind(e)
        out(ht) == IF Found(f, k) \cap ht.table = {} THEN ht
                   ELSE [ht EXCEPT !.table = @ \ Found(f, k), !.used = @ - 1]
    IN  [f EXCEPT !.ht0 = out(f.ht0), !.ht1 = out(f.ht1)]

-----------------------------------------------------------------------------
(* The actions: what a single-threaded caller may do next. *)

Add(k, v) ==
    /\ d' = dictAdd(d, k, v)
    /\ ret' = IF Found(Prepared(d), k) = {} THEN OK ELSE ERR
    /\ UNCHANGED <<dict_can_resize, open>>

Replace(k, v) ==
    /\ d' = dictReplace(d, k, v)
    /\ ret' = IF Found(Prepared(d), k) = {} THEN "added" ELSE "updated"
    /\ UNCHANGED <<dict_can_resize, open>>

Delete(k) ==
    /\ d' = dictDelete(d, k)
    /\ ret' = IF Found(dictFind(d), k) = {} THEN ERR ELSE OK
    /\ UNCHANGED <<dict_can_resize, open>>

FetchValue(k) ==
    /\ d' = dictFind(d)
    /\ \/ Found(d', k) = {} /\ ret' = None
       \/ \E x \in Found(d', k) : ret' = x.val
    /\ UNCHANGED <<dict_can_resize, open>>

dictGetRandomKey ==
    /\ IF dictSize(d) = 0
       THEN ret' = None /\ UNCHANGED d
       ELSE /\ d' = _dictRehashStep(d)
            /\ \E x \in d'.ht0.table \cup d'.ht1.table : ret' = x.key
    /\ UNCHANGED <<dict_can_resize, open>>

(* dictResize and a caller's own dictExpand. *)
dictResize ==
    /\ dict_can_resize /\ ~dictIsRehashing(d)
    /\ d' = dictExpand(d, IF d.ht0.used < INITIAL_SIZE THEN INITIAL_SIZE
                          ELSE d.ht0.used)
    /\ UNCHANGED <<dict_can_resize, open, ret>>

Expand(size) ==
    /\ d' = dictExpand(d, size)
    /\ UNCHANGED <<dict_can_resize, open, ret>>

(* dictRehash and dictRehashMilliseconds called directly: any number of these.
   They do not look at iterators. *)
Rehash ==
    /\ dictIsRehashing(d)
    /\ d' = dictRehash(d)
    /\ UNCHANGED <<dict_can_resize, open, ret>>

dictEmpty ==
    /\ EmptyWhileIterating \/ open = 0
    /\ d' = Fresh
    /\ UNCHANGED <<dict_can_resize, open, ret>>

SwitchResize(on) ==
    /\ dict_can_resize' = on
    /\ UNCHANGED <<d, open, ret>>

(* The first dictNext of a safe iterator, and its release. *)
SafeIterator ==
    /\ open < MAX_ITERATORS
    /\ d' = [d EXCEPT !.iterators = @ + 1] /\ open' = open + 1
    /\ UNCHANGED <<dict_can_resize, ret>>

dictReleaseIterator ==
    /\ open > 0
    /\ d' = [d EXCEPT !.iterators = @ - 1] /\ open' = open - 1
    /\ UNCHANGED <<dict_can_resize, ret>>

Lookup == \E k \in Key : FetchValue(k)

Next ==
    \/ \E k \in Key : \/ \E v \in Val : Add(k, v) \/ Replace(k, v)
                      \/ Delete(k)
    \/ Lookup
    \/ dictGetRandomKey
    \/ dictResize
    \/ \E size \in Powers : Expand(size)
    \/ Rehash
    \/ dictEmpty
    \/ \E on \in BOOLEAN : SwitchResize(on)
    \/ SafeIterator \/ dictReleaseIterator

Spec == Init /\ [][Next]_vars

(* The table migrates "while it is actively used" (dict.c:301): callers keep
   looking keys up. *)
LiveSpec == Spec /\ WF_vars(Lookup)

-----------------------------------------------------------------------------
(* Correctness. *)

Entries == d.ht0.table \cup d.ht1.table

(* A key is stored once, whichever table it is in and however far the
   migration got when it was added, moved or replaced. *)
KeyStoredOnce ==
    /\ \A x, y \in d.ht0.table : x.key = y.key => x = y
    /\ \A x, y \in d.ht1.table : x.key = y.key => x = y
    /\ \A x \in d.ht0.table, y \in d.ht1.table : x.key # y.key

(* Each entry is chained in the bucket its hash selects in its own table, and
   no entry of ht0 is left behind the bucket the migration has reached: a
   search that starts at the bucket finds it, and the migration never scans
   past the end of ht0 for a bucket to move.  ht1 exists exactly while it is on. *)
EntriesReachable ==
    /\ dictIsRehashing(d) <=> d.ht1.size # 0
    /\ \A x \in d.ht0.table : /\ d.ht0.size # 0 /\ x.idx = Bucket(x.key, d.ht0)
                              /\ x.idx >= d.rehashidx
    /\ \A x \in d.ht1.table : /\ dictIsRehashing(d)
                              /\ d.ht1.size # 0 /\ x.idx = Bucket(x.key, d.ht1)

(* The used counters, which decide when to grow and when the migration is
   over, are exact: ht0 is never dropped while a key is still in it. *)
UsedExact == /\ d.ht0.used = Cardinality(d.ht0.table)
             /\ d.ht1.used = Cardinality(d.ht1.table)

(* What a caller sees is a map, whatever tables are behind it. *)
CurrentMap ==
    [k \in Key |-> IF \E x \in Entries : x.key = k
                   THEN (CHOOSE x \in Entries : x.key = k).val
                   ELSE None]

AbstractMap == INSTANCE DictMap WITH map <- CurrentMap

ImplementsDictMap == AbstractMap!Spec

(* d->iterators is the "number of iterators currently running" (dict.h:94), so
   that no rehash step moves entries under a safe iterator. *)
IteratorsCounted == d.iterators = open

(* A migration ends, or an iterator or an emptying interrupts it for good. *)
MigrationEnds == []<>(~dictIsRehashing(d) \/ open > 0)

=============================================================================
