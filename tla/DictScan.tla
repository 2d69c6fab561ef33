------------------------------ MODULE DictScan ------------------------------
(***************************************************************************)
(* dictScan (src/cache/dict.c): a stateless iteration.  The caller keeps a *)
(* cursor between calls, and the dictionary may be used, and resized, in   *)
(* between.  The module follows one key that stays in the dictionary for   *)
(* the whole iteration: the other keys come and go, so they only matter as *)
(* reasons for the table to be resized and for buckets to be (non)empty.   *)
(***************************************************************************)
EXTENDS Integers

CONSTANTS
    W,             \* the width of a hash and of a cursor, in bits
    Sizes,         \* the table sizes, powers of two up to 2^W
    MAX_SHRINK     \* how many times smaller than the table a cursor came from
                   \* a resize may make the table during the iteration

Pow2[i \in Nat] == IF i = 0 THEN 1 ELSE 2 * Pow2[i - 1]

ASSUME ScanAssumption ==
    /\ W \in Nat \ {0} /\ MAX_SHRINK \in Nat \ {0}
    /\ Sizes \subseteq {Pow2[i] : i \in 0 .. W}

VARIABLES
    size0,         \* d->ht[0].size
    size1,         \* d->ht[1].size, 0 when not rehashing
    rehashidx,
    hash,          \* the hash of the key followed
    table,         \* the table it is in: 0 or 1
    v,             \* the caller's cursor
    widest,        \* the largest table a cursor of this iteration came from
    state,         \* of the iteration: "before", "running" or "over"
    seen           \* the key has been returned

tables == <<size0, size1, rehashidx, table>>
scan == <<v, widest, state, seen>>
vars == <<tables, hash, scan>>

TypeOK ==
    /\ size0 \in Sizes /\ size1 \in Sizes \cup {0}
    /\ rehashidx \in -1 .. Pow2[W]
    /\ hash \in 0 .. Pow2[W] - 1 /\ table \in {0, 1} /\ v \in 0 .. Pow2[W] - 1
    /\ widest \in Sizes \cup {0}
    /\ state \in {"before", "running", "over"} /\ seen \in BOOLEAN

dictIsRehashing == rehashidx # -1

Init ==
    /\ size0 \in Sizes /\ size1 = 0 /\ rehashidx = -1
    /\ hash \in 0 .. Pow2[W] - 1 /\ table = 0
    /\ v = 0 /\ widest = 0 /\ state = "before" /\ seen = FALSE

-----------------------------------------------------------------------------
(* dictExpand, by growth or by dictResize. *)
Resize(size) ==
    /\ ~dictIsRehashing
    /\ widest =< MAX_SHRINK * size
    /\ size1' = size /\ rehashidx' = 0
    /\ UNCHANGED <<size0, table, hash, scan>>

(* One bucket moves: the first one that is not empty, so never one behind the
   bucket of the key followed while that key is still in ht[0]. *)
MoveBucket(i) ==
    /\ dictIsRehashing /\ i >= rehashidx
    /\ table = 0 => i =< hash % size0
    /\ table' = IF table = 0 /\ i = hash % size0 THEN 1 ELSE table
    /\ rehashidx' = i + 1
    /\ UNCHANGED <<size0, size1, hash, scan>>

(* ht[0].used is 0: ht[1] takes its place. *)
RehashDone ==
    /\ dictIsRehashing /\ table = 1
    /\ size0' = size1 /\ size1' = 0 /\ rehashidx' = -1 /\ table' = 0
    /\ UNCHANGED <<hash, scan>>

(* Before the iteration the key may be deleted and added again; a key added
   while rehashing goes to ht[1]. *)
Readd ==
    /\ state = "before"
    /\ table' = IF dictIsRehashing THEN 1 ELSE 0
    /\ UNCHANGED <<size0, size1, rehashidx, hash, scan>>

-----------------------------------------------------------------------------
(* The k lowest bits of a number in reverse order: the lowest becomes the highest, the
   others are those of the rest, reversed. *)
Reversed[k \in Nat] ==
    IF k = 0 THEN [n \in Nat |-> 0]
    ELSE [n \in Nat |-> (n % 2) * Pow2[k - 1] + Reversed[k - 1][n \div 2]]

(* rev: the bits of a cursor in reverse order. *)
rev(n) == Reversed[W][n]

(* Mistake: the cursor is incremented from its lowest bit. *)
AdvanceUpMasked(n, small) == (n + 1) % small

(* Sets the bits the smaller mask does not cover, and increments the cursor
   from its highest bit down. *)
Advance(n, small) == rev((rev((n % small) + Pow2[W] - small) + 1) % Pow2[W])

Smaller == IF dictIsRehashing /\ size0 > size1 THEN size1 ELSE size0
Larger  == IF size0 > size1 THEN size0 ELSE size1

(* Mistake: of the larger table only the cursor's own bucket. *)
OwnBucket == {v % Larger}

(* The buckets of the larger table a call visits: from the cursor's own on,
   those that agree with the cursor on the bits of the smaller mask. *)
Expansions == {b \in 0 .. Larger - 1 : b % Smaller = v % Smaller /\ b >= v % Larger}

(* The buckets of a table of this size visited by the call. *)
Emitted(size, isSmaller) == IF isSmaller THEN {v % size} ELSE Expansions

Returned ==
    IF ~dictIsRehashing THEN hash % size0 \in Emitted(size0, TRUE)
    ELSE LET first == size0 =< size1     \* t0 is ht[0]
         IN  IF table = 0 THEN hash % size0 \in Emitted(size0, first)
                          ELSE hash % size1 \in Emitted(size1, ~first)

dictScan ==
    /\ state \in {"before", "running"}
    /\ seen' = (seen \/ Returned)
    /\ v' = Advance(v, Smaller)
    /\ widest' = IF Smaller > widest THEN Smaller ELSE widest
    /\ state' = IF v' = 0 THEN "over" ELSE "running"
    /\ UNCHANGED <<tables, hash>>

Next == \/ \E size \in Sizes : Resize(size)
        \/ \E i \in 0 .. size0 - 1 : MoveBucket(i)
        \/ RehashDone
        \/ Readd
        \/ dictScan

Spec == Init /\ [][Next]_vars

(* The caller goes on calling until the cursor is 0. *)
LiveSpec == Spec /\ WF_vars(dictScan)

-----------------------------------------------------------------------------
(* "The function guarantees all elements present in the dictionary get
   returned between the start and end of the iteration" (dict.c:668). *)
NothingMissed == state = "over" => seen

(* The iteration comes to an end, even if the table is resized between any
   two calls and the cursor has to go over a new set of buckets. *)
ScanEnds == <>(state = "over")

=============================================================================
