---------------------------- MODULE DictIterator ----------------------------
(***************************************************************************)
(* A safe iterator (dictGetSafeIterator, dictNext, dictReleaseIterator of  *)
(* src/cache/dict.c) over a dictionary that is used meanwhile.  Here the   *)
(* chains are sequences: the iterator remembers the entry it will go to    *)
(* next, so the order inside a bucket matters.  Values do not.             *)
(***************************************************************************)
EXTENDS Integers, FiniteSets, SequencesExt

CONSTANTS
    Key,
    NULL,
    Hash,            \* dictHashKey of each key
    INITIAL_SIZE,    \* DICT_HT_INITIAL_SIZE
    MAX_SIZE,        \* bound: the largest table, a power of two too, for LONG_MAX
    Allowed          \* what else the user does while iterating: may contain
                     \* "delete" (of any entry) and "rehash" (dictRehash)

ASSUME IteratorAssumption ==
    /\ IsFiniteSet(Key) /\ NULL \notin Key /\ Hash \in [Key -> Nat]
    /\ INITIAL_SIZE \in Nat \ {0} /\ MAX_SIZE \in Nat /\ MAX_SIZE >= INITIAL_SIZE
    /\ \E p \in 0 .. MAX_SIZE : MAX_SIZE = INITIAL_SIZE * 2^p
    /\ Allowed \subseteq {"delete", "rehash"}

VARIABLES
    d,               \* the dict: its two tables, each a function from buckets
                     \* to chains, and rehashidx
    iter,            \* the iterator, or NULL
    seen,            \* the keys dictNext has returned
    again,           \* those it has returned more than once
    steady           \* the keys present since the iterator was made

vars == <<d, iter, seen, again, steady>>

Size(t) == Cardinality(DOMAIN t)
NoTable == [b \in {} |-> <<>>]
NewTable(size) == [b \in 0 .. size - 1 |-> <<>>]

Buckets(e) == ({0} \X DOMAIN e.ht[0]) \cup ({1} \X DOMAIN e.ht[1])
Chains(e) == {e.ht[p[1]][p[2]] : p \in Buckets(e)}
Keys(e) == UNION {ToSet(c) : c \in Chains(e)}

dictIsRehashing(e) == e.rehashidx # -1

(* d->iterators is not 0: the first dictNext counts the iterator in. *)
Counted == iter # NULL /\ ~(iter.index = -1 /\ iter.table = 0)

TypeOK ==
    /\ \A c \in Chains(d) : c \in Seq(Key)
    /\ d.rehashidx \in -1 .. Size(d.ht[0])
    /\ seen \subseteq Key /\ again \subseteq seen /\ steady \subseteq Key

Init ==
    /\ d = [ht |-> [t \in {0, 1} |-> NoTable], rehashidx |-> -1]
    /\ iter = NULL /\ seen = {} /\ again = {} /\ steady = {}

-----------------------------------------------------------------------------
(* The dictionary, as far as an iterator is concerned. *)

Push(t, k) == [t EXCEPT ![Hash[k] % Size(t)] = <<k>> \o @]

(* Entries are moved one by one, each to the head of its new chain. *)
Moved(chain, t) == FoldLeft(Push, t, chain)

NextBucket(e) ==
    CHOOSE j \in e.rehashidx .. Size(e.ht[0]) - 1 :
        /\ e.ht[0][j] # <<>>
        /\ \A b \in e.rehashidx .. j - 1 : e.ht[0][b] = <<>>

(* One turn of dictRehash. *)
Rehashed(e) ==
    IF \A b \in DOMAIN e.ht[0] : e.ht[0][b] = <<>>
    THEN [ht |-> [t \in {0, 1} |-> IF t = 0 THEN e.ht[1] ELSE NoTable], rehashidx |-> -1]
    ELSE LET i == NextBucket(e)
         IN  [ht |-> [t \in {0, 1} |-> IF t = 0 THEN [e.ht[0] EXCEPT ![i] = <<>>]
                                       ELSE Moved(e.ht[0][i], e.ht[1])],
              rehashidx |-> i + 1]

(* Mistake: iterators are not looked at. *)
SteppedAlways(e) == IF dictIsRehashing(e) THEN Rehashed(e) ELSE e

(* _dictRehashStep: not under a safe iterator. *)
Stepped(e) == IF dictIsRehashing(e) /\ ~Counted THEN Rehashed(e) ELSE e

Powers == {n \in INITIAL_SIZE .. MAX_SIZE : \E p \in 0 .. n : n = INITIAL_SIZE * 2^p}

_dictNextPower(size) ==
    IF size >= MAX_SIZE THEN MAX_SIZE
    ELSE CHOOSE n \in Powers : n >= size /\ \A i \in Powers : i >= size => n =< i

(* _dictExpandIfNeeded, resizing allowed. *)
Grown(e) ==
    LET used == Cardinality(Keys(e))
    IN  IF dictIsRehashing(e) \/ used < Size(e.ht[0]) THEN e
        ELSE IF Size(e.ht[0]) = 0 THEN [e EXCEPT !.ht[0] = NewTable(INITIAL_SIZE)]
        ELSE [e EXCEPT !.ht[1] = NewTable(_dictNextPower(2 * used)), !.rehashidx = 0]

dictFind ==
    /\ d' = Stepped(d)
    /\ UNCHANGED <<iter, seen, again, steady>>

(* dictAdd of a new key. *)
dictAdd(k) ==
    /\ k \notin Keys(d)
    /\ LET e == Grown(Stepped(d))
       IN  d' = [e EXCEPT !.ht[IF dictIsRehashing(e) THEN 1 ELSE 0] = Push(@, k)]
    /\ UNCHANGED <<iter, seen, again, steady>>

(* Mistake: the chain is cut at the entry. *)
CutAt(t, k) ==
    [b \in DOMAIN t |-> IF Contains(t[b], k)
                        THEN SubSeq(t[b], 1, (CHOOSE i \in DOMAIN t[b] : t[b][i] = k) - 1)
                        ELSE t[b]]

Without(t, k) == [b \in DOMAIN t |-> RemoveFirst(t[b], k)]

(* While iterating, of the entry just returned, or of any other one if the
   user does that. *)
dictDelete(k) ==
    /\ k \in Keys(d)
    /\ Counted => k = iter.entry \/ "delete" \in Allowed
    /\ LET e == Stepped(d)
       IN  d' = [e EXCEPT !.ht = [t \in {0, 1} |-> Without(e.ht[t], k)]]
    /\ steady' = steady \ {k}
    /\ UNCHANGED <<iter, seen, again>>

(* A direct call, which does not look at the iterators. *)
dictRehash ==
    /\ dictIsRehashing(d)
    /\ Counted => "rehash" \in Allowed
    /\ d' = Rehashed(d)
    /\ UNCHANGED <<iter, seen, again, steady>>

-----------------------------------------------------------------------------
(* The iterator. *)

dictGetSafeIterator ==
    /\ iter = NULL
    /\ iter' = [table |-> 0, index |-> -1, entry |-> NULL, nextEntry |-> NULL,
                over |-> FALSE]
    /\ seen' = {} /\ again' = {} /\ steady' = Keys(d)
    /\ UNCHANGED d

(* he->next: the entry after k in its chain. *)
After(k) ==
    LET Nexts == {n \in Key : \E c \in Chains(d) : \E i \in 1 .. Len(c) - 1 :
                                  c[i] = k /\ c[i + 1] = n}
    IN  IF Nexts = {} THEN NULL ELSE CHOOSE n \in Nexts : TRUE

(* The buckets still to visit that are not empty: the rest of this table, then
   ht[1] if a migration is on. *)
Rest == {p \in Buckets(d) :
            /\ d.ht[p[1]][p[2]] # <<>>
            /\ \/ p[1] = iter.table /\ p[2] > iter.index
               \/ p[1] = 1 /\ iter.table = 0 /\ dictIsRehashing(d)}

Before(p, q) == p[1] < q[1] \/ (p[1] = q[1] /\ p[2] =< q[2])

Return(t, b, k) ==
    /\ iter' = [iter EXCEPT !.table = t, !.index = b, !.entry = k, !.nextEntry = After(k)]
    /\ seen' = seen \cup {k}
    /\ again' = IF k \in seen THEN again \cup {k} ELSE again

dictNext ==
    /\ iter # NULL /\ ~iter.over
    /\ \/ /\ iter.nextEntry # NULL
          /\ Return(iter.table, iter.index, iter.nextEntry)
       \/ /\ iter.nextEntry = NULL
          /\ \E p \in Rest : /\ \A q \in Rest : Before(p, q)
                             /\ Return(p[1], p[2], d.ht[p[1]][p[2]][1])
       \/ /\ iter.nextEntry = NULL /\ Rest = {}
          /\ LET last == IF dictIsRehashing(d) THEN 1 ELSE iter.table
             IN  iter' = [iter EXCEPT !.table = last, !.index = Size(d.ht[last]),
                                      !.entry = NULL, !.over = TRUE]
          /\ UNCHANGED <<seen, again>>
    /\ UNCHANGED <<d, steady>>

dictReleaseIterator ==
    /\ iter # NULL
    /\ iter' = NULL /\ seen' = {} /\ again' = {} /\ steady' = {}
    /\ UNCHANGED d

Next == \/ dictFind
        \/ \E k \in Key : dictAdd(k) \/ dictDelete(k)
        \/ dictRehash
        \/ dictGetSafeIterator \/ dictNext \/ dictReleaseIterator

Spec == Init /\ [][Next]_vars

-----------------------------------------------------------------------------
(* The entry the iterator saved as its next one has not been freed (dictNext
   follows that pointer): "safe ... means you can call dictAdd, dictFind, and
   other functions against the dictionary even while iterating" (dict.h:97). *)
NextEntryLive ==
    (iter # NULL /\ iter.nextEntry # NULL) => iter.nextEntry \in Keys(d)

(* A key that stays in the dictionary is returned exactly once by a complete
   iteration, even when adding keys starts a migration half way: under a safe
   iterator "we can't mess with the two hash tables otherwise some element
   can be missed or duplicated" (dict.c:296). *)
SteadyKeysOnce ==
    iter # NULL => /\ again \cap steady = {}
                   /\ iter.over => steady \subseteq seen

=============================================================================
