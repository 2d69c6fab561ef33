------------------------------ MODULE DictProofs ------------------------------
(***************************************************************************)
(* What TLAPS proves about the dictionary, for any keys and hashes, table  *)
(* sizes, and any number of iterators.                                     *)
(***************************************************************************)
EXTENDS Dict, FiniteSetTheorems, WellFoundedInduction, TLAPS

Parts == [ht0 : Table, ht1 : Table, rehashidx : Int, iterators : Int]

(* A table: its counter is exact, no key is in it twice, and each entry is in the
   bucket that its hash selects. *)
SoundTable(ht) ==
    /\ ht \in Table
    /\ IsFiniteSet(ht.table) /\ ht.used = Cardinality(ht.table)
    /\ \A x, y \in ht.table : x.key = y.key => x = y
    /\ \A x \in ht.table : ht.size # 0 /\ x.idx = Bucket(x.key, ht)

(* A dictionary: no key is in both tables, the migration has left no entry of ht0
   behind it, and there is an ht1 exactly while it is on. *)
Sound(e) ==
    /\ e \in Parts
    /\ SoundTable(e.ht0) /\ SoundTable(e.ht1)
    /\ \A x \in e.ht0.table : x.idx >= e.rehashidx
    /\ \A x \in e.ht0.table, y \in e.ht1.table : x.key # y.key
    /\ dictIsRehashing(e) <=> e.ht1.size # 0

All(e) == e.ht0.table \cup e.ht1.table

(* Key k has the value v. *)
Has(e, k, v) == \E x \in All(e) : x.key = k /\ x.val = v

(* From e to f: a sound dictionary of the same keys and values, with the same count
   of iterators. *)
Same(e, f) == /\ Sound(f) /\ f.iterators = e.iterators
              /\ \A k \in Key : \A v \in Val : Has(f, k, v) <=> Has(e, k, v)

LEMMA SameSame == ASSUME NEW e, NEW f, NEW g, Same(e, f), Same(f, g) PROVE Same(e, g)
BY DEF Same

-----------------------------------------------------------------------------
(* Tables. *)

LEMMA EmptyTable ==
    ASSUME NEW size \in Nat
    PROVE  LET n == [size |-> size, used |-> 0, table |-> {}]
           IN  n \in Table /\ SoundTable(n)
<1> DEFINE n == [size |-> size, used |-> 0, table |-> {}]
<1>1. n \in Table /\ n.table = {} /\ n.used = 0
  BY DEF Table
<1> HIDE DEF n
<1>2. SoundTable(n)
  BY <1>1, FS_EmptySet DEF SoundTable
<1> QED
  BY <1>1, <1>2 DEF n

LEMMA BucketIs ==
    ASSUME NEW k \in Key, NEW ht \in Table, ht.size # 0
    PROVE  Bucket(k, ht) \in Nat
<1>1. ht.size \in Nat \ {0} /\ Hash[k] \in Nat
  BY DictAssumption DEF Table
<1> QED
  BY <1>1 DEF Bucket

(* Entries of new keys put into a table, each in its bucket. *)
LEMMA PutIn ==
    ASSUME NEW ht, SoundTable(ht), ht.size # 0,
           NEW S \in SUBSET Entry, IsFiniteSet(S),
           \A x \in S : x.idx = Bucket(x.key, ht),
           \A x, y \in S : x.key = y.key => x = y,
           \A x \in S, y \in ht.table : x.key # y.key,
           NEW n, n = Cardinality(S)
    PROVE  SoundTable([ht EXCEPT !.table = @ \cup S, !.used = @ + n])
<1> DEFINE g == [ht EXCEPT !.table = @ \cup S, !.used = @ + n]
<1>1. ht \in Table /\ IsFiniteSet(ht.table) /\ ht.used = Cardinality(ht.table)
  BY DEF SoundTable
<1>2. n \in Nat /\ ht.used \in Nat /\ ht.table \in SUBSET Entry /\ ht.size \in Nat
  BY <1>1, FS_CardinalityType DEF Table
<1>3. g.size = ht.size /\ g.table = ht.table \cup S /\ g.used = ht.used + n
  BY <1>1 DEF Table
<1>4. g \in Table
  <2>1. ht.used + n \in Nat /\ ht.table \cup S \in SUBSET Entry
    BY <1>2
  <2> QED
    BY <1>1, <1>2, <2>1 DEF Table
<1> HIDE DEF g
<1>5. ht.table \cap S = {}
  OBVIOUS
<1>6. IsFiniteSet(g.table) /\ g.used = Cardinality(g.table)
  <2>1. /\ IsFiniteSet(ht.table \cup S)
        /\ Cardinality(ht.table \cup S)
             = Cardinality(ht.table) + Cardinality(S) - Cardinality(ht.table \cap S)
    BY <1>1, FS_Union
  <2>2. Cardinality(ht.table \cap S) = 0
    BY <1>5, FS_EmptySet
  <2> QED
    BY <1>1, <1>2, <1>3, <2>1, <2>2
<1>7. \A x, y \in g.table : x.key = y.key => x = y
  BY <1>3 DEF SoundTable
<1>8. \A x \in g.table : g.size # 0 /\ x.idx = Bucket(x.key, g)
  BY <1>3 DEF SoundTable, Bucket
<1>9. SoundTable(g)
  BY <1>4, <1>6, <1>7, <1>8 DEF SoundTable
<1> QED
  BY <1>9 DEF g

(* Entries taken from a table. *)
LEMMA TakeOut ==
    ASSUME NEW ht, SoundTable(ht), NEW S \in SUBSET ht.table, NEW n, n = Cardinality(S)
    PROVE  SoundTable([ht EXCEPT !.table = @ \ S, !.used = @ - n])
<1> DEFINE g == [ht EXCEPT !.table = @ \ S, !.used = @ - n]
<1>1. ht \in Table /\ IsFiniteSet(ht.table) /\ ht.used = Cardinality(ht.table)
  BY DEF SoundTable
<1>2. ht.used \in Nat /\ ht.table \in SUBSET Entry /\ ht.size \in Nat
  BY <1>1 DEF Table
<1>3. g.size = ht.size /\ g.table = ht.table \ S /\ g.used = ht.used - n
  BY <1>1 DEF Table
<1>4. /\ IsFiniteSet(ht.table \ S) /\ Cardinality(ht.table \ S) \in Nat
      /\ Cardinality(ht.table \ S) = Cardinality(ht.table) - n
  <2>1. ht.table \cap S = S
    OBVIOUS
  <2>2. IsFiniteSet(S) /\ IsFiniteSet(ht.table \ S)
    BY <1>1, FS_Subset
  <2>3. Cardinality(ht.table \ S) = Cardinality(ht.table) - Cardinality(ht.table \cap S)
    BY <1>1, FS_Difference
  <2> QED
    BY <2>1, <2>2, <2>3, FS_CardinalityType
<1>5. ht.used - n = Cardinality(ht.table \ S) /\ ht.used - n \in Nat
  BY <1>1, <1>4
<1>6. g \in Table
  BY <1>1, <1>2, <1>5 DEF Table
<1> HIDE DEF g
<1>7. \A x, y \in g.table : x.key = y.key => x = y
  BY <1>3 DEF SoundTable
<1>8. \A x \in g.table : g.size # 0 /\ x.idx = Bucket(x.key, g)
  BY <1>3 DEF SoundTable, Bucket
<1>9. SoundTable(g)
  BY <1>3, <1>4, <1>5, <1>6, <1>7, <1>8 DEF SoundTable
<1> QED
  BY <1>9 DEF g

(* Entries that get another value or another bucket, and keep their keys. *)
LEMMA CountMapped ==
    ASSUME NEW S, IsFiniteSet(S), NEW f, DOMAIN f = S,
           \A x, y \in S : f[x] = f[y] => x = y
    PROVE  LET T == {f[x] : x \in S}
           IN  IsFiniteSet(T) /\ Cardinality(T) = Cardinality(S)
<1> DEFINE T == {f[x] : x \in S}
<1>1. [x \in S |-> f[x]] \in Bijection(S, T)
  BY DEF Bijection, Injection, Surjection, IsInjective
<1>2. ExistsBijection(S, T)
  BY <1>1 DEF ExistsBijection
<1> HIDE DEF T
<1>3. IsFiniteSet(T) /\ Cardinality(T) = Cardinality(S)
  BY <1>2, FS_Bijection
<1> QED
  BY <1>3 DEF T

-----------------------------------------------------------------------------
(* Searches. *)

LEMMA FoundIs ==
    ASSUME NEW e, Sound(e), NEW k
    PROVE  Found(e, k) = {x \in All(e) : x.key = k}
<1>1. \A ht : SoundTable(ht) => Matches(k, ht) = {x \in ht.table : x.key = k}
  BY DEF SoundTable, Matches
<1>2. /\ Matches(k, e.ht0) = {x \in e.ht0.table : x.key = k}
      /\ Matches(k, e.ht1) = {x \in e.ht1.table : x.key = k}
  BY <1>1 DEF Sound
<1>3. ~dictIsRehashing(e) => e.ht1.table = {}
  BY DEF Sound, SoundTable
<1>4. \A x \in e.ht0.table, y \in e.ht1.table : x.key # y.key
  BY DEF Sound
<1> QED
  BY <1>2, <1>3, <1>4 DEF Found, All

LEMMA OneFound ==
    ASSUME NEW e, Sound(e), NEW x \in All(e), NEW y \in All(e), x.key = y.key
    PROVE  x = y
BY DEF Sound, SoundTable, All

LEMMA EntriesTyped ==
    ASSUME NEW e, Sound(e), NEW x \in All(e)
    PROVE  x \in Entry /\ x.key \in Key /\ x.val \in Val /\ x.idx \in Nat
<1>1. x \in Entry
  BY DEF Sound, SoundTable, All, Table
<1> QED
  BY <1>1 DEF Entry

(* The value the dictionary has for a key. *)
ValueOf(e, k) == IF \E x \in All(e) : x.key = k
                 THEN (CHOOSE x \in All(e) : x.key = k).val ELSE None

LEMMA ValueIs ==
    ASSUME NEW e, Sound(e), NEW k
    PROVE  /\ \A x \in All(e) : x.key = k => ValueOf(e, k) = x.val
           /\ ValueOf(e, k) = None <=> \A x \in All(e) : x.key # k
<1>1. ASSUME NEW x \in All(e), x.key = k PROVE ValueOf(e, k) = x.val
  <2>1. (CHOOSE y \in All(e) : y.key = k) = x
    BY <1>1, OneFound
  <2> QED
    BY <1>1, <2>1 DEF ValueOf
<1>2. (\A x \in All(e) : x.key # k) => ValueOf(e, k) = None
  BY DEF ValueOf
<1>3. \A x \in All(e) : x.val # None
  BY EntriesTyped, DictAssumption
<1> QED
  BY <1>1, <1>2, <1>3

LEMMA SameValues ==
    ASSUME NEW e, Sound(e), NEW f, Same(e, f), NEW k \in Key
    PROVE  ValueOf(f, k) = ValueOf(e, k)
<1>0. Sound(f) /\ \A v \in Val : Has(f, k, v) <=> Has(e, k, v)
  BY DEF Same
<1>1. CASE \E x \in All(e) : x.key = k
  <2>1. PICK x \in All(e) : x.key = k
    BY <1>1
  <2>2. PICK v \in Val : v = x.val
    BY EntriesTyped
  <2>3. Has(f, k, v)
    BY <1>0, <2>1, <2>2 DEF Has
  <2>4. PICK y \in All(f) : y.key = k /\ y.val = v
    BY <2>3 DEF Has
  <2>5. ValueOf(e, k) = v
    BY <2>1, <2>2, ValueIs
  <2>6. ValueOf(f, k) = v
    BY <1>0, <2>4, ValueIs
  <2> QED
    BY <2>5, <2>6
<1>2. CASE \A x \in All(e) : x.key # k
  <2>1. \A y \in All(f) : y.key # k
    <3>1. ASSUME NEW y \in All(f), y.key = k PROVE FALSE
      <4>1. PICK v \in Val : v = y.val
        BY <1>0, EntriesTyped
      <4>2. Has(e, k, v)
        BY <1>0, <3>1, <4>1 DEF Has
      <4> QED
        BY <1>2, <4>2 DEF Has
    <3> QED
      BY <3>1
  <2> QED
    BY <1>0, <1>2, <2>1, ValueIs
<1> QED
  BY <1>1, <1>2

-----------------------------------------------------------------------------
(* Resizing and rehashing. *)

Names == {"ht0", "ht1", "rehashidx", "iterators"}

LEMMA StillParts ==
    ASSUME NEW e, e = [q \in Names |-> e[q]], e.ht0 \in Table, e.ht1 \in Table,
           e.rehashidx \in Int, e.iterators \in Int
    PROVE  e \in Parts
<1>1. e["ht0"] = e.ht0 /\ e["ht1"] = e.ht1 /\ e["rehashidx"] = e.rehashidx
  OBVIOUS
<1> QED
  BY <1>1 DEF Parts, Names

LEMMA LeastNat ==
    ASSUME NEW T, T \subseteq Nat, T # {}
    PROVE  \E n \in T : \A m \in T : n =< m
<1>1. PICK n \in T : \A m \in T : ~(<<m, n>> \in OpToRel(<, Nat))
  BY NatLessThanWellFounded, WFMin
<1>2. \A m \in T : ~(m < n)
  BY <1>1 DEF OpToRel
<1> QED
  BY <1>2

LEMMA LeastIs ==
    ASSUME NEW S \in SUBSET Nat, S # {}
    PROVE  Least(S) \in S /\ \A j \in S : Least(S) =< j
<1>1. \E i \in S : \A j \in S : i =< j
  BY LeastNat
<1> QED
  BY <1>1 DEF Least

LEMMA NextPowerIs ==
    ASSUME NEW size \in Nat
    PROVE  _dictNextPower(size) \in Nat \ {0}
<1> DEFINE Q == {n \in Powers : n >= size}
<1>1. /\ INITIAL_SIZE \in Nat \ {0} /\ MAX_SIZE \in Nat /\ MAX_SIZE >= INITIAL_SIZE
      /\ \E p \in 0 .. MAX_SIZE : MAX_SIZE = INITIAL_SIZE * 2^p
  BY DictAssumption
<1>2. CASE size >= MAX_SIZE
  BY <1>1, <1>2 DEF _dictNextPower
<1>3. CASE ~(size >= MAX_SIZE)
  <2>1. Powers \subseteq Nat \ {0} /\ MAX_SIZE \in Powers
    BY <1>1 DEF Powers
  <2>2. Q \in SUBSET Nat
    BY <2>1
  <2>4. MAX_SIZE \in Q
    BY <1>1, <1>3, <2>1
  <2>3. Least(Q) \in Q
    <3> HIDE DEF Q
    <3> QED
      BY <2>2, <2>4, LeastIs
  <2> QED
    BY <1>3, <2>1, <2>3 DEF _dictNextPower
<1> QED
  BY <1>2, <1>3

(* A table for another size: the first one, or the one to move to. *)
LEMMA ExpandIs ==
    ASSUME NEW e, Sound(e), NEW size \in Nat
    PROVE  /\ Same(e, dictExpand(e, size))
           /\ e.ht0.size = 0 /\ ~dictIsRehashing(e) => dictExpand(e, size).ht0.size # 0
<1> DEFINE n == [size |-> _dictNextPower(size), used |-> 0, table |-> {}]
<1>1. n \in Table /\ SoundTable(n) /\ n.table = {} /\ n.size # 0
  BY EmptyTable, NextPowerIs
<1>2. dictExpand(e, size) = IF ~dictExpandOK(e, size) THEN e
                            ELSE IF e.ht0.size = 0 THEN [e EXCEPT !.ht0 = n]
                            ELSE [e EXCEPT !.ht1 = n, !.rehashidx = 0]
  BY DEF dictExpand
<1> HIDE DEF n
<1>3. /\ e \in Parts /\ SoundTable(e.ht0) /\ SoundTable(e.ht1)
      /\ \A x \in e.ht0.table : x.idx \in Nat
  BY EntriesTyped DEF Sound, All
<1>4. Same(e, e)
  BY DEF Same
<1>5. CASE e.ht0.size = 0 /\ ~dictIsRehashing(e)
  <2>1. e.ht0.table = {} /\ e.ht0.used = 0
    BY <1>3, <1>5, FS_EmptySet DEF SoundTable
  <2>2. dictExpandOK(e, size)
    BY <1>5, <2>1 DEF dictExpandOK
  <2> DEFINE f == [e EXCEPT !.ht0 = n]
  <2>6. f.ht0 = n /\ f.ht1 = e.ht1 /\ f.rehashidx = e.rehashidx /\ f.iterators = e.iterators
    BY <1>3 DEF Parts
  <2>4. dictExpand(e, size) = f
    BY <1>2, <1>5, <2>2
  <2>8. f = [q \in Names |-> f[q]]
    BY <1>3 DEF Parts, Names
  <2> HIDE DEF f
  <2>3. f \in Parts
    BY <1>1, <1>3, <2>6, <2>8, StillParts DEF Parts
  <2>5. Sound(f)
    BY <1>1, <1>3, <2>3, <2>6 DEF Sound, dictIsRehashing
  <2>7. All(f) = All(e)
    BY <1>1, <2>1, <2>6 DEF All
  <2> QED
    BY <1>1, <2>4, <2>5, <2>6, <2>7 DEF Same, Has
<1>6. CASE e.ht0.size # 0 /\ ~dictIsRehashing(e) /\ dictExpandOK(e, size)
  <2> DEFINE f == [e EXCEPT !.ht1 = n, !.rehashidx = 0]
  <2>1. f.ht0 = e.ht0 /\ f.ht1 = n /\ f.rehashidx = 0 /\ f.iterators = e.iterators
    BY <1>3 DEF Parts
  <2>2. dictExpand(e, size) = f
    BY <1>2, <1>6
  <2>6. f = [q \in Names |-> f[q]]
    BY <1>3 DEF Parts, Names
  <2> HIDE DEF f
  <2>5. f \in Parts
    BY <1>1, <1>3, <2>1, <2>6, StillParts DEF Parts
  <2>3. Sound(f)
    BY <1>1, <1>3, <2>1, <2>5 DEF Sound, dictIsRehashing
  <2>4. All(f) = All(e)
    BY <1>1, <1>6, <2>1 DEF All, Sound, SoundTable
  <2> QED
    BY <1>6, <2>1, <2>2, <2>3, <2>4 DEF Same, Has
<1>7. CASE ~dictExpandOK(e, size)
  <2>1. dictExpand(e, size) = e
    BY <1>2, <1>7
  <2> QED
    BY <1>4, <1>5, <2>1
<1> QED
  BY <1>5, <1>6, <1>7 DEF dictExpandOK

LEMMA ExpandIfNeededIs ==
    ASSUME NEW e, Sound(e)
    PROVE  LET f == _dictExpandIfNeeded(e)
           IN  Same(e, f) /\ (dictIsRehashing(f) \/ f.ht0.size # 0)
<1>1. Same(e, e)
  BY DEF Same
<1>2. e.ht0.used * 2 \in Nat /\ INITIAL_SIZE \in Nat
  BY DictAssumption DEF Sound, SoundTable, Table
<1>3. CASE ~dictIsRehashing(e) /\ e.ht0.size = 0
  <2>1. _dictExpandIfNeeded(e) = dictExpand(e, INITIAL_SIZE)
    BY <1>3 DEF _dictExpandIfNeeded
  <2> QED
    BY <1>2, <1>3, <2>1, ExpandIs
<1>4. CASE ~dictIsRehashing(e) /\ e.ht0.size # 0
  <2> DEFINE f == dictExpand(e, e.ht0.used * 2)
  <2>1. _dictExpandIfNeeded(e) \in {e, f}
    BY <1>4 DEF _dictExpandIfNeeded
  <2>2. Same(e, f)
    BY <1>2, ExpandIs
  <2>3. dictIsRehashing(f) \/ f.ht0.size # 0
    BY <1>4 DEF dictExpand, dictExpandOK, dictIsRehashing
  <2> QED
    BY <1>1, <1>4, <2>1, <2>2, <2>3
<1>5. CASE dictIsRehashing(e)
  BY <1>1, <1>5 DEF _dictExpandIfNeeded
<1> QED
  BY <1>3, <1>4, <1>5

(* The migration: a bucket moves, or ht1 takes the place of ht0. *)
LEMMA RehashIs ==
    ASSUME NEW e, Sound(e)
    PROVE  Same(e, dictRehash(e))
<1>1. /\ e \in Parts /\ SoundTable(e.ht0) /\ SoundTable(e.ht1)
      /\ \A x \in e.ht0.table : x.idx >= e.rehashidx
      /\ \A x \in e.ht0.table, y \in e.ht1.table : x.key # y.key
      /\ dictIsRehashing(e) <=> e.ht1.size # 0
  BY DEF Sound
<1>2. /\ IsFiniteSet(e.ht0.table) /\ e.ht0.used = Cardinality(e.ht0.table)
      /\ e.ht0.table \in SUBSET Entry /\ e.ht1 \in Table
  BY <1>1 DEF SoundTable, Table
<1>3. CASE ~dictIsRehashing(e)
  BY <1>3 DEF dictRehash, Same
<1>4. CASE dictIsRehashing(e) /\ e.ht0.used = 0
  <2>1. e.ht0.table = {}
    BY <1>2, <1>4, FS_EmptySet
  <2> DEFINE f == [e EXCEPT !.ht0 = e.ht1, !.ht1 = NoTable, !.rehashidx = -1]
  <2>2. dictRehash(e) = f
    BY <1>4 DEF dictRehash, RehashDone
  <2>3. NoTable \in Table /\ SoundTable(NoTable) /\ NoTable.table = {} /\ NoTable.size = 0
    BY EmptyTable DEF NoTable
  <2>4. f.ht0 = e.ht1 /\ f.ht1 = NoTable /\ f.rehashidx = -1 /\ f.iterators = e.iterators
    BY <1>1 DEF Parts
  <2>9. f = [q \in Names |-> f[q]]
    BY <1>1 DEF Parts, Names
  <2> HIDE DEF f
  <2>5. f \in Parts
    BY <1>1, <1>2, <2>3, <2>4, <2>9, StillParts DEF Parts
  <2>6. \A x \in f.ht0.table : x.idx >= f.rehashidx
    BY <2>4, EntriesTyped DEF All
  <2>7. Sound(f)
    BY <1>1, <2>3, <2>4, <2>5, <2>6 DEF Sound, dictIsRehashing
  <2>8. All(f) = All(e)
    BY <2>1, <2>3, <2>4 DEF All
  <2> QED
    BY <2>2, <2>4, <2>7, <2>8 DEF Same, Has
<1>5. CASE dictIsRehashing(e) /\ e.ht0.used # 0
  <2> DEFINE i == NextBucket(e)
             chain == {x \in e.ht0.table : x.idx = i}
             to == [x \in chain |-> [x EXCEPT !.idx = Bucket(x.key, e.ht1)]]
             moved == {to[x] : x \in chain}
             n == Cardinality(chain)
             A == [e.ht0 EXCEPT !.table = @ \ chain, !.used = @ - n]
             B == [e.ht1 EXCEPT !.table = @ \cup moved, !.used = @ + n]
             f == [e EXCEPT !.ht0 = A, !.ht1 = B, !.rehashidx = i + 1]
  <2>1. i \in Nat /\ \A x \in e.ht0.table : i =< x.idx
    <3> DEFINE S == {x.idx : x \in {y \in e.ht0.table : y.idx >= e.rehashidx}}
    <3>1. e.ht0.table # {}
      BY <1>2, <1>5, FS_EmptySet
    <3>2. S \in SUBSET Nat /\ S # {} /\ \A x \in e.ht0.table : x.idx \in S
      BY <1>1, <1>2, <3>1 DEF Entry
    <3>3. i = Least(S)
      BY DEF NextBucket
    <3> HIDE DEF S, i
    <3> QED
      BY <3>2, <3>3, LeastIs
  <2>2. dictRehash(e) = f
    <3>1. moved = {[x EXCEPT !.idx = Bucket(x.key, e.ht1)] : x \in chain}
      OBVIOUS
    <3> QED
      BY <1>1, <1>5, <3>1 DEF dictRehash, MoveBucket, Parts, Table, SoundTable
  <2> HIDE DEF i
  <2>3. IsFiniteSet(chain) /\ chain \in SUBSET e.ht0.table
    BY <1>2, FS_Subset
  <2>4. \A x \in chain : /\ to[x].key = x.key /\ to[x].val = x.val
                         /\ to[x].idx = Bucket(x.key, e.ht1) /\ to[x] \in Entry
    <3>1. ASSUME NEW x \in chain
          PROVE  /\ to[x].key = x.key /\ to[x].val = x.val
                 /\ to[x].idx = Bucket(x.key, e.ht1) /\ to[x] \in Entry
      <4>1. x \in Entry /\ x.key \in Key
        BY <1>2 DEF Entry
      <4>2. Bucket(x.key, e.ht1) \in Nat
        BY <1>1, <1>2, <1>5, <4>1, BucketIs
      <4> QED
        BY <4>1, <4>2 DEF Entry
    <3> QED
      BY <3>1
  <2> HIDE DEF to
  <2>5. \A x, y \in chain : x.key = y.key => x = y
    BY <1>1 DEF SoundTable
  <2>6. IsFiniteSet(moved) /\ Cardinality(moved) = n
    <3>1. DOMAIN to = chain
      BY DEF to
    <3>2. \A x, y \in chain : to[x] = to[y] => x = y
      BY <2>4, <2>5
    <3> HIDE DEF chain
    <3> QED
      BY <2>3, <3>1, <3>2, CountMapped
  <2>7. SoundTable(A)
    <3> HIDE DEF chain
    <3> QED
      BY <1>1, <2>3, TakeOut
  <2>8. /\ moved \in SUBSET Entry
        /\ \A y \in moved : \E x \in chain : y.key = x.key /\ y.val = x.val
        /\ \A y \in moved : y.idx = Bucket(y.key, e.ht1)
        /\ \A x \in chain : \E y \in moved : y.key = x.key /\ y.val = x.val
        /\ \A x, y \in moved : x.key = y.key => x = y
    BY <2>4, <2>5
  <2> HIDE DEF moved
  <2>9. SoundTable(B)
    <3>1. \A x \in moved, y \in e.ht1.table : x.key # y.key
      BY <1>1, <2>8
    <3> QED
      BY <1>1, <1>5, <2>6, <2>8, <3>1, PutIn
  <2>10. /\ A.table = e.ht0.table \ chain
         /\ B.table = e.ht1.table \cup moved /\ B.size = e.ht1.size
    BY <1>1 DEF SoundTable, Table
  <2>11. A \in Table /\ B \in Table
    BY <2>7, <2>9 DEF SoundTable
  <2> HIDE DEF A, B
  <2>12. f.ht0 = A /\ f.ht1 = B /\ f.rehashidx = i + 1 /\ f.iterators = e.iterators
    BY <1>1 DEF Parts
  <2>19. f = [q \in Names |-> f[q]]
    BY <1>1 DEF Parts, Names
  <2> HIDE DEF f
  <2>13. f \in Parts
    BY <1>1, <2>1, <2>11, <2>12, <2>19, StillParts DEF Parts
  <2>14. \A x \in f.ht0.table : x.idx >= f.rehashidx
    BY <1>2, <2>1, <2>10, <2>12 DEF Entry
  <2>15. \A x \in f.ht0.table, y \in f.ht1.table : x.key # y.key
    BY <1>1, <2>8, <2>10, <2>12 DEF SoundTable
  <2>16. dictIsRehashing(f) /\ f.ht1.size # 0
    BY <1>1, <1>5, <2>1, <2>10, <2>12 DEF dictIsRehashing
  <2>17. Sound(f)
    BY <2>7, <2>9, <2>12, <2>13, <2>14, <2>15, <2>16 DEF Sound
  <2>18. \A k, v : Has(f, k, v) <=> Has(e, k, v)
    BY <2>8, <2>10, <2>12 DEF Has, All
  <2> QED
    BY <2>2, <2>12, <2>17, <2>18 DEF Same
<1> QED
  BY <1>3, <1>4, <1>5

LEMMA StepIs ==
    ASSUME NEW e, Sound(e)
    PROVE  Same(e, _dictRehashStep(e)) /\ Same(e, dictFind(e))
<1>1. Same(e, e)
  BY DEF Same
<1> QED
  BY <1>1, RehashIs DEF _dictRehashStep, dictFind

LEMMA PreparedIs ==
    ASSUME NEW e, Sound(e)
    PROVE  /\ Same(e, Prepared(e))
           /\ dictIsRehashing(Prepared(e)) \/ Prepared(e).ht0.size # 0
<1>1. Same(e, _dictRehashStep(e))
  BY StepIs
<1>2. PICK f : f = _dictRehashStep(e)
  OBVIOUS
<1>3. Same(f, Prepared(e)) /\ (dictIsRehashing(Prepared(e)) \/ Prepared(e).ht0.size # 0)
  BY <1>1, <1>2, ExpandIfNeededIs DEF Same, Prepared
<1> QED
  BY <1>1, <1>2, <1>3, SameSame

-----------------------------------------------------------------------------
(* The calls. *)

(* From e to f: the value of k is v, or k is gone, and the rest is as it was. *)
Sets(e, f, k, v) ==
    /\ Sound(f) /\ f.iterators = e.iterators
    /\ \A j \in Key : \A u \in Val : Has(f, j, u) <=> IF j = k THEN u = v ELSE Has(e, j, u)

Removes(e, f, k) ==
    /\ Sound(f) /\ f.iterators = e.iterators
    /\ \A j \in Key : \A u \in Val : Has(f, j, u) <=> j # k /\ Has(e, j, u)

(* Other tables of the same sizes. *)
LEMMA TwoTables ==
    ASSUME NEW e, Sound(e), NEW f, f = [q \in Names |-> f[q]],
           f.rehashidx = e.rehashidx, f.iterators = e.iterators,
           SoundTable(f.ht0), SoundTable(f.ht1), f.ht1.size = e.ht1.size,
           \A x \in f.ht0.table : x.idx >= e.rehashidx,
           \A x \in f.ht0.table, y \in f.ht1.table : x.key # y.key
    PROVE  Sound(f)
<1>1. f \in Parts
  BY StillParts DEF Sound, SoundTable, Parts
<1> QED
  BY <1>1 DEF Sound, dictIsRehashing

LEMMA InsertIs ==
    ASSUME NEW e, Sound(e), dictIsRehashing(e) \/ e.ht0.size # 0,
           NEW k \in Key, NEW v \in Val, Found(e, k) = {}
    PROVE  Sets(e, Insert(e, k, v), k, v)
<1>1. \A x \in All(e) : x.key # k
  BY FoundIs
<1>2. /\ e \in Parts /\ SoundTable(e.ht0) /\ SoundTable(e.ht1) /\ e.ht0 \in Table /\ e.ht1 \in Table
      /\ \A x \in e.ht0.table : x.idx >= e.rehashidx
      /\ \A x \in e.ht0.table, y \in e.ht1.table : x.key # y.key
      /\ dictIsRehashing(e) <=> e.ht1.size # 0
  BY DEF Sound, SoundTable
<1>3. ASSUME NEW ht, SoundTable(ht), ht.size # 0, \A x \in ht.table : x.key # k,
             NEW x, x = [key |-> k, val |-> v, idx |-> Bucket(k, ht)]
      PROVE  /\ SoundTable([ht EXCEPT !.table = @ \cup {x}, !.used = @ + 1])
             /\ x.key = k /\ x.val = v /\ x.idx \in Nat
  <2>1. Bucket(k, ht) \in Nat
    BY <1>3, BucketIs DEF SoundTable
  <2>2. x \in Entry /\ x.key = k /\ x.val = v /\ x.idx = Bucket(k, ht)
    BY <1>3, <2>1 DEF Entry
  <2>3. IsFiniteSet({x}) /\ 1 = Cardinality({x})
    BY FS_Singleton
  <2>4. SoundTable([ht EXCEPT !.table = @ \cup {x}, !.used = @ + 1])
    BY <1>3, <2>2, <2>3, PutIn
  <2> QED
    BY <2>1, <2>2, <2>4
<1>4. CASE dictIsRehashing(e)
  <2> DEFINE x == [key |-> k, val |-> v, idx |-> Bucket(k, e.ht1)]
             B == [e.ht1 EXCEPT !.table = @ \cup {x}, !.used = @ + 1]
             f == [e EXCEPT !.ht1.table = @ \cup {x}, !.ht1.used = @ + 1]
  <2>1. Insert(e, k, v) = f
    BY <1>4 DEF Insert
  <2>2. f.ht0 = e.ht0 /\ f.ht1 = B /\ f.rehashidx = e.rehashidx /\ f.iterators = e.iterators
    BY <1>2 DEF Parts, Table
  <2>3. f = [q \in Names |-> f[q]]
    BY <1>2 DEF Parts, Names
  <2>4. B.table = e.ht1.table \cup {x} /\ B.size = e.ht1.size
    BY <1>2 DEF Table
  <2>5. SoundTable(B) /\ x.key = k /\ x.val = v
    <3>1. \A y \in e.ht1.table : y.key # k
      BY <1>1 DEF All
    <3> HIDE DEF x
    <3> QED
      BY <1>2, <1>3, <1>4, <3>1 DEF x
  <2> HIDE DEF x, B, f
  <2>6. Sound(f)
    <3>1. \A y \in f.ht0.table, z \in f.ht1.table : y.key # z.key
      BY <1>1, <1>2, <2>2, <2>4, <2>5 DEF All
    <3> QED
      BY <1>2, <2>2, <2>3, <2>4, <2>5, <3>1, TwoTables
  <2>7. All(f) = All(e) \cup {x}
    BY <2>2, <2>4 DEF All
  <2> QED
    BY <1>1, <2>1, <2>2, <2>5, <2>6, <2>7 DEF Sets, Has
<1>5. CASE ~dictIsRehashing(e)
  <2> DEFINE x == [key |-> k, val |-> v, idx |-> Bucket(k, e.ht0)]
             A == [e.ht0 EXCEPT !.table = @ \cup {x}, !.used = @ + 1]
             f == [e EXCEPT !.ht0.table = @ \cup {x}, !.ht0.used = @ + 1]
  <2>1. Insert(e, k, v) = f
    BY <1>5 DEF Insert
  <2>2. f.ht0 = A /\ f.ht1 = e.ht1 /\ f.rehashidx = e.rehashidx /\ f.iterators = e.iterators
    BY <1>2 DEF Parts, Table
  <2>3. f = [q \in Names |-> f[q]]
    BY <1>2 DEF Parts, Names
  <2>4. A.table = e.ht0.table \cup {x}
    BY <1>2 DEF Table
  <2>5. SoundTable(A) /\ x.key = k /\ x.val = v /\ x.idx \in Nat
    <3>1. \A y \in e.ht0.table : y.key # k
      BY <1>1 DEF All
    <3> HIDE DEF x
    <3> QED
      BY <1>2, <1>3, <1>5, <3>1 DEF x
  <2> HIDE DEF x, A, f
  <2>6. Sound(f)
    <3>1. \A y \in f.ht0.table, z \in f.ht1.table : y.key # z.key
      BY <1>1, <1>2, <2>2, <2>4, <2>5 DEF All
    <3>2. \A y \in f.ht0.table : y.idx >= e.rehashidx
      BY <1>2, <1>5, <2>2, <2>4, <2>5 DEF dictIsRehashing
    <3> QED
      BY <1>2, <2>2, <2>3, <2>4, <2>5, <3>1, <3>2, TwoTables
  <2>7. All(f) = All(e) \cup {x}
    BY <2>2, <2>4 DEF All
  <2> QED
    BY <1>1, <2>1, <2>2, <2>5, <2>6, <2>7 DEF Sets, Has
<1> QED
  BY <1>4, <1>5

(* Another value for the entries F of a key k, in one table. *)
Valued(S, F, v) == {IF x \in F THEN [x EXCEPT !.val = v] ELSE x : x \in S}

Becomes(x, y, k, v) == /\ y.key = x.key /\ y.idx = x.idx
                       /\ y.val = IF x.key = k THEN v ELSE x.val

ValuesSet(ht, T, k, v) ==
    /\ SoundTable([ht EXCEPT !.table = T])
    /\ [ht EXCEPT !.table = T].table = T /\ [ht EXCEPT !.table = T].size = ht.size
    /\ \A y \in T : \E x \in ht.table : Becomes(x, y, k, v)
    /\ \A x \in ht.table : \E y \in T : Becomes(x, y, k, v)

LEMMA SetIn ==
    ASSUME NEW ht, SoundTable(ht), NEW k, NEW v \in Val, NEW F,
           \A x \in ht.table : x \in F <=> x.key = k,
           NEW T, T = Valued(ht.table, F, v)
    PROVE  ValuesSet(ht, T, k, v)
<1> DEFINE to == [x \in ht.table |-> IF x \in F THEN [x EXCEPT !.val = v] ELSE x]
           g == [ht EXCEPT !.table = T]
<1>1. /\ ht \in Table /\ ht.table \in SUBSET Entry /\ IsFiniteSet(ht.table)
      /\ ht.used = Cardinality(ht.table)
  BY DEF SoundTable, Table
<1>2. ASSUME NEW x \in ht.table
      PROVE  /\ to[x] \in Entry /\ to[x].key = x.key /\ to[x].idx = x.idx
             /\ to[x].val = IF x.key = k THEN v ELSE x.val
  <2>1. x \in Entry
    BY <1>1
  <2>2. CASE x \in F
    <3>1. to[x] = [x EXCEPT !.val = v] /\ x.key = k
      BY <2>2
    <3> QED
      BY <2>1, <3>1 DEF Entry
  <2>3. CASE x \notin F
    <3>1. to[x] = x /\ x.key # k
      BY <2>3
    <3> QED
      BY <2>1, <3>1
  <2> QED
    BY <2>2, <2>3
<1>3. T = {to[x] : x \in ht.table}
  BY DEF Valued
<1>4. DOMAIN to = ht.table
  OBVIOUS
<1> HIDE DEF to
<1>5. \A x, y \in ht.table : x.key = y.key => x = y
  BY DEF SoundTable
<1>6. \A x, y \in ht.table : to[x] = to[y] => x = y
  BY <1>2, <1>5
<1>7. IsFiniteSet(T) /\ Cardinality(T) = Cardinality(ht.table)
  BY <1>1, <1>3, <1>4, <1>6, CountMapped
<1>8. T \in SUBSET Entry
  BY <1>2, <1>3
<1>9. g.table = T /\ g.size = ht.size /\ g.used = ht.used
  BY <1>1 DEF Table
<1>10. g \in Table
  BY <1>1, <1>8 DEF Table
<1> HIDE DEF g
<1>11. \A y \in T : \E x \in ht.table : y = to[x]
  BY <1>3
<1>12. \A x, y \in g.table : x.key = y.key => x = y
  BY <1>2, <1>5, <1>9, <1>11
<1>13. \A y \in g.table : g.size # 0 /\ y.idx = Bucket(y.key, g)
  BY <1>2, <1>9, <1>11 DEF SoundTable, Bucket
<1>14. SoundTable(g)
  BY <1>1, <1>7, <1>9, <1>10, <1>12, <1>13 DEF SoundTable
<1>15. \A x \in ht.table : to[x] \in T
  BY <1>3
<1>16. /\ \A y \in T : \E x \in ht.table : Becomes(x, y, k, v)
       /\ \A x \in ht.table : \E y \in T : Becomes(x, y, k, v)
  BY <1>2, <1>11, <1>15 DEF Becomes
<1> QED
  BY <1>9, <1>14, <1>16 DEF g, ValuesSet

LEMMA SetValIs ==
    ASSUME NEW e, Sound(e), NEW k \in Key, NEW v \in Val, Found(e, k) # {}
    PROVE  Sets(e, SetVal(e, k, v), k, v)
<1> DEFINE F == Found(e, k)
           New(ht) == Valued(ht.table, F, v)
           A == [e.ht0 EXCEPT !.table = New(e.ht0)]
           B == [e.ht1 EXCEPT !.table = New(e.ht1)]
           f == [e EXCEPT !.ht0.table = New(e.ht0), !.ht1.table = New(e.ht1)]
<1>1. /\ e \in Parts /\ SoundTable(e.ht0) /\ SoundTable(e.ht1)
      /\ \A x \in e.ht0.table : x.idx >= e.rehashidx
      /\ \A x \in e.ht0.table, y \in e.ht1.table : x.key # y.key
  BY DEF Sound
<1>2. SetVal(e, k, v) = f
  BY DEF SetVal, Valued
<1>3. f.ht0 = A /\ f.ht1 = B /\ f.rehashidx = e.rehashidx /\ f.iterators = e.iterators
  BY <1>1 DEF Parts
<1>4. f = [q \in Names |-> f[q]]
  BY <1>1 DEF Parts, Names
<1>5. \A x \in All(e) : x \in F <=> x.key = k
  BY FoundIs
<1> HIDE DEF F
<1>6. /\ SoundTable(A) /\ A.table = New(e.ht0)
      /\ \A y \in New(e.ht0) : \E x \in e.ht0.table : Becomes(x, y, k, v)
      /\ \A x \in e.ht0.table : \E y \in New(e.ht0) : Becomes(x, y, k, v)
  <2>1. \A x \in e.ht0.table : x \in F <=> x.key = k
    BY <1>5 DEF All
  <2>2. PICK ht : ht = e.ht0
    OBVIOUS
  <2>3. PICK T : T = Valued(ht.table, F, v)
    OBVIOUS
  <2>4. SoundTable(ht) /\ \A x \in ht.table : x \in F <=> x.key = k
    BY <1>1, <2>1, <2>2
  <2>5. ValuesSet(ht, T, k, v)
    BY <2>3, <2>4, SetIn
  <2> QED
    BY <2>2, <2>3, <2>5 DEF ValuesSet
<1>7. /\ SoundTable(B) /\ B.table = New(e.ht1) /\ B.size = e.ht1.size
      /\ \A y \in New(e.ht1) : \E x \in e.ht1.table : Becomes(x, y, k, v)
      /\ \A x \in e.ht1.table : \E y \in New(e.ht1) : Becomes(x, y, k, v)
  <2>1. \A x \in e.ht1.table : x \in F <=> x.key = k
    BY <1>5 DEF All
  <2>2. PICK ht : ht = e.ht1
    OBVIOUS
  <2>3. PICK T : T = Valued(ht.table, F, v)
    OBVIOUS
  <2>4. SoundTable(ht) /\ \A x \in ht.table : x \in F <=> x.key = k
    BY <1>1, <2>1, <2>2
  <2>5. ValuesSet(ht, T, k, v)
    BY <2>3, <2>4, SetIn
  <2> QED
    BY <2>2, <2>3, <2>5 DEF ValuesSet
<1> HIDE DEF New, A, B, f
<1>8. Sound(f)
  <2>1. \A y \in f.ht0.table : y.idx >= e.rehashidx
    BY <1>1, <1>3, <1>6 DEF Becomes
  <2>2. \A x \in f.ht0.table, y \in f.ht1.table : x.key # y.key
    BY <1>1, <1>3, <1>6, <1>7 DEF Becomes
  <2> QED
    BY <1>1, <1>3, <1>4, <1>6, <1>7, <2>1, <2>2, TwoTables
<1>9. /\ \A y \in All(f) : \E x \in All(e) : Becomes(x, y, k, v)
      /\ \A x \in All(e) : \E y \in All(f) : Becomes(x, y, k, v)
  BY <1>3, <1>6, <1>7 DEF All
<1>10. \E x \in All(e) : x.key = k
  BY FoundIs
<1>11. ASSUME NEW j, NEW u PROVE Has(f, j, u) <=> IF j = k THEN u = v ELSE Has(e, j, u)
  BY <1>9, <1>10 DEF Has, Becomes
<1> QED
  BY <1>2, <1>3, <1>8, <1>11 DEF Sets

LEMMA DeleteIs ==
    ASSUME NEW e, Sound(e), NEW k \in Key
    PROVE  Removes(e, dictDelete(e, k), k)
<1> DEFINE s == dictFind(e)
           F == Found(s, k)
           out(ht) == IF F \cap ht.table = {} THEN ht
                      ELSE [ht EXCEPT !.table = @ \ F, !.used = @ - 1]
           f == [s EXCEPT !.ht0 = out(s.ht0), !.ht1 = out(s.ht1)]
<1>1. Same(e, s)
  BY StepIs
<1>2. dictDelete(e, k) = f
  BY DEF dictDelete
<1> HIDE DEF s
<1>3. /\ Sound(s) /\ s \in Parts /\ SoundTable(s.ht0) /\ SoundTable(s.ht1)
      /\ \A x \in s.ht0.table : x.idx >= s.rehashidx
      /\ \A x \in s.ht0.table, y \in s.ht1.table : x.key # y.key
  BY <1>1 DEF Same, Sound
<1>4. F = {x \in All(s) : x.key = k}
  BY <1>3, FoundIs
<1> HIDE DEF F
<1>5. ASSUME NEW ht, SoundTable(ht), \A x \in ht.table : x \in F <=> x.key = k
      PROVE  SoundTable(out(ht)) /\ out(ht).table = ht.table \ F /\ out(ht).size = ht.size
  <2>1. CASE F \cap ht.table = {}
    BY <1>5, <2>1
  <2>2. CASE F \cap ht.table # {}
    <3>1. PICK x : x \in F /\ x \in ht.table
      BY <2>2
    <3>2. \A y \in F \cap ht.table : y = x
      BY <1>5, <3>1 DEF SoundTable
    <3>3. F \cap ht.table = {x}
      BY <3>1, <3>2
    <3>4. {x} \in SUBSET ht.table /\ 1 = Cardinality({x}) /\ ht.table \ F = ht.table \ {x}
      BY <3>1, <3>3, FS_Singleton
    <3>5. SoundTable([ht EXCEPT !.table = @ \ {x}, !.used = @ - 1])
      BY <1>5, <3>4, TakeOut
    <3>6. out(ht) = [ht EXCEPT !.table = @ \ {x}, !.used = @ - 1]
      BY <2>2, <3>4
    <3>7. /\ [ht EXCEPT !.table = @ \ {x}, !.used = @ - 1].table = ht.table \ {x}
          /\ [ht EXCEPT !.table = @ \ {x}, !.used = @ - 1].size = ht.size
      BY <1>5 DEF SoundTable, Table
    <3> QED
      BY <3>4, <3>5, <3>6, <3>7
  <2> QED
    BY <2>1, <2>2
<1>6. /\ f.ht0 = out(s.ht0) /\ f.ht1 = out(s.ht1) /\ f.rehashidx = s.rehashidx
      /\ f.iterators = s.iterators
  BY <1>3 DEF Parts
<1>7. f = [q \in Names |-> f[q]]
  BY <1>3 DEF Parts, Names
<1> HIDE DEF out, f
<1>8. SoundTable(f.ht0) /\ f.ht0.table = s.ht0.table \ F
  BY <1>3, <1>4, <1>5, <1>6 DEF All
<1>9. SoundTable(f.ht1) /\ f.ht1.table = s.ht1.table \ F /\ f.ht1.size = s.ht1.size
  BY <1>3, <1>4, <1>5, <1>6 DEF All
<1>10. Sound(f)
  BY <1>3, <1>6, <1>7, <1>8, <1>9, TwoTables
<1>11. All(f) = {x \in All(s) : x.key # k}
  BY <1>4, <1>8, <1>9 DEF All
<1>12. \A j, u : Has(f, j, u) <=> j # k /\ Has(s, j, u)
  BY <1>11 DEF Has
<1> QED
  BY <1>1, <1>2, <1>6, <1>10, <1>12 DEF Removes, Same

-----------------------------------------------------------------------------
(* The map the dictionary is to its callers. *)

MapOf(e) == [k \in Key |-> ValueOf(e, k)]

LEMMA MapIs ==
    ASSUME NEW e, Sound(e), NEW k \in Key
    PROVE  /\ \A v \in Val : Has(e, k, v) <=> MapOf(e)[k] = v
           /\ MapOf(e)[k] \in Val \cup {None}
           /\ Found(e, k) = {} <=> MapOf(e)[k] = None
<1>1. MapOf(e)[k] = ValueOf(e, k)
  BY DEF MapOf
<1>2. /\ \A x \in All(e) : x.key = k => ValueOf(e, k) = x.val
      /\ ValueOf(e, k) = None <=> \A x \in All(e) : x.key # k
  BY ValueIs
<1>3. \A x \in All(e) : x.val \in Val /\ x.val # None
  BY EntriesTyped, DictAssumption
<1>4. Found(e, k) = {x \in All(e) : x.key = k}
  BY FoundIs
<1>5. None \notin Val
  BY DictAssumption
<1> QED
  BY <1>1, <1>2, <1>3, <1>4, <1>5 DEF Has

LEMMA SameMap ==
    ASSUME NEW e, Sound(e), NEW f, Same(e, f)
    PROVE  MapOf(f) = MapOf(e) /\ \A k \in Key : Found(f, k) = {} <=> Found(e, k) = {}
<1>1. \A k \in Key : ValueOf(f, k) = ValueOf(e, k)
  BY SameValues
<1>2. MapOf(f) = MapOf(e)
  BY <1>1 DEF MapOf
<1>3. Sound(f)
  BY DEF Same
<1> QED
  BY <1>2, <1>3, MapIs

LEMMA SetsMap ==
    ASSUME NEW e, Sound(e), NEW f, NEW k \in Key, NEW v \in Val, Sets(e, f, k, v)
    PROVE  MapOf(f) = [MapOf(e) EXCEPT ![k] = v]
<1>1. Sound(f)
  BY DEF Sets
<1>2. MapOf(f)[k] = v
  BY <1>1, MapIs DEF Sets
<1>3. ASSUME NEW j \in Key \ {k} PROVE MapOf(f)[j] = MapOf(e)[j]
  <2>1. \A u \in Val : Has(f, j, u) <=> Has(e, j, u)
    BY DEF Sets
  <2>2. \A u \in Val : MapOf(f)[j] = u <=> MapOf(e)[j] = u
    BY <1>1, <2>1, MapIs
  <2>3. MapOf(f)[j] \in Val \cup {None} /\ MapOf(e)[j] \in Val \cup {None}
    BY <1>1, MapIs
  <2> QED
    BY <2>2, <2>3
<1>4. DOMAIN MapOf(f) = Key /\ DOMAIN MapOf(e) = Key
      /\ MapOf(f) = [j \in Key |-> MapOf(f)[j]]
  BY DEF MapOf
<1>5. MapOf(e) = [j \in Key |-> MapOf(e)[j]]
  BY DEF MapOf
<1> QED
  BY <1>2, <1>3, <1>4, <1>5

LEMMA RemovesMap ==
    ASSUME NEW e, Sound(e), NEW f, NEW k \in Key, Removes(e, f, k)
    PROVE  MapOf(f) = [MapOf(e) EXCEPT ![k] = None]
<1>1. Sound(f)
  BY DEF Removes
<1>2. MapOf(f)[k] = None
  BY <1>1, MapIs DEF Removes
<1>3. ASSUME NEW j \in Key \ {k} PROVE MapOf(f)[j] = MapOf(e)[j]
  <2>1. \A u \in Val : Has(f, j, u) <=> Has(e, j, u)
    BY DEF Removes
  <2>2. \A u \in Val : MapOf(f)[j] = u <=> MapOf(e)[j] = u
    BY <1>1, <2>1, MapIs
  <2>3. MapOf(f)[j] \in Val \cup {None} /\ MapOf(e)[j] \in Val \cup {None}
    BY <1>1, MapIs
  <2> QED
    BY <2>2, <2>3
<1>4. MapOf(f) = [j \in Key |-> MapOf(f)[j]] /\ MapOf(e) = [j \in Key |-> MapOf(e)[j]]
  BY DEF MapOf
<1> QED
  BY <1>2, <1>3, <1>4

LEMMA AddIs ==
    ASSUME NEW e, Sound(e), NEW k \in Key, NEW v \in Val
    PROVE  /\ Found(Prepared(e), k) = {} <=> MapOf(e)[k] = None
           /\ MapOf(e)[k] = None => Sets(e, dictAdd(e, k, v), k, v)
           /\ MapOf(e)[k] # None => Same(e, dictAdd(e, k, v))
<1>1. PICK p : p = Prepared(e)
  OBVIOUS
<1>2. Same(e, p) /\ Sound(p) /\ (dictIsRehashing(p) \/ p.ht0.size # 0)
  BY <1>1, PreparedIs DEF Same
<1>3. Found(p, k) = {} <=> MapOf(e)[k] = None
  BY <1>2, SameMap, MapIs
<1>4. CASE MapOf(e)[k] = None
  <2>1. dictAdd(e, k, v) = Insert(p, k, v)
    BY <1>1, <1>3, <1>4 DEF dictAdd
  <2>2. Sets(p, Insert(p, k, v), k, v)
    BY <1>2, <1>3, <1>4, InsertIs
  <2>3. Sets(e, Insert(p, k, v), k, v)
    BY <1>2, <2>2 DEF Sets, Same
  <2> QED
    BY <1>1, <1>3, <1>4, <2>1, <2>3
<1>5. CASE MapOf(e)[k] # None
  <2>1. dictAdd(e, k, v) = p
    BY <1>1, <1>3, <1>5 DEF dictAdd
  <2> QED
    BY <1>1, <1>2, <1>3, <1>5, <2>1
<1> QED
  BY <1>4, <1>5

LEMMA ReplaceIs ==
    ASSUME NEW e, Sound(e), NEW k \in Key, NEW v \in Val
    PROVE  Sets(e, dictReplace(e, k, v), k, v)
<1>1. CASE MapOf(e)[k] = None
  BY <1>1, AddIs DEF dictReplace
<1>2. CASE MapOf(e)[k] # None
  <2>1. PICK a : a = dictAdd(e, k, v)
    OBVIOUS
  <2>2. Same(e, a) /\ Sound(a)
    BY <1>2, <2>1, AddIs DEF Same
  <2>3. PICK f : f = dictFind(a)
    OBVIOUS
  <2>4. Same(e, f) /\ Sound(f)
    BY <2>2, <2>3, StepIs DEF Same
  <2>5. Found(f, k) # {}
    BY <1>2, <2>4, SameMap, MapIs
  <2>6. Sets(f, SetVal(f, k, v), k, v)
    BY <2>4, <2>5, SetValIs
  <2>7. dictReplace(e, k, v) = SetVal(f, k, v)
    BY <1>2, <2>1, <2>3, AddIs DEF dictReplace
  <2> QED
    BY <2>4, <2>6, <2>7 DEF Sets, Same
<1> QED
  BY <1>1, <1>2

-----------------------------------------------------------------------------

IInv == Sound(d) /\ dict_can_resize \in BOOLEAN /\ open \in 0 .. MAX_ITERATORS

LEMMA CurrentMapIs == CurrentMap = MapOf(d) /\ CurrentMap' = MapOf(d')
BY DEF CurrentMap, MapOf, ValueOf, Entries, All

(* What a call does, as the map's users see it, and that it leaves the dictionary sound
   and the count of iterators as it is. *)
Call(A) == Sound(d') /\ d'.iterators = d.iterators /\ A

LEMMA AddStep ==
    ASSUME Sound(d), NEW k \in Key, NEW v \in Val, Add(k, v)
    PROVE  Call(AbstractMap!Add(k, v))
<1>1. PICK f : f = dictAdd(d, k, v)
  OBVIOUS
<1>2. PICK m : m = MapOf(d)
  OBVIOUS
<1>3. /\ d' = f /\ CurrentMap = m /\ CurrentMap' = MapOf(f)
      /\ ret' = IF m[k] = None THEN OK ELSE ERR
  BY <1>1, <1>2, AddIs, CurrentMapIs DEF Add
<1>4. CASE m[k] = None
  <2>1. Sets(d, f, k, v)
    BY <1>1, <1>2, <1>4, AddIs
  <2>2. MapOf(f) = [m EXCEPT ![k] = v]
    BY <1>2, <2>1, SetsMap
  <2> QED
    BY <1>3, <1>4, <2>1, <2>2
       DEF Call, Sets, AbstractMap!Add, AbstractMap!OK, OK
<1>5. CASE m[k] # None
  <2>1. Same(d, f)
    BY <1>1, <1>2, <1>5, AddIs
  <2>2. MapOf(f) = m
    BY <1>2, <2>1, SameMap
  <2> QED
    BY <1>3, <1>5, <2>1, <2>2
       DEF Call, Same, AbstractMap!Add, AbstractMap!ERR, ERR
<1> QED
  BY <1>4, <1>5

LEMMA ReplaceStep ==
    ASSUME Sound(d), NEW k \in Key, NEW v \in Val, Replace(k, v)
    PROVE  Call(AbstractMap!Replace(k, v))
<1>1. PICK f : f = dictReplace(d, k, v)
  OBVIOUS
<1>2. PICK m : m = MapOf(d)
  OBVIOUS
<1>3. /\ d' = f /\ CurrentMap = m /\ CurrentMap' = MapOf(f)
      /\ ret' = IF m[k] = None THEN "added" ELSE "updated"
  BY <1>1, <1>2, AddIs, CurrentMapIs DEF Replace
<1>4. Sets(d, f, k, v)
  BY <1>1, ReplaceIs
<1>5. MapOf(f) = [m EXCEPT ![k] = v]
  BY <1>2, <1>4, SetsMap
<1> QED
  BY <1>3, <1>4, <1>5 DEF Call, Sets, AbstractMap!Replace

LEMMA DeleteStep ==
    ASSUME Sound(d), NEW k \in Key, Delete(k)
    PROVE  Call(AbstractMap!Delete(k))
<1>1. PICK f : f = dictDelete(d, k)
  OBVIOUS
<1>2. PICK m : m = MapOf(d)
  OBVIOUS
<1>3. Found(dictFind(d), k) = {} <=> m[k] = None
  BY <1>2, StepIs, SameMap, MapIs
<1>4. /\ d' = f /\ CurrentMap = m /\ CurrentMap' = MapOf(f)
      /\ ret' = IF m[k] = None THEN ERR ELSE OK
  BY <1>1, <1>2, <1>3, CurrentMapIs DEF Delete
<1>5. Removes(d, f, k)
  BY <1>1, DeleteIs
<1>6. MapOf(f) = [m EXCEPT ![k] = None]
  BY <1>2, <1>5, RemovesMap
<1> QED
  BY <1>4, <1>5, <1>6
     DEF Call, Removes, AbstractMap!Delete, AbstractMap!ERR, AbstractMap!OK, ERR, OK

LEMMA FetchValueStep ==
    ASSUME Sound(d), NEW k \in Key, FetchValue(k)
    PROVE  Call(AbstractMap!FetchValue(k))
<1>1. PICK f : f = dictFind(d)
  OBVIOUS
<1>2. PICK m : m = MapOf(d)
  OBVIOUS
<1>3. Same(d, f) /\ Sound(f) /\ MapOf(f) = m
  BY <1>1, <1>2, StepIs, SameMap DEF Same
<1>4. \/ Found(f, k) = {} /\ ret' = None
      \/ \E x \in Found(f, k) : ret' = x.val
  BY <1>1 DEF FetchValue
<1>5. ret' = m[k]
  <2>1. CASE Found(f, k) = {} /\ ret' = None
    BY <1>3, <2>1, MapIs
  <2>2. ASSUME NEW x \in Found(f, k), ret' = x.val PROVE ret' = m[k]
    <3>1. x \in All(f) /\ x.key = k
      BY <1>3, FoundIs
    <3>2. ValueOf(f, k) = x.val
      BY <1>3, <3>1, ValueIs
    <3> QED
      BY <1>3, <2>2, <3>2 DEF MapOf
  <2> QED
    BY <1>4, <2>1, <2>2
<1>6. d' = f /\ CurrentMap = m /\ CurrentMap' = m
  BY <1>1, <1>2, <1>3, CurrentMapIs DEF FetchValue
<1> QED
  BY <1>3, <1>5, <1>6 DEF Call, Same, AbstractMap!FetchValue

LEMMA RandomKeyStep ==
    ASSUME Sound(d), dictGetRandomKey
    PROVE  Call(AbstractMap!RandomKey)
<1>1. PICK m : m = MapOf(d)
  OBVIOUS
<1>2. dictSize(d) = 0 <=> \A k \in Key : m[k] = None
  <2>1. /\ IsFiniteSet(d.ht0.table) /\ d.ht0.used = Cardinality(d.ht0.table)
        /\ IsFiniteSet(d.ht1.table) /\ d.ht1.used = Cardinality(d.ht1.table)
    BY DEF Sound, SoundTable
  <2>2. d.ht0.used \in Nat /\ d.ht1.used \in Nat
    BY <2>1, FS_CardinalityType
  <2>3. dictSize(d) = 0 <=> d.ht0.used = 0 /\ d.ht1.used = 0
    BY <2>2 DEF dictSize
  <2>4. dictSize(d) = 0 <=> All(d) = {}
    BY <2>1, <2>3, FS_EmptySet DEF All
  <2>5. All(d) = {} <=> \A k \in Key : Found(d, k) = {}
    BY FoundIs, EntriesTyped
  <2> QED
    BY <1>1, <2>4, <2>5, MapIs
<1>3. CASE dictSize(d) = 0
  <2>1. d' = d /\ ret' = None
    BY <1>3 DEF dictGetRandomKey
  <2> QED
    BY <1>1, <1>2, <1>3, <2>1, CurrentMapIs DEF Call, AbstractMap!RandomKey
<1>4. CASE dictSize(d) # 0
  <2>1. PICK f : f = _dictRehashStep(d)
    OBVIOUS
  <2>2. d' = f /\ \E x \in All(f) : ret' = x.key
    BY <1>4, <2>1 DEF dictGetRandomKey, All
  <2>3. Same(d, f) /\ Sound(f) /\ MapOf(f) = m
    BY <1>1, <2>1, StepIs, SameMap DEF Same
  <2>4. PICK x \in All(f) : ret' = x.key
    BY <2>2
  <2>5. PICK k \in Key : k = x.key
    BY <2>3, EntriesTyped
  <2>6. m[k] # None
    <3>1. Found(f, k) # {}
      BY <2>3, <2>5, FoundIs
    <3> QED
      BY <2>3, <3>1, MapIs
  <2>7. CurrentMap = m /\ CurrentMap' = m
    BY <1>1, <2>2, <2>3, CurrentMapIs
  <2> QED
    BY <2>2, <2>3, <2>4, <2>5, <2>6, <2>7 DEF Call, Same, AbstractMap!RandomKey
<1> QED
  BY <1>3, <1>4

(* A resize or a migration is nothing to the map's users. *)
LEMMA ResizeStep ==
    ASSUME Sound(d), dictResize \/ Rehash \/ \E size \in Powers : Expand(size)
    PROVE  Call(UNCHANGED <<CurrentMap, ret>>)
<1>1. ASSUME NEW size \in Nat, d' = dictExpand(d, size) PROVE Same(d, d')
  BY <1>1, ExpandIs
<1>2. d.ht0.used \in Nat /\ INITIAL_SIZE \in Nat /\ Powers \subseteq Nat
  BY DictAssumption DEF Sound, SoundTable, Table, Powers
<1>3. Same(d, d')
  <2>1. CASE dictResize
    BY <1>1, <1>2, <2>1 DEF dictResize
  <2>2. CASE Rehash
    BY <2>2, RehashIs DEF Rehash
  <2>3. CASE \E size \in Powers : Expand(size)
    BY <1>1, <1>2, <2>3 DEF Expand
  <2> QED
    BY <2>1, <2>2, <2>3
<1>4. ret' = ret
  BY DEF dictResize, Rehash, Expand
<1>5. CurrentMap' = CurrentMap
  <2>1. PICK f : f = d'
    OBVIOUS
  <2>2. MapOf(f) = MapOf(d)
    BY <1>3, <2>1, SameMap
  <2> QED
    BY <2>1, <2>2, CurrentMapIs
<1> QED
  BY <1>3, <1>4, <1>5 DEF Call, Same

LEMMA FreshIs == Sound(Fresh) /\ MapOf(Fresh) = [k \in Key |-> None] /\ Fresh.iterators = 0
<1>1. NoTable \in Table /\ SoundTable(NoTable) /\ NoTable.table = {} /\ NoTable.size = 0
  BY EmptyTable DEF NoTable
<1>2. /\ Fresh.ht0 = NoTable /\ Fresh.ht1 = NoTable /\ Fresh.rehashidx = -1
      /\ Fresh.iterators = 0 /\ Fresh \in Parts
  BY <1>1 DEF Fresh, Parts
<1>3. Sound(Fresh)
  BY <1>1, <1>2 DEF Sound, dictIsRehashing
<1>4. All(Fresh) = {}
  BY <1>1, <1>2 DEF All
<1> QED
  BY <1>2, <1>3, <1>4 DEF MapOf, ValueOf

LEMMA EmptyStep ==
    ASSUME Sound(d), dictEmpty
    PROVE  Sound(d') /\ d'.iterators = 0 /\ AbstractMap!Empty
BY FreshIs, CurrentMapIs DEF dictEmpty, AbstractMap!Empty

(* An iterator that comes or goes. *)
LEMMA IteratorStep ==
    ASSUME Sound(d), NEW i \in Int, d' = [d EXCEPT !.iterators = i]
    PROVE  Sound(d') /\ d'.iterators = i /\ CurrentMap' = CurrentMap
<1>1. PICK f : f = [d EXCEPT !.iterators = i]
  OBVIOUS
<1>2. d \in Parts
  BY DEF Sound
<1>3. f.ht0 = d.ht0 /\ f.ht1 = d.ht1 /\ f.rehashidx = d.rehashidx /\ f.iterators = i
  BY <1>1, <1>2 DEF Parts
<1>4. f \in Parts
  BY <1>1, <1>2 DEF Parts
<1>5. Sound(f)
  BY <1>3, <1>4 DEF Sound, dictIsRehashing
<1>6. MapOf(f) = MapOf(d)
  BY <1>3 DEF MapOf, ValueOf, All
<1> QED
  BY <1>1, <1>3, <1>5, <1>6, CurrentMapIs

(* Every step keeps the dictionary sound, is a call on the map or nothing to it, and
   counts the iterators that come and go. *)
LEMMA Steps ==
    ASSUME IInv, [Next]_vars
    PROVE  /\ IInv'
           /\ AbstractMap!Next \/ UNCHANGED <<CurrentMap, ret>>
           /\ \/ d'.iterators - open' = d.iterators - open
              \/ dictEmpty /\ d'.iterators = 0 /\ open' = open
<1>1. /\ Sound(d) /\ dict_can_resize \in BOOLEAN /\ open \in 0 .. MAX_ITERATORS
      /\ d.iterators \in Int
  BY DEF IInv, Sound, Parts
<1> DEFINE Goal == /\ IInv'
                   /\ AbstractMap!Next \/ UNCHANGED <<CurrentMap, ret>>
                   /\ \/ d'.iterators - open' = d.iterators - open
                      \/ dictEmpty /\ d'.iterators = 0 /\ open' = open
<1>2. ASSUME NEW ACTION A, Call(A), A => AbstractMap!Next \/ UNCHANGED <<CurrentMap, ret>>,
             UNCHANGED <<dict_can_resize, open>>
      PROVE  Goal
  BY <1>1, <1>2 DEF Call, IInv
<1>3. ASSUME NEW k \in Key, NEW v \in Val, Add(k, v) PROVE Goal
  BY <1>1, <1>2, <1>3, AddStep DEF Add, AbstractMap!Next
<1>4. ASSUME NEW k \in Key, NEW v \in Val, Replace(k, v) PROVE Goal
  BY <1>1, <1>2, <1>4, ReplaceStep DEF Replace, AbstractMap!Next
<1>5. ASSUME NEW k \in Key, Delete(k) PROVE Goal
  BY <1>1, <1>2, <1>5, DeleteStep DEF Delete, AbstractMap!Next
<1>6. ASSUME NEW k \in Key, FetchValue(k) PROVE Goal
  BY <1>1, <1>2, <1>6, FetchValueStep DEF FetchValue, AbstractMap!Next
<1>7. CASE dictGetRandomKey
  BY <1>1, <1>2, <1>7, RandomKeyStep DEF dictGetRandomKey, AbstractMap!Next
<1>8. CASE dictResize \/ Rehash \/ \E size \in Powers : Expand(size)
  BY <1>1, <1>2, <1>8, ResizeStep DEF dictResize, Rehash, Expand
<1>9. CASE dictEmpty
  BY <1>1, <1>9, EmptyStep DEF dictEmpty, AbstractMap!Next, IInv
<1>10. ASSUME NEW on \in BOOLEAN, SwitchResize(on) PROVE Goal
  <2>1. d' = d /\ open' = open /\ ret' = ret /\ dict_can_resize' \in BOOLEAN
    BY <1>10 DEF SwitchResize
  <2> QED
    BY <1>1, <2>1, CurrentMapIs DEF IInv
<1>11. CASE SafeIterator \/ dictReleaseIterator
  <2>1. PICK i \in Int : /\ d' = [d EXCEPT !.iterators = i] /\ i - open' = d.iterators - open
                         /\ open' \in 0 .. MAX_ITERATORS
    <3>1. d.iterators + 1 \in Int /\ d.iterators - 1 \in Int /\ open \in Int /\ MAX_ITERATORS \in Int
      BY <1>1, DictAssumption
    <3>2. CASE SafeIterator
      <4>1. /\ d' = [d EXCEPT !.iterators = d.iterators + 1] /\ open' = open + 1
            /\ open < MAX_ITERATORS
        BY <3>2 DEF SafeIterator
      <4>2. (d.iterators + 1) - open' = d.iterators - open /\ open' \in 0 .. MAX_ITERATORS
        BY <1>1, <3>1, <4>1
      <4> QED
        BY <3>1, <4>1, <4>2
    <3>3. CASE dictReleaseIterator
      <4>1. /\ d' = [d EXCEPT !.iterators = d.iterators - 1] /\ open' = open - 1
            /\ open > 0
        BY <3>3 DEF dictReleaseIterator
      <4>2. (d.iterators - 1) - open' = d.iterators - open /\ open' \in 0 .. MAX_ITERATORS
        BY <1>1, <3>1, <4>1
      <4> QED
        BY <3>1, <4>1, <4>2
    <3> QED
      BY <1>11, <3>2, <3>3
  <2>2. UNCHANGED <<dict_can_resize, ret>>
    BY <1>11 DEF SafeIterator, dictReleaseIterator
  <2> QED
    BY <1>1, <2>1, <2>2, IteratorStep DEF IInv
<1>12. CASE UNCHANGED vars
  <2>1. d' = d /\ open' = open /\ ret' = ret /\ dict_can_resize' = dict_can_resize
    BY <1>12 DEF vars
  <2> QED
    BY <1>1, <2>1, CurrentMapIs DEF IInv
<1> QED
  BY <1>3, <1>4, <1>5, <1>6, <1>7, <1>8, <1>9, <1>10, <1>11, <1>12 DEF Next, Lookup

LEMMA InitIInv == Init => IInv
BY FreshIs, DictAssumption DEF Init, IInv

(* The tables stay sound whatever is called, in whatever state of the migration. *)
THEOREM Invariance == Spec => []IInv
BY InitIInv, Steps, PTL DEF Spec

(* Sizes, counters and bucket numbers stay natural numbers, entries stay entries. *)
THEOREM TypeCorrect == Spec => []TypeOK
<1>1. IInv => TypeOK
  BY DEF IInv, TypeOK, Sound, Parts
<1> QED
  BY <1>1, Invariance, PTL

(* No key is stored twice, in one table or across the two. *)
THEOREM NoKeyTwice == Spec => []KeyStoredOnce
<1>1. IInv => KeyStoredOnce
  BY DEF IInv, KeyStoredOnce, Sound, SoundTable
<1> QED
  BY <1>1, Invariance, PTL

(* A search that starts in the bucket of a key's hash finds the key, and the migration
   never has to look behind itself. *)
THEOREM NoEntryLost == Spec => []EntriesReachable
<1>1. IInv => EntriesReachable
  BY DEF IInv, EntriesReachable, Sound, SoundTable, dictIsRehashing
<1> QED
  BY <1>1, Invariance, PTL

(* The counters that decide when ht0 is dropped are exact. *)
THEOREM CountersExact == Spec => []UsedExact
<1>1. IInv => UsedExact
  BY DEF IInv, UsedExact, Sound, SoundTable
<1> QED
  BY <1>1, Invariance, PTL

(* Rehashing never runs under an open iterator whose count was lost, as long as
   callers do not empty a dictionary they iterate over. *)
THEOREM IteratorsKept == ASSUME ~EmptyWhileIterating PROVE Spec => []IteratorsCounted
<1>1. Init => IteratorsCounted
  BY FreshIs DEF Init, IteratorsCounted
<1>2. IInv /\ IteratorsCounted /\ [Next]_vars => IteratorsCounted'
  <2> SUFFICES ASSUME IInv, IteratorsCounted, [Next]_vars PROVE IteratorsCounted'
    OBVIOUS
  <2>1. \/ d'.iterators - open' = d.iterators - open
        \/ dictEmpty /\ d'.iterators = 0 /\ open' = open
    BY Steps
  <2>2. IInv'
    BY Steps
  <2>3. d'.iterators \in Int /\ open' \in Int /\ open \in Int
    BY <2>2 DEF IInv, Sound, Parts
  <2>4. dictEmpty => open = 0
    BY DEF dictEmpty
  <2> QED
    BY <2>1, <2>3, <2>4 DEF IteratorsCounted
<1> QED
  BY <1>1, <1>2, Invariance, PTL DEF Spec

(* The two tables and the migration between them do not show: what a caller sees is a
   map on which each call acts at once. *)
THEOREM Refinement == Spec => ImplementsDictMap
<1>1. Init => AbstractMap!Init
  BY FreshIs, CurrentMapIs DEF Init, AbstractMap!Init
<1>2. IInv /\ [Next]_vars => [AbstractMap!Next]_(AbstractMap!vars)
  BY Steps DEF AbstractMap!vars
<1>3. AbstractMap!Spec <=> ImplementsDictMap
  BY DEF ImplementsDictMap
<1> QED
  BY <1>1, <1>2, <1>3, Invariance, PTL DEF Spec, AbstractMap!Spec

=============================================================================
