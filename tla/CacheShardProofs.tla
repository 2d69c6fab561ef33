-------------------------- MODULE CacheShardProofs --------------------------
(***************************************************************************)
(* What the commands and timers of a shard (module CacheShard) keep, for   *)
(* any number of keys, items, connections, versions and times.             *)
(*                                                                         *)
(* The theorems assume ~EvictErased: the allocator evicts no item that     *)
(* the cache has erased while a reply still holds it; and HoldersFit: the  *)
(* count of an item can tell all the references there are at a time.       *)
(***************************************************************************)
EXTENDS CacheShard, Functions, FiniteSetTheorems, WellFoundedInduction, TLAPS

(***************************************************************************)
(* Sums over finite sets.                                                  *)
(*                                                                         *)
(* SumFunctionOnSet is a recursive function over the subsets of the set,   *)
(* so that it is defined at all, and what it computes, need induction on   *)
(* their size.  The induction is by the least counterexample (LeastNat).   *)
(***************************************************************************)

Pick(s) == CHOOSE x \in s : TRUE

IsFold(f, g, S) ==
    g = [s \in SUBSET S |-> IF s = {} THEN 0 ELSE f[Pick(s)] + g[s \ {Pick(s)}]]

Fold(f, S) == CHOOSE g : IsFold(f, g, S)

LEMMA SumIsFold ==
    ASSUME NEW f, NEW S
    PROVE  SumFunctionOnSet(f, S) = Fold(f, S)[S]
BY DEF SumFunctionOnSet, FoldFunctionOnSet, MapThenFoldSet, Fold, IsFold, Pick

LEMMA LeastNat ==
    ASSUME NEW T, T \subseteq Nat, T # {}
    PROVE  \E n \in T : \A m \in T : n =< m
<1>1. PICK n \in T : \A m \in T : ~(<<m, n>> \in OpToRel(<, Nat))
  BY NatLessThanWellFounded, WFMin
<1>2. \A m \in T : ~(m < n)
  BY <1>1 DEF OpToRel
<1> QED
  BY <1>2

(* The subsets of S with at most n elements. *)
UpTo(S, n) == {s \in SUBSET S : Cardinality(s) =< n}

FoldUpTo(f, g, S, n) ==
    g = [s \in UpTo(S, n) |-> IF s = {} THEN 0 ELSE f[Pick(s)] + g[s \ {Pick(s)}]]

LEMMA PickRemoved ==
    ASSUME NEW s, IsFiniteSet(s), s # {}
    PROVE  /\ Pick(s) \in s /\ IsFiniteSet(s \ {Pick(s)})
           /\ Cardinality(s \ {Pick(s)}) = Cardinality(s) - 1
           /\ Cardinality(s) \in Nat \ {0} /\ Cardinality(s \ {Pick(s)}) \in Nat
<1>1. Pick(s) \in s
  BY Zenon DEF Pick
<1>2. /\ IsFiniteSet(s \ {Pick(s)})
      /\ Cardinality(s \ {Pick(s)}) = Cardinality(s) - 1
  BY <1>1, FS_RemoveElement
<1> QED
  BY <1>1, <1>2, FS_CardinalityType, FS_EmptySet

LEMMA FoldExists ==
    ASSUME NEW f, NEW S, IsFiniteSet(S)
    PROVE  \E g : IsFold(f, g, S)
<1> DEFINE Bad == {n \in Nat : ~ \E g : FoldUpTo(f, g, S, n)}
<1>0. \A s \in SUBSET S : IsFiniteSet(s) /\ Cardinality(s) \in Nat
  BY FS_Subset, FS_CardinalityType
<1>1. Bad = {}
  <2> SUFFICES ASSUME Bad # {} PROVE FALSE
    OBVIOUS
  <2>1. PICK n \in Bad : \A m \in Bad : n =< m
    BY LeastNat
  <2>2. CASE n = 0
    <3> DEFINE g == [s \in UpTo(S, 0) |-> 0]
    <3>1. \A s \in UpTo(S, 0) : s = {}
      BY <1>0, FS_EmptySet DEF UpTo
    <3>2. FoldUpTo(f, g, S, 0)
      BY <3>1 DEF FoldUpTo
    <3> QED
      BY <2>2, <3>2
  <2>3. CASE n # 0
    <3>1. n - 1 \in Nat /\ n - 1 \notin Bad
      BY <2>1, <2>3
    <3>2. PICK g : FoldUpTo(f, g, S, n - 1)
      BY <3>1
    <3> DEFINE h == [s \in UpTo(S, n) |-> IF s = {} THEN 0
                                          ELSE f[Pick(s)] + g[s \ {Pick(s)}]]
    <3>3. ASSUME NEW s \in UpTo(S, n), s # {}
          PROVE  g[s \ {Pick(s)}] = h[s \ {Pick(s)}]
      <4> DEFINE t == s \ {Pick(s)}
      <4>1. t \in UpTo(S, n - 1)
        BY <1>0, <2>1, <3>3, PickRemoved DEF UpTo
      <4>2. t \in UpTo(S, n)
        BY <1>0, <2>1, <4>1 DEF UpTo
      <4>3. g[t] = IF t = {} THEN 0 ELSE f[Pick(t)] + g[t \ {Pick(t)}]
        BY <3>2, <4>1 DEF FoldUpTo
      <4> QED
        BY <4>2, <4>3
    <3>4. h = [s \in UpTo(S, n) |-> IF s = {} THEN 0 ELSE f[Pick(s)] + h[s \ {Pick(s)}]]
      BY <3>3
    <3>5. FoldUpTo(f, h, S, n)
      BY <3>4 DEF FoldUpTo
    <3> QED
      BY <2>1, <3>5
  <2> QED
    BY <2>2, <2>3
<1>2. Cardinality(S) \in Nat
  BY <1>0
<1>3. UpTo(S, Cardinality(S)) = SUBSET S
  BY FS_Subset DEF UpTo
<1>4. PICK g : FoldUpTo(f, g, S, Cardinality(S))
  BY <1>1, <1>2
<1> QED
  BY <1>3, <1>4 DEF FoldUpTo, IsFold

LEMMA FoldStep ==
    ASSUME NEW f, NEW S, IsFiniteSet(S), NEW s \in SUBSET S
    PROVE  Fold(f, S)[s] = IF s = {} THEN 0 ELSE f[Pick(s)] + Fold(f, S)[s \ {Pick(s)}]
<1>1. IsFold(f, Fold(f, S), S)
  BY FoldExists, Zenon DEF Fold
<1> QED
  BY <1>1 DEF IsFold

(* Two folds agree on the sets both are defined on, if their functions do. *)
LEMMA FoldAgrees ==
    ASSUME NEW f, NEW g, NEW S, IsFiniteSet(S), NEW R \in SUBSET S,
           \A x \in R : f[x] = g[x]
    PROVE  Fold(f, S)[R] = Fold(g, R)[R]
<1> DEFINE Bad == {n \in Nat : \E s \in SUBSET R : /\ Cardinality(s) = n
                                                   /\ Fold(f, S)[s] # Fold(g, R)[s]}
<1>0. IsFiniteSet(R) /\ \A s \in SUBSET R : IsFiniteSet(s) /\ Cardinality(s) \in Nat
  BY FS_Subset, FS_CardinalityType
<1>1. Bad = {}
  <2> SUFFICES ASSUME Bad # {} PROVE FALSE
    OBVIOUS
  <2>1. PICK n \in Bad : \A m \in Bad : n =< m
    BY LeastNat
  <2>2. PICK s \in SUBSET R : Cardinality(s) = n /\ Fold(f, S)[s] # Fold(g, R)[s]
    BY <2>1
  <2>21. s \in SUBSET S
    OBVIOUS
  <2>22. Fold(f, S)[s] = IF s = {} THEN 0 ELSE f[Pick(s)] + Fold(f, S)[s \ {Pick(s)}]
    BY <2>21, FoldStep
  <2>23. Fold(g, R)[s] = IF s = {} THEN 0 ELSE g[Pick(s)] + Fold(g, R)[s \ {Pick(s)}]
    BY <1>0, FoldStep
  <2>3. s # {}
    BY <2>2, <2>22, <2>23
  <2> DEFINE x == Pick(s)
             t == s \ {x}
  <2>4. /\ Fold(f, S)[s] = f[x] + Fold(f, S)[t]
        /\ Fold(g, R)[s] = g[x] + Fold(g, R)[t]
    BY <2>22, <2>23, <2>3
  <2>5. x \in s /\ t \in SUBSET R /\ Cardinality(t) = n - 1 /\ Cardinality(t) \in Nat
    BY <1>0, <2>2, <2>3, PickRemoved
  <2>6. Fold(f, S)[t] # Fold(g, R)[t]
    BY <2>2, <2>4, <2>5
  <2>7. n - 1 \in Bad
    BY <2>5, <2>6
  <2> QED
    BY <2>1, <2>5, <2>7
<1>2. ASSUME NEW s \in SUBSET R PROVE Fold(f, S)[s] = Fold(g, R)[s]
  BY <1>0, <1>1
<1> QED
  BY <1>2

-----------------------------------------------------------------------------
(* What the proofs use. *)

LEMMA SumEmpty == ASSUME NEW f PROVE SumFunctionOnSet(f, {}) = 0
BY SumIsFold, FoldStep, FS_EmptySet

(* Only the values on the set count. *)
LEMMA SumSame ==
    ASSUME NEW f, NEW g, NEW S, IsFiniteSet(S), \A x \in S : f[x] = g[x]
    PROVE  SumFunctionOnSet(f, S) = SumFunctionOnSet(g, S)
BY SumIsFold, FoldAgrees

LEMMA SumPick ==
    ASSUME NEW f, NEW S, IsFiniteSet(S), S # {}
    PROVE  SumFunctionOnSet(f, S) = f[Pick(S)] + SumFunctionOnSet(f, S \ {Pick(S)})
<1>1. Fold(f, S)[S] = f[Pick(S)] + Fold(f, S)[S \ {Pick(S)}]
  BY FoldStep
<1>2. Fold(f, S)[S \ {Pick(S)}] = Fold(f, S \ {Pick(S)})[S \ {Pick(S)}]
  BY FoldAgrees
<1> QED
  BY <1>1, <1>2, SumIsFold

LEMMA SumType ==
    ASSUME NEW f, NEW S, IsFiniteSet(S), \A x \in S : f[x] \in Int
    PROVE  SumFunctionOnSet(f, S) \in Int
<1> DEFINE Bad == {n \in Nat : \E s \in SUBSET S : /\ Cardinality(s) = n
                                                   /\ SumFunctionOnSet(f, s) \notin Int}
<1>0. \A s \in SUBSET S : IsFiniteSet(s) /\ Cardinality(s) \in Nat
  BY FS_Subset, FS_CardinalityType
<1>1. Bad = {}
  <2> SUFFICES ASSUME Bad # {} PROVE FALSE
    OBVIOUS
  <2>1. PICK n \in Bad : \A m \in Bad : n =< m
    BY LeastNat
  <2>2. PICK s \in SUBSET S : Cardinality(s) = n /\ SumFunctionOnSet(f, s) \notin Int
    BY <2>1
  <2>3. s # {}
    BY <2>2, SumEmpty
  <2> DEFINE t == s \ {Pick(s)}
  <2>4. SumFunctionOnSet(f, s) = f[Pick(s)] + SumFunctionOnSet(f, t)
    BY <1>0, <2>3, SumPick
  <2>5. /\ Pick(s) \in s /\ t \in SUBSET S /\ Cardinality(t) = n - 1
        /\ Cardinality(t) \in Nat
    BY <1>0, <2>2, <2>3, PickRemoved
  <2>6. n - 1 \in Bad
    BY <2>2, <2>4, <2>5
  <2> QED
    BY <2>1, <2>5, <2>6
<1> QED
  BY <1>0, <1>1

(* Any element can be taken out first. *)
LEMMA SumRemove ==
    ASSUME NEW f, NEW S, IsFiniteSet(S), \A x \in S : f[x] \in Int, NEW a \in S
    PROVE  SumFunctionOnSet(f, S) = f[a] + SumFunctionOnSet(f, S \ {a})
<1> DEFINE Differs(s, x) ==
             SumFunctionOnSet(f, s) # f[x] + SumFunctionOnSet(f, s \ {x})
           Bad == {n \in Nat : \E s \in SUBSET S : \E x \in s :
                                 Cardinality(s) = n /\ Differs(s, x)}
<1>0. \A s \in SUBSET S : /\ IsFiniteSet(s) /\ Cardinality(s) \in Nat
                          /\ SumFunctionOnSet(f, s) \in Int
  BY FS_Subset, FS_CardinalityType, SumType
<1>1. Bad = {}
  <2> SUFFICES ASSUME Bad # {} PROVE FALSE
    OBVIOUS
  <2>1. PICK n \in Bad : \A m \in Bad : n =< m
    BY LeastNat
  <2>01. PICK s \in SUBSET S : \E x \in s : Cardinality(s) = n /\ Differs(s, x)
    BY <2>1
  <2>2. PICK x \in s : Cardinality(s) = n /\ Differs(s, x)
    BY <2>01
  <2> DEFINE p == Pick(s)
             t == s \ {p}
  <2>3. /\ p \in s /\ t \in SUBSET S /\ Cardinality(t) = n - 1
        /\ Cardinality(t) \in Nat
        /\ SumFunctionOnSet(f, s) = f[p] + SumFunctionOnSet(f, t)
    BY <1>0, <2>2, PickRemoved, SumPick
  <2>4. p # x
    BY <2>2, <2>3
  <2>5. n - 1 \notin Bad
    BY <2>1, <2>3
  <2>6. SumFunctionOnSet(f, t) = f[x] + SumFunctionOnSet(f, t \ {x})
    BY <2>3, <2>4, <2>5
  <2> DEFINE u == s \ {x}
  <2>7. u \in SUBSET S /\ Cardinality(u) = n - 1 /\ p \in u
    BY <1>0, <2>2, <2>3, <2>4, FS_RemoveElement
  <2>8. SumFunctionOnSet(f, u) = f[p] + SumFunctionOnSet(f, u \ {p})
    BY <2>3, <2>5, <2>7
  <2>9. u \ {p} = t \ {x}
    OBVIOUS
  <2>10. /\ f[p] \in Int /\ f[x] \in Int /\ SumFunctionOnSet(f, t \ {x}) \in Int
    BY <1>0, <2>3
  <2>11. SumFunctionOnSet(f, s) = f[p] + (f[x] + SumFunctionOnSet(f, t \ {x}))
    BY <2>3, <2>6
  <2>12. SumFunctionOnSet(f, u) = f[p] + SumFunctionOnSet(f, t \ {x})
    BY <2>8, <2>9
  <2>13. SumFunctionOnSet(f, s) = f[x] + SumFunctionOnSet(f, u)
    BY <2>10, <2>11, <2>12
  <2> QED
    BY <2>2, <2>13
<1> QED
  BY <1>0, <1>1, ZenonT(60)

LEMMA SumAdd ==
    ASSUME NEW f, NEW S, IsFiniteSet(S), NEW a, a \notin S,
           \A x \in S \cup {a} : f[x] \in Int
    PROVE  SumFunctionOnSet(f, S \cup {a}) = f[a] + SumFunctionOnSet(f, S)
<1>1. IsFiniteSet(S \cup {a}) /\ (S \cup {a}) \ {a} = S
  BY FS_AddElement
<1> QED
  BY <1>1, SumRemove

(* ... and any part. *)
LEMMA SumSplit ==
    ASSUME NEW f, NEW S, IsFiniteSet(S), \A x \in S : f[x] \in Int, NEW R \in SUBSET S
    PROVE  SumFunctionOnSet(f, S) = SumFunctionOnSet(f, R) + SumFunctionOnSet(f, S \ R)
<1> DEFINE Fits(r) ==
             SumFunctionOnSet(f, S) = SumFunctionOnSet(f, r) + SumFunctionOnSet(f, S \ r)
           Bad == {n \in Nat : \E r \in SUBSET S : Cardinality(r) = n /\ ~Fits(r)}
<1>0. \A s \in SUBSET S : /\ IsFiniteSet(s) /\ Cardinality(s) \in Nat
                          /\ SumFunctionOnSet(f, s) \in Int
  BY FS_Subset, FS_CardinalityType, SumType
<1>1. Bad = {}
  <2> SUFFICES ASSUME Bad # {} PROVE FALSE
    OBVIOUS
  <2>1. PICK n \in Bad : \A m \in Bad : n =< m
    BY LeastNat
  <2>2. PICK r \in SUBSET S : Cardinality(r) = n /\ ~Fits(r)
    BY <2>1
  <2>3. r # {}
    <3>1. SumFunctionOnSet(f, {}) = 0 /\ S \ {} = S /\ SumFunctionOnSet(f, S) \in Int
      BY <1>0, SumEmpty
    <3>2. SumFunctionOnSet(f, S) = 0 + SumFunctionOnSet(f, S)
      BY <3>1
    <3>3. Fits({})
      BY <3>1, <3>2
    <3> QED
      BY <2>2, <3>3
  <2> DEFINE x == Pick(r)
             q == r \ {x}
  <2>4. /\ x \in r /\ q \in SUBSET S /\ Cardinality(q) = n - 1
        /\ Cardinality(q) \in Nat
        /\ SumFunctionOnSet(f, r) = f[x] + SumFunctionOnSet(f, q)
    BY <1>0, <2>2, <2>3, PickRemoved, SumPick
  <2>5. Fits(q)
    BY <2>1, <2>4
  <2>6. SumFunctionOnSet(f, S \ q) = f[x] + SumFunctionOnSet(f, S \ r)
    <3>1. x \in S \ q /\ (S \ q) \ {x} = S \ r /\ S \ q \in SUBSET S
      BY <2>4
    <3> QED
      BY <1>0, <3>1, SumRemove
  <2>7. /\ f[x] \in Int /\ SumFunctionOnSet(f, q) \in Int
        /\ S \ r \in SUBSET S /\ SumFunctionOnSet(f, S \ r) \in Int
    BY <1>0, <2>4
  <2>8. SumFunctionOnSet(f, S)
           = SumFunctionOnSet(f, q) + (f[x] + SumFunctionOnSet(f, S \ r))
    BY <2>5, <2>6
  <2>9. SumFunctionOnSet(f, S) = SumFunctionOnSet(f, r) + SumFunctionOnSet(f, S \ r)
    <3>1. \A a, b, y \in Int : a + (y + b) = (y + a) + b
      OBVIOUS
    <3>2. SumFunctionOnSet(f, q) + (f[x] + SumFunctionOnSet(f, S \ r))
             = (f[x] + SumFunctionOnSet(f, q)) + SumFunctionOnSet(f, S \ r)
      <4> HIDE DEF q, x
      <4> QED
        BY <2>7, <3>1
    <3>3. (f[x] + SumFunctionOnSet(f, q)) + SumFunctionOnSet(f, S \ r)
             = SumFunctionOnSet(f, r) + SumFunctionOnSet(f, S \ r)
      BY <2>4
    <3> QED
      BY <2>8, <3>2, <3>3
  <2> QED
    BY <2>2, <2>9
<1> QED
  BY <1>0, <1>1

-----------------------------------------------------------------------------
(* The cache. *)

(* What holds of the cache itself.  next is kept for the timer, so they are equal. *)
CacheOK(e) ==
    /\ e \in Cache
    /\ e.next = e._timer
    /\ \A s \in e._cache : e.item[s] \in Item
    /\ \A s, t \in e._cache : e.item[s].key = e.item[t].key => s = t
    /\ e._alive = {s \in e._cache : e.item[s].expiry # 0}
    /\ \A s \in e._alive : e._timer =< e.item[s].expiry
    /\ e._bytes = Sizes(e, e._cache)

(* The connections whose unsent reply refers to the item. *)
Holders(s, rep) == {r \in Conn : rep[r] # None /\ rep[r].slot = s}

(* What holds between the items and the unsent replies. *)
RepliesOK(e, rep) ==
    \A s \in Slot :
        /\ e.item[s].refs = (IF s \in e._cache THEN 1 ELSE 0) + Cardinality(Holders(s, rep))
        /\ \A r \in Holders(s, rep) : /\ e.item[s].key = rep[r].key
                                      /\ e.item[s].data = rep[r].data

(* A chain of versions that is not broken leads from the token to the cached item. *)
TokensOK(e, tok) ==
    \A r \in Conn : tok[r] # None /\ tok[r].stayed =>
        \E s \in e._cache :
            /\ e.item[s].key = tok[r].key
            /\ e.item[s].version >= tok[r].version
            /\ e.item[s].version = tok[r].version => e.item[s].data = tok[r].data

IInv ==
    /\ CacheOK(c)
    /\ flush \in Time /\ now \in 0 .. MaxTime
    /\ reply \in [Conn -> Reply \cup {None}]
    /\ token \in [Conn -> Token \cup {None}]
    /\ RepliesOK(c, reply)
    /\ TokensOK(c, token)

-----------------------------------------------------------------------------
(* Items and sizes. *)

LEMMA ItemTypes ==
    /\ NoItem \notin Item /\ NoItem.refs = 0
    /\ \A i \in Item : /\ i.refs \in 1 .. RefModulus - 1 /\ i.key \in Key /\ i.data \in Data
                       /\ i.version \in 1 .. MaxVersion /\ i.expiry \in Expiry
    /\ \A e \in Cache : \A s \in Slot :
          /\ e.item[s] \in Item \cup {NoItem} /\ e.item[s].refs \in Nat
          /\ e.item[s].refs # 0 => e.item[s] \in Item
          /\ e.item[s].refs = 0 => e.item[s] = NoItem
<1>1. NoItem.refs = 0
  BY DEF NoItem
<1>2. \A i \in Item : /\ i.refs \in 1 .. RefModulus - 1 /\ i.key \in Key /\ i.data \in Data
                      /\ i.version \in 1 .. MaxVersion /\ i.expiry \in Expiry
  BY DEF Item
<1>3. \A e \in Cache : \A s \in Slot : e.item[s] \in Item \cup {NoItem}
  BY DEF Cache
<1>4. 1 .. RefModulus - 1 \subseteq Nat \ {0}
  BY ShardAssumption
<1> QED
  BY <1>1, <1>2, <1>3, <1>4

(* A count that does not wrap. *)
LEMMA InRange ==
    ASSUME NEW n \in 0 .. RefModulus - 1
    PROVE  n % RefModulus = n
BY ShardAssumption

LEMMA SizesSplit ==
    ASSUME NEW e \in Cache, NEW S \in SUBSET Slot, \A s \in S : e.item[s] \in Item,
           NEW R \in SUBSET S
    PROVE  /\ Sizes(e, S \ R) = Sizes(e, S) - Sizes(e, R)
           /\ Sizes(e, S) \in Int /\ Sizes(e, R) \in Int
<1> DEFINE f == [s \in S |-> ItemSize[e.item[s].data]]
<1>1. \A T \in SUBSET S : IsFiniteSet(T) /\ Sizes(e, T) = SumFunctionOnSet(f, T)
  <2> TAKE T \in SUBSET S
  <2>1. IsFiniteSet(T)
    BY ShardAssumption, FS_Subset
  <2>2. \A s \in T : [t \in T |-> ItemSize[e.item[t].data]][s] = f[s]
    OBVIOUS
  <2> QED
    BY <2>1, <2>2, SumSame DEF Sizes
<1>2. \A s \in S : f[s] \in Int
  BY ItemTypes, ShardAssumption
<1>3. \A T \in SUBSET S : SumFunctionOnSet(f, T) \in Int
  BY <1>1, <1>2, SumType
<1>4. SumFunctionOnSet(f, S) = SumFunctionOnSet(f, R) + SumFunctionOnSet(f, S \ R)
  BY <1>1, <1>2, SumSplit
<1> HIDE DEF f
<1>5. S \in SUBSET S /\ R \in SUBSET S /\ S \ R \in SUBSET S
  OBVIOUS
<1> QED
  BY <1>1, <1>3, <1>4, <1>5

(* Only the data of the items counts. *)
LEMMA SizesSame ==
    ASSUME NEW e, NEW f, NEW S \in SUBSET Slot,
           \A s \in S : e.item[s].data = f.item[s].data
    PROVE  Sizes(e, S) = Sizes(f, S)
<1>1. IsFiniteSet(S)
  BY ShardAssumption, FS_Subset
<1>2. \A s \in S : [t \in S |-> ItemSize[e.item[t].data]][s]
                     = [t \in S |-> ItemSize[f.item[t].data]][s]
  OBVIOUS
<1> QED
  BY <1>1, <1>2, SumSame DEF Sizes

LEMMA SizesAdd ==
    ASSUME NEW e \in Cache, NEW S \in SUBSET Slot, NEW n \in Slot, n \notin S,
           \A s \in S \cup {n} : e.item[s] \in Item
    PROVE  Sizes(e, S \cup {n}) = Sizes(e, S) + ItemSize[e.item[n].data]
<1> DEFINE f == [s \in S \cup {n} |-> ItemSize[e.item[s].data]]
<1>1. IsFiniteSet(S)
  BY ShardAssumption, FS_Subset
<1>2. \A s \in S \cup {n} : f[s] \in Int
  BY ItemTypes, ShardAssumption
<1>3. Sizes(e, S \cup {n}) = f[n] + SumFunctionOnSet(f, S)
  BY <1>1, <1>2, SumAdd DEF Sizes
<1>4. \A s \in S : [t \in S |-> ItemSize[e.item[t].data]][s] = f[s]
  OBVIOUS
<1>5. Sizes(e, S) = SumFunctionOnSet(f, S)
  BY <1>1, <1>4, SumSame DEF Sizes
<1>6. f[n] \in Int /\ SumFunctionOnSet(f, S) \in Int
  BY <1>1, <1>2, SumType
<1> QED
  BY <1>3, <1>5, <1>6

-----------------------------------------------------------------------------
(* Erasing and evicting: items leave the cache, and their memory stays with the
   replies that hold it. *)

Drops(e, f, S) ==
    /\ f \in Cache
    /\ f._cache = e._cache \ S /\ f._alive = e._alive \ S
    /\ f._timer = e._timer /\ f.next = e.next
    /\ f._bytes = e._bytes - Sizes(e, S)
    /\ \A s \in Slot :
          f.item[s] = IF s \notin S THEN e.item[s]
                      ELSE IF e.item[s].refs = 1 THEN NoItem
                      ELSE [e.item[s] EXCEPT !.refs = e.item[s].refs - 1]

LEMMA UnlinkFields ==
    ASSUME NEW e \in Cache, CacheOK(e), NEW S \in SUBSET e._cache
    PROVE  LET u == Unlink(e, S)
           IN  /\ u \in Cache /\ u.item = e.item
               /\ u._cache = e._cache \ S /\ u._alive = e._alive \ S
               /\ u._timer = e._timer /\ u.next = e.next
               /\ u._bytes = e._bytes - Sizes(e, S)
<1>1. e._cache \in SUBSET Slot /\ S \in SUBSET Slot /\ \A s \in S : e.item[s] \in Item
  BY DEF Cache, CacheOK
<1> DEFINE b == Sizes(e, S)
<1>2. b \in Int
  BY <1>1, SizesSplit
<1>3. Unlink(e, S) = [e EXCEPT !._cache = @ \ S, !._alive = @ \ S, !._bytes = @ - b]
  BY DEF Unlink
<1> HIDE DEF b
<1> DEFINE u == Unlink(e, S)
<1>4. u = [item |-> e.item, _cache |-> e._cache \ S, _alive |-> e._alive \ S,
           next |-> e.next, _timer |-> e._timer, _bytes |-> e._bytes - b]
  BY <1>3 DEF Cache
<1>5. /\ e.item \in [Slot -> Item \cup {NoItem}] /\ e._cache \in SUBSET Slot
      /\ e._alive \in SUBSET Slot /\ e.next \in Time /\ e._timer \in Time
      /\ e._bytes - b \in Int
  BY <1>2 DEF Cache
<1>6. u \in Cache
  BY <1>4, <1>5 DEF Cache
<1> QED
  BY <1>4, <1>6 DEF b

(* The item that a release leaves. *)
LEMMA ReleasedIs ==
    ASSUME NEW i \in Item
    PROVE  /\ Released(i) = IF i.refs = 1 THEN NoItem ELSE [i EXCEPT !.refs = i.refs - 1]
           /\ Released(i) \in Item \cup {NoItem}
<1>1. i.refs \in 1 .. RefModulus - 1
  BY ItemTypes
<1>2. (i.refs - 1) % RefModulus = i.refs - 1
  <2>1. i.refs - 1 \in 0 .. RefModulus - 1
    BY <1>1, ShardAssumption
  <2> QED
    BY <2>1, InRange
<1>3. Released(i) = IF i.refs = 1 THEN NoItem ELSE [i EXCEPT !.refs = i.refs - 1]
  BY <1>1, <1>2, ShardAssumption DEF Released
<1>4. i.refs # 1 => [i EXCEPT !.refs = i.refs - 1] \in Item
  BY <1>1, ShardAssumption DEF Item
<1> QED
  BY <1>3, <1>4

LEMMA EraseDrops ==
    ASSUME NEW e, CacheOK(e), NEW s \in e._cache
    PROVE  Drops(e, erase(e, s), {s})
<1> DEFINE u == Unlink(e, {s})
           f == erase(e, s)
<1>1. e \in Cache /\ s \in Slot /\ e.item[s] \in Item
  BY DEF CacheOK, Cache
<1>2. /\ u \in Cache /\ u.item = e.item
      /\ u._cache = e._cache \ {s} /\ u._alive = e._alive \ {s}
      /\ u._timer = e._timer /\ u.next = e.next
      /\ u._bytes = e._bytes - Sizes(e, {s})
  BY <1>1, UnlinkFields
<1>3. f = intrusive_ptr_release(u, s)
  BY DEF erase
<1> HIDE DEF u, f
<1>4. f = [u EXCEPT !.item = [u.item EXCEPT ![s] = Released(e.item[s])]]
  BY <1>2, <1>3 DEF intrusive_ptr_release
<1>5. /\ f.item = [e.item EXCEPT ![s] = Released(e.item[s])]
      /\ f \in Cache
      /\ f._cache = u._cache /\ f._alive = u._alive /\ f._timer = u._timer
      /\ f.next = u.next /\ f._bytes = u._bytes
  BY <1>1, <1>2, <1>4, ReleasedIs DEF Cache
<1>6. \A t \in Slot : f.item[t] = IF t = s THEN Released(e.item[t]) ELSE e.item[t]
  BY <1>1, <1>5 DEF Cache
<1>7. Released(e.item[s]) = IF e.item[s].refs = 1 THEN NoItem
                            ELSE [e.item[s] EXCEPT !.refs = e.item[s].refs - 1]
  BY <1>1, ReleasedIs
<1> QED
  BY <1>1, <1>2, <1>5, <1>6, <1>7 DEF Drops, f

LEMMA EraseAllDrops ==
    ASSUME NEW e, CacheOK(e), NEW S \in SUBSET e._cache
    PROVE  Drops(e, EraseAll(e, S), S)
<1> DEFINE u == Unlink(e, S)
           f == EraseAll(e, S)
           new == [s \in Slot |-> IF s \in S THEN Released(e.item[s]) ELSE e.item[s]]
<1>1. e \in Cache /\ \A s \in S : e.item[s] \in Item
  BY DEF CacheOK
<1>2. /\ u \in Cache /\ u.item = e.item
      /\ u._cache = e._cache \ S /\ u._alive = e._alive \ S
      /\ u._timer = e._timer /\ u.next = e.next
      /\ u._bytes = e._bytes - Sizes(e, S)
  BY <1>1, UnlinkFields
<1>3. f = [u EXCEPT !.item = new]
  BY <1>2 DEF EraseAll
<1>4. new \in [Slot -> Item \cup {NoItem}]
  BY <1>1, ItemTypes, ReleasedIs
<1> HIDE DEF u, f
<1>5. /\ f.item = new /\ f \in Cache
      /\ f._cache = u._cache /\ f._alive = u._alive /\ f._timer = u._timer
      /\ f.next = u.next /\ f._bytes = u._bytes
  BY <1>2, <1>3, <1>4 DEF Cache
<1>6. \A s \in S : Released(e.item[s]) = IF e.item[s].refs = 1 THEN NoItem
                                          ELSE [e.item[s] EXCEPT !.refs = e.item[s].refs - 1]
  BY <1>1, ReleasedIs
<1> QED
  BY <1>2, <1>5, <1>6 DEF Drops, f

LEMMA EvictDrops ==
    ASSUME ~EvictErased, NEW e, CacheOK(e), NEW S \in SUBSET Evictable(e)
    PROVE  S \subseteq e._cache /\ Drops(e, Evict(e, S), S)
<1> DEFINE u == Unlink(e, S)
           f == Evict(e, S)
           new == [s \in Slot |-> IF s \in S THEN NoItem ELSE e.item[s]]
<1>1. e \in Cache /\ S \subseteq e._cache /\ \A s \in S : e.item[s].refs = 1
  BY DEF CacheOK, Evictable
<1>2. /\ u \in Cache /\ u.item = e.item
      /\ u._cache = e._cache \ S /\ u._alive = e._alive \ S
      /\ u._timer = e._timer /\ u.next = e.next
      /\ u._bytes = e._bytes - Sizes(e, S)
  BY <1>1, UnlinkFields
<1>3. f = [u EXCEPT !.item = new]
  BY <1>2 DEF Evict
<1>4. new \in [Slot -> Item \cup {NoItem}]
  BY <1>1, ItemTypes
<1> HIDE DEF u, f
<1>5. /\ f.item = new /\ f \in Cache
      /\ f._cache = u._cache /\ f._alive = u._alive /\ f._timer = u._timer
      /\ f.next = u.next /\ f._bytes = u._bytes
  BY <1>2, <1>3, <1>4 DEF Cache
<1> QED
  BY <1>1, <1>2, <1>5 DEF Drops, f

(* Nothing is written: what is left in the cache is as it was. *)
Shrinks(e, f) ==
    /\ f._cache \subseteq e._cache
    /\ \A s \in f._cache : /\ f.item[s].key = e.item[s].key
                           /\ f.item[s].version = e.item[s].version
                           /\ f.item[s].data = e.item[s].data

LEMMA DropsOK ==
    ASSUME NEW e, NEW f, CacheOK(e), NEW S \in SUBSET e._cache, Drops(e, f, S)
    PROVE  CacheOK(f) /\ Shrinks(e, f)
<1>1. /\ f \in Cache /\ e \in Cache /\ e._cache \in SUBSET Slot
      /\ f._cache = e._cache \ S
      /\ \A s \in f._cache : f.item[s] = e.item[s]
  BY DEF Drops, CacheOK, Cache
<1>2. f._bytes = Sizes(f, f._cache)
  <2>1. Sizes(e, e._cache \ S) = Sizes(e, e._cache) - Sizes(e, S)
    BY <1>1, SizesSplit DEF CacheOK
  <2>2. Sizes(f, f._cache) = Sizes(e, f._cache)
    BY <1>1, SizesSame
  <2> QED
    BY <1>1, <2>1, <2>2 DEF Drops, CacheOK
<1> QED
  BY <1>1, <1>2 DEF Drops, CacheOK, Shrinks

LEMMA DropsReplies ==
    ASSUME NEW e, NEW f, CacheOK(e), NEW S \in SUBSET e._cache, Drops(e, f, S),
           NEW rep, RepliesOK(e, rep)
    PROVE  RepliesOK(f, rep)
<1> SUFFICES ASSUME NEW s \in Slot
             PROVE  /\ f.item[s].refs = (IF s \in f._cache THEN 1 ELSE 0)
                                          + Cardinality(Holders(s, rep))
                    /\ \A r \in Holders(s, rep) : /\ f.item[s].key = rep[r].key
                                                  /\ f.item[s].data = rep[r].data
  BY DEF RepliesOK
<1>0. IsFiniteSet(Holders(s, rep)) /\ Cardinality(Holders(s, rep)) \in Nat
  <2>1. Holders(s, rep) \subseteq Conn
    BY DEF Holders
  <2> QED
    BY <2>1, ShardAssumption, FS_Subset, FS_CardinalityType
<1>1. CASE s \notin S
  <2>1. f.item[s] = e.item[s] /\ (s \in f._cache <=> s \in e._cache)
    BY <1>1 DEF Drops
  <2> QED
    BY <2>1 DEF RepliesOK
<1>2. CASE s \in S /\ e.item[s].refs = 1
  <2>0. s \in e._cache /\ f.item[s].refs = 0
    BY <1>2, ItemTypes DEF Drops
  <2>1. Cardinality(Holders(s, rep)) = 0 /\ f.item[s].refs = 0
    BY <1>0, <1>2, <2>0 DEF RepliesOK
  <2>2. Holders(s, rep) = {}
    BY <1>0, <2>1, FS_EmptySet
  <2> QED
    BY <1>2, <2>1, <2>2 DEF Drops
<1>3. CASE s \in S /\ e.item[s].refs # 1
  <2>1. e.item[s] \in Item /\ f.item[s] = [e.item[s] EXCEPT !.refs = @ - 1]
    BY <1>3 DEF Drops, CacheOK
  <2>2. /\ f.item[s].refs = e.item[s].refs - 1 /\ f.item[s].key = e.item[s].key
        /\ f.item[s].data = e.item[s].data
    BY <2>1 DEF Item
  <2> QED
    BY <1>0, <1>3, <2>1, <2>2 DEF Drops, RepliesOK
<1> QED
  BY <1>1, <1>2, <1>3

-----------------------------------------------------------------------------
(* Making room and inserting. *)

LEMMA ShrinksTwice ==
    ASSUME NEW e, NEW f, NEW g, Shrinks(e, f), Shrinks(f, g)
    PROVE  Shrinks(e, g)
BY DEF Shrinks

LEMMA RoomOK ==
    ASSUME ~EvictErased, NEW e, CacheOK(e), NEW rep, RepliesOK(e, rep), NEW r \in Room(e)
    PROVE  CacheOK(r) /\ RepliesOK(r, rep) /\ Shrinks(e, r) /\ Free(r) # {}
<1>1. CASE Free(e) # {}
  BY <1>1 DEF Room, Shrinks
<1>2. CASE Free(e) = {}
  <2>1. PICK S \in (SUBSET Evictable(e)) \ {{}} : r = Evict(e, S)
    BY <1>2 DEF Room
  <2>2. S \subseteq e._cache /\ Drops(e, r, S)
    BY <2>1, EvictDrops
  <2>3. PICK s \in S : s \in Slot /\ e.item[s].refs = 1
    BY <2>1 DEF Evictable
  <2>4. r.item[s] = NoItem
    BY <2>2, <2>3 DEF Drops
  <2> QED
    BY <2>2, <2>3, <2>4, DropsOK, DropsReplies DEF Free
<1> QED
  BY <1>1, <1>2

(* A new item of the key is all that is written. *)
Stores(e, f, k, d, v) ==
    \E n \in f._cache :
        /\ f.item[n].key = k /\ f.item[n].data = d /\ f.item[n].version = v
        /\ \A s \in f._cache \ {n} :
              /\ s \in e._cache /\ e.item[s].key # k
              /\ f.item[s].key = e.item[s].key
              /\ f.item[s].version = e.item[s].version
              /\ f.item[s].data = e.item[s].data

(* Insert writes i to the free chunk n. *)
InsertsAt(e, f, n, i) ==
    /\ f \in Cache
    /\ f.item = [e.item EXCEPT ![n] = i]
    /\ f._cache = e._cache \cup {n}
    /\ f._bytes = e._bytes + ItemSize[i.data]
    /\ f._alive = IF i.expiry = 0 THEN e._alive ELSE e._alive \cup {n}
    /\ IF i.expiry # 0 /\ i.expiry < e.next
       THEN f.next = i.expiry /\ f._timer = i.expiry
       ELSE f.next = e.next /\ f._timer = e._timer

LEMMA InsertFields ==
    ASSUME NEW e, e \in Cache, Free(e) # {}, NEW k \in Key, NEW d \in Data,
           NEW x \in Expiry, NEW v \in 1 .. MaxVersion
    PROVE  \E n \in Free(e) :
              InsertsAt(e, Insert(e, k, d, x, v), n,
                        [key |-> k, version |-> v, data |-> d, expiry |-> x, refs |-> 1])
<1> DEFINE n == CHOOSE s \in Free(e) : TRUE
           i == [key |-> k, version |-> v, data |-> d, expiry |-> x, refs |-> 1]
           g == [e EXCEPT !.item[n] = i, !._cache = @ \cup {n}, !._bytes = @ + ItemSize[d]]
           f == Insert(e, k, d, x, v)
<1>1. n \in Free(e)
  BY Zenon
<1>2. f = Arm(g, n, x)
  BY DEF Insert
<1>3. i \in Item /\ n \in Slot /\ i.data = d /\ i.expiry = x
  BY <1>1, ShardAssumption DEF Item, Free
<1> HIDE DEF n, i
<1>4. /\ e.item \in [Slot -> Item \cup {NoItem}] /\ e._cache \in SUBSET Slot
      /\ e._alive \in SUBSET Slot /\ e.next \in Time /\ e._timer \in Time
      /\ e._bytes + ItemSize[d] \in Int
  BY ShardAssumption DEF Cache
<1>5. g = [item |-> [e.item EXCEPT ![n] = i], _cache |-> e._cache \cup {n},
           _alive |-> e._alive, next |-> e.next, _timer |-> e._timer,
           _bytes |-> e._bytes + ItemSize[d]]
  <2>1. g = [e EXCEPT !.item = [e.item EXCEPT ![n] = i], !._cache = e._cache \cup {n},
                      !._bytes = e._bytes + ItemSize[d]]
    OBVIOUS
  <2> HIDE DEF g
  <2> QED
    BY <2>1 DEF Cache
<1>6. g \in Cache
  BY <1>3, <1>4, <1>5 DEF Cache
<1> HIDE DEF g, f
<1>7. /\ g.item = [e.item EXCEPT ![n] = i] /\ g._cache = e._cache \cup {n}
      /\ g._alive = e._alive /\ g.next = e.next /\ g._timer = e._timer
      /\ g._bytes = e._bytes + ItemSize[d]
  BY <1>5
<1>8. x \in Int /\ e.next \in Int /\ (x # 0 => x \in Time)
  BY <1>4, ShardAssumption DEF Expiry, Time
<1> SUFFICES InsertsAt(e, f, n, i)
  BY <1>1 DEF f, i
<1>9. CASE x = 0
  BY <1>1, <1>2, <1>3, <1>6, <1>7, <1>9 DEF Arm, InsertsAt
<1>10. CASE x # 0 /\ x < e.next
  <2>1. f = [[g EXCEPT !._alive = @ \cup {n}] EXCEPT !.next = x, !._timer = x]
    BY <1>2, <1>7, <1>10 DEF Arm
  <2>2. /\ f \in Cache /\ f.item = g.item /\ f._cache = g._cache /\ f._bytes = g._bytes
        /\ f._alive = g._alive \cup {n} /\ f.next = x /\ f._timer = x
    BY <1>3, <1>6, <1>8, <1>10, <2>1 DEF Cache
  <2> QED
    BY <1>1, <1>3, <1>7, <1>10, <2>2 DEF InsertsAt
<1>11. CASE x # 0 /\ ~(x < e.next)
  <2>1. f = [g EXCEPT !._alive = @ \cup {n}]
    BY <1>2, <1>7, <1>11 DEF Arm
  <2>2. /\ f \in Cache /\ f.item = g.item /\ f._cache = g._cache /\ f._bytes = g._bytes
        /\ f._alive = g._alive \cup {n} /\ f.next = g.next /\ f._timer = g._timer
    BY <1>3, <1>6, <2>1 DEF Cache
  <2> QED
    BY <1>1, <1>3, <1>7, <1>11, <2>2 DEF InsertsAt
<1> QED
  BY <1>9, <1>10, <1>11

LEMMA InsertOK ==
    ASSUME NEW e, CacheOK(e), NEW rep, RepliesOK(e, rep), Free(e) # {},
           NEW k \in Key, find(e, k) = {},
           NEW d \in Data, NEW x \in Expiry, NEW v \in 1 .. MaxVersion
    PROVE  LET f == Insert(e, k, d, x, v)
           IN  CacheOK(f) /\ RepliesOK(f, rep) /\ Stores(e, f, k, d, v)
<1> DEFINE f == Insert(e, k, d, x, v)
           i == [key |-> k, version |-> v, data |-> d, expiry |-> x, refs |-> 1]
<1>1. e \in Cache /\ e._cache \in SUBSET Slot /\ e.next = e._timer /\ e.next \in Time
  BY DEF CacheOK, Cache
<1>3. i \in Item /\ i.key = k /\ i.data = d /\ i.version = v /\ i.expiry = x /\ i.refs = 1
  BY ShardAssumption DEF Item
<1>0. PICK n \in Free(e) : InsertsAt(e, f, n, i)
  BY <1>1, InsertFields
<1> HIDE DEF f, i
<1>2. /\ f \in Cache /\ f.item = [e.item EXCEPT ![n] = i]
      /\ f._cache = e._cache \cup {n} /\ f._bytes = e._bytes + ItemSize[d]
      /\ f._alive = IF x = 0 THEN e._alive ELSE e._alive \cup {n}
      /\ IF x # 0 /\ x < e.next THEN f.next = x /\ f._timer = x
                                ELSE f.next = e.next /\ f._timer = e._timer
  BY <1>0, <1>3 DEF InsertsAt
<1>4. n \in Slot /\ e.item[n].refs = 0 /\ n \notin e._cache
  BY <1>2, ItemTypes DEF Free, CacheOK
<1>5. f.item[n] = i /\ \A s \in Slot : s # n => f.item[s] = e.item[s]
  BY <1>1, <1>2, <1>4 DEF Cache
<1>6. \A s \in f._cache : f.item[s] \in Item /\ (s = n \/ s \in e._cache)
  BY <1>1, <1>2, <1>3, <1>4, <1>5 DEF CacheOK
<1>7. \A s \in e._cache : f.item[s] = e.item[s] /\ e.item[s].key # k
  BY <1>1, <1>4, <1>5 DEF find
<1>8. f._bytes = Sizes(f, f._cache)
  <2>1. Sizes(f, e._cache \cup {n}) = Sizes(f, e._cache) + ItemSize[f.item[n].data]
    BY <1>1, <1>2, <1>4, <1>6, SizesAdd, ZenonT(60)
  <2>2. Sizes(f, e._cache) = Sizes(e, e._cache)
    BY <1>1, <1>7, SizesSame
  <2> QED
    BY <1>2, <1>3, <1>5, <2>1, <2>2 DEF CacheOK
<1>9. /\ f._alive = {s \in f._cache : f.item[s].expiry # 0}
      /\ f.next = f._timer
  BY <1>1, <1>2, <1>3, <1>4, <1>5, <1>7 DEF CacheOK
<1>10. \A s \in f._alive : f._timer =< f.item[s].expiry
  <2>1. x \in Int /\ e._timer \in Int
    BY <1>1, ShardAssumption DEF Expiry, Time
  <2>2. \A s \in e._alive : s \in e._cache /\ e.item[s].expiry \in Int
    BY ItemTypes, ShardAssumption DEF CacheOK, Expiry
  <2>3. \A s \in e._alive : f._timer =< f.item[s].expiry
    BY <1>1, <1>2, <1>7, <2>1, <2>2 DEF CacheOK
  <2>4. x # 0 => f._timer =< f.item[n].expiry
    BY <1>1, <1>2, <1>3, <1>5, <2>1
  <2> QED
    BY <1>2, <2>3, <2>4
<1>11. CacheOK(f)
  <2>1. \A s, t \in f._cache : f.item[s].key = f.item[t].key => s = t
    BY <1>3, <1>5, <1>6, <1>7 DEF CacheOK
  <2> QED
    BY <1>2, <1>6, <1>8, <1>9, <1>10, <2>1 DEF CacheOK
<1>12. RepliesOK(f, rep)
  <2> SUFFICES ASSUME NEW s \in Slot
               PROVE  /\ f.item[s].refs = (IF s \in f._cache THEN 1 ELSE 0)
                                            + Cardinality(Holders(s, rep))
                      /\ \A r \in Holders(s, rep) : /\ f.item[s].key = rep[r].key
                                                    /\ f.item[s].data = rep[r].data
    BY DEF RepliesOK
  <2>1. CASE s # n
    <3>1. f.item[s] = e.item[s] /\ (s \in f._cache <=> s \in e._cache)
      BY <1>2, <1>5, <2>1
    <3> QED
      BY <3>1 DEF RepliesOK
  <2>2. CASE s = n
    <3>1. IsFiniteSet(Holders(s, rep)) /\ Cardinality(Holders(s, rep)) \in Nat
      <4>1. Holders(s, rep) \subseteq Conn
        BY DEF Holders
      <4> QED
        BY <4>1, ShardAssumption, FS_Subset, FS_CardinalityType
    <3>2. Cardinality(Holders(s, rep)) = 0
      BY <1>4, <2>2, <3>1 DEF RepliesOK
    <3>3. Holders(s, rep) = {}
      BY <3>1, <3>2, FS_EmptySet
    <3> QED
      BY <1>2, <1>3, <1>5, <2>2, <3>2, <3>3
  <2> QED
    BY <2>1, <2>2
<1>13. Stores(e, f, k, d, v)
  BY <1>2, <1>3, <1>5, <1>6, <1>7 DEF Stores
<1> QED
  BY <1>11, <1>12, <1>13 DEF f

LEMMA StoresAfterShrink ==
    ASSUME NEW e, NEW r, NEW f, NEW k, NEW d, NEW v, Shrinks(e, r), Stores(r, f, k, d, v)
    PROVE  Stores(e, f, k, d, v)
BY DEF Shrinks, Stores

LEMMA AddNewOK ==
    ASSUME ~EvictErased, NEW e, CacheOK(e), NEW rep, RepliesOK(e, rep),
           NEW k \in Key, find(e, k) = {}, NEW d \in Data, NEW x \in Expiry,
           NEW v \in 1 .. MaxVersion,
           NEW f, (\E r \in Room(e) : f = Insert(r, k, d, x, v)) \/ (Fails(e) /\ f = e)
    PROVE  /\ CacheOK(f) /\ RepliesOK(f, rep)
           /\ Shrinks(e, f) \/ Stores(e, f, k, d, v)
<1>1. CASE f = e
  BY <1>1 DEF Shrinks
<1>2. ASSUME NEW r \in Room(e), f = Insert(r, k, d, x, v)
      PROVE  /\ CacheOK(f) /\ RepliesOK(f, rep) /\ Stores(e, f, k, d, v)
  <2>1. CacheOK(r) /\ RepliesOK(r, rep) /\ Shrinks(e, r) /\ Free(r) # {}
    BY RoomOK
  <2>2. find(r, k) = {}
    BY <2>1 DEF find, Shrinks
  <2>3. CacheOK(f) /\ RepliesOK(f, rep) /\ Stores(r, f, k, d, v)
    BY <1>2, <2>1, <2>2, InsertOK
  <2> QED
    BY <2>1, <2>3, StoresAfterShrink
<1> QED
  BY <1>1, <1>2

LEMMA OverridingOK ==
    ASSUME ~EvictErased, NEW e, CacheOK(e), NEW rep, RepliesOK(e, rep),
           NEW s \in e._cache, e.item[s].version < MaxVersion,
           NEW d \in Data, NEW x \in Expiry, NEW f \in add_overriding(e, s, d, x)
    PROVE  /\ CacheOK(f) /\ RepliesOK(f, rep)
           /\ Shrinks(e, f) \/ Stores(e, f, e.item[s].key, d, e.item[s].version + 1)
<1> DEFINE u == erase(e, s)
           k == e.item[s].key
           v == e.item[s].version + 1
<1>1. k \in Key /\ v \in 1 .. MaxVersion
  BY ItemTypes, ShardAssumption DEF CacheOK
<1>2. Drops(e, u, {s})
  BY EraseDrops
<1>3. CacheOK(u) /\ RepliesOK(u, rep) /\ Shrinks(e, u)
  BY <1>2, DropsOK, DropsReplies
<1>4. find(u, k) = {}
  BY <1>2, <1>3 DEF Drops, Shrinks, find, CacheOK
<1>5. (\E r \in Room(u) : f = Insert(r, k, d, x, v)) \/ (Fails(u) /\ f = u)
  BY DEF add_overriding
<1> HIDE DEF u, k, v
<1>6. CacheOK(f) /\ RepliesOK(f, rep) /\ (Shrinks(u, f) \/ Stores(u, f, k, d, v))
  BY <1>1, <1>3, <1>4, <1>5, AddNewOK
<1>7. Shrinks(e, f) \/ Stores(e, f, k, d, v)
  BY <1>3, <1>6, ShrinksTwice, StoresAfterShrink
<1> QED
  BY <1>6, <1>7 DEF k, v

-----------------------------------------------------------------------------
(* Taking and releasing a reference for a reply. *)

LEMMA HoldersFinite ==
    ASSUME NEW s, NEW rep
    PROVE  IsFiniteSet(Holders(s, rep)) /\ Cardinality(Holders(s, rep)) \in Nat
<1>1. Holders(s, rep) \subseteq Conn
  BY DEF Holders
<1> QED
  BY <1>1, ShardAssumption, FS_Subset, FS_CardinalityType

LEMMA AddRefOK ==
    ASSUME NEW e, CacheOK(e), NEW rep \in [Conn -> Reply \cup {None}], RepliesOK(e, rep),
           NEW s \in e._cache, NEW r \in Conn, rep[r] = None, HoldersFit, NEW new,
           new = [rep EXCEPT ![r] = [slot |-> s, key |-> e.item[s].key,
                                     data |-> e.item[s].data]]
    PROVE  LET f == intrusive_ptr_add_ref(e, s)
           IN  /\ CacheOK(f) /\ RepliesOK(f, new) /\ new \in [Conn -> Reply \cup {None}]
               /\ Shrinks(e, f) /\ f._cache = e._cache
<1> DEFINE f == intrusive_ptr_add_ref(e, s)
           i == [e.item[s] EXCEPT !.refs = (e.item[s].refs + 1) % RefModulus]
           w == [slot |-> s, key |-> e.item[s].key, data |-> e.item[s].data]
<1>1. e \in Cache /\ s \in Slot /\ e.item[s] \in Item
  BY DEF CacheOK, Cache
<1>1a. e.item[s].refs + 1 \in 1 .. RefModulus - 1
  <2>1. e.item[s].refs = 1 + Cardinality(Holders(s, rep))
    BY <1>1 DEF RepliesOK
  <2>2. Holders(s, rep) \subseteq Conn
    BY DEF Holders
  <2>3. Cardinality(Holders(s, rep)) =< Cardinality(Conn) /\ Cardinality(Conn) \in Nat
    BY <2>2, ShardAssumption, FS_Subset, FS_CardinalityType
  <2>4. Cardinality(Conn) + 1 < RefModulus /\ r \notin Holders(s, rep)
    BY DEF HoldersFit, Holders
  <2>5. Cardinality(Holders(s, rep)) # Cardinality(Conn)
    BY <2>2, <2>4, ShardAssumption, FS_Subset
  <2> QED
    BY <2>1, <2>3, <2>4, <2>5, HoldersFinite, ShardAssumption
<1>1b. (e.item[s].refs + 1) % RefModulus = e.item[s].refs + 1
  BY <1>1a, InRange, ShardAssumption
<1>2. /\ i \in Item /\ i.refs = e.item[s].refs + 1 /\ i.key = e.item[s].key
      /\ i.data = e.item[s].data /\ i.version = e.item[s].version
      /\ i.expiry = e.item[s].expiry
  BY <1>1, <1>1a, <1>1b DEF Item
<1>3. f = [e EXCEPT !.item = [e.item EXCEPT ![s] = i]]
  BY DEF intrusive_ptr_add_ref
<1>4. w \in Reply /\ w # None /\ w.slot = s /\ w.key = e.item[s].key /\ w.data = e.item[s].data
  BY <1>1, ItemTypes, NoneAssumption DEF Reply
<1> HIDE DEF f, i, w
<1>5. /\ f \in Cache /\ f.item = [e.item EXCEPT ![s] = i]
      /\ f._cache = e._cache /\ f._alive = e._alive /\ f.next = e.next
      /\ f._timer = e._timer /\ f._bytes = e._bytes
  BY <1>1, <1>2, <1>3 DEF Cache
<1>6. f.item[s] = i /\ \A t \in Slot : t # s => f.item[t] = e.item[t]
  BY <1>1, <1>5 DEF Cache
<1>7. \A t \in Slot : f.item[t] = e.item[t] \/ (t = s /\ f.item[t] = i)
  BY <1>6
<1>8. CacheOK(f)
  <2>1. \A t \in e._cache : /\ f.item[t] \in Item /\ f.item[t].key = e.item[t].key
                            /\ f.item[t].expiry = e.item[t].expiry
                            /\ f.item[t].data = e.item[t].data
    BY <1>1, <1>2, <1>7 DEF CacheOK, Cache
  <2>2. Sizes(f, f._cache) = Sizes(e, e._cache)
    BY <1>1, <1>5, <2>1, SizesSame DEF Cache
  <2>3. f._alive = {t \in f._cache : f.item[t].expiry # 0} /\ e._alive \subseteq e._cache
    BY <1>5, <2>1 DEF CacheOK
  <2> QED
    BY <1>5, <2>1, <2>2, <2>3 DEF CacheOK
<1>9. new \in [Conn -> Reply \cup {None}] /\ new[r] = w
      /\ \A q \in Conn : q # r => new[q] = rep[q]
  BY <1>4 DEF w
<1>10. RepliesOK(f, new)
  <2> SUFFICES ASSUME NEW t \in Slot
               PROVE  /\ f.item[t].refs = (IF t \in f._cache THEN 1 ELSE 0)
                                            + Cardinality(Holders(t, new))
                      /\ \A q \in Holders(t, new) : /\ f.item[t].key = new[q].key
                                                    /\ f.item[t].data = new[q].data
    BY DEF RepliesOK
  <2>1. CASE t # s
    <3>1. Holders(t, new) = Holders(t, rep) /\ \A q \in Holders(t, rep) : new[q] = rep[q]
      BY <1>4, <1>9, <2>1 DEF Holders
    <3>2. f.item[t] = e.item[t] /\ (t \in f._cache <=> t \in e._cache)
      BY <1>5, <1>6, <2>1
    <3>3. /\ e.item[t].refs = (IF t \in e._cache THEN 1 ELSE 0) + Cardinality(Holders(t, rep))
          /\ \A q \in Holders(t, rep) : /\ e.item[t].key = rep[q].key
                                        /\ e.item[t].data = rep[q].data
      BY DEF RepliesOK
    <3> QED
      BY <3>1, <3>2, <3>3
  <2>2. CASE t = s
    <3>1. Holders(s, new) = Holders(s, rep) \cup {r} /\ r \notin Holders(s, rep)
      BY <1>4, <1>9 DEF Holders
    <3>2. Cardinality(Holders(s, new)) = Cardinality(Holders(s, rep)) + 1
      BY <3>1, HoldersFinite, FS_AddElement
    <3>3. \A q \in Holders(s, rep) : new[q] = rep[q]
      BY <1>9, <3>1 DEF Holders
    <3>4. e.item[s].refs = 1 + Cardinality(Holders(s, rep))
      BY <1>1 DEF RepliesOK
    <3>5. f.item[s].refs = 1 + Cardinality(Holders(s, new))
      BY <1>2, <1>6, <3>2, <3>4, HoldersFinite
    <3>6. \A q \in Holders(s, new) : /\ f.item[s].key = new[q].key
                                     /\ f.item[s].data = new[q].data
      BY <1>1, <1>2, <1>4, <1>6, <1>9, <3>1, <3>3 DEF RepliesOK
    <3> QED
      BY <1>5, <2>2, <3>5, <3>6
  <2> QED
    BY <2>1, <2>2
<1>11. Shrinks(e, f)
  BY <1>1, <1>2, <1>5, <1>7 DEF Shrinks, Cache
<1> QED
  BY <1>5, <1>8, <1>9, <1>10, <1>11 DEF f

LEMMA ReleaseOK ==
    ASSUME NEW e, CacheOK(e), NEW rep \in [Conn -> Reply \cup {None}], RepliesOK(e, rep),
           NEW r \in Conn, rep[r] # None, NEW new, new = [rep EXCEPT ![r] = None]
    PROVE  LET f == intrusive_ptr_release(e, rep[r].slot)
           IN  /\ CacheOK(f) /\ RepliesOK(f, new) /\ new \in [Conn -> Reply \cup {None}]
               /\ Shrinks(e, f) /\ f._cache = e._cache
<1> DEFINE s == rep[r].slot
           f == intrusive_ptr_release(e, s)
           i == Released(e.item[s])
<1>1. e \in Cache /\ s \in Slot /\ r \in Holders(s, rep)
  BY DEF CacheOK, Reply, Holders
<1> HIDE DEF s
<1>2. /\ new \in [Conn -> Reply \cup {None}] /\ new[r] = None
      /\ \A q \in Conn : q # r => new[q] = rep[q]
  OBVIOUS
<1>3. /\ Holders(s, new) = Holders(s, rep) \ {r}
      /\ Cardinality(Holders(s, new)) = Cardinality(Holders(s, rep)) - 1
      /\ Cardinality(Holders(s, new)) \in Nat
  <2>1. Holders(s, new) = Holders(s, rep) \ {r}
    BY <1>2 DEF Holders
  <2> QED
    BY <1>1, <2>1, HoldersFinite, FS_RemoveElement, ZenonT(60)
<1>4. e.item[s].refs = (IF s \in e._cache THEN 1 ELSE 0) + Cardinality(Holders(s, new)) + 1
  BY <1>1, <1>3, HoldersFinite DEF RepliesOK
<1>5. e.item[s] \in Item
  BY <1>1, <1>3, <1>4, ItemTypes
<1>6. f = [e EXCEPT !.item = [e.item EXCEPT ![s] = i]]
  BY DEF intrusive_ptr_release
<1>7. /\ i \in Item \cup {NoItem} /\ i.refs = e.item[s].refs - 1
      /\ i.refs # 0 => /\ i \in Item /\ i.key = e.item[s].key
                       /\ i.data = e.item[s].data /\ i.version = e.item[s].version
                       /\ i.expiry = e.item[s].expiry
  <2>0. /\ i = IF e.item[s].refs = 1 THEN NoItem
                ELSE [e.item[s] EXCEPT !.refs = e.item[s].refs - 1]
        /\ i \in Item \cup {NoItem}
    BY <1>5, ReleasedIs
  <2> HIDE DEF i
  <2>1. CASE e.item[s].refs = 1
    BY <2>0, <2>1, ItemTypes
  <2>2. CASE e.item[s].refs # 1
    BY <1>5, <2>0, <2>2, ItemTypes DEF Item
  <2> QED
    BY <2>1, <2>2
<1> HIDE DEF f, i
<1>8. /\ f \in Cache /\ f.item = [e.item EXCEPT ![s] = i]
      /\ f._cache = e._cache /\ f._alive = e._alive /\ f.next = e.next
      /\ f._timer = e._timer /\ f._bytes = e._bytes
  BY <1>1, <1>6, <1>7 DEF Cache
<1>9. f.item[s] = i /\ \A t \in Slot : t # s => f.item[t] = e.item[t]
  BY <1>1, <1>8 DEF Cache
<1>10. s \in e._cache => i.refs # 0
  BY <1>3, <1>4, <1>7
<1>11. CacheOK(f) /\ Shrinks(e, f)
  <2>1. \A t \in e._cache : /\ f.item[t] \in Item /\ f.item[t].key = e.item[t].key
                            /\ f.item[t].expiry = e.item[t].expiry
                            /\ f.item[t].data = e.item[t].data
                            /\ f.item[t].version = e.item[t].version
    <3>1. \A t \in e._cache : t \in Slot /\ e.item[t] \in Item
      BY DEF CacheOK, Cache
    <3> QED
      BY <1>7, <1>9, <1>10, <3>1
  <2>2. Sizes(f, f._cache) = Sizes(e, e._cache)
    BY <1>1, <1>8, <2>1, SizesSame DEF Cache
  <2>3. f._alive = {t \in f._cache : f.item[t].expiry # 0} /\ e._alive \subseteq e._cache
    BY <1>8, <2>1 DEF CacheOK
  <2> QED
    BY <1>8, <2>1, <2>2, <2>3 DEF CacheOK, Shrinks
<1>12. RepliesOK(f, new)
  <2> SUFFICES ASSUME NEW t \in Slot
               PROVE  /\ f.item[t].refs = (IF t \in f._cache THEN 1 ELSE 0)
                                            + Cardinality(Holders(t, new))
                      /\ \A q \in Holders(t, new) : /\ f.item[t].key = new[q].key
                                                    /\ f.item[t].data = new[q].data
    BY DEF RepliesOK
  <2>1. CASE t # s
    <3>1. Holders(t, new) = Holders(t, rep) /\ \A q \in Holders(t, rep) : new[q] = rep[q]
      BY <1>2, <2>1 DEF Holders, s
    <3>2. f.item[t] = e.item[t] /\ (t \in f._cache <=> t \in e._cache)
      BY <1>8, <1>9, <2>1
    <3>3. /\ e.item[t].refs = (IF t \in e._cache THEN 1 ELSE 0) + Cardinality(Holders(t, rep))
          /\ \A q \in Holders(t, rep) : /\ e.item[t].key = rep[q].key
                                        /\ e.item[t].data = rep[q].data
      BY DEF RepliesOK
    <3> QED
      BY <3>1, <3>2, <3>3
  <2>2. CASE t = s
    <3>1. f.item[s].refs = (IF s \in e._cache THEN 1 ELSE 0) + Cardinality(Holders(s, new))
      BY <1>3, <1>4, <1>7, <1>9
    <3>2. \A q \in Holders(s, new) : q \in Holders(s, rep) /\ new[q] = rep[q]
      BY <1>2, <1>3 DEF Holders
    <3>3. ASSUME NEW q \in Holders(s, new)
          PROVE  f.item[s].key = new[q].key /\ f.item[s].data = new[q].data
      <4>1. Cardinality(Holders(s, new)) # 0
        BY HoldersFinite, FS_EmptySet
      <4>2. i.refs # 0
        <5>1. \A n \in Nat : n # 0 => (IF s \in e._cache THEN 1 ELSE 0) + n # 0
          OBVIOUS
        <5> QED
          BY <1>3, <1>9, <3>1, <4>1, <5>1
      <4>3. e.item[s].key = rep[q].key /\ e.item[s].data = rep[q].data
        BY <1>1, <3>2 DEF RepliesOK
      <4> QED
        BY <1>7, <1>9, <3>2, <4>2, <4>3
    <3> QED
      BY <1>8, <2>2, <3>1, <3>3
  <2> QED
    BY <2>1, <2>2
<1> QED
  BY <1>2, <1>8, <1>11, <1>12 DEF f, s

-----------------------------------------------------------------------------
(* What becomes of the tokens. *)

LEMMA TokensAged ==
    ASSUME CacheOK(c), TokensOK(c, token), token \in [Conn -> Token \cup {None}],
           NEW e, CacheOK(e),
           \/ Shrinks(c, e)
           \/ \E n \in c._cache, d \in Data :
                 Stores(c, e, c.item[n].key, d, c.item[n].version + 1)
           \/ \E k \in Key, d \in Data, v \in 1 .. MaxVersion :
                 find(c, k) = {} /\ Stores(c, e, k, d, v)
    PROVE  Aged(e) \in [Conn -> Token \cup {None}] /\ TokensOK(e, Aged(e))
<1>1. ASSUME NEW r \in Conn
      PROVE  /\ Aged(e)[r] \in Token \cup {None}
             /\ Aged(e)[r] # None =>
                   /\ token[r] # None /\ Aged(e)[r].key = token[r].key
                   /\ Aged(e)[r].version = token[r].version
                   /\ Aged(e)[r].data = token[r].data
                   /\ Aged(e)[r].stayed => token[r].stayed /\ find(e, token[r].key) # {}
  <2>1. CASE token[r] = None
    BY <2>1 DEF Aged
  <2>2. CASE token[r] # None
    <3>1. token[r] \in Token
      BY <2>2
    <3>2. Aged(e)[r] = [token[r] EXCEPT !.stayed = @ /\ ~Left(token[r].key, e)]
      BY <2>2 DEF Aged
    <3>3. ~Left(token[r].key, e) <=> find(e, token[r].key) # {}
      BY DEF Left
    <3>4. (token[r].stayed /\ ~Left(token[r].key, e)) \in BOOLEAN
      OBVIOUS
    <3> QED
      BY <2>2, <3>1, <3>2, <3>3, <3>4, NoneAssumption DEF Token
  <2> QED
    BY <2>1, <2>2
<1>2. ASSUME NEW r \in Conn, Aged(e)[r] # None, Aged(e)[r].stayed
      PROVE  \E s \in e._cache :
                /\ e.item[s].key = token[r].key
                /\ e.item[s].version >= token[r].version
                /\ e.item[s].version = token[r].version => e.item[s].data = token[r].data
  <2>1. PICK s \in e._cache : e.item[s].key = token[r].key
    BY <1>1, <1>2 DEF find
  <2>2. token[r] # None /\ token[r].stayed /\ token[r] \in Token
    BY <1>1, <1>2
  <2>3. PICK t \in c._cache :
           /\ c.item[t].key = token[r].key
           /\ c.item[t].version >= token[r].version
           /\ c.item[t].version = token[r].version => c.item[t].data = token[r].data
    BY <2>2 DEF TokensOK
  <2>4. token[r].version \in Int /\ \A u \in c._cache : c.item[u].version \in Int
    BY <2>2, ItemTypes, ShardAssumption DEF Token, CacheOK
  <2>5. \A u, v \in c._cache : c.item[u].key = c.item[v].key => u = v
    BY DEF CacheOK
  <2>6. CASE Shrinks(c, e)
    BY <2>1, <2>3, <2>5, <2>6 DEF Shrinks
  <2>7. ASSUME NEW n \in c._cache, NEW d \in Data,
               Stores(c, e, c.item[n].key, d, c.item[n].version + 1)
        PROVE  \/ s \in c._cache /\ e.item[s].version = c.item[s].version
                  /\ e.item[s].data = c.item[s].data /\ e.item[s].key = c.item[s].key
               \/ e.item[s].key = c.item[n].key /\ e.item[s].version = c.item[n].version + 1
    BY <2>7 DEF Stores
  <2>8. CASE \E n \in c._cache, d \in Data :
                Stores(c, e, c.item[n].key, d, c.item[n].version + 1)
    BY <2>1, <2>3, <2>4, <2>5, <2>7, <2>8
  <2>9. ASSUME NEW k \in Key, NEW d \in Data, NEW v \in 1 .. MaxVersion,
               find(c, k) = {}, Stores(c, e, k, d, v)
        PROVE  s \in c._cache /\ e.item[s].version = c.item[s].version
               /\ e.item[s].data = c.item[s].data /\ e.item[s].key = c.item[s].key
    BY <2>1, <2>3, <2>9 DEF Stores, find
  <2>10. CASE \E k \in Key, d \in Data, v \in 1 .. MaxVersion :
                 find(c, k) = {} /\ Stores(c, e, k, d, v)
    BY <2>1, <2>3, <2>5, <2>9, <2>10
  <2> QED
    BY <2>6, <2>8, <2>10
<1>3. Aged(e) \in [Conn -> Token \cup {None}]
  BY <1>1 DEF Aged
<1>4. TokensOK(e, Aged(e))
  BY <1>1, <1>2 DEF TokensOK
<1> QED
  BY <1>3, <1>4

-----------------------------------------------------------------------------
(* Commands. *)

(* What is left to show of a step that makes the cache e and ages the tokens. *)
LEMMA Command ==
    ASSUME IInv, NEW e, c' = e, token' = Aged(e), UNCHANGED <<flush, now>>,
           reply' \in [Conn -> Reply \cup {None}],
           CacheOK(e), RepliesOK(e, reply'),
           \/ Shrinks(c, e)
           \/ \E n \in c._cache, d \in Data :
                 Stores(c, e, c.item[n].key, d, c.item[n].version + 1)
           \/ \E k \in Key, d \in Data, v \in 1 .. MaxVersion :
                 find(c, k) = {} /\ Stores(c, e, k, d, v)
    PROVE  IInv'
<1>1. token' \in [Conn -> Token \cup {None}] /\ TokensOK(e, token')
  BY TokensAged DEF IInv
<1> QED
  BY <1>1 DEF IInv

(* A step of the shard writes nothing, or one key with its next version. *)
Effect == \/ Shrinks(c, c')
          \/ \E n \in c._cache, d \in Data :
                Stores(c, c', c.item[n].key, d, c.item[n].version + 1)
          \/ \E k \in Key, d \in Data : find(c, k) = {} /\ Stores(c, c', k, d, 1)

LEMMA StoreStep ==
    ASSUME ~EvictErased, IInv, NEW k \in Key, NEW d \in Data, NEW x \in Expiry, set(k, d, x)
    PROVE  IInv' /\ Effect
<1> USE DEF IInv
<1>0. 1 \in 1 .. MaxVersion
  BY ShardAssumption
<1>1. CASE add(k, d, x)
  <2>1. PICK e \in add_new(c, k, d, x) : Becomes(e) /\ find(c, k) = {} /\ reply' = reply
    BY <1>1 DEF add, StoreNew
  <2>2. (\E r \in Room(c) : e = Insert(r, k, d, x, 1)) \/ (Fails(c) /\ e = c)
    BY <2>1 DEF add_new
  <2>3. CacheOK(e) /\ RepliesOK(e, reply) /\ (Shrinks(c, e) \/ Stores(c, e, k, d, 1))
    BY <1>0, <2>1, <2>2, AddNewOK
  <2> QED
    BY <1>0, <2>1, <2>3, Command DEF Becomes, Effect
<1>2. CASE replace(k, d, x)
  <2>1. PICK s \in find(c, k) : /\ Versioned(s) /\ reply' = reply
                                /\ \E e \in add_overriding(c, s, d, x) : Becomes(e)
    BY <1>2 DEF replace, Overwrite
  <2>2. PICK e \in add_overriding(c, s, d, x) : Becomes(e)
    BY <2>1
  <2>3. s \in c._cache /\ c.item[s].version < MaxVersion
    BY <2>1 DEF find, Versioned
  <2>4. /\ CacheOK(e) /\ RepliesOK(e, reply)
        /\ Shrinks(c, e) \/ Stores(c, e, c.item[s].key, d, c.item[s].version + 1)
    BY <2>3, OverridingOK
  <2> QED
    BY <2>1, <2>2, <2>3, <2>4, Command DEF Becomes, Effect
<1> QED
  BY <1>1, <1>2 DEF set

LEMMA CasStep ==
    ASSUME ~EvictErased, IInv, NEW r \in Conn, NEW d \in Data, NEW x \in Expiry, cas(r, d, x)
    PROVE  IInv' /\ Effect
<1>1. token[r].key \in Key /\ replace(token[r].key, d, x)
  <2>1. token[r] \in Token
    BY DEF IInv, cas
  <2> QED
    BY <2>1 DEF cas, replace, Token
<1> QED
  BY <1>1, StoreStep DEF set

LEMMA RemoveStep == ASSUME IInv, NEW k \in Key, remove(k) PROVE IInv' /\ Effect
<1> USE DEF IInv
<1>1. PICK s \in find(c, k) : Becomes(erase(c, s)) /\ reply' = reply
  BY DEF remove
<1>2. s \in c._cache
  BY DEF find
<1> DEFINE e == erase(c, s)
<1>3. CacheOK(e) /\ Shrinks(c, e) /\ RepliesOK(e, reply)
  <2>1. Drops(c, e, {s}) /\ {s} \in SUBSET c._cache
    BY <1>2, EraseDrops
  <2> HIDE DEF e
  <2> QED
    BY <2>1, DropsOK, DropsReplies
<1> HIDE DEF e
<1>4. c' = e /\ token' = Aged(e) /\ UNCHANGED <<flush, now>>
  BY <1>1 DEF Becomes, e
<1> QED
  BY <1>1, <1>3, <1>4, Command DEF Effect

LEMMA GetStep ==
    ASSUME HoldersFit, IInv, NEW r \in Conn, NEW k \in Key, get(r, k)
    PROVE  IInv' /\ Effect
<1> USE DEF IInv
<1>1. PICK s \in find(c, k) :
         /\ c' = intrusive_ptr_add_ref(c, s)
         /\ ReplyWith(r, c, s)
         /\ token' = [token EXCEPT ![r] =
               [key |-> k, version |-> c.item[s].version,
                data |-> c.item[s].data, stayed |-> TRUE]]
         /\ UNCHANGED <<flush, now>>
  BY DEF get
<1>2. s \in c._cache /\ s \in Slot /\ reply[r] = None /\ c.item[s] \in Item /\ c.item[s].key = k
  BY DEF find, get, CacheOK, Cache
<1>3. reply' = [reply EXCEPT ![r] = [slot |-> s, key |-> c.item[s].key,
                                     data |-> c.item[s].data]]
  BY <1>1 DEF ReplyWith
<1>4. /\ CacheOK(c') /\ RepliesOK(c', reply') /\ reply' \in [Conn -> Reply \cup {None}]
      /\ Shrinks(c, c') /\ c'._cache = c._cache
  BY <1>1, <1>2, <1>3, AddRefOK
<1> DEFINE new == [key |-> k, version |-> c.item[s].version, data |-> c.item[s].data,
                   stayed |-> TRUE]
<1>5. /\ new \in Token /\ new.key = k /\ new.version = c.item[s].version
      /\ new.data = c.item[s].data
  BY <1>2, ItemTypes DEF Token
<1> HIDE DEF new
<1>6. /\ token' \in [Conn -> Token \cup {None}] /\ token'[r] = new
      /\ \A q \in Conn : q # r => token'[q] = token[q]
  BY <1>1, <1>5 DEF new
<1>7. TokensOK(c', token')
  <2>1. c.item[s].version \in Int
    BY <1>2, ItemTypes, ShardAssumption
  <2>2. \A t \in c._cache : /\ c'.item[t].key = c.item[t].key
                            /\ c'.item[t].version = c.item[t].version
                            /\ c'.item[t].data = c.item[t].data
    BY <1>4 DEF Shrinks
  <2>3. ASSUME NEW q \in Conn, token'[q] # None, token'[q].stayed
        PROVE  \E t \in c'._cache :
                  /\ c'.item[t].key = token'[q].key
                  /\ c'.item[t].version >= token'[q].version
                  /\ c'.item[t].version = token'[q].version => c'.item[t].data = token'[q].data
    <3>1. CASE q = r
      BY <1>2, <1>4, <1>5, <1>6, <2>1, <2>2, <3>1
    <3>2. CASE q # r
      BY <1>4, <1>6, <2>2, <2>3, <3>2 DEF TokensOK
    <3> QED
      BY <3>1, <3>2
  <2> QED
    BY <2>3 DEF TokensOK
<1> QED
  BY <1>1, <1>4, <1>6, <1>7 DEF Effect

LEMMA ArithmeticStep ==
    ASSUME ~EvictErased, HoldersFit, IInv, NEW r \in Conn, NEW s \in c._cache, NEW d \in Data,
           Arithmetic(r, s, d)
    PROVE  IInv' /\ Effect
<1> USE DEF IInv
<1> DEFINE k == c.item[s].key
<1>1. reply[r] = None /\ c.item[s].version < MaxVersion /\ c.item[s].expiry \in Expiry
  BY ItemTypes DEF Arithmetic, Versioned, CacheOK
<1>2. PICK e \in add_overriding(c, s, d, c.item[s].expiry) :
         IF Left(k, e)
         THEN Becomes(e) /\ UNCHANGED reply
         ELSE LET n == CHOOSE n \in find(e, k) : TRUE
              IN  /\ Becomes(intrusive_ptr_add_ref(e, n))
                  /\ ReplyWith(r, e, n)
  BY DEF Arithmetic
<1>3. /\ CacheOK(e) /\ RepliesOK(e, reply)
      /\ Shrinks(c, e) \/ Stores(c, e, k, d, c.item[s].version + 1)
  BY <1>1, OverridingOK
<1>4. CASE Left(k, e)
  BY <1>2, <1>3, <1>4, Command DEF Becomes, Effect
<1>5. CASE ~Left(k, e)
  <2> DEFINE n == CHOOSE n \in find(e, k) : TRUE
  <2>1. n \in find(e, k)
    BY <1>5, Zenon DEF Left
  <2>2. Becomes(intrusive_ptr_add_ref(e, n)) /\ ReplyWith(r, e, n)
    BY <1>2, <1>5
  <2> HIDE DEF n
  <2> DEFINE f == intrusive_ptr_add_ref(e, n)
  <2>3. n \in e._cache
    BY <2>1 DEF find
  <2>4. reply' = [reply EXCEPT ![r] = [slot |-> n, key |-> e.item[n].key,
                                       data |-> e.item[n].data]]
    BY <2>2 DEF ReplyWith
  <2>5. /\ CacheOK(f) /\ RepliesOK(f, reply') /\ reply' \in [Conn -> Reply \cup {None}]
        /\ Shrinks(e, f) /\ f._cache = e._cache
    BY <1>1, <1>3, <2>3, <2>4, AddRefOK
  <2>6. c' = f /\ token' = Aged(f) /\ UNCHANGED <<flush, now>>
    BY <2>2 DEF Becomes
  <2> HIDE DEF f
  <2>7. Shrinks(c, f) \/ Stores(c, f, k, d, c.item[s].version + 1)
    <3>1. Stores(c, e, k, d, c.item[s].version + 1)
             => Stores(c, f, k, d, c.item[s].version + 1)
      BY <2>5 DEF Shrinks, Stores
    <3> QED
      BY <1>3, <2>5, <3>1, ShrinksTwice
  <2> QED
    BY <2>5, <2>6, <2>7, Command DEF Effect
<1> QED
  BY <1>4, <1>5

LEMMA IncrDecrStep ==
    ASSUME ~EvictErased, HoldersFit, IInv, NEW r \in Conn, NEW k \in Key, NEW delta \in Num,
           incr(r, k, delta) \/ decr(r, k, delta)
    PROVE  IInv' /\ Effect
<1>0. MaxNum \in Nat
  BY ShardAssumption
<1>1. \A s \in Numbers(k) : s \in c._cache /\ c.item[s].data \in Num
  BY ItemTypes DEF Numbers, find, IInv, CacheOK, Data
<1>2. CASE incr(r, k, delta)
  <2>1. PICK s \in Numbers(k) : Arithmetic(r, s, (c.item[s].data + delta) % (MaxNum + 1))
    BY <1>2 DEF incr
  <2>2. (c.item[s].data + delta) % (MaxNum + 1) \in Num
    <3>1. \A a \in Nat : a % (MaxNum + 1) \in 0 .. MaxNum
      BY <1>0
    <3>2. c.item[s].data + delta \in Nat
      BY <1>0, <1>1, <2>1 DEF Num
    <3> QED
      BY <3>1, <3>2 DEF Num
  <2> QED
    BY <1>1, <2>1, <2>2, ArithmeticStep DEF Data
<1>3. CASE decr(r, k, delta)
  <2>1. PICK s \in Numbers(k) : Arithmetic(r, s, c.item[s].data - Min({c.item[s].data, delta}))
    BY <1>3 DEF decr
  <2>2. ASSUME NEW a \in Num, NEW b \in Num PROVE a - Min({a, b}) \in Num
    <3>1. \E m \in {a, b} : \A y \in {a, b} : m =< y
      BY <1>0 DEF Num
    <3>2. Min({a, b}) \in {a, b} /\ \A y \in {a, b} : Min({a, b}) =< y
      BY <3>1, Zenon DEF Min
    <3> QED
      BY <1>0, <3>2 DEF Num
  <2> QED
    BY <1>1, <2>1, <2>2, ArithmeticStep DEF Data
<1> QED
  BY <1>2, <1>3

LEMMA SentStep == ASSUME IInv, NEW r \in Conn, Sent(r) PROVE IInv' /\ Effect
<1> USE DEF IInv
<1>1. /\ reply[r] # None /\ c' = intrusive_ptr_release(c, reply[r].slot)
      /\ reply' = [reply EXCEPT ![r] = None] /\ UNCHANGED <<flush, token, now>>
  BY DEF Sent
<1>2. /\ CacheOK(c') /\ RepliesOK(c', reply') /\ reply' \in [Conn -> Reply \cup {None}]
      /\ Shrinks(c, c') /\ c'._cache = c._cache
  BY <1>1, ReleaseOK
<1>3. TokensOK(c', token)
  BY <1>2 DEF TokensOK, Shrinks
<1> QED
  BY <1>1, <1>2, <1>3 DEF Effect

-----------------------------------------------------------------------------
(* Timers. *)

LEMMA LeastTime ==
    ASSUME NEW T, T \subseteq Nat, T # {}
    PROVE  Min(T) \in T /\ \A t \in T : Min(T) =< t
BY LeastNat, Zenon DEF Min

LEMMA ExpireStep == ASSUME IInv, expire PROVE IInv' /\ Effect
<1> USE DEF IInv
<1> DEFINE due == {s \in c._alive : c.item[s].expiry =< now}
           e == EraseAll(c, due)
           T == {e.item[s].expiry : s \in e._alive} \cup {Never}
           n == Min(T)
           f == [e EXCEPT !.next = n, !._timer = n]
<1>1. c' = f /\ token' = Aged(f) /\ UNCHANGED <<flush, now, reply>>
  BY DEF expire, Becomes
<1>2. due \in SUBSET c._cache
  BY DEF CacheOK
<1>3. Drops(c, e, due)
  BY <1>2, EraseAllDrops
<1> HIDE DEF due, e
<1>4. CacheOK(e) /\ Shrinks(c, e) /\ RepliesOK(e, reply)
  BY <1>2, <1>3, DropsOK, DropsReplies
<1>5. \A s \in e._alive : e.item[s].expiry \in Time
  BY <1>4, ItemTypes, ShardAssumption DEF CacheOK, Expiry, Time
<1>6. n \in Time /\ \A s \in e._alive : n =< e.item[s].expiry
  <2>1. T \subseteq Time /\ T # {} /\ Time \subseteq Nat
    BY <1>5, ShardAssumption DEF Time, Never
  <2>2. \A s \in e._alive : e.item[s].expiry \in T
    OBVIOUS
  <2> HIDE DEF T
  <2>3. Min(T) \in T /\ \A t \in T : Min(T) =< t
    BY <2>1, LeastTime
  <2> QED
    BY <2>1, <2>2, <2>3
<1> HIDE DEF n, T
<1>7. /\ f \in Cache /\ f.item = e.item /\ f._cache = e._cache /\ f._alive = e._alive
      /\ f._bytes = e._bytes /\ f.next = n /\ f._timer = n
  BY <1>4, <1>6 DEF CacheOK, Cache
<1> HIDE DEF f
<1>8. CacheOK(f)
  <2>1. Sizes(f, f._cache) = Sizes(e, e._cache)
    BY <1>4, <1>7, SizesSame DEF CacheOK, Cache
  <2> QED
    BY <1>4, <1>6, <1>7, <2>1 DEF CacheOK
<1>9. RepliesOK(f, reply) /\ Shrinks(c, f)
  BY <1>4, <1>7 DEF RepliesOK, Shrinks
<1> QED
  BY <1>1, <1>8, <1>9, Command DEF Effect

LEMMA FlushStep == ASSUME IInv, FlushAll PROVE IInv' /\ Effect
<1> USE DEF IInv
<1> DEFINE e == EraseAll(c, c._cache)
<1>1. c' = e /\ token' = Aged(e) /\ flush' = Never /\ UNCHANGED <<now, reply>>
  BY DEF FlushAll
<1>2. Drops(c, e, c._cache)
  BY EraseAllDrops
<1> HIDE DEF e
<1>3. CacheOK(e) /\ Shrinks(c, e) /\ RepliesOK(e, reply)
  BY <1>2, DropsOK, DropsReplies
<1>4. token' \in [Conn -> Token \cup {None}] /\ TokensOK(e, token')
  BY <1>1, <1>3, TokensAged
<1>5. flush' \in Time
  BY <1>1, ShardAssumption DEF Never, Time
<1> QED
  BY <1>1, <1>3, <1>4, <1>5 DEF Effect

LEMMA ClockStep ==
    ASSUME IInv, Tick \/ \E t \in Delay : flush_at(t)
    PROVE  IInv' /\ Effect
<1>1. now' \in 0 .. MaxTime /\ flush' \in Time
  BY ShardAssumption DEF IInv, Tick, flush_at, Time
<1>2. UNCHANGED <<c, reply, token>>
  BY DEF Tick, flush_at
<1> QED
  BY <1>1, <1>2 DEF IInv, Effect, Shrinks

-----------------------------------------------------------------------------
(* Every step, and what follows. *)

LEMMA InitIInv == Init => IInv
<1> SUFFICES ASSUME Init PROVE IInv
  OBVIOUS
<1>1. Never \in Time /\ now \in 0 .. MaxTime
  BY ShardAssumption DEF Never, Time, Init
<1>2. /\ c.item = [s \in Slot |-> NoItem] /\ c._cache = {} /\ c._alive = {}
      /\ c.next = Never /\ c._timer = Never /\ c._bytes = 0 /\ c \in Cache
  BY <1>1 DEF Init, Cache
<1>3. Sizes(c, {}) = 0
  BY SumEmpty DEF Sizes
<1>4. CacheOK(c)
  BY <1>2, <1>3 DEF CacheOK
<1>5. RepliesOK(c, reply)
  <2>1. \A s \in Slot : Holders(s, reply) = {}
    BY DEF Init, Holders
  <2>2. Cardinality({}) = 0
    BY FS_EmptySet
  <2>3. \A s \in Slot : /\ c.item[s].refs = 0 /\ s \notin c._cache
                         /\ Cardinality(Holders(s, reply)) = 0
    BY <1>2, <2>1, <2>2, ItemTypes
  <2>4. ASSUME NEW s \in Slot
        PROVE  c.item[s].refs = (IF s \in c._cache THEN 1 ELSE 0)
                                   + Cardinality(Holders(s, reply))
    BY <2>3
  <2> QED
    BY <2>1, <2>4 DEF RepliesOK
<1>6. TokensOK(c, token)
  BY DEF Init, TokensOK
<1> QED
  BY <1>1, <1>4, <1>5, <1>6 DEF Init, IInv

LEMMA StepIInv == ~EvictErased /\ HoldersFit /\ IInv /\ [Next]_vars => IInv' /\ Effect
<1> SUFFICES ASSUME ~EvictErased, HoldersFit, IInv, [Next]_vars PROVE IInv' /\ Effect
  OBVIOUS
<1>1. CASE Store
  BY <1>1, StoreStep DEF Store
<1>2. CASE Update
  BY <1>2, CasStep, IncrDecrStep DEF Update
<1>3. CASE \E k \in Key : remove(k)
  BY <1>3, RemoveStep
<1>4. CASE \E r \in Conn : Sent(r) \/ \E k \in Key : get(r, k)
  BY <1>4, SentStep, GetStep
<1>5. CASE expire
  BY <1>5, ExpireStep
<1>6. CASE flush_all \/ FlushTimer
  BY <1>6, FlushStep DEF flush_all, FlushTimer
<1>7. CASE Tick \/ \E t \in Delay : flush_at(t)
  BY <1>7, ClockStep
<1>8. CASE UNCHANGED vars
  BY <1>8 DEF vars, IInv, Effect, Shrinks
<1> QED
  BY <1>1, <1>2, <1>3, <1>4, <1>5, <1>6, <1>7, <1>8 DEF Next

(* The invariant behind the theorems. *)
THEOREM Invariance == ASSUME ~EvictErased, HoldersFit PROVE Spec => []IInv
<1>1. IInv /\ [Next]_vars => IInv'
  BY StepIInv
<1> QED
  BY <1>1, InitIInv, PTL DEF Spec

(* Items, timers, replies and tokens keep their types. *)
THEOREM TypeCorrect == ASSUME ~EvictErased, HoldersFit PROVE Spec => []TypeOK
<1>1. IInv => TypeOK
  BY DEF IInv, CacheOK, TypeOK
<1> QED
  BY <1>1, Invariance, PTL

(* The reference count of an item, a number of 16 bits, is the number of its holders, in
   whichever order erasing, evicting and sending come, as long as there are less than
   2^16 of them. *)
THEOREM CountIsHolders == ASSUME ~EvictErased, HoldersFit PROVE Spec => []RefsExact
<1>1. IInv => RefsExact
  BY DEF IInv, RepliesOK, Holders, RefsExact
<1> QED
  BY <1>1, Invariance, PTL

(* An unsent reply keeps its item, whatever becomes of the key. *)
THEOREM ReplyKept == ASSUME ~EvictErased, HoldersFit PROVE Spec => []ReplyStable
<1>1. IInv => ReplyStable
  <2> SUFFICES ASSUME IInv, NEW r \in Conn, reply[r] # None
               PROVE  /\ c.item[reply[r].slot].refs > 0
                      /\ c.item[reply[r].slot].key = reply[r].key
                      /\ c.item[reply[r].slot].data = reply[r].data
    BY DEF ReplyStable
  <2> DEFINE s == reply[r].slot
  <2>1. s \in Slot /\ r \in Holders(s, reply)
    BY DEF IInv, Reply, Holders
  <2>2. /\ c.item[s].refs = (IF s \in c._cache THEN 1 ELSE 0) + Cardinality(Holders(s, reply))
        /\ c.item[s].key = reply[r].key /\ c.item[s].data = reply[r].data
    BY <2>1 DEF IInv, RepliesOK
  <2>3. Cardinality(Holders(s, reply)) \in Nat \ {0}
    BY <2>1, HoldersFinite, FS_EmptySet
  <2> QED
    BY <2>2, <2>3
<1> QED
  BY <1>1, Invariance, PTL

(* A key is cached once, and _bytes is the size of what is cached. *)
THEOREM CacheCounted == ASSUME ~EvictErased, HoldersFit PROVE Spec => []CacheExact
<1>1. IInv => CacheExact
  BY DEF IInv, CacheOK, CacheExact
<1> QED
  BY <1>1, Invariance, PTL

(* No item with an expiry is forgotten by the timer. *)
THEOREM TimerNeverLate == ASSUME ~EvictErased, HoldersFit PROVE Spec => []TimerCovers
<1>1. IInv => TimerCovers
  BY DEF IInv, CacheOK, TimerCovers
<1> QED
  BY <1>1, Invariance, PTL

(* A cas overwrites only what the gets saw, unless the key left the cache meanwhile. *)
THEOREM CasLosesNothing == ASSUME ~EvictErased, HoldersFit PROVE Spec => []CasSound
<1>1. IInv => CasSound
  <2> SUFFICES ASSUME IInv, NEW r \in Conn, token[r] # None, token[r].stayed,
                      NEW s \in find(c, token[r].key),
                      c.item[s].version = token[r].version
               PROVE  c.item[s].data = token[r].data
    BY DEF CasSound
  <2>1. s \in c._cache /\ c.item[s].key = token[r].key
    BY DEF find
  <2>2. PICK t \in c._cache :
           /\ c.item[t].key = token[r].key
           /\ c.item[t].version = token[r].version => c.item[t].data = token[r].data
    BY DEF IInv, TokensOK
  <2> QED
    BY <2>1, <2>2 DEF IInv, CacheOK
<1> QED
  BY <1>1, Invariance, PTL

-----------------------------------------------------------------------------
(* The item store: the entry of a key in a cache. *)

EntryIn(e, k) ==
    LET S == find(e, k)
    IN  IF S = {} THEN None
        ELSE LET i == e.item[CHOOSE s \in S : TRUE]
             IN  [version |-> i.version, data |-> i.data]

LEMMA EntryCached ==
    ASSUME NEW e, CacheOK(e), NEW s \in e._cache
    PROVE  /\ e.item[s].key \in Key
           /\ EntryIn(e, e.item[s].key)
                 = [version |-> e.item[s].version, data |-> e.item[s].data]
           /\ EntryIn(e, e.item[s].key) # None
<1> DEFINE k == e.item[s].key
           S == find(e, k)
<1>1. k \in Key /\ [version |-> e.item[s].version, data |-> e.item[s].data] # None
  <2>1. e.item[s].version \in 1 .. MaxVersion /\ e.item[s].data \in Data /\ k \in Key
    BY ItemTypes DEF CacheOK
  <2> QED
    BY <2>1, NoneAssumption
<1>2. s \in S /\ \A t \in S : t = s
  BY DEF find, CacheOK
<1>3. EntryIn(e, k) = LET i == e.item[CHOOSE t \in S : TRUE]
                      IN  [version |-> i.version, data |-> i.data]
  BY <1>2 DEF EntryIn
<1> HIDE DEF S
<1>4. (CHOOSE t \in S : TRUE) = s
  <2>1. (CHOOSE t \in S : TRUE) \in S
    BY <1>2, Zenon
  <2> QED
    BY <1>2, <2>1
<1> QED
  BY <1>1, <1>3, <1>4

LEMMA EntryMissing == ASSUME NEW e, NEW k, find(e, k) = {} PROVE EntryIn(e, k) = None
BY DEF EntryIn

(* A key that is not written keeps its entry or loses it. *)
LEMMA EntryKept ==
    ASSUME NEW e, NEW f, CacheOK(e), CacheOK(f), NEW k,
           \A s \in f._cache : f.item[s].key = k =>
              /\ s \in e._cache /\ f.item[s].key = e.item[s].key
              /\ f.item[s].version = e.item[s].version
              /\ f.item[s].data = e.item[s].data
    PROVE  EntryIn(f, k) \in {EntryIn(e, k), None}
<1>1. CASE find(f, k) = {}
  BY <1>1, EntryMissing
<1>2. CASE find(f, k) # {}
  <2>1. PICK s \in f._cache : f.item[s].key = k
    BY <1>2 DEF find
  <2>2. s \in e._cache /\ e.item[s].key = k
    BY <2>1
  <2>3. EntryIn(f, k) = [version |-> f.item[s].version, data |-> f.item[s].data]
    BY <2>1, EntryCached
  <2>4. EntryIn(e, k) = [version |-> e.item[s].version, data |-> e.item[s].data]
    BY <2>2, EntryCached
  <2> QED
    BY <2>1, <2>2, <2>3, <2>4
<1> QED
  BY <1>1, <1>2

(* The mapping of a step. *)
Writes(e, f) ==
    \A k \in Key : EntryIn(f, k) \notin {EntryIn(e, k), None} =>
        \E d \in Data :
            /\ EntryIn(f, k)
                  = [version |-> (IF EntryIn(e, k) = None THEN 0 ELSE EntryIn(e, k).version) + 1,
                     data |-> d]
            /\ \A j \in Key \ {k} : EntryIn(f, j) \in {EntryIn(e, j), None}

LEMMA StoresWrites ==
    ASSUME NEW e, NEW f, CacheOK(e), CacheOK(f), NEW k \in Key, NEW d \in Data, NEW v,
           Stores(e, f, k, d, v),
           v = (IF EntryIn(e, k) = None THEN 0 ELSE EntryIn(e, k).version) + 1
    PROVE  Writes(e, f)
<1>1. PICK n \in f._cache :
        /\ f.item[n].key = k /\ f.item[n].data = d /\ f.item[n].version = v
        /\ \A s \in f._cache \ {n} :
              /\ s \in e._cache /\ e.item[s].key # k
              /\ f.item[s].key = e.item[s].key
              /\ f.item[s].version = e.item[s].version
              /\ f.item[s].data = e.item[s].data
  BY DEF Stores
<1>2. \A j \in Key \ {k} : EntryIn(f, j) \in {EntryIn(e, j), None}
  BY <1>1, EntryKept
<1>3. EntryIn(f, k) = [version |-> v, data |-> d]
  BY <1>1, EntryCached, ZenonT(60)
<1> QED
  BY <1>2, <1>3 DEF Writes

LEMMA EffectWrites == ASSUME CacheOK(c), CacheOK(c)', Effect PROVE Writes(c, c')
<1>1. CASE Shrinks(c, c')
  <2>1. \A k \in Key : EntryIn(c', k) \in {EntryIn(c, k), None}
    BY <1>1, EntryKept DEF Shrinks
  <2> QED
    BY <2>1 DEF Writes
<1>2. ASSUME NEW n \in c._cache, NEW d \in Data,
             Stores(c, c', c.item[n].key, d, c.item[n].version + 1)
      PROVE  Writes(c, c')
  <2>1. /\ c.item[n].key \in Key
        /\ EntryIn(c, c.item[n].key)
              = [version |-> c.item[n].version, data |-> c.item[n].data]
        /\ EntryIn(c, c.item[n].key) # None
    BY EntryCached
  <2>2. EntryIn(c, c.item[n].key).version = c.item[n].version
    BY <2>1
  <2> QED
    BY <1>2, <2>1, <2>2, StoresWrites
<1>3. ASSUME NEW k \in Key, NEW d \in Data, find(c, k) = {}, Stores(c, c', k, d, 1)
      PROVE  Writes(c, c')
  <2>1. EntryIn(c, k) = None
    BY <1>3, EntryMissing
  <2> QED
    BY <1>3, <2>1, StoresWrites
<1> QED
  BY <1>1, <1>2, <1>3 DEF Effect

(* The shard implements the item store: the empty cache is the empty store, and every
   command and timer, with the evictions and the failed allocation it meets, writes at most
   one key with the version after the one before, and otherwise only loses entries. *)
THEOREM Refinement == ASSUME ~EvictErased, HoldersFit PROVE Spec => ImplementsItemStore
<1>1. \A k \in Key : EntryOf(k) = EntryIn(c, k) /\ EntryOf(k)' = EntryIn(c', k)
  BY DEF EntryOf, EntryIn
<1>2. Init => Promise!Init
  <2> SUFFICES ASSUME Init PROVE Promise!Init
    OBVIOUS
  <2>1. \A k \in Key : find(c, k) = {}
    BY DEF Init, find
  <2> QED
    BY <2>1 DEF Promise!Init, EntryOf
<1>3. IInv /\ IInv' /\ Effect => Promise!Next
  <2> SUFFICES ASSUME IInv, IInv', Effect PROVE Promise!Next
    OBVIOUS
  <2>1. Writes(c, c')
    BY EffectWrites DEF IInv
  <2> QED
    BY <1>1, <2>1
       DEF Writes, Promise!Next, Promise!Changed, Promise!Put, Promise!Entry,
           Promise!Version, Promise!KeptOrLost
<1>4. IInv /\ [Next]_vars => IInv' /\ Effect
  BY StepIInv
<1>5. Promise!Spec <=> ImplementsItemStore
  BY DEF ImplementsItemStore
<1> QED
  BY <1>2, <1>3, <1>4, <1>5, InitIInv, PTL DEF Spec, Promise!Spec
=============================================================================
