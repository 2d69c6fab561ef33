------------------------- MODULE DictIteratorProofs -------------------------
(***************************************************************************)
(* A safe iterator returns each key that stays exactly once, and the entry *)
(* it saved is never freed, for any keys, hashes and table sizes.          *)
(*                                                                         *)
(* The theorems assume Allowed = {}: under the iterator the user deletes   *)
(* only the entry it returned last and does not call dictRehash himself.   *)
(***************************************************************************)
EXTENDS DictIterator, SequenceTheorems, FiniteSetTheorems, WellFoundedInduction, TLAPS

(* y comes before x in the chain, or is x. *)
Upto(chain, y, x) ==
    \E i \in 1 .. Len(chain) : chain[i] = x /\ \E j \in 1 .. i : chain[j] = y

KeysIn(t) == {k \in Key : \E b \in DOMAIN t : Upto(t[b], k, k)}

(* A table: buckets numbered from 0, and no key twice. *)
Good(t) ==
    /\ \E n \in Nat : t \in [0 .. n - 1 -> Seq(Key)]
    /\ \A b, c \in DOMAIN t : \A i \in 1 .. Len(t[b]), j \in 1 .. Len(t[c]) :
           t[b][i] = t[c][j] => b = c /\ i = j

(* A dictionary: no key is in both tables; ht[1] is there while a migration is on, which
   has emptied the buckets below rehashidx. *)
SoundParts(t, u, r) ==
    /\ Good(t) /\ Good(u) /\ KeysIn(t) \cap KeysIn(u) = {}
    /\ r = -1 => Size(u) = 0
    /\ r # -1 => /\ Size(t) # 0 /\ Size(u) # 0 /\ r \in 0 .. Size(t)
                 /\ \A b \in 0 .. r - 1 : t[b] = <<>>

Both(t, u, r) == [ht |-> [n \in {0, 1} |-> IF n = 0 THEN t ELSE u], rehashidx |-> r]

Sound(e) == /\ e = Both(e.ht[0], e.ht[1], e.rehashidx)
            /\ SoundParts(e.ht[0], e.ht[1], e.rehashidx)

-----------------------------------------------------------------------------
(* Tables. *)

LEMMA LeastNumber ==
    ASSUME NEW T, T \subseteq Nat, T # {}
    PROVE  \E n \in T : \A i \in T : n =< i
<1>1. PICK n \in T : \A i \in T : ~(<<i, n>> \in OpToRel(<, Nat))
  BY NatLessThanWellFounded, WFMin
<1>2. \A i \in T : ~(i < n)
  BY <1>1 DEF OpToRel
<1> QED
  BY <1>2

LEMMA TableSize ==
    ASSUME NEW t, Good(t)
    PROVE  /\ Size(t) \in Nat /\ DOMAIN t = 0 .. Size(t) - 1
           /\ t \in [0 .. Size(t) - 1 -> Seq(Key)]
           /\ \A b \in DOMAIN t : t[b] \in Seq(Key) /\ Len(t[b]) \in Nat
<1>1. PICK n \in Nat : t \in [0 .. n - 1 -> Seq(Key)]
  BY DEF Good
<1>2. DOMAIN t = 0 .. n - 1 /\ 0 \in Int /\ n - 1 \in Int
  BY <1>1
<1>3. Cardinality(0 .. n - 1) = IF 0 > n - 1 THEN 0 ELSE n - 1 - 0 + 1
  BY <1>2, FS_Interval
<1>4. Size(t) = n
  BY <1>2, <1>3 DEF Size
<1> QED
  BY <1>1, <1>2, <1>4

LEMMA SizeOf ==
    ASSUME NEW n \in Nat, NEW t, DOMAIN t = 0 .. n - 1
    PROVE  Size(t) = n
<1>1. 0 \in Int /\ n - 1 \in Int
  OBVIOUS
<1>2. Cardinality(0 .. n - 1) = IF 0 > n - 1 THEN 0 ELSE n - 1 - 0 + 1
  BY <1>1, FS_Interval
<1> QED
  BY <1>2 DEF Size

LEMMA NewTableIs ==
    ASSUME NEW n \in Nat
    PROVE  Good(NewTable(n)) /\ Size(NewTable(n)) = n /\ KeysIn(NewTable(n)) = {}
<1> DEFINE t == NewTable(n)
<1>1. t \in [0 .. n - 1 -> Seq(Key)] /\ DOMAIN t = 0 .. n - 1
      /\ \A b \in DOMAIN t : t[b] = <<>> /\ Len(t[b]) = 0
  BY DEF NewTable
<1> HIDE DEF t
<1>2. Good(t)
  BY <1>1 DEF Good
<1>3. KeysIn(t) = {}
  BY <1>1 DEF KeysIn, Upto
<1> QED
  BY <1>1, <1>2, <1>3, SizeOf DEF t

LEMMA NoTableIs == Good(NoTable) /\ Size(NoTable) = 0 /\ KeysIn(NoTable) = {}
<1>1. NoTable = NewTable(0)
  <2>1. 0 .. 0 - 1 = {}
    OBVIOUS
  <2> QED
    BY <2>1 DEF NoTable, NewTable
<1> QED
  BY <1>1, NewTableIs

(* A key is at one place. *)
LEMMA OnePlace ==
    ASSUME NEW t, Good(t), NEW b \in DOMAIN t, NEW i \in 1 .. Len(t[b])
    PROVE  t[b][i] \in KeysIn(t) /\ Upto(t[b], t[b][i], t[b][i])
<1>1. t[b][i] \in Key /\ i \in Nat /\ i \in 1 .. i
  BY TableSize, ElementOfSeq
<1> QED
  BY <1>1 DEF KeysIn, Upto

LEMMA PushedChain ==
    ASSUME NEW c \in Seq(Key), NEW k \in Key
    PROVE  /\ <<k>> \o c \in Seq(Key) /\ Len(<<k>> \o c) = Len(c) + 1
           /\ (<<k>> \o c)[1] = k
           /\ \A i \in 1 .. Len(c) : (<<k>> \o c)[i + 1] = c[i]
           /\ \A i \in 1 .. Len(c) + 1 : i # 1 => i - 1 \in 1 .. Len(c) /\ (<<k>> \o c)[i] = c[i - 1]
<1> DEFINE u == <<k>> \o c
<1>1. <<k>> \in Seq(Key) /\ Len(<<k>>) = 1 /\ <<k>>[1] = k /\ Len(c) \in Nat
  OBVIOUS
<1>2. /\ u \in Seq(Key) /\ Len(u) = 1 + Len(c)
      /\ \A i \in 1 .. 1 + Len(c) : u[i] = IF i =< 1 THEN <<k>>[i] ELSE c[i - 1]
  BY <1>1, ConcatProperties
<1> HIDE DEF u
<1>3. \A i \in 1 .. Len(c) : i + 1 \in 1 .. 1 + Len(c) /\ ~(i + 1 =< 1) /\ i + 1 - 1 = i
  OBVIOUS
<1>4. \A i \in 1 .. Len(c) : u[i + 1] = c[i]
  BY <1>2, <1>3
<1>5. 1 \in 1 .. 1 + Len(c)
  BY <1>1
<1>6. u[1] = k
  BY <1>1, <1>2, <1>5
<1>8. ASSUME NEW i \in 1 .. Len(c) + 1
      PROVE  i # 1 => i - 1 \in 1 .. Len(c) /\ u[i] = c[i - 1]
  <2> SUFFICES ASSUME i # 1 PROVE i - 1 \in 1 .. Len(c) /\ u[i] = c[i - 1]
    OBVIOUS
  <2>1. i \in 1 .. 1 + Len(c) /\ ~(i =< 1) /\ i - 1 \in 1 .. Len(c)
    BY <1>1
  <2> QED
    BY <1>2, <2>1
<1>9. Len(u) = Len(c) + 1
  BY <1>1, <1>2
<1> QED
  BY <1>2, <1>4, <1>6, <1>8, <1>9 DEF u

(* The order in a chain is that before the push, but for the key pushed. *)
LEMMA PushedOrder ==
    ASSUME NEW c \in Seq(Key), NEW k \in Key, NEW x, NEW y, x # k
    PROVE  y # k => (Upto(<<k>> \o c, y, x) <=> Upto(c, y, x))
<1> DEFINE u == <<k>> \o c
<1> SUFFICES ASSUME y # k PROVE Upto(u, y, x) <=> Upto(c, y, x)
  OBVIOUS
<1>1. /\ Len(u) = Len(c) + 1 /\ u[1] = k /\ Len(c) \in Nat
      /\ \A i \in 1 .. Len(c) : u[i + 1] = c[i]
      /\ \A i \in 1 .. Len(c) + 1 : i # 1 => i - 1 \in 1 .. Len(c) /\ u[i] = c[i - 1]
  BY PushedChain
<1> HIDE DEF u
<1>2. ASSUME NEW i \in 1 .. Len(u), u[i] = x, NEW j \in 1 .. i, u[j] = y PROVE Upto(c, y, x)
  <2>1. i # 1 /\ j # 1 /\ i \in 1 .. Len(c) + 1 /\ j \in 1 .. Len(c) + 1
    BY <1>1, <1>2
  <2>2. i - 1 \in 1 .. Len(c) /\ c[i - 1] = x /\ j - 1 \in 1 .. i - 1 /\ c[j - 1] = y
    BY <1>1, <1>2, <2>1
  <2> QED
    BY <2>2 DEF Upto
<1>3. ASSUME NEW i \in 1 .. Len(c), c[i] = x, NEW j \in 1 .. i, c[j] = y PROVE Upto(u, y, x)
  <2>1. j \in 1 .. Len(c) /\ i + 1 \in 1 .. Len(u) /\ j + 1 \in 1 .. i + 1
    BY <1>1
  <2>2. u[i + 1] = x /\ u[j + 1] = y
    BY <1>1, <1>3, <2>1
  <2> QED
    BY <2>1, <2>2 DEF Upto
<1> QED
  BY <1>2, <1>3 DEF Upto, u

LEMMA RemovedChain ==
    ASSUME NEW c \in Seq(Key), NEW p \in 1 .. Len(c)
    PROVE  /\ RemoveAt(c, p) \in Seq(Key) /\ Len(RemoveAt(c, p)) = Len(c) - 1
           /\ \A i \in 1 .. Len(c) - 1 :
                  RemoveAt(c, p)[i] = IF i < p THEN c[i] ELSE c[i + 1]
<1> DEFINE a == SubSeq(c, 1, p - 1)
           z == SubSeq(c, p + 1, Len(c))
<1>0. p \in Nat \ {0} /\ Len(c) \in Nat /\ p =< Len(c) /\ p - 1 \in Int /\ p + 1 \in Int
  OBVIOUS
<1>1. /\ a \in Seq(Key) /\ Len(a) = p - 1 /\ \A i \in 1 .. p - 1 : a[i] = c[i]
  <2>1. \A i \in 1 .. p - 1 : i \in 1 .. Len(c)
    BY <1>0
  <2>2. \A i \in 1 .. p - 1 : c[i] \in Key
    BY <2>1, ElementOfSeq
  <2>3. /\ a \in Seq(Key) /\ Len(a) = IF 1 =< p - 1 THEN (p - 1) - 1 + 1 ELSE 0
        /\ \A i \in 1 .. (p - 1) - 1 + 1 : a[i] = c[1 + i - 1]
    BY <1>0, <2>2, SubSeqProperties
  <2> HIDE DEF a
  <2> QED
    BY <1>0, <2>3
<1>2. /\ z \in Seq(Key) /\ Len(z) = Len(c) - p /\ \A i \in 1 .. Len(c) - p : z[i] = c[p + i]
  <2>1. \A i \in p + 1 .. Len(c) : i \in 1 .. Len(c)
    BY <1>0
  <2>2. \A i \in p + 1 .. Len(c) : c[i] \in Key
    BY <2>1, ElementOfSeq
  <2>3. /\ z \in Seq(Key) /\ Len(z) = IF p + 1 =< Len(c) THEN Len(c) - (p + 1) + 1 ELSE 0
        /\ \A i \in 1 .. Len(c) - (p + 1) + 1 : z[i] = c[(p + 1) + i - 1]
    BY <1>0, <2>2, SubSeqProperties
  <2> HIDE DEF z
  <2>4. Len(z) = Len(c) - p
    BY <1>0, <2>3
  <2>5. ASSUME NEW i \in 1 .. Len(c) - p PROVE z[i] = c[p + i]
    <3>1. i \in 1 .. Len(c) - (p + 1) + 1 /\ (p + 1) + i - 1 = p + i
      BY <1>0
    <3> QED
      BY <2>3, <3>1
  <2> QED
    BY <2>3, <2>4, <2>5
<1>3. RemoveAt(c, p) = a \o z
  BY DEF RemoveAt
<1> HIDE DEF a, z
<1>4. /\ a \o z \in Seq(Key) /\ Len(a \o z) = Len(a) + Len(z)
      /\ \A i \in 1 .. Len(a) + Len(z) : (a \o z)[i] = IF i =< Len(a) THEN a[i] ELSE z[i - Len(a)]
  BY <1>1, <1>2, ConcatProperties
<1>5. Len(a) + Len(z) = Len(c) - 1
  BY <1>0, <1>1, <1>2
<1>6. ASSUME NEW i \in 1 .. Len(c) - 1
      PROVE  (a \o z)[i] = IF i < p THEN c[i] ELSE c[i + 1]
  <2>1. (a \o z)[i] = IF i =< p - 1 THEN a[i] ELSE z[i - (p - 1)]
    BY <1>1, <1>4, <1>5
  <2>2. CASE i < p
    <3>1. i =< p - 1 /\ i \in 1 .. p - 1
      BY <1>0, <2>2
    <3> QED
      BY <1>1, <2>1, <2>2, <3>1
  <2>3. CASE ~(i < p)
    <3>1. ~(i =< p - 1) /\ i - (p - 1) \in 1 .. Len(c) - p /\ p + (i - (p - 1)) = i + 1
      BY <1>0, <2>3
    <3> QED
      BY <1>2, <2>1, <2>3, <3>1
  <2> QED
    BY <2>2, <2>3
<1> QED
  BY <1>3, <1>4, <1>5, <1>6

(* Only the first k is removed, if there is one. *)
LEMMA RemovedFirst ==
    ASSUME NEW c \in Seq(Key), NEW k
    PROVE  \/ RemoveFirst(c, k) = c /\ ~Upto(c, k, k)
           \/ \E p \in 1 .. Len(c) : c[p] = k /\ RemoveFirst(c, k) = RemoveAt(c, p)
<1> DEFINE T == {i \in 1 .. Len(c) : c[i] = k}
<1>1. CASE T = {}
  <2>1. \A i \in 1 .. Len(c) : c[i] # k
    BY <1>1
  <2> QED
    BY <2>1 DEF RemoveFirst, Upto
<1>2. CASE T # {}
  <2>1. \E i \in 1 .. Len(c) : c[i] = k
    BY <1>2
  <2>2. RemoveFirst(c, k) = RemoveAt(c, Min(T))
    BY <1>2, <2>1 DEF RemoveFirst, SelectInSeq
  <2>3. Min(T) \in T
    <3>1. T \subseteq Nat
      OBVIOUS
    <3> HIDE DEF T
    <3>2. \E n \in T : \A i \in T : n =< i
      BY <1>2, <3>1, LeastNumber
    <3> QED
      BY <3>2, Zenon DEF Min
  <2>4. Min(T) \in 1 .. Len(c) /\ c[Min(T)] = k
    <3> DEFINE q == Min(T)
    <3> HIDE DEF q
    <3>1. q \in 1 .. Len(c) /\ c[q] = k
      BY <2>3 DEF q
    <3> QED
      BY <3>1 DEF q
  <2> HIDE DEF T
  <2> QED
    BY <2>2, <2>4
<1> QED
  BY <1>1, <1>2

LEMMA RemovedOrder ==
    ASSUME NEW c \in Seq(Key), NEW k, NEW x, NEW y, x # k, y # k
    PROVE  Upto(RemoveFirst(c, k), y, x) <=> Upto(c, y, x)
<1>1. CASE RemoveFirst(c, k) = c
  BY <1>1
<1>2. ASSUME NEW p \in 1 .. Len(c), c[p] = k, RemoveFirst(c, k) = RemoveAt(c, p)
      PROVE  Upto(RemoveFirst(c, k), y, x) <=> Upto(c, y, x)
  <2> DEFINE u == RemoveFirst(c, k)
             Old(i) == IF i < p THEN i ELSE i + 1
             New(i) == IF i < p THEN i ELSE i - 1
  <2>0. Len(c) \in Nat /\ p \in Nat
    OBVIOUS
  <2>1. Len(u) = Len(c) - 1 /\ \A i \in 1 .. Len(c) - 1 : u[i] = c[Old(i)]
    BY <1>2, RemovedChain
  <2> HIDE DEF u
  <2>2. ASSUME NEW i \in 1 .. Len(u), u[i] = x, NEW j \in 1 .. i, u[j] = y
        PROVE  Upto(c, y, x)
    <3>1. /\ i \in 1 .. Len(c) - 1 /\ j \in 1 .. Len(c) - 1
          /\ Old(i) \in 1 .. Len(c) /\ Old(j) \in 1 .. Old(i)
      BY <2>0, <2>1
    <3>2. c[Old(i)] = x /\ c[Old(j)] = y
      BY <2>1, <2>2, <3>1
    <3> HIDE DEF Old
    <3> QED
      BY <3>1, <3>2 DEF Upto
  <2>3. ASSUME NEW i \in 1 .. Len(c), c[i] = x, NEW j \in 1 .. i, c[j] = y
        PROVE  Upto(u, y, x)
    <3>1. i # p /\ j # p
      BY <1>2, <2>3
    <3>2. New(i) \in 1 .. Len(c) - 1 /\ New(j) \in 1 .. New(i) /\ New(j) \in 1 .. Len(c) - 1
      BY <2>0, <3>1
    <3>3. Old(New(i)) = i /\ Old(New(j)) = j
      BY <2>0, <3>1
    <3> HIDE DEF Old, New
    <3>4. u[New(i)] = x /\ u[New(j)] = y
      BY <2>1, <2>3, <3>2, <3>3
    <3> QED
      BY <2>1, <3>2, <3>4 DEF Upto
  <2> QED
    BY <2>2, <2>3 DEF Upto, u
<1> QED
  BY <1>1, <1>2, RemovedFirst

(* y is before x in bucket b, or is x. *)
Place(t, b, y, x) == b \in DOMAIN t /\ Upto(t[b], y, x)

(* But for k, the second table has the keys of the first one in the same order. *)
SameBut(t, u, k) == \A b, x, y : x # k /\ y # k => (Place(t, b, y, x) <=> Place(u, b, y, x))

LEMMA Pushed ==
    ASSUME NEW t, Good(t), Size(t) # 0, NEW k \in Key \ KeysIn(t)
    PROVE  /\ Good(Push(t, k)) /\ Size(Push(t, k)) = Size(t)
           /\ KeysIn(Push(t, k)) = KeysIn(t) \cup {k} /\ SameBut(t, Push(t, k), k)
<1> DEFINE u == Push(t, k)
           n == Size(t)
           h == Hash[k] % n
<1>1. /\ n \in Nat \ {0} /\ DOMAIN t = 0 .. n - 1 /\ t \in [0 .. n - 1 -> Seq(Key)]
      /\ \A b \in DOMAIN t : t[b] \in Seq(Key) /\ Len(t[b]) \in Nat
  BY TableSize
<1>2. h \in 0 .. n - 1
  <2>1. Hash[k] \in Nat
    BY IteratorAssumption
  <2> HIDE DEF n
  <2>2. \A a \in Nat, m \in Nat \ {0} : a % m \in 0 .. m - 1
    OBVIOUS
  <2> QED
    BY <1>1, <2>1, <2>2
<1>3. u = [t EXCEPT ![h] = <<k>> \o @]
  BY DEF Push
<1> HIDE DEF h, n, u
<1>4. /\ DOMAIN u = 0 .. n - 1 /\ u[h] = <<k>> \o t[h]
      /\ \A b \in 0 .. n - 1 : b # h => u[b] = t[b]
  BY <1>1, <1>2, <1>3
<1>5. t[h] \in Seq(Key) /\ Len(t[h]) \in Nat
  BY <1>1, <1>2
<1>6. /\ u[h] \in Seq(Key) /\ Len(u[h]) = Len(t[h]) + 1 /\ u[h][1] = k
      /\ \A i \in 1 .. Len(t[h]) + 1 : i # 1 => i - 1 \in 1 .. Len(t[h]) /\ u[h][i] = t[h][i - 1]
  BY <1>4, <1>5, PushedChain
<1>7. \A b \in 0 .. n - 1 : u[b] \in Seq(Key)
  BY <1>1, <1>4, <1>6
<1>8. u \in [0 .. n - 1 -> Seq(Key)]
  <2>1. u = [b \in 0 .. n - 1 |-> u[b]]
    BY <1>3, <1>1
  <2> QED
    BY <1>7, <2>1
<1> DEFINE Old(b, i) == IF b = h THEN i - 1 ELSE i
<1>9. ASSUME NEW b \in 0 .. n - 1, NEW i \in 1 .. Len(u[b]), ~(b = h /\ i = 1)
      PROVE  /\ Old(b, i) \in 1 .. Len(t[b]) /\ u[b][i] = t[b][Old(b, i)]
             /\ u[b][i] \in KeysIn(t)
  <2>1. Old(b, i) \in 1 .. Len(t[b]) /\ u[b][i] = t[b][Old(b, i)]
    <3>1. CASE b = h
      BY <1>6, <1>9, <3>1
    <3>2. CASE b # h
      BY <1>4, <3>2
    <3> QED
      BY <3>1, <3>2
  <2> HIDE DEF Old
  <2> QED
    BY <1>1, <2>1, OnePlace
<1>10. ASSUME NEW b \in 0 .. n - 1, NEW c \in 0 .. n - 1,
              NEW i \in 1 .. Len(u[b]), NEW j \in 1 .. Len(u[c]), u[b][i] = u[c][j]
       PROVE  b = c /\ i = j
  <2>1. CASE b = h /\ i = 1
    <3>1. u[c][j] = k
      BY <1>6, <1>10, <2>1
    <3>2. c = h /\ j = 1
      BY <1>9, <3>1
    <3> QED
      BY <2>1, <3>2
  <2>2. CASE c = h /\ j = 1
    <3>1. u[b][i] = k
      BY <1>6, <1>10, <2>2
    <3>2. b = h /\ i = 1
      BY <1>9, <3>1
    <3> QED
      BY <2>2, <3>2
  <2>3. CASE ~(b = h /\ i = 1) /\ ~(c = h /\ j = 1)
    <3>1. Old(b, i) \in 1 .. Len(t[b]) /\ u[b][i] = t[b][Old(b, i)]
      BY <1>9, <2>3
    <3>2. Old(c, j) \in 1 .. Len(t[c]) /\ u[c][j] = t[c][Old(c, j)]
      BY <1>9, <2>3
    <3>3. b = c /\ Old(b, i) = Old(c, j)
      <4>1. t[b][Old(b, i)] = t[c][Old(c, j)] /\ b \in DOMAIN t /\ c \in DOMAIN t
        BY <1>1, <1>10, <3>1, <3>2
      <4>2. \A p \in 1 .. Len(t[b]), q \in 1 .. Len(t[c]) :
                t[b][p] = t[c][q] => b = c /\ p = q
        BY <4>1 DEF Good
      <4> HIDE DEF Old
      <4> QED
        BY <3>1, <3>2, <4>1, <4>2
    <3>4. i \in Int /\ j \in Int
      <4>1. Len(u[b]) \in Nat /\ Len(u[c]) \in Nat
        BY <1>7
      <4> QED
        BY <4>1
    <3> QED
      BY <3>3, <3>4
  <2> QED
    BY <2>1, <2>2, <2>3
<1>11. Good(u)
  BY <1>1, <1>4, <1>8, <1>10 DEF Good
<1>12. Size(u) = n
  BY <1>1, <1>4, SizeOf
<1>13. SameBut(t, u, k)
  <2> SUFFICES ASSUME NEW b, NEW x, NEW y, x # k, y # k
               PROVE  Place(t, b, y, x) <=> Place(u, b, y, x)
    BY DEF SameBut
  <2>1. CASE b = h
    <3>1. Upto(u[h], y, x) <=> Upto(t[h], y, x)
      BY <1>4, <1>5, PushedOrder
    <3> QED
      BY <1>1, <1>2, <1>4, <2>1, <3>1 DEF Place
  <2>2. CASE b # h
    BY <1>1, <1>4, <2>2 DEF Place
  <2> QED
    BY <2>1, <2>2
<1>14. KeysIn(u) = KeysIn(t) \cup {k}
  <2>1. \A x \in Key : x # k => (x \in KeysIn(u) <=> x \in KeysIn(t))
    BY <1>13 DEF SameBut, Place, KeysIn
  <2>2. k \in KeysIn(u)
    <3>1. 1 \in 1 .. Len(u[h])
      BY <1>5, <1>6
    <3> QED
      BY <1>2, <1>4, <1>6, <1>11, <3>1, OnePlace
  <2>3. KeysIn(u) \subseteq Key /\ KeysIn(t) \subseteq Key
    BY DEF KeysIn
  <2> QED
    BY <2>1, <2>2, <2>3
<1> QED
  BY <1>11, <1>12, <1>13, <1>14 DEF u, n

LEMMA RemovedPlaces ==
    ASSUME NEW c \in Seq(Key), NEW k
    PROVE  /\ RemoveFirst(c, k) \in Seq(Key)
           /\ \E q \in Nat : \A i \in 1 .. Len(RemoveFirst(c, k)) :
                  /\ (IF i < q THEN i ELSE i + 1) \in 1 .. Len(c)
                  /\ RemoveFirst(c, k)[i] = c[IF i < q THEN i ELSE i + 1]
<1>0. Len(c) \in Nat
  OBVIOUS
<1>1. CASE RemoveFirst(c, k) = c
  <2>1. \A i \in 1 .. Len(c) : (IF i < Len(c) + 1 THEN i ELSE i + 1) = i
    BY <1>0
  <2>2. Len(c) + 1 \in Nat
    BY <1>0
  <2> QED
    BY <1>1, <2>1, <2>2
<1>2. ASSUME NEW p \in 1 .. Len(c), RemoveFirst(c, k) = RemoveAt(c, p)
      PROVE  /\ RemoveFirst(c, k) \in Seq(Key)
             /\ \A i \in 1 .. Len(RemoveFirst(c, k)) :
                  /\ (IF i < p THEN i ELSE i + 1) \in 1 .. Len(c)
                  /\ RemoveFirst(c, k)[i] = c[IF i < p THEN i ELSE i + 1]
  <2> DEFINE u == RemoveFirst(c, k)
  <2>1. /\ u \in Seq(Key) /\ Len(u) = Len(c) - 1
        /\ \A i \in 1 .. Len(c) - 1 : u[i] = IF i < p THEN c[i] ELSE c[i + 1]
    BY <1>2, RemovedChain
  <2> HIDE DEF u
  <2>2. ASSUME NEW i \in 1 .. Len(u)
        PROVE  /\ (IF i < p THEN i ELSE i + 1) \in 1 .. Len(c)
               /\ u[i] = c[IF i < p THEN i ELSE i + 1]
    BY <1>0, <2>1
  <2> QED
    BY <2>1, <2>2 DEF u
<1>3. ASSUME RemoveFirst(c, k) # c PROVE \E p \in 1 .. Len(c) : RemoveFirst(c, k) = RemoveAt(c, p)
  BY <1>3, RemovedFirst
<1>4. 1 .. Len(c) \subseteq Nat
  BY <1>0
<1> QED
  BY <1>1, <1>2, <1>3, <1>4, Zenon

LEMMA Removed ==
    ASSUME NEW t, Good(t), NEW k
    PROVE  /\ Good(Without(t, k)) /\ Size(Without(t, k)) = Size(t)
           /\ KeysIn(Without(t, k)) = KeysIn(t) \ {k} /\ SameBut(t, Without(t, k), k)
           /\ \A b \in DOMAIN t : t[b] = <<>> => Without(t, k)[b] = <<>>
<1> DEFINE u == Without(t, k)
           n == Size(t)
<1>1. /\ n \in Nat /\ DOMAIN t = 0 .. n - 1
      /\ \A b \in DOMAIN t : t[b] \in Seq(Key) /\ Len(t[b]) \in Nat
  BY TableSize
<1>2. u = [b \in DOMAIN t |-> RemoveFirst(t[b], k)]
  BY DEF Without
<1> HIDE DEF n, u
<1>3. DOMAIN u = 0 .. n - 1 /\ \A b \in 0 .. n - 1 : u[b] = RemoveFirst(t[b], k)
  BY <1>1, <1>2
<1> DEFINE Old(q, i) == IF i < q THEN i ELSE i + 1
<1>4. ASSUME NEW b \in 0 .. n - 1
      PROVE  /\ u[b] \in Seq(Key) /\ Len(u[b]) \in Nat
             /\ \E q \in Nat : \A i \in 1 .. Len(u[b]) :
                    Old(q, i) \in 1 .. Len(t[b]) /\ u[b][i] = t[b][Old(q, i)]
  <2>1. t[b] \in Seq(Key) /\ u[b] = RemoveFirst(t[b], k)
    BY <1>1, <1>3
  <2>2. u[b] \in Seq(Key)
    BY <2>1, RemovedPlaces
  <2>3. Len(u[b]) \in Nat
    BY <2>2
  <2>4. \E q \in Nat : \A i \in 1 .. Len(RemoveFirst(t[b], k)) :
            Old(q, i) \in 1 .. Len(t[b]) /\ RemoveFirst(t[b], k)[i] = t[b][Old(q, i)]
    BY <2>1, RemovedPlaces
  <2> HIDE DEF Old
  <2> QED
    BY <2>1, <2>2, <2>3, <2>4
<1>5. u \in [0 .. n - 1 -> Seq(Key)]
  <2>1. u = [b \in 0 .. n - 1 |-> u[b]]
    BY <1>1, <1>2
  <2> QED
    BY <1>4, <2>1
<1>6. ASSUME NEW b \in 0 .. n - 1, NEW c \in 0 .. n - 1,
             NEW i \in 1 .. Len(u[b]), NEW j \in 1 .. Len(u[c]), u[b][i] = u[c][j]
      PROVE  b = c /\ i = j
  <2>1. PICK q \in Nat : \A p \in 1 .. Len(u[b]) :
                             Old(q, p) \in 1 .. Len(t[b]) /\ u[b][p] = t[b][Old(q, p)]
    BY <1>4
  <2>2. PICK r \in Nat : \A p \in 1 .. Len(u[c]) :
                             Old(r, p) \in 1 .. Len(t[c]) /\ u[c][p] = t[c][Old(r, p)]
    BY <1>4
  <2>3. /\ Old(q, i) \in 1 .. Len(t[b]) /\ u[b][i] = t[b][Old(q, i)]
        /\ Old(r, j) \in 1 .. Len(t[c]) /\ u[c][j] = t[c][Old(r, j)]
    <3> HIDE DEF Old
    <3> QED
      BY <2>1, <2>2
  <2>4. \A v \in 1 .. Len(t[b]), w \in 1 .. Len(t[c]) : t[b][v] = t[c][w] => b = c /\ v = w
    BY <1>1 DEF Good
  <2>5. b = c
    <3> HIDE DEF Old
    <3> QED
      BY <1>6, <2>3, <2>4
  <2>6. Old(q, j) \in 1 .. Len(t[b]) /\ u[b][j] = t[b][Old(q, j)]
    <3> HIDE DEF Old
    <3> QED
      BY <2>1, <2>5
  <2>7. Old(q, i) = Old(q, j)
    <3> HIDE DEF Old
    <3> QED
      BY <1>6, <2>3, <2>4, <2>5, <2>6
  <2>8. i \in Int /\ j \in Int
    BY <1>4
  <2> QED
    BY <2>5, <2>7, <2>8
<1> HIDE DEF Old
<1>7. Good(u)
  BY <1>1, <1>3, <1>5, <1>6 DEF Good
<1>8. Size(u) = n
  BY <1>1, <1>3, SizeOf
<1>9. SameBut(t, u, k)
  <2> SUFFICES ASSUME NEW b, NEW x, NEW y, x # k, y # k
               PROVE  Place(t, b, y, x) <=> Place(u, b, y, x)
    BY DEF SameBut
  <2>1. CASE b \in DOMAIN t
    <3>1. Upto(u[b], y, x) <=> Upto(t[b], y, x)
      BY <1>1, <1>3, <2>1, RemovedOrder
    <3> QED
      BY <1>1, <1>3, <2>1, <3>1 DEF Place
  <2>2. CASE b \notin DOMAIN t
    BY <1>1, <1>3, <2>2 DEF Place
  <2> QED
    BY <2>1, <2>2
<1>10. \A b \in 0 .. n - 1 : ~Upto(u[b], k, k)
  <2> SUFFICES ASSUME NEW b \in 0 .. n - 1, NEW i \in 1 .. Len(u[b]), u[b][i] = k PROVE FALSE
    BY DEF Upto
  <2>1. t[b] \in Seq(Key) /\ u[b] = RemoveFirst(t[b], k) /\ Len(t[b]) \in Nat
    BY <1>1, <1>3
  <2>2. CASE u[b] = t[b] /\ ~Upto(t[b], k, k)
    <3>1. i \in 1 .. Len(t[b]) /\ t[b][i] = k /\ i \in 1 .. i
      BY <2>1, <2>2
    <3> QED
      BY <2>2, <3>1 DEF Upto
  <2>3. ASSUME NEW p \in 1 .. Len(t[b]), t[b][p] = k, u[b] = RemoveAt(t[b], p) PROVE FALSE
    <3>1. /\ Len(u[b]) = Len(t[b]) - 1
          /\ \A v \in 1 .. Len(t[b]) - 1 : u[b][v] = IF v < p THEN t[b][v] ELSE t[b][v + 1]
      BY <2>1, <2>3, RemovedChain
    <3>2. \A v \in 1 .. Len(t[b]) : t[b][v] = t[b][p] => v = p
      BY <1>1 DEF Good
    <3>3. i \in 1 .. Len(t[b]) /\ i + 1 \in 1 .. Len(t[b]) /\ p \in Int
      BY <2>1, <3>1
    <3>4. CASE i < p
      BY <2>3, <3>1, <3>2, <3>3, <3>4, SMTT(30)
    <3>5. CASE ~(i < p)
      BY <2>3, <3>1, <3>2, <3>3, <3>5
    <3> QED
      BY <3>4, <3>5
  <2> QED
    BY <2>1, <2>2, <2>3, RemovedFirst
<1>11. KeysIn(u) = KeysIn(t) \ {k}
  <2>1. \A x \in Key : x # k => (x \in KeysIn(u) <=> x \in KeysIn(t))
    BY <1>9 DEF SameBut, Place, KeysIn
  <2>2. k \notin KeysIn(u)
    BY <1>3, <1>10 DEF KeysIn
  <2>3. KeysIn(u) \subseteq Key /\ KeysIn(t) \subseteq Key
    BY DEF KeysIn
  <2> QED
    BY <2>1, <2>2, <2>3
<1>12. ASSUME NEW b \in DOMAIN t, t[b] = <<>> PROVE u[b] = <<>>
  BY <1>1, <1>3, <1>12 DEF RemoveFirst
<1> QED
  BY <1>7, <1>8, <1>9, <1>11, <1>12 DEF u, n

-----------------------------------------------------------------------------
(* A migration moves a chain key by key. *)

LEMMA GreatestNumber ==
    ASSUME NEW k \in Nat, NEW T, T \subseteq 0 .. k, T # {}
    PROVE  \E n \in T : \A i \in T : n >= i
<1> DEFINE R == {k - i : i \in T}
<1>0. R \subseteq Nat /\ R # {}
  <2>1. PICK i \in T : TRUE
    OBVIOUS
  <2>2. k - i \in R
    BY <2>1
  <2>3. R \subseteq Nat
    OBVIOUS
  <2> QED
    BY <2>2, <2>3
<1>1. PICK r \in R : \A i \in R : r =< i
  <2> HIDE DEF R
  <2> QED
    BY <1>0, LeastNumber
<1>2. PICK n \in T : r = k - n
  BY <1>1
<1>3. \A i \in T : k - n =< k - i
  BY <1>1, <1>2
<1> QED
  BY <1>3

(* FoldLeft is a recursive function on the sets of places; FoldTo is the same on the
   places up to k. *)
FoldStep(g, t, c, S) == IF S = {} THEN t ELSE Push(g[S \ {Max(S)}], c[Max(S)])

FoldTo(g, t, c, k) == g = [S \in SUBSET (1 .. k) |-> FoldStep(g, t, c, S)]

LEMMA MaxOf ==
    ASSUME NEW k \in Nat, NEW S \in SUBSET (1 .. k), S # {}
    PROVE  Max(S) \in 1 .. k /\ S \ {Max(S)} \in SUBSET (1 .. Max(S) - 1)
<1>1. S \subseteq 0 .. k
  OBVIOUS
<1>2. \E n \in S : \A i \in S : n >= i
  BY <1>1, GreatestNumber
<1>3. Max(S) \in S /\ \A i \in S : Max(S) >= i
  BY <1>2, Zenon DEF Max
<1>4. ASSUME NEW i \in S, i # Max(S) PROVE i \in 1 .. Max(S) - 1
  <2>1. i \in 1 .. k /\ Max(S) \in 1 .. k /\ Max(S) >= i
    BY <1>3
  <2> HIDE DEF Max
  <2> QED
    BY <1>4, <2>1
<1> QED
  BY <1>3, <1>4

LEMMA FoldToExists ==
    ASSUME NEW t, NEW c, NEW k \in Nat
    PROVE  \E g : FoldTo(g, t, c, k)
<1> DEFINE Bad == {i \in Nat : ~ \E g : FoldTo(g, t, c, i)}
<1> SUFFICES ASSUME Bad # {} PROVE FALSE
  OBVIOUS
<1>1. PICK i \in Bad : \A j \in Bad : i =< j
  BY LeastNumber
<1>2. CASE i = 0
  <2> DEFINE h == [S \in SUBSET (1 .. 0) |-> t]
  <2>1. \A S \in SUBSET (1 .. 0) : S = {}
    OBVIOUS
  <2>2. h = [S \in SUBSET (1 .. 0) |-> FoldStep(h, t, c, S)]
    BY <2>1 DEF FoldStep
  <2> QED
    BY <1>2, <2>2 DEF FoldTo
<1>3. CASE i # 0
  <2>1. i - 1 \in Nat /\ i - 1 \notin Bad
    BY <1>1, <1>3
  <2>2. PICK g : FoldTo(g, t, c, i - 1)
    BY <2>1
  <2> DEFINE h == [S \in SUBSET (1 .. i) |-> FoldStep(g, t, c, S)]
  <2>3. ASSUME NEW S \in SUBSET (1 .. i), S # {}
        PROVE  g[S \ {Max(S)}] = h[S \ {Max(S)}]
    <3> DEFINE R == S \ {Max(S)}
    <3>1. Max(S) \in 1 .. i /\ R \in SUBSET (1 .. Max(S) - 1)
      BY <1>1, <2>3, MaxOf
    <3>2. R \in SUBSET (1 .. i - 1) /\ R \in SUBSET (1 .. i)
      BY <1>1, <3>1
    <3> HIDE DEF R
    <3>3. g[R] = FoldStep(g, t, c, R)
      BY <2>2, <3>2 DEF FoldTo
    <3>4. h[R] = FoldStep(g, t, c, R)
      BY <3>2
    <3> QED
      BY <3>3, <3>4 DEF R
  <2>4. \A S \in SUBSET (1 .. i) : FoldStep(g, t, c, S) = FoldStep(h, t, c, S)
    <3> HIDE DEF h
    <3> QED
      BY <2>3 DEF FoldStep
  <2>5. FoldTo(h, t, c, i)
    BY <2>4 DEF FoldTo
  <2> QED
    BY <1>1, <2>5
<1> QED
  BY <1>2, <1>3

(* Such a function pushes one key after the other. *)
Walk(g, t, c) == /\ g[{}] = t
                 /\ \A k \in 1 .. Len(c) : g[1 .. k] = Push(g[1 .. k - 1], c[k])

LEMMA FoldWalks ==
    ASSUME NEW t, NEW c \in Seq(Key), NEW g, FoldTo(g, t, c, Len(c))
    PROVE  Walk(g, t, c)
<1>1. Len(c) \in Nat
  OBVIOUS
<1>2. \A S \in SUBSET (1 .. Len(c)) : g[S] = FoldStep(g, t, c, S)
  BY DEF FoldTo
<1>3. g[{}] = t
  <2>1. {} \in SUBSET (1 .. Len(c))
    OBVIOUS
  <2> QED
    BY <1>2, <2>1 DEF FoldStep
<1>4. ASSUME NEW k \in 1 .. Len(c) PROVE g[1 .. k] = Push(g[1 .. k - 1], c[k])
  <2>0. k \in 1 .. k /\ k \in Nat /\ 1 .. k \in SUBSET (1 .. Len(c))
    BY <1>1
  <2>1. 1 .. k # {} /\ 1 .. k \in SUBSET (1 .. k)
    BY <2>0, Zenon
  <2>2. Max(1 .. k) = k
    <3>1. \A i \in 1 .. k : k >= i
      BY <2>0
    <3>2. \A x \in 1 .. k : (\A y \in 1 .. k : x >= y) => x = k
      BY <2>0
    <3>3. \E x \in 1 .. k : \A y \in 1 .. k : x >= y
      BY <2>0, <3>1
    <3> QED
      BY <3>2, <3>3, Zenon DEF Max
  <2>3. (1 .. k) \ {k} = 1 .. k - 1
    BY <2>0
  <2> QED
    BY <1>2, <2>0, <2>1, <2>2, <2>3 DEF FoldStep
<1> QED
  BY <1>3, <1>4 DEF Walk

LEMMA MovedWalks ==
    ASSUME NEW t, NEW c \in Seq(Key)
    PROVE  \E g : Walk(g, t, c) /\ Moved(c, t) = g[1 .. Len(c)]
<1> DEFINE St(g, S) == IF S = {} THEN t ELSE Push(g[S \ {Max(S)}], c[Max(S)])
           P(g) == g = [S \in SUBSET (1 .. Len(c)) |-> St(g, S)]
           h == CHOOSE g : P(g)
<1>1. DOMAIN c = 1 .. Len(c) /\ Len(c) \in Nat
  BY LenProperties
<1>2. Moved(c, t) = h[1 .. Len(c)]
  BY <1>1 DEF Moved, FoldLeft, MapThenFoldSet
<1>3. \A g, S : St(g, S) = FoldStep(g, t, c, S)
  BY DEF FoldStep
<1> HIDE DEF St
<1>4. \A g : P(g) <=> FoldTo(g, t, c, Len(c))
  BY <1>3 DEF FoldTo
<1>5. \E g : P(g)
  <2> HIDE DEF P
  <2> QED
    BY <1>1, <1>4, FoldToExists
<1>6. P(h)
  <2> HIDE DEF P
  <2> QED
    BY <1>5, Zenon
<1> HIDE DEF h, P
<1> QED
  BY <1>2, <1>4, <1>6, FoldWalks

LEMMA MovedIs ==
    ASSUME NEW t, Good(t), Size(t) # 0, NEW c \in Seq(Key),
           \A i, j \in 1 .. Len(c) : c[i] = c[j] => i = j,
           \A i \in 1 .. Len(c) : c[i] \notin KeysIn(t)
    PROVE  /\ Good(Moved(c, t)) /\ Size(Moved(c, t)) = Size(t)
           /\ \A k : k \in KeysIn(Moved(c, t)) <=> k \in KeysIn(t) \/ Upto(c, k, k)
<1>1. PICK g : Walk(g, t, c) /\ Moved(c, t) = g[1 .. Len(c)]
  BY MovedWalks
<1> DEFINE OK(k) == /\ Good(g[1 .. k]) /\ Size(g[1 .. k]) = Size(t)
                    /\ \A x : x \in KeysIn(g[1 .. k]) <=>
                                  x \in KeysIn(t) \/ \E i \in 1 .. k : c[i] = x
           Bad == {k \in Nat : k =< Len(c) /\ ~OK(k)}
<1>2. Len(c) \in Nat
  OBVIOUS
<1>3. OK(0)
  <2>1. 1 .. 0 = {}
    OBVIOUS
  <2>2. g[1 .. 0] = t
    BY <1>1, <2>1 DEF Walk
  <2> QED
    BY <2>1, <2>2
<1>4. ASSUME NEW k \in 1 .. Len(c), OK(k - 1) PROVE OK(k)
  <2> DEFINE u == g[1 .. k - 1]
  <2>1. g[1 .. k] = Push(u, c[k])
    BY <1>1 DEF Walk
  <2>2. /\ Good(u) /\ Size(u) = Size(t)
        /\ \A x : x \in KeysIn(u) <=> x \in KeysIn(t) \/ \E i \in 1 .. k - 1 : c[i] = x
    BY <1>4
  <2> HIDE DEF u
  <2>3. c[k] \in Key /\ c[k] \notin KeysIn(u)
    <3>1. \A i \in 1 .. k - 1 : i \in 1 .. Len(c) /\ i # k
      BY <1>2
    <3> QED
      BY <2>2, <3>1, ElementOfSeq
  <2>4. /\ Good(Push(u, c[k])) /\ Size(Push(u, c[k])) = Size(u)
        /\ KeysIn(Push(u, c[k])) = KeysIn(u) \cup {c[k]}
    BY <2>2, <2>3, Pushed
  <2>5. 1 .. k = (1 .. k - 1) \cup {k}
    BY <1>2
  <2> QED
    BY <2>1, <2>2, <2>4, <2>5
<1> HIDE DEF OK
<1>5. ASSUME Bad # {} PROVE FALSE
  <2>1. PICK k \in Bad : \A j \in Bad : k =< j
    BY <1>5, LeastNumber
  <2>2. k # 0 /\ k \in 1 .. Len(c) /\ k - 1 \in Nat /\ ~(k =< k - 1)
    BY <1>2, <1>3, <2>1
  <2>3. k - 1 \notin Bad
    BY <2>1, <2>2
  <2> QED
    BY <1>4, <2>1, <2>2, <2>3
<1>6. OK(Len(c))
  BY <1>2, <1>5
<1>7. \A x : Upto(c, x, x) <=> \E i \in 1 .. Len(c) : c[i] = x
  <2>1. \A i \in 1 .. Len(c) : i \in 1 .. i
    BY <1>2
  <2> QED
    BY <2>1 DEF Upto
<1> QED
  BY <1>1, <1>6, <1>7 DEF OK

-----------------------------------------------------------------------------
(* The two tables. *)

LEMMA BothIs ==
    ASSUME NEW t, NEW u, NEW r
    PROVE  /\ Both(t, u, r).ht[0] = t /\ Both(t, u, r).ht[1] = u
           /\ Both(t, u, r).rehashidx = r
           /\ SoundParts(t, u, r) => Sound(Both(t, u, r))
BY DEF Both, Sound

LEMMA BothWith ==
    ASSUME NEW e, e = Both(e.ht[0], e.ht[1], e.rehashidx), NEW v
    PROVE  /\ [e EXCEPT !.ht[0] = v] = Both(v, e.ht[1], e.rehashidx)
           /\ [e EXCEPT !.ht[1] = v] = Both(e.ht[0], v, e.rehashidx)
           /\ [e EXCEPT !.ht[1] = v, !.rehashidx = 0] = Both(e.ht[0], v, 0)
<1> DEFINE t == e.ht[0]
           u == e.ht[1]
           r == e.rehashidx
<1>0. e = Both(t, u, r)
  OBVIOUS
<1> HIDE DEF t, u, r
<1> DEFINE h == [n \in {0, 1} |-> IF n = 0 THEN t ELSE u]
           h0 == [n \in {0, 1} |-> IF n = 0 THEN v ELSE u]
           h1 == [n \in {0, 1} |-> IF n = 0 THEN t ELSE v]
<1>1. [h EXCEPT ![0] = v] = h0
  OBVIOUS
<1>2. [h EXCEPT ![1] = v] = h1
  <2>1. h[0] = t /\ h1[0] = t /\ h1[1] = v /\ DOMAIN h = {0, 1}
    OBVIOUS
  <2>2. h1 = [n \in {0, 1} |-> h1[n]]
    OBVIOUS
  <2>3. [h EXCEPT ![1] = v] = [n \in {0, 1} |-> IF n = 1 THEN v ELSE h[n]]
    OBVIOUS
  <2> HIDE DEF h, h1
  <2> QED
    BY <2>1, <2>2, <2>3
<1>3. e = [ht |-> h, rehashidx |-> r]
  BY <1>0 DEF Both
<1> HIDE DEF h, h0, h1
<1>4. [e EXCEPT !.ht[0] = v] = [ht |-> h0, rehashidx |-> r]
  BY <1>1, <1>3
<1>5. [e EXCEPT !.ht[1] = v] = [ht |-> h1, rehashidx |-> r]
  BY <1>2, <1>3
<1>6. [e EXCEPT !.ht[1] = v, !.rehashidx = 0] = [ht |-> h1, rehashidx |-> 0]
  <2> DEFINE g == [e EXCEPT !.ht[1] = v]
  <2>1. [e EXCEPT !.ht[1] = v, !.rehashidx = 0] = [g EXCEPT !.rehashidx = 0]
    OBVIOUS
  <2>2. g = [ht |-> h1, rehashidx |-> r]
    BY <1>5
  <2> HIDE DEF g
  <2>3. [g EXCEPT !.rehashidx = 0] = [ht |-> h1, rehashidx |-> 0]
    BY <2>2
  <2> QED
    BY <2>1, <2>3
<1> QED
  BY <1>4, <1>5, <1>6 DEF Both, h0, h1, t, u, r

LEMMA ChainsAre ==
    ASSUME NEW e
    PROVE  /\ \A n \in {0, 1} : \A b \in DOMAIN e.ht[n] : e.ht[n][b] \in Chains(e)
           /\ \A c \in Chains(e) : \E n \in {0, 1} : \E b \in DOMAIN e.ht[n] : c = e.ht[n][b]
<1>1. ASSUME NEW n \in {0, 1}, NEW b \in DOMAIN e.ht[n] PROVE e.ht[n][b] \in Chains(e)
  <2>1. <<n, b>> \in Buckets(e)
    BY DEF Buckets
  <2>2. <<n, b>>[1] = n /\ <<n, b>>[2] = b
    OBVIOUS
  <2> QED
    BY <2>1, <2>2, Zenon DEF Chains
<1>2. ASSUME NEW c \in Chains(e)
      PROVE  \E n \in {0, 1} : \E b \in DOMAIN e.ht[n] : c = e.ht[n][b]
  <2>1. PICK p \in Buckets(e) : c = e.ht[p[1]][p[2]]
    BY DEF Chains
  <2>2. p[1] \in {0, 1} /\ p[2] \in DOMAIN e.ht[p[1]]
    BY <2>1 DEF Buckets
  <2> QED
    BY <2>1, <2>2
<1> QED
  BY <1>1, <1>2

LEMMA KeysAre ==
    ASSUME NEW e, Sound(e)
    PROVE  Keys(e) = KeysIn(e.ht[0]) \cup KeysIn(e.ht[1])
<1>1. \A n \in {0, 1} : Good(e.ht[n])
  BY DEF Sound, SoundParts
<1>2. ASSUME NEW k \in Keys(e) PROVE k \in KeysIn(e.ht[0]) \cup KeysIn(e.ht[1])
  <2>1. PICK c \in Chains(e) : k \in ToSet(c)
    BY DEF Keys
  <2>2. PICK n \in {0, 1} : \E b \in DOMAIN e.ht[n] : c = e.ht[n][b]
    BY ChainsAre
  <2>3. PICK b \in DOMAIN e.ht[n] : c = e.ht[n][b]
    BY <2>2
  <2>4. Good(e.ht[n]) /\ c \in Seq(Key)
    BY <1>1, <2>3, TableSize
  <2>5. PICK i \in 1 .. Len(c) : k = c[i]
    BY <2>1, <2>4 DEF ToSet
  <2>6. k \in KeysIn(e.ht[n])
    BY <2>3, <2>4, <2>5, OnePlace
  <2> QED
    BY <2>6
<1>3. ASSUME NEW n \in {0, 1}, NEW k \in KeysIn(e.ht[n]) PROVE k \in Keys(e)
  <2>1. PICK b \in DOMAIN e.ht[n] : Upto(e.ht[n][b], k, k)
    BY DEF KeysIn
  <2>2. e.ht[n][b] \in Chains(e) /\ e.ht[n][b] \in Seq(Key)
    BY <1>1, ChainsAre, TableSize
  <2>3. PICK i \in 1 .. Len(e.ht[n][b]) : e.ht[n][b][i] = k
    BY <2>1 DEF Upto
  <2>4. k \in ToSet(e.ht[n][b])
    BY <2>2, <2>3 DEF ToSet
  <2> QED
    BY <2>2, <2>4 DEF Keys
<1> QED
  BY <1>2, <1>3

LEMMA KeysCounted ==
    ASSUME NEW e, Sound(e)
    PROVE  Cardinality(Keys(e)) \in Nat
<1>1. Keys(e) \in SUBSET Key
  BY KeysAre DEF KeysIn
<1> QED
  BY <1>1, IteratorAssumption, FS_Subset, FS_CardinalityType

LEMMA NextPowerIs ==
    ASSUME NEW size \in Nat
    PROVE  _dictNextPower(size) \in Nat \ {0}
<1> DEFINE Q == {n \in Powers : n >= size}
<1>1. /\ INITIAL_SIZE \in Nat \ {0} /\ MAX_SIZE \in Nat /\ MAX_SIZE >= INITIAL_SIZE
      /\ \E p \in 0 .. MAX_SIZE : MAX_SIZE = INITIAL_SIZE * 2^p
  BY IteratorAssumption
<1>2. CASE size >= MAX_SIZE
  BY <1>1, <1>2 DEF _dictNextPower
<1>3. CASE ~(size >= MAX_SIZE)
  <2>1. Powers \subseteq Nat \ {0} /\ MAX_SIZE \in Powers
    BY <1>1 DEF Powers
  <2>2. Q \subseteq Nat /\ MAX_SIZE \in Q
    <3>1. MAX_SIZE >= size
      <4>1. MAX_SIZE \in Nat
        BY <1>1
      <4> QED
        BY <1>3, <4>1
    <3> QED
      BY <2>1, <3>1
  <2>3. \E n \in Q : \A i \in Q : n =< i
    <3> HIDE DEF Q
    <3> QED
      BY <2>2, LeastNumber
  <2>4. \E n \in Powers : n >= size /\ \A i \in Powers : i >= size => n =< i
    BY <2>3
  <2>5. _dictNextPower(size) \in Powers
    BY <1>3, <2>4, Zenon DEF _dictNextPower
  <2> QED
    BY <2>1, <2>5
<1> QED
  BY <1>2, <1>3

(* A bucket that is not empty comes next, if there is one: below rehashidx there is none. *)
LEMMA NextBucketIs ==
    ASSUME NEW e, Sound(e), dictIsRehashing(e), ~\A b \in DOMAIN e.ht[0] : e.ht[0][b] = <<>>
    PROVE  /\ NextBucket(e) \in DOMAIN e.ht[0] /\ NextBucket(e) \in 0 .. Size(e.ht[0]) - 1
           /\ \A b \in 0 .. NextBucket(e) - 1 : e.ht[0][b] = <<>>
<1> DEFINE t == e.ht[0]
           r == e.rehashidx
           Q == {j \in r .. Size(t) - 1 : t[j] # <<>>}
<1>1. /\ Size(t) \in Nat /\ DOMAIN t = 0 .. Size(t) - 1 /\ r \in 0 .. Size(t)
      /\ \A b \in 0 .. r - 1 : t[b] = <<>>
  BY TableSize DEF Sound, SoundParts, dictIsRehashing
<1>2. PICK b \in DOMAIN t : t[b] # <<>>
  OBVIOUS
<1> HIDE DEF t, r
<1>3. b \in Q /\ Q \subseteq Nat
  BY <1>1, <1>2
<1>4. PICK n \in Q : \A i \in Q : n =< i
  <2> HIDE DEF Q
  <2> QED
    BY <1>3, LeastNumber
<1>5. n \in r .. Size(t) - 1 /\ t[n] # <<>> /\ \A c \in r .. n - 1 : t[c] = <<>>
  <2>1. \A c \in r .. n - 1 : c \in r .. Size(t) - 1 /\ ~(n =< c)
    BY <1>1, <1>4
  <2> QED
    BY <1>4, <2>1
<1>6. \E j \in r .. Size(t) - 1 : t[j] # <<>> /\ \A c \in r .. j - 1 : t[c] = <<>>
  BY <1>5
<1> DEFINE i == NextBucket(e)
<1>7. i \in r .. Size(t) - 1 /\ t[i] # <<>> /\ \A c \in r .. i - 1 : t[c] = <<>>
  BY <1>6, Zenon DEF NextBucket, t, r
<1> HIDE DEF i
<1>8. i \in 0 .. Size(t) - 1 /\ \A c \in 0 .. i - 1 : t[c] = <<>>
  <2>1. \A c \in 0 .. i - 1 : c \in 0 .. r - 1 \/ c \in r .. i - 1
    BY <1>1, <1>7
  <2> QED
    BY <1>1, <1>7, <2>1
<1> QED
  BY <1>1, <1>8 DEF i, t

(* A turn of the migration loses no key and stores none twice. *)
LEMMA RehashedIs ==
    ASSUME NEW e, Sound(e), dictIsRehashing(e)
    PROVE  Sound(Rehashed(e)) /\ Keys(Rehashed(e)) = Keys(e)
<1> DEFINE t == e.ht[0]
           u == e.ht[1]
           r == e.rehashidx
           f == Rehashed(e)
<1>1. SoundParts(t, u, r) /\ r # -1
  BY DEF Sound, dictIsRehashing
<1>2. Keys(e) = KeysIn(t) \cup KeysIn(u)
  BY KeysAre
<1>3. /\ Good(t) /\ Good(u) /\ KeysIn(t) \cap KeysIn(u) = {}
      /\ Size(t) # 0 /\ Size(u) # 0 /\ r \in 0 .. Size(t)
      /\ \A b \in 0 .. r - 1 : t[b] = <<>>
  BY <1>1 DEF SoundParts
<1>4. CASE \A b \in DOMAIN e.ht[0] : e.ht[0][b] = <<>>
  <2>1. f = Both(u, NoTable, -1)
    BY <1>4 DEF Rehashed, Both
  <2>2. KeysIn(t) = {}
    BY <1>4 DEF KeysIn, Upto
  <2>3. SoundParts(u, NoTable, -1)
    BY <1>3, NoTableIs DEF SoundParts
  <2>4. Sound(f) /\ f.ht[0] = u /\ f.ht[1] = NoTable
    BY <2>1, <2>3, BothIs
  <2>5. Keys(f) = KeysIn(u) \cup {}
    BY <2>4, NoTableIs, KeysAre
  <2> QED
    BY <1>2, <2>2, <2>4, <2>5
<1>5. CASE ~\A b \in DOMAIN e.ht[0] : e.ht[0][b] = <<>>
  <2> DEFINE i == NextBucket(e)
             c == t[i]
             v == [t EXCEPT ![i] = <<>>]
             w == Moved(c, u)
  <2>1. f = Both(v, w, i + 1)
    BY <1>5 DEF Rehashed, Both
  <2>2. i \in DOMAIN t /\ i \in 0 .. Size(t) - 1 /\ \A b \in 0 .. i - 1 : t[b] = <<>>
    BY <1>5, NextBucketIs
  <2>3. /\ Size(t) \in Nat /\ DOMAIN t = 0 .. Size(t) - 1 /\ t \in [0 .. Size(t) - 1 -> Seq(Key)]
        /\ c \in Seq(Key)
    BY <1>3, <2>2, TableSize
  <2> DEFINE n == Size(t)
  <2>4. v \in [0 .. n - 1 -> Seq(Key)] /\ DOMAIN v = 0 .. n - 1
        /\ v[i] = <<>> /\ \A b \in 0 .. n - 1 : b # i => v[b] = t[b]
    <3>1. <<>> \in Seq(Key)
      OBVIOUS
    <3> HIDE DEF i, n, t
    <3> QED
      BY <2>2, <2>3, <3>1 DEF n
  <2> HIDE DEF i, v, w, t, u, n, f
  <2>5. Size(v) = n /\ n \in Nat
    BY <2>3, <2>4, SizeOf DEF n
  <2>6. Good(v)
    <3>1. ASSUME NEW b \in DOMAIN v, NEW b2 \in DOMAIN v,
                 NEW j \in 1 .. Len(v[b]), NEW j2 \in 1 .. Len(v[b2]), v[b][j] = v[b2][j2]
          PROVE  b = b2 /\ j = j2
      <4>1. b # i /\ b2 # i
        BY <2>4, <3>1
      <4>2. b \in DOMAIN t /\ b2 \in DOMAIN t /\ v[b] = t[b] /\ v[b2] = t[b2]
        BY <2>3, <2>4, <4>1 DEF n
      <4>3. \A p \in 1 .. Len(t[b]), q \in 1 .. Len(t[b2]) : t[b][p] = t[b2][q] => b = b2 /\ p = q
        BY <1>3, <4>2 DEF Good
      <4> QED
        BY <3>1, <4>2, <4>3
    <3> QED
      BY <2>4, <2>5, <3>1 DEF Good
  <2>7. KeysIn(v) = {k \in KeysIn(t) : ~Upto(c, k, k)}
    <3>1. ASSUME NEW k \in KeysIn(v) PROVE k \in KeysIn(t) /\ ~Upto(c, k, k)
      <4>1. PICK b \in DOMAIN v : Upto(v[b], k, k)
        BY DEF KeysIn
      <4>2. b # i
        BY <2>4, <4>1 DEF Upto
      <4>3. b \in DOMAIN t /\ Upto(t[b], k, k) /\ k \in Key
        BY <2>3, <2>4, <4>1, <4>2 DEF n, KeysIn
      <4>4. ~Upto(c, k, k)
        <5> SUFFICES ASSUME Upto(c, k, k) PROVE FALSE
          OBVIOUS
        <5>1. PICK p \in 1 .. Len(c) : c[p] = k
          BY DEF Upto
        <5>2. PICK q \in 1 .. Len(t[b]) : t[b][q] = k
          BY <4>3 DEF Upto
        <5>3. \A x \in 1 .. Len(t[b]), y \in 1 .. Len(t[i]) : t[b][x] = t[i][y] => b = i /\ x = y
          BY <1>3, <2>2, <4>3 DEF Good
        <5> QED
          BY <4>2, <5>1, <5>2, <5>3
      <4> QED
        BY <4>3, <4>4 DEF KeysIn
    <3>2. ASSUME NEW k \in KeysIn(t), ~Upto(c, k, k) PROVE k \in KeysIn(v)
      <4>1. PICK b \in DOMAIN t : Upto(t[b], k, k)
        BY DEF KeysIn
      <4>2. b # i
        BY <3>2, <4>1
      <4>3. b \in DOMAIN v /\ v[b] = t[b] /\ k \in Key
        BY <2>3, <2>4, <4>2 DEF n, KeysIn
      <4> QED
        BY <4>1, <4>3 DEF KeysIn
    <3> QED
      BY <3>1, <3>2
  <2>8. \A p, q \in 1 .. Len(c) : c[p] = c[q] => p = q
    BY <1>3, <2>2 DEF Good
  <2>9. \A p \in 1 .. Len(c) : c[p] \in KeysIn(t)
    BY <1>3, <2>2, OnePlace
  <2>10. \A k : Upto(c, k, k) => k \in KeysIn(t)
    BY <2>9 DEF Upto
  <2> HIDE DEF c
  <2>11. /\ Good(w) /\ Size(w) = Size(u)
         /\ \A k : k \in KeysIn(w) <=> k \in KeysIn(u) \/ Upto(c, k, k)
    <3>1. \A p \in 1 .. Len(c) : c[p] \notin KeysIn(u)
      BY <1>3, <2>9
    <3> QED
      BY <1>3, <2>3, <2>8, <3>1, MovedIs DEF w
  <2>12. KeysIn(v) \cap KeysIn(w) = {}
    BY <1>3, <2>7, <2>11
  <2>13. i + 1 \in 0 .. n /\ i + 1 # -1 /\ \A b \in 0 .. (i + 1) - 1 : v[b] = <<>>
    <3>1. i \in 0 .. n - 1 /\ n \in Nat
      BY <2>2, <2>5 DEF n
    <3>2. \A b \in 0 .. (i + 1) - 1 : b \in 0 .. n - 1 /\ (b = i \/ b \in 0 .. i - 1)
      BY <3>1
    <3>3. \A b \in 0 .. (i + 1) - 1 : v[b] = <<>>
      BY <2>2, <2>4, <3>2
    <3> QED
      BY <3>1, <3>3
  <2>14. SoundParts(v, w, i + 1)
    <3>1. Size(v) # 0 /\ Size(w) # 0 /\ i + 1 \in 0 .. Size(v)
      BY <1>3, <2>5, <2>11, <2>13 DEF n
    <3> DEFINE r2 == i + 1
    <3>2. r2 \in 0 .. Size(v) /\ r2 # -1 /\ \A b \in 0 .. r2 - 1 : v[b] = <<>>
      BY <2>13, <3>1, Zenon
    <3> HIDE DEF r2
    <3>3. SoundParts(v, w, r2)
      BY <2>6, <2>11, <2>12, <3>1, <3>2 DEF SoundParts
    <3> QED
      BY <3>3 DEF r2
  <2>15. Sound(f) /\ f.ht[0] = v /\ f.ht[1] = w
    BY <2>1, <2>14, BothIs
  <2>16. Keys(f) = KeysIn(v) \cup KeysIn(w)
    BY <2>15, KeysAre
  <2>17. KeysIn(v) \cup KeysIn(w) = KeysIn(t) \cup KeysIn(u)
    BY <2>7, <2>10, <2>11
  <2> QED
    BY <1>2, <2>15, <2>16, <2>17 DEF f, t, u
<1> QED
  BY <1>4, <1>5

LEMMA SteppedIs ==
    ASSUME NEW e, Sound(e)
    PROVE  /\ Sound(Stepped(e)) /\ Keys(Stepped(e)) = Keys(e)
           /\ Counted => Stepped(e) = e
BY RehashedIs DEF Stepped

(* The keys of both tables, and their order but for k, stay what they were. *)
SameOrder(e, f, k) == SameBut(e.ht[0], f.ht[0], k) /\ SameBut(e.ht[1], f.ht[1], k)

LEMMA SameTable == ASSUME NEW t, NEW k PROVE SameBut(t, t, k)
BY DEF SameBut

LEMMA EmptyTables ==
    ASSUME NEW t, NEW u, Good(t), Good(u), KeysIn(t) = {}, KeysIn(u) = {}, NEW k
    PROVE  SameBut(t, u, k)
<1>1. ASSUME NEW v, Good(v), KeysIn(v) = {}, NEW b, NEW x, NEW y, Place(v, b, y, x) PROVE FALSE
  <2>1. b \in DOMAIN v /\ \E i \in 1 .. Len(v[b]) : TRUE
    BY <1>1 DEF Place, Upto
  <2> QED
    BY <1>1, <2>1, OnePlace
<1> QED
  BY <1>1 DEF SameBut

LEMMA EmptyOfSize ==
    ASSUME NEW t, Good(t), Size(t) = 0
    PROVE  KeysIn(t) = {}
<1>1. DOMAIN t = 0 .. 0 - 1
  BY TableSize
<1>2. 0 .. 0 - 1 = {}
  OBVIOUS
<1> QED
  BY <1>1, <1>2 DEF KeysIn

(* A larger table leaves the keys where they are, and there is one to add to. *)
LEMMA GrownIs ==
    ASSUME NEW e, Sound(e)
    PROVE  /\ Sound(Grown(e)) /\ Keys(Grown(e)) = Keys(e) /\ \A k : SameOrder(e, Grown(e), k)
           /\ Size(Grown(e).ht[IF dictIsRehashing(Grown(e)) THEN 1 ELSE 0]) # 0
<1> DEFINE t == e.ht[0]
           u == e.ht[1]
           r == e.rehashidx
           f == Grown(e)
           used == Cardinality(Keys(e))
<1>1. SoundParts(t, u, r) /\ e = Both(t, u, r) /\ Keys(e) = KeysIn(t) \cup KeysIn(u)
  BY KeysAre DEF Sound
<1>2. used \in Nat /\ Size(t) \in Nat
  BY <1>1, KeysCounted, TableSize DEF SoundParts
<1>3. CASE dictIsRehashing(e) \/ used < Size(e.ht[0])
  <2>1. f = e
    BY <1>3 DEF Grown
  <2>2. Size(e.ht[IF dictIsRehashing(e) THEN 1 ELSE 0]) # 0
    <3>1. CASE dictIsRehashing(e)
      BY <1>1, <3>1 DEF SoundParts, dictIsRehashing
    <3>2. CASE ~dictIsRehashing(e)
      <4>1. used < Size(t)
        BY <1>3, <3>2
      <4>2. Size(t) # 0
        <5> HIDE DEF used, t
        <5> QED
          BY <1>2, <4>1
      <4> QED
        BY <3>2, <4>2
    <3> QED
      BY <3>1, <3>2
  <2> QED
    BY <2>1, <2>2, SameTable DEF SameOrder
<1>4. CASE ~(dictIsRehashing(e) \/ used < Size(e.ht[0]))
  <2>0. r = -1 /\ Size(u) = 0 /\ Good(t) /\ Good(u) /\ KeysIn(u) = {}
    BY <1>1, <1>4, EmptyOfSize DEF SoundParts, dictIsRehashing
  <2>1. CASE Size(e.ht[0]) = 0
    <3> DEFINE v == NewTable(INITIAL_SIZE)
    <3>1. Good(v) /\ Size(v) # 0 /\ KeysIn(v) = {}
      BY NewTableIs, IteratorAssumption
    <3>2. KeysIn(t) = {}
      BY <2>0, <2>1, EmptyOfSize
    <3>3. f = [e EXCEPT !.ht[0] = v]
      BY <1>4, <2>1 DEF Grown
    <3> HIDE DEF v, f
    <3>4. f = Both(v, u, r)
      <4>1. [e EXCEPT !.ht[0] = v] = Both(v, u, r)
        BY <1>1, BothWith, Zenon
      <4> QED
        BY <3>3, <4>1, Zenon
    <3>5. SoundParts(v, u, r)
      BY <2>0, <3>1 DEF SoundParts
    <3>6. Sound(f) /\ f.ht[0] = v /\ f.ht[1] = u /\ f.rehashidx = -1
      BY <2>0, <3>4, <3>5, BothIs
    <3>7. Keys(f) = {} /\ Keys(e) = {}
      BY <1>1, <2>0, <3>1, <3>2, <3>6, KeysAre
    <3>8. \A k : SameBut(t, v, k) /\ SameBut(u, u, k)
      BY <2>0, <3>1, <3>2, EmptyTables, SameTable
    <3> QED
      BY <3>1, <3>6, <3>7, <3>8 DEF SameOrder, dictIsRehashing, f
  <2>2. CASE Size(e.ht[0]) # 0
    <3> DEFINE size == _dictNextPower(2 * used)
               v == NewTable(size)
    <3>1. Good(v) /\ Size(v) # 0 /\ KeysIn(v) = {}
      <4>1. 2 * used \in Nat
        BY <1>2
      <4>2. size \in Nat \ {0}
        BY <4>1, NextPowerIs
      <4> HIDE DEF size
      <4> QED
        BY <4>2, NewTableIs
    <3>2. f = [e EXCEPT !.ht[1] = v, !.rehashidx = 0]
      BY <1>4, <2>2 DEF Grown
    <3> HIDE DEF v, f
    <3>3. f = Both(t, v, 0)
      <4>1. [e EXCEPT !.ht[1] = v, !.rehashidx = 0] = Both(t, v, 0)
        BY <1>1, BothWith, Zenon
      <4> QED
        BY <3>2, <4>1, Zenon
    <3>4. SoundParts(t, v, 0)
      <4>1. 0 \in 0 .. Size(t) /\ 0 .. 0 - 1 = {} /\ 0 # -1
        BY <1>2
      <4> QED
        BY <2>0, <2>2, <3>1, <4>1 DEF SoundParts
    <3>5. Sound(f) /\ f.ht[0] = t /\ f.ht[1] = v /\ f.rehashidx = 0
      BY <3>3, <3>4, BothIs
    <3>6. Keys(f) = Keys(e)
      BY <1>1, <2>0, <3>1, <3>5, KeysAre
    <3>7. \A k : SameBut(t, t, k) /\ SameBut(u, v, k)
      BY <2>0, <3>1, EmptyTables, SameTable
    <3> QED
      BY <3>1, <3>5, <3>6, <3>7 DEF SameOrder, dictIsRehashing, f
  <2> QED
    BY <2>1, <2>2
<1> QED
  BY <1>3, <1>4

LEMMA AddedIs ==
    ASSUME NEW e, Sound(e), NEW k \in Key \ Keys(e),
           Size(e.ht[IF dictIsRehashing(e) THEN 1 ELSE 0]) # 0,
           NEW f, f = [e EXCEPT !.ht[IF dictIsRehashing(e) THEN 1 ELSE 0] = Push(@, k)]
    PROVE  Sound(f) /\ Keys(f) = Keys(e) \cup {k} /\ SameOrder(e, f, k)
<1> DEFINE t == e.ht[0]
           u == e.ht[1]
           r == e.rehashidx
<1>1. /\ SoundParts(t, u, r) /\ e = Both(t, u, r)
      /\ Keys(e) = KeysIn(t) \cup KeysIn(u) /\ Good(t) /\ Good(u)
      /\ KeysIn(t) \cap KeysIn(u) = {}
  BY KeysAre DEF Sound, SoundParts
<1>2. CASE dictIsRehashing(e)
  <2> DEFINE v == Push(u, k)
  <2>1. /\ Good(v) /\ Size(v) = Size(u) /\ KeysIn(v) = KeysIn(u) \cup {k} /\ SameBut(u, v, k)
    BY <1>1, <1>2, Pushed
  <2>2. f = [e EXCEPT !.ht[1] = v]
    BY <1>2
  <2>3. f = Both(t, v, r)
    BY <1>1, <2>2, BothWith, Zenon
  <2> HIDE DEF v
  <2>4. SoundParts(t, v, r)
    BY <1>1, <2>1 DEF SoundParts
  <2>5. Sound(f) /\ f.ht[0] = t /\ f.ht[1] = v
    <3> DEFINE g == Both(t, v, r)
    <3>1. Sound(g) /\ g.ht[0] = t /\ g.ht[1] = v
      BY <2>4, BothIs
    <3>2. f = g
      BY <2>3
    <3> HIDE DEF g
    <3> QED
      BY <3>1, <3>2, Zenon
  <2>6. Keys(f) = KeysIn(t) \cup KeysIn(v)
    BY <2>5, KeysAre
  <2> QED
    BY <1>1, <2>1, <2>5, <2>6, SameTable DEF SameOrder
<1>3. CASE ~dictIsRehashing(e)
  <2> DEFINE v == Push(t, k)
  <2>1. /\ Good(v) /\ Size(v) = Size(t) /\ KeysIn(v) = KeysIn(t) \cup {k} /\ SameBut(t, v, k)
    BY <1>1, <1>3, Pushed
  <2>2. f = [e EXCEPT !.ht[0] = v]
    BY <1>3
  <2>3. f = Both(v, u, r)
    BY <1>1, <2>2, BothWith, Zenon
  <2> HIDE DEF v
  <2>4. SoundParts(v, u, r)
    BY <1>1, <1>3, <2>1 DEF SoundParts, dictIsRehashing
  <2>5. Sound(f) /\ f.ht[0] = v /\ f.ht[1] = u
    <3> DEFINE g == Both(v, u, r)
    <3>1. Sound(g) /\ g.ht[0] = v /\ g.ht[1] = u
      BY <2>4, BothIs
    <3>2. f = g
      BY <2>3
    <3> HIDE DEF g
    <3> QED
      BY <3>1, <3>2, Zenon
  <2>6. Keys(f) = KeysIn(v) \cup KeysIn(u)
    BY <2>5, KeysAre
  <2> QED
    BY <1>1, <2>1, <2>5, <2>6, SameTable DEF SameOrder
<1> QED
  BY <1>2, <1>3

LEMMA DeletedIs ==
    ASSUME NEW e, Sound(e), NEW k,
           NEW f, f = [e EXCEPT !.ht = [t \in {0, 1} |-> Without(e.ht[t], k)]]
    PROVE  Sound(f) /\ Keys(f) = Keys(e) \ {k} /\ SameOrder(e, f, k)
<1> DEFINE t == e.ht[0]
           u == e.ht[1]
           r == e.rehashidx
           v == Without(t, k)
           w == Without(u, k)
<1>1. /\ SoundParts(t, u, r) /\ e = Both(t, u, r)
      /\ Keys(e) = KeysIn(t) \cup KeysIn(u) /\ Good(t) /\ Good(u)
  BY KeysAre DEF Sound, SoundParts
<1>2. /\ Good(v) /\ Size(v) = Size(t) /\ KeysIn(v) = KeysIn(t) \ {k} /\ SameBut(t, v, k)
      /\ \A b \in DOMAIN t : t[b] = <<>> => v[b] = <<>>
  BY <1>1, Removed
<1>3. /\ Good(w) /\ Size(w) = Size(u) /\ KeysIn(w) = KeysIn(u) \ {k} /\ SameBut(u, w, k)
  BY <1>1, Removed
<1>4. f = Both(v, w, r)
  <2>1. e = [ht |-> e.ht, rehashidx |-> r]
    BY <1>1 DEF Both
  <2>2. [n \in {0, 1} |-> Without(e.ht[n], k)] = [n \in {0, 1} |-> IF n = 0 THEN v ELSE w]
    OBVIOUS
  <2> DEFINE h == [n \in {0, 1} |-> Without(e.ht[n], k)]
  <2>3. f = [e EXCEPT !.ht = h]
    OBVIOUS
  <2> HIDE DEF h, r
  <2>4. f = [ht |-> h, rehashidx |-> r]
    BY <2>1, <2>3
  <2> QED
    BY <2>2, <2>4 DEF Both, h
<1>5. Size(t) \in Nat /\ DOMAIN t = 0 .. Size(t) - 1
  BY <1>1, TableSize
<1> HIDE DEF t, u, r, v, w
<1>6. SoundParts(v, w, r)
  <2>1. r # -1 => \A b \in 0 .. r - 1 : b \in DOMAIN t /\ t[b] = <<>>
    BY <1>1, <1>5 DEF SoundParts
  <2>2. KeysIn(v) \cap KeysIn(w) = {}
    BY <1>1, <1>2, <1>3 DEF SoundParts
  <2> QED
    BY <1>1, <1>2, <1>3, <2>1, <2>2 DEF SoundParts
<1>7. Sound(f) /\ f.ht[0] = v /\ f.ht[1] = w
  <2> DEFINE g == Both(v, w, r)
  <2>1. Sound(g) /\ g.ht[0] = v /\ g.ht[1] = w
    BY <1>6, BothIs
  <2>2. f = g
    BY <1>4
  <2> HIDE DEF g
  <2> QED
    BY <2>1, <2>2, Zenon
<1>8. Keys(f) = KeysIn(v) \cup KeysIn(w)
  BY <1>7, KeysAre
<1> QED
  BY <1>1, <1>2, <1>3, <1>7, <1>8 DEF SameOrder, t, u

-----------------------------------------------------------------------------
(* The iterator: what it has still to return. *)

Later(it, n, b) == (n = it.table /\ b > it.index) \/ (n = 1 /\ it.table = 0)

Ahead(e, it, x) ==
    \E n \in {0, 1} : \E b :
        \/ Later(it, n, b) /\ Place(e.ht[n], b, x, x)
        \/ /\ n = it.table /\ b = it.index /\ it.nextEntry # NULL
           /\ Place(e.ht[n], b, it.nextEntry, x)

IterOK(it) ==
    /\ it = [table |-> it.table, index |-> it.index, entry |-> it.entry,
             nextEntry |-> it.nextEntry, over |-> it.over]
    /\ it.table \in {0, 1} /\ it.index \in Int /\ it.over \in BOOLEAN
    /\ it.index = -1 => ~it.over
    /\ it.over => it.nextEntry = NULL /\ it.entry = NULL
    /\ it.nextEntry # NULL => it.nextEntry # it.entry

(* The keys that stay are those returned and those ahead. *)
Kept(e, it, st, sn) ==
    /\ it.nextEntry # NULL => Place(e.ht[it.table], it.index, it.nextEntry, it.nextEntry)
    /\ st \subseteq Keys(e)
    /\ IF it.over THEN st \subseteq sn ELSE \A k \in st : k \in sn <=> ~Ahead(e, it, k)

IInv ==
    /\ Sound(d) /\ again \cap steady = {}
    /\ iter = NULL \/ (IterOK(iter) /\ Kept(d, iter, steady, seen))

LEMMA KeyPlaces ==
    ASSUME NEW e, Sound(e), NEW k
    PROVE  k \in Keys(e) <=> k \in Key /\ \E n \in {0, 1} : \E b : Place(e.ht[n], b, k, k)
BY KeysAre DEF KeysIn, Place

LEMMA KeptWhenSame ==
    ASSUME NEW e, NEW f, Sound(e), Sound(f), NEW k, SameOrder(e, f, k),
           NEW it, IterOK(it), it.nextEntry # NULL => it.nextEntry # k,
           NEW st, NEW sn, Kept(e, it, st, sn), NEW st2, st2 \subseteq st, k \notin st2
    PROVE  Kept(f, it, st2, sn)
<1>1. \A n \in {0, 1} : SameBut(e.ht[n], f.ht[n], k)
  BY DEF SameOrder
<1>2. \A n \in {0, 1} : \A b, x, y :
          x # k /\ y # k => (Place(e.ht[n], b, y, x) <=> Place(f.ht[n], b, y, x))
  BY <1>1 DEF SameBut
<1>3. it.nextEntry # NULL => Place(f.ht[it.table], it.index, it.nextEntry, it.nextEntry)
  BY <1>2 DEF Kept, IterOK
<1>4. ASSUME NEW x \in st2 PROVE x \in Keys(f) /\ (Ahead(e, it, x) <=> Ahead(f, it, x))
  <2>1. x # k /\ x \in Keys(e)
    BY DEF Kept
  <2>2. x \in Keys(f)
    BY <1>2, <2>1, KeyPlaces
  <2>3. Ahead(e, it, x) <=> Ahead(f, it, x)
    BY <1>2, <2>1 DEF Ahead
  <2> QED
    BY <2>2, <2>3
<1> QED
  BY <1>3, <1>4 DEF Kept

(* An iterator that has not started has all keys ahead, however they are moved. *)
LEMMA FreshAhead ==
    ASSUME NEW e, Sound(e), NEW it, it.table = 0, it.index = -1, NEW k \in Keys(e)
    PROVE  Ahead(e, it, k)
<1>1. PICK n \in {0, 1} : \E b : Place(e.ht[n], b, k, k)
  BY KeyPlaces
<1>2. PICK b : Place(e.ht[n], b, k, k)
  BY <1>1
<1>3. b \in Int /\ b > -1
  <2>1. Good(e.ht[n])
    BY DEF Sound, SoundParts
  <2>2. DOMAIN e.ht[n] = 0 .. Size(e.ht[n]) - 1 /\ Size(e.ht[n]) \in Nat
    BY <2>1, TableSize
  <2> QED
    BY <1>2, <2>2 DEF Place
<1>4. Later(it, n, b)
  BY <1>3 DEF Later
<1> QED
  BY <1>2, <1>4 DEF Ahead

LEMMA NotBelow == ASSUME NEW e, Sound(e), NEW n \in {0, 1} PROVE -1 \notin DOMAIN e.ht[n]
<1>1. Good(e.ht[n])
  BY DEF Sound, SoundParts
<1>2. DOMAIN e.ht[n] = 0 .. Size(e.ht[n]) - 1 /\ Size(e.ht[n]) \in Nat
  BY <1>1, TableSize
<1> QED
  BY <1>2

LEMMA KeptWhenFresh ==
    ASSUME NEW e, NEW f, Sound(e), Sound(f), Keys(f) = Keys(e),
           NEW it, IterOK(it), it.table = 0, it.index = -1,
           NEW st, NEW sn, Kept(e, it, st, sn)
    PROVE  Kept(f, it, st, sn)
<1>1. it.nextEntry = NULL
  BY NotBelow DEF Kept, Place
<1>2. ~it.over
  BY DEF IterOK
<1>3. \A k \in st : k \in Keys(f) /\ Ahead(e, it, k) /\ Ahead(f, it, k)
  BY FreshAhead DEF Kept
<1> QED
  BY <1>1, <1>2, <1>3 DEF Kept

-----------------------------------------------------------------------------
(* dictNext. *)

LEMMA OneInAll ==
    ASSUME NEW e, Sound(e), NEW n \in {0, 1}, NEW m \in {0, 1},
           NEW b \in DOMAIN e.ht[n], NEW c \in DOMAIN e.ht[m],
           NEW i \in 1 .. Len(e.ht[n][b]), NEW j \in 1 .. Len(e.ht[m][c]),
           e.ht[n][b][i] = e.ht[m][c][j]
    PROVE  n = m /\ b = c /\ i = j
<1>1. Good(e.ht[n]) /\ Good(e.ht[m]) /\ KeysIn(e.ht[0]) \cap KeysIn(e.ht[1]) = {}
  BY DEF Sound, SoundParts
<1>2. e.ht[n][b][i] \in KeysIn(e.ht[n]) /\ e.ht[m][c][j] \in KeysIn(e.ht[m])
  BY <1>1, OnePlace
<1>3. n = m
  BY <1>1, <1>2, SMTT(30)
<1>4. c \in DOMAIN e.ht[n] /\ j \in 1 .. Len(e.ht[n][c]) /\ e.ht[n][b][i] = e.ht[n][c][j]
  BY <1>3
<1>5. \A p \in 1 .. Len(e.ht[n][b]), q \in 1 .. Len(e.ht[n][c]) :
          e.ht[n][b][p] = e.ht[n][c][q] => b = c /\ p = q
  BY <1>1, <1>4 DEF Good
<1>6. b = c /\ i = j
  BY <1>4, <1>5
<1> QED
  BY <1>3, <1>6

(* he->next is the key one further in the chain. *)
LEMMA AfterIs ==
    ASSUME Sound(d), NEW n \in {0, 1}, NEW b \in DOMAIN d.ht[n], NEW i \in 1 .. Len(d.ht[n][b])
    PROVE  LET c == d.ht[n][b]
           IN  /\ i = Len(c) => After(c[i]) = NULL
               /\ i # Len(c) => i + 1 \in 1 .. Len(c) /\ After(c[i]) = c[i + 1]
<1> DEFINE c == d.ht[n][b]
           k == c[i]
           Nexts == {x \in Key : \E s \in Chains(d) : \E j \in 1 .. Len(s) - 1 :
                                     s[j] = k /\ s[j + 1] = x}
<1>1. c \in Seq(Key) /\ Len(c) \in Nat /\ c \in Chains(d)
  <2>1. Good(d.ht[n])
    BY DEF Sound, SoundParts
  <2> QED
    BY <2>1, TableSize, ChainsAre
<1>2. ASSUME NEW s \in Chains(d), NEW j \in 1 .. Len(s) - 1, s[j] = k
      PROVE  s = c /\ j = i
  <2>1. PICK m \in {0, 1} : \E a \in DOMAIN d.ht[m] : s = d.ht[m][a]
    BY ChainsAre
  <2>2. PICK a \in DOMAIN d.ht[m] : s = d.ht[m][a]
    BY <2>1
  <2>3. Good(d.ht[m])
    BY DEF Sound, SoundParts
  <2>4. Len(s) \in Nat
    BY <2>2, <2>3, TableSize
  <2>5. j \in 1 .. Len(d.ht[m][a])
    BY <2>2, <2>4
  <2>6. d.ht[m][a][j] = d.ht[n][b][i]
    BY <1>2, <2>2
  <2>7. m = n /\ a = b /\ j = i
    <3> HIDE DEF Nexts
    <3>1. \A p \in 1 .. Len(d.ht[m][a]), q \in 1 .. Len(d.ht[n][b]) :
              d.ht[m][a][p] = d.ht[n][b][q] => m = n /\ a = b /\ p = q
      BY OneInAll, SMTT(30)
    <3> QED
      BY <2>5, <2>6, <3>1
  <2> QED
    BY <2>2, <2>7
<1>3. CASE i = Len(c)
  <2>1. Nexts = {}
    <3>1. i \notin 1 .. Len(c) - 1
      BY <1>1, <1>3
    <3> HIDE DEF c, k
    <3> QED
      BY <1>2, <3>1
  <2>2. After(k) = NULL
    BY <2>1 DEF After
  <2> QED
    BY <1>3, <2>2
<1>4. CASE i # Len(c)
  <2>1. i \in 1 .. Len(c) - 1 /\ i + 1 \in 1 .. Len(c)
    BY <1>1, <1>4
  <2>2. c[i + 1] \in Key
    BY <1>1, <2>1, ElementOfSeq
  <2>3. Nexts = {c[i + 1]}
    <3>1. c[i] = k
      OBVIOUS
    <3> HIDE DEF c, k
    <3>2. \A x \in Nexts : x = c[i + 1]
      BY <1>2
    <3>3. c[i + 1] \in Nexts
      BY <1>1, <2>1, <2>2, <3>1
    <3> QED
      BY <3>2, <3>3
  <2>4. After(k) = CHOOSE x \in Nexts : TRUE
    <3>1. Nexts # {}
      BY <2>3
    <3> QED
      BY <3>1 DEF After
  <2> HIDE DEF Nexts
  <2>5. After(k) = c[i + 1]
    BY <2>3, <2>4
  <2> QED
    BY <1>4, <2>1, <2>5
<1> QED
  BY <1>3, <1>4

(* What comes from a key on in its chain is that key and what comes from the next one on. *)
LEMMA AfterOrder ==
    ASSUME Sound(d), NEW n \in {0, 1}, NEW b, NEW k, Place(d.ht[n], b, k, k)
    PROVE  /\ After(k) # k
           /\ After(k) # NULL => Place(d.ht[n], b, After(k), After(k))
           /\ \A x : Place(d.ht[n], b, k, x) <=>
                         x = k \/ (After(k) # NULL /\ Place(d.ht[n], b, After(k), x))
           /\ After(k) # NULL => ~Place(d.ht[n], b, After(k), k)
<1> DEFINE c == d.ht[n][b]
           a == After(k)
<1>1. b \in DOMAIN d.ht[n] /\ \E i \in 1 .. Len(c) : c[i] = k
  BY DEF Place, Upto
<1>2. PICK i \in 1 .. Len(c) : c[i] = k
  BY <1>1
<1>3. c \in Seq(Key) /\ Len(c) \in Nat
  <2>1. Good(d.ht[n])
    BY DEF Sound, SoundParts
  <2> QED
    BY <1>1, <2>1, TableSize
<1>4. \A p, q \in 1 .. Len(c) : c[p] = c[q] => p = q
  BY <1>1, OneInAll
<1>5. /\ i = Len(c) => a = NULL
      /\ i # Len(c) => i + 1 \in 1 .. Len(c) /\ a = c[i + 1]
  BY <1>1, <1>2, AfterIs
<1>6. k \in Key /\ NULL \notin Key
  BY <1>2, <1>3, ElementOfSeq, IteratorAssumption
<1>7. \A x : Place(d.ht[n], b, k, x) <=> Upto(c, k, x)
  BY <1>1 DEF Place
<1>8. \A x : Place(d.ht[n], b, a, x) <=> Upto(c, a, x)
  BY <1>1 DEF Place
<1> HIDE DEF c, a
<1>9. Upto(c, k, k)
  <2>1. i \in 1 .. i
    BY <1>3
  <2> QED
    BY <1>2, <2>1 DEF Upto
<1>10. CASE i = Len(c)
  <2>1. a = NULL
    BY <1>5, <1>10
  <2>2. ASSUME NEW x, Upto(c, k, x) PROVE x = k
    <3>1. PICK p \in 1 .. Len(c) : c[p] = x /\ \E q \in 1 .. p : c[q] = k
      BY <2>2 DEF Upto
    <3>2. PICK q \in 1 .. p : c[q] = k
      BY <3>1
    <3>3. q \in 1 .. Len(c)
      BY <1>3
    <3>4. q = i
      BY <1>2, <1>4, <3>2, <3>3
    <3>5. p = i
      BY <1>3, <1>10, <3>4
    <3> QED
      BY <1>2, <3>1, <3>5
  <2> QED
    BY <1>6, <1>7, <1>9, <2>1, <2>2 DEF a
<1>11. CASE i # Len(c)
  <2>1. i + 1 \in 1 .. Len(c) /\ a = c[i + 1] /\ i + 1 # i /\ i \in Nat
    BY <1>3, <1>5, <1>11
  <2>2. a # k /\ a \in Key
    BY <1>2, <1>3, <1>4, <2>1, ElementOfSeq
  <2>3. Upto(c, a, a)
    <3>1. i + 1 \in 1 .. i + 1
      BY <2>1
    <3> QED
      BY <2>1, <3>1 DEF Upto
  <2>4. ASSUME NEW x, Upto(c, k, x) PROVE x = k \/ Upto(c, a, x)
    <3>1. PICK p \in 1 .. Len(c) : c[p] = x /\ \E q \in 1 .. p : c[q] = k
      BY <2>4 DEF Upto
    <3>2. PICK q \in 1 .. p : c[q] = k
      BY <3>1
    <3>3. q \in 1 .. Len(c)
      BY <1>3
    <3>4. q = i
      BY <1>2, <1>4, <3>2, <3>3
    <3>5. CASE p = i
      BY <1>2, <3>1, <3>5
    <3>6. CASE p # i
      <4>1. i + 1 \in 1 .. p
        BY <1>3, <3>4, <3>6
      <4> QED
        BY <2>1, <3>1, <4>1 DEF Upto
    <3> QED
      BY <3>5, <3>6
  <2>5. ASSUME NEW x, Upto(c, a, x) PROVE x # k /\ Upto(c, k, x)
    <3>1. PICK p \in 1 .. Len(c) : c[p] = x /\ \E q \in 1 .. p : c[q] = a
      BY <2>5 DEF Upto
    <3>2. PICK q \in 1 .. p : c[q] = a
      BY <3>1
    <3>3. q \in 1 .. Len(c)
      BY <1>3
    <3>4. q = i + 1
      BY <1>4, <2>1, <3>2, <3>3
    <3>5. i \in 1 .. p /\ p # i
      BY <1>3, <3>4
    <3>6. x # k
      BY <1>2, <1>4, <3>1, <3>5
    <3> QED
      BY <1>2, <3>1, <3>5, <3>6 DEF Upto
  <2> QED
    BY <1>6, <1>7, <1>8, <1>9, <2>2, <2>3, <2>4, <2>5 DEF a
<1> QED
  BY <1>10, <1>11

(* The key returned was ahead, and the others stay so. *)
LEMMA ReturnedIs ==
    ASSUME Sound(d), IterOK(iter), ~iter.over, Kept(d, iter, steady, seen),
           again \cap steady = {}, NEW n \in {0, 1}, NEW b \in Int \ {-1}, NEW k,
           Place(d.ht[n], b, k, k), Return(n, b, k),
           \A x : Ahead(d, iter, x) <=>
                      \/ Place(d.ht[n], b, k, x)
                      \/ \E m \in {0, 1} : \E c : /\ (n = m /\ c > b) \/ (m = 1 /\ n = 0)
                                                  /\ Place(d.ht[m], c, x, x)
    PROVE  IterOK(iter') /\ Kept(d, iter', steady, seen') /\ again' \cap steady = {}
<1> DEFINE j == iter'
           a == After(k)
           More(x) == \E m \in {0, 1} : \E c : /\ (n = m /\ c > b) \/ (m = 1 /\ n = 0)
                                               /\ Place(d.ht[m], c, x, x)
<1>1. iter' = [table |-> n, index |-> b, entry |-> k, nextEntry |-> a, over |-> iter.over]
  <2>1. iter' = [iter EXCEPT !.table = n, !.index = b, !.entry = k, !.nextEntry = a]
    BY DEF Return
  <2> HIDE DEF a
  <2> QED
    BY <2>1 DEF IterOK
<1>2. j.table = n /\ j.index = b /\ j.entry = k /\ j.nextEntry = a /\ j.over = FALSE
  BY <1>1 DEF IterOK
<1>3. /\ a # k
      /\ a # NULL => Place(d.ht[n], b, a, a)
      /\ \A x : Place(d.ht[n], b, k, x) <=> x = k \/ (a # NULL /\ Place(d.ht[n], b, a, x))
      /\ a # NULL => ~Place(d.ht[n], b, a, k)
  BY AfterOrder
<1>4. IterOK(j)
  <2>1. j = [table |-> j.table, index |-> j.index, entry |-> j.entry,
             nextEntry |-> j.nextEntry, over |-> j.over]
    <3> HIDE DEF a
    <3> QED
      BY <1>1
  <2> HIDE DEF j, a
  <2> QED
    BY <1>2, <1>3, <2>1 DEF IterOK
<1>5. \A x : Ahead(d, j, x) <=> More(x) \/ (a # NULL /\ Place(d.ht[n], b, a, x))
  <2> HIDE DEF j, a
  <2> QED
    BY <1>2 DEF Ahead, Later
<1>6. ~More(k)
  <2> SUFFICES ASSUME NEW m \in {0, 1}, NEW c, (n = m /\ c > b) \/ (m = 1 /\ n = 0),
                      Place(d.ht[m], c, k, k)
               PROVE  FALSE
    BY DEF More
  <2>1. /\ c \in DOMAIN d.ht[m] /\ \E p \in 1 .. Len(d.ht[m][c]) : d.ht[m][c][p] = k
        /\ b \in DOMAIN d.ht[n] /\ \E p \in 1 .. Len(d.ht[n][b]) : d.ht[n][b][p] = k
    BY DEF Place, Upto
  <2>2. m = n /\ b = c
    BY <2>1, OneInAll
  <2> QED
    BY <2>2
<1>7. \A x : Ahead(d, iter, x) <=> x = k \/ Ahead(d, j, x)
  <2> HIDE DEF j, a, More
  <2>1. \A x : Ahead(d, iter, x) <=> Place(d.ht[n], b, k, x) \/ More(x)
    BY DEF More
  <2> QED
    BY <1>3, <1>5, <2>1
<1>8. ~Ahead(d, j, k)
  <2> HIDE DEF j, a, More
  <2> QED
    BY <1>3, <1>5, <1>6
<1>9. seen' = seen \cup {k} /\ again' = IF k \in seen THEN again \cup {k} ELSE again
  BY DEF Return
<1>10. steady \subseteq Keys(d) /\ \A y \in steady : y \in seen <=> ~Ahead(d, iter, y)
  BY DEF Kept
<1> HIDE DEF j, a
<1>11. \A y \in steady : y \in seen' <=> ~Ahead(d, j, y)
  BY <1>7, <1>8, <1>9, <1>10
<1>12. Kept(d, j, steady, seen')
  BY <1>2, <1>3, <1>10, <1>11 DEF Kept
<1>13. again' \cap steady = {}
  BY <1>7, <1>9, <1>10
<1> QED
  BY <1>4, <1>12, <1>13 DEF j

LEMMA SavedReturned ==
    ASSUME Sound(d), IterOK(iter), ~iter.over, Kept(d, iter, steady, seen),
           again \cap steady = {}, iter.nextEntry # NULL,
           Return(iter.table, iter.index, iter.nextEntry)
    PROVE  IterOK(iter') /\ Kept(d, iter', steady, seen') /\ again' \cap steady = {}
<1>1. iter.table \in {0, 1} /\ iter.index \in Int
  BY DEF IterOK
<1>2. Place(d.ht[iter.table], iter.index, iter.nextEntry, iter.nextEntry)
  BY DEF Kept
<1>3. iter.index # -1
  BY <1>1, <1>2, NotBelow DEF Place
<1>4. \A x : Ahead(d, iter, x) <=>
                 \/ Place(d.ht[iter.table], iter.index, iter.nextEntry, x)
                 \/ \E m \in {0, 1} : \E c :
                        /\ (iter.table = m /\ c > iter.index) \/ (m = 1 /\ iter.table = 0)
                        /\ Place(d.ht[m], c, x, x)
  BY <1>1 DEF Ahead, Later
<1> QED
  BY <1>1, <1>2, <1>3, <1>4, ReturnedIs

(* A bucket with keys that comes later is in Rest. *)
LEMMA RestIs ==
    ASSUME Sound(d), IterOK(iter), NEW m \in {0, 1}, NEW c, NEW x,
           Later(iter, m, c), Place(d.ht[m], c, x, x)
    PROVE  <<m, c>> \in Rest
<1>1. c \in DOMAIN d.ht[m] /\ d.ht[m][c] # <<>>
  BY DEF Place, Upto
<1>2. <<m, c>>[1] = m /\ <<m, c>>[2] = c /\ <<m, c>> \in Buckets(d)
  BY <1>1 DEF Buckets
<1>3. m = 1 => dictIsRehashing(d)
  <2> SUFFICES ASSUME m = 1, d.rehashidx = -1 PROVE FALSE
    BY DEF dictIsRehashing
  <2>1. Size(d.ht[1]) = 0 /\ Good(d.ht[1])
    BY DEF Sound, SoundParts
  <2>2. DOMAIN d.ht[1] = 0 .. 0 - 1
    BY <2>1, TableSize
  <2>3. 0 .. 0 - 1 = {}
    OBVIOUS
  <2> QED
    BY <1>1, <2>2, <2>3
<1>4. (m = iter.table /\ c > iter.index) \/ (m = 1 /\ iter.table = 0 /\ dictIsRehashing(d))
  BY <1>3 DEF Later
<1> DEFINE p == <<m, c>>
<1>5. /\ p \in Buckets(d) /\ d.ht[p[1]][p[2]] # <<>>
      /\ \/ p[1] = iter.table /\ p[2] > iter.index
         \/ p[1] = 1 /\ iter.table = 0 /\ dictIsRehashing(d)
  BY <1>1, <1>2, <1>4
<1> HIDE DEF p
<1>6. p \in Rest
  BY <1>5 DEF Rest
<1> QED
  BY <1>6 DEF p

LEMMA FirstReturned ==
    ASSUME Sound(d), IterOK(iter), ~iter.over, Kept(d, iter, steady, seen),
           again \cap steady = {}, iter.nextEntry = NULL,
           NEW p \in Rest, \A q \in Rest : Before(p, q),
           Return(p[1], p[2], d.ht[p[1]][p[2]][1])
    PROVE  IterOK(iter') /\ Kept(d, iter', steady, seen') /\ again' \cap steady = {}
<1>1. PICK n, b : n = p[1] /\ b = p[2]
  OBVIOUS
<1>2. /\ p \in Buckets(d) /\ d.ht[n][b] # <<>>
      /\ (n = iter.table /\ b > iter.index) \/ (n = 1 /\ iter.table = 0)
  BY <1>1 DEF Rest
<1>3. n \in {0, 1} /\ b \in DOMAIN d.ht[n]
  BY <1>1, <1>2 DEF Buckets
<1> DEFINE c == d.ht[n][b]
           k == c[1]
<1>4. \A m \in {0, 1} : DOMAIN d.ht[m] \subseteq Int
  <2> TAKE m \in {0, 1}
  <2>1. Good(d.ht[m])
    BY DEF Sound, SoundParts
  <2>2. DOMAIN d.ht[m] = 0 .. Size(d.ht[m]) - 1 /\ Size(d.ht[m]) \in Nat
    BY <2>1, TableSize
  <2> QED
    BY <2>2
<1>5. c \in Seq(Key) /\ 1 \in 1 .. Len(c)
  <2>1. Good(d.ht[n])
    BY <1>3 DEF Sound, SoundParts
  <2>2. c \in Seq(Key) /\ Len(c) \in Nat /\ c # <<>>
    BY <1>2, <1>3, <2>1, TableSize
  <2> HIDE DEF c
  <2>3. Len(c) # 0
    BY <2>2, EmptySeq
  <2> QED
    BY <2>2, <2>3
<1>6. b \in Int \ {-1}
  BY <1>3, <1>4, NotBelow
<1>7. Upto(c, k, k)
  <2> HIDE DEF c
  <2>1. 1 \in 1 .. 1
    OBVIOUS
  <2> QED
    BY <1>5, <2>1 DEF Upto
<1>8. \A x : Upto(c, x, x) => Upto(c, k, x)
  <2> HIDE DEF c
  <2>1. \A i \in 1 .. Len(c) : 1 \in 1 .. i
    BY <1>5
  <2> QED
    BY <2>1 DEF Upto
<1>9. \A x : Upto(c, k, x) => Upto(c, x, x)
  <2> HIDE DEF c, k
  <2>1. \A i \in 1 .. Len(c) : i \in 1 .. i
    BY <1>5
  <2> QED
    BY <2>1 DEF Upto
<1>10. Place(d.ht[n], b, k, k)
  BY <1>3, <1>7 DEF Place
<1>11. \A x : Place(d.ht[n], b, k, x) <=> Place(d.ht[n], b, x, x)
  <2> HIDE DEF k
  <2> QED
    BY <1>8, <1>9 DEF Place
<1> HIDE DEF c, k
<1>12. \A x : Ahead(d, iter, x) <=>
                  \E m \in {0, 1} : \E a : Later(iter, m, a) /\ Place(d.ht[m], a, x, x)
  BY DEF Ahead
<1> DEFINE More(x) == \E m \in {0, 1} : \E a : /\ (n = m /\ a > b) \/ (m = 1 /\ n = 0)
                                               /\ Place(d.ht[m], a, x, x)
<1>13. iter.table \in {0, 1} /\ iter.index \in Int
  BY DEF IterOK
<1>14. ASSUME NEW x, NEW m \in {0, 1}, NEW a, Later(iter, m, a), Place(d.ht[m], a, x, x)
       PROVE  Place(d.ht[n], b, k, x) \/ More(x)
  <2>1. Before(p, <<m, a>>)
    BY <1>14, RestIs
  <2>2. n < m \/ (n = m /\ b =< a)
    BY <1>1, <2>1 DEF Before
  <2>3. a \in Int
    BY <1>4, <1>14 DEF Place
  <2>4. CASE n = m /\ a = b
    BY <1>11, <1>14, <2>4
  <2>5. CASE ~(n = m /\ a = b)
    <3>1. (n = m /\ a > b) \/ (m = 1 /\ n = 0)
      BY <1>3, <1>6, <2>2, <2>3, <2>5
    <3> QED
      BY <1>14, <3>1
  <2> QED
    BY <2>4, <2>5
<1>15. ASSUME NEW x, Place(d.ht[n], b, k, x) PROVE Ahead(d, iter, x)
  <2>1. Later(iter, n, b)
    BY <1>2 DEF Later
  <2> QED
    BY <1>3, <1>11, <1>12, <1>15, <2>1
<1>16. ASSUME NEW x, More(x) PROVE Ahead(d, iter, x)
  <2>1. PICK m \in {0, 1} : \E a : /\ (n = m /\ a > b) \/ (m = 1 /\ n = 0)
                                   /\ Place(d.ht[m], a, x, x)
    BY <1>16
  <2>2. PICK a : ((n = m /\ a > b) \/ (m = 1 /\ n = 0)) /\ Place(d.ht[m], a, x, x)
    BY <2>1
  <2>3. a \in Int
    BY <1>4, <2>2 DEF Place
  <2>4. Later(iter, m, a)
    <3>1. CASE n = iter.table /\ b > iter.index
      BY <1>6, <1>13, <2>2, <2>3, <3>1 DEF Later
    <3>2. CASE n = 1 /\ iter.table = 0
      BY <2>2, <3>2 DEF Later
    <3> QED
      BY <1>2, <3>1, <3>2
  <2> QED
    BY <1>12, <2>2, <2>4
<1>17. \A x : Ahead(d, iter, x) <=> Place(d.ht[n], b, k, x) \/ More(x)
  <2> HIDE DEF More
  <2> QED
    BY <1>12, <1>14, <1>15, <1>16
<1>18. Return(n, b, k)
  BY <1>1 DEF k, c
<1> QED
  BY <1>3, <1>6, <1>10, <1>17, <1>18, ReturnedIs

LEMMA AllReturned ==
    ASSUME Sound(d), IterOK(iter), ~iter.over, Kept(d, iter, steady, seen),
           iter.nextEntry = NULL, Rest = {},
           NEW last \in {0, 1},
           iter' = [iter EXCEPT !.table = last, !.index = Size(d.ht[last]),
                                !.entry = NULL, !.over = TRUE]
    PROVE  IterOK(iter') /\ Kept(d, iter', steady, seen)
<1>1. Size(d.ht[last]) \in Nat
  <2>1. Good(d.ht[last])
    BY DEF Sound, SoundParts
  <2> QED
    BY <2>1, TableSize
<1> DEFINE s == Size(d.ht[last])
<1> HIDE DEF s
<1>2. iter' = [table |-> last, index |-> s, entry |-> NULL, nextEntry |-> iter.nextEntry,
               over |-> TRUE]
  BY DEF IterOK, s
<1>3. \A x : ~Ahead(d, iter, x)
  <2>1. \A x : \A m \in {0, 1} : \A c : ~(Later(iter, m, c) /\ Place(d.ht[m], c, x, x))
    BY RestIs
  <2> QED
    BY <2>1 DEF Ahead
<1>4. steady \subseteq Keys(d) /\ steady \subseteq seen
  BY <1>3 DEF Kept
<1>5. s \in Int /\ s # -1
  BY <1>1 DEF s
<1>6. IterOK(iter')
  <2> DEFINE j == iter'
  <2>1. j = [table |-> last, index |-> s, entry |-> NULL, nextEntry |-> NULL, over |-> TRUE]
    BY <1>2
  <2> HIDE DEF j
  <2>2. j.table = last /\ j.index = s /\ j.entry = NULL /\ j.nextEntry = NULL /\ j.over = TRUE
    BY <2>1
  <2>3. j = [table |-> j.table, index |-> j.index, entry |-> j.entry,
             nextEntry |-> j.nextEntry, over |-> j.over]
    BY <2>1
  <2>4. IterOK(j)
    BY <1>5, <2>2, <2>3 DEF IterOK
  <2> QED
    BY <2>4 DEF j
<1>7. Kept(d, iter', steady, seen)
  BY <1>2, <1>4 DEF Kept
<1> QED
  BY <1>6, <1>7

-----------------------------------------------------------------------------
(* The steps. *)

LEMMA NextStep == ASSUME IInv, dictNext PROVE IInv'
<1>1. IterOK(iter) /\ Kept(d, iter, steady, seen) /\ ~iter.over /\ Sound(d)
      /\ again \cap steady = {} /\ d' = d /\ steady' = steady
  BY DEF IInv, dictNext
<1>2. CASE iter.nextEntry # NULL /\ Return(iter.table, iter.index, iter.nextEntry)
  BY <1>1, <1>2, SavedReturned DEF IInv
<1>3. ASSUME iter.nextEntry = NULL, NEW p \in Rest, \A q \in Rest : Before(p, q),
             Return(p[1], p[2], d.ht[p[1]][p[2]][1])
      PROVE  IInv'
  BY <1>1, <1>3, FirstReturned DEF IInv
<1>4. ASSUME iter.nextEntry = NULL, Rest = {}, UNCHANGED <<seen, again>>,
             NEW last \in {0, 1},
             iter' = [iter EXCEPT !.table = last, !.index = Size(d.ht[last]),
                                  !.entry = NULL, !.over = TRUE]
      PROVE  IInv'
  BY <1>1, <1>4, AllReturned DEF IInv
<1>5. dictNext =>
        \/ iter.nextEntry # NULL /\ Return(iter.table, iter.index, iter.nextEntry)
        \/ /\ iter.nextEntry = NULL
           /\ \E p \in Rest : /\ \A q \in Rest : Before(p, q)
                              /\ Return(p[1], p[2], d.ht[p[1]][p[2]][1])
        \/ /\ iter.nextEntry = NULL /\ Rest = {} /\ UNCHANGED <<seen, again>>
           /\ \E last \in {0, 1} :
                  iter' = [iter EXCEPT !.table = last, !.index = Size(d.ht[last]),
                                       !.entry = NULL, !.over = TRUE]
  <2> DEFINE last == IF dictIsRehashing(d) THEN 1 ELSE iter.table
  <2>1. last \in {0, 1}
    BY <1>1 DEF IterOK
  <2> QED
    BY <2>1, Zenon DEF dictNext
<1> QED
  BY <1>2, <1>3, <1>4, <1>5

LEMMA GetStep == ASSUME IInv, dictGetSafeIterator PROVE IInv'
<1>1. /\ iter' = [table |-> 0, index |-> -1, entry |-> NULL, nextEntry |-> NULL, over |-> FALSE]
      /\ seen' = {} /\ again' = {} /\ steady' = Keys(d) /\ d' = d /\ Sound(d)
  BY DEF IInv, dictGetSafeIterator
<1>2. IterOK(iter')
  BY <1>1 DEF IterOK
<1>3. iter'.table = 0 /\ iter'.index = -1 /\ iter'.nextEntry = NULL /\ ~iter'.over
  BY <1>1
<1>4. \A k \in Keys(d) : Ahead(d, iter', k)
  <2> DEFINE j == iter'
  <2>1. j.table = 0 /\ j.index = -1
    BY <1>3
  <2> HIDE DEF j
  <2>2. \A k \in Keys(d) : Ahead(d, j, k)
    BY <1>1, <2>1, FreshAhead
  <2> QED
    BY <2>2 DEF j
<1>5. Kept(d, iter', Keys(d), {})
  BY <1>3, <1>4 DEF Kept
<1> QED
  BY <1>1, <1>2, <1>5 DEF IInv

(* The dictionary after a call that may have taken a turn of the migration. *)
LEMMA SteppedKept ==
    ASSUME IInv
    PROVE  /\ Sound(Stepped(d)) /\ Keys(Stepped(d)) = Keys(d)
           /\ iter = NULL \/ (IterOK(iter) /\ Kept(Stepped(d), iter, steady, seen))
<1>1. Sound(d) /\ Sound(Stepped(d)) /\ Keys(Stepped(d)) = Keys(d) /\ (Counted => Stepped(d) = d)
  BY SteppedIs DEF IInv
<1>2. ASSUME iter # NULL PROVE IterOK(iter) /\ Kept(Stepped(d), iter, steady, seen)
  <2>1. IterOK(iter) /\ Kept(d, iter, steady, seen)
    BY <1>2 DEF IInv
  <2>2. CASE Counted
    BY <1>1, <2>1, <2>2
  <2>3. CASE ~Counted
    <3>1. iter.table = 0 /\ iter.index = -1
      BY <1>2, <2>3 DEF Counted
    <3> QED
      BY <1>1, <2>1, <3>1, KeptWhenFresh
  <2> QED
    BY <2>2, <2>3
<1> QED
  BY <1>1, <1>2

LEMMA FindStep == ASSUME IInv, dictFind PROVE IInv'
BY SteppedKept DEF IInv, dictFind

LEMMA RehashStep == ASSUME IInv, dictRehash, Allowed = {} PROVE IInv'
<1>1. d' = Rehashed(d) /\ dictIsRehashing(d) /\ ~Counted
      /\ iter' = iter /\ seen' = seen /\ again' = again /\ steady' = steady
  BY DEF dictRehash
<1>2. d' = Stepped(d)
  BY <1>1 DEF Stepped
<1> QED
  BY <1>1, <1>2, SteppedKept DEF IInv

LEMMA AddStep == ASSUME IInv, NEW k \in Key, dictAdd(k) PROVE IInv'
<1> DEFINE s == Stepped(d)
           e == Grown(s)
<1>1. /\ k \notin Keys(d) /\ iter' = iter /\ seen' = seen /\ again' = again /\ steady' = steady
      /\ d' = [e EXCEPT !.ht[IF dictIsRehashing(e) THEN 1 ELSE 0] = Push(@, k)]
  BY DEF dictAdd
<1>2. Sound(s) /\ Keys(s) = Keys(d)
      /\ (iter = NULL \/ (IterOK(iter) /\ Kept(s, iter, steady, seen)))
  BY SteppedKept
<1> HIDE DEF s
<1>3. /\ Sound(e) /\ Keys(e) = Keys(s) /\ SameOrder(s, e, k)
      /\ Size(e.ht[IF dictIsRehashing(e) THEN 1 ELSE 0]) # 0
  BY <1>2, GrownIs
<1> HIDE DEF e
<1>4. Sound(d') /\ Keys(d') = Keys(e) \cup {k} /\ SameOrder(e, d', k)
  BY <1>1, <1>2, <1>3, AddedIs
<1>5. SameOrder(s, d', k)
  BY <1>3, <1>4 DEF SameOrder, SameBut
<1>6. ASSUME iter # NULL PROVE IterOK(iter) /\ Kept(d', iter, steady, seen)
  <2>1. IterOK(iter) /\ Kept(s, iter, steady, seen)
    BY <1>2, <1>6
  <2>2. k \notin steady
    BY <1>1, <1>2, <2>1 DEF Kept
  <2>3. iter.nextEntry # NULL => iter.nextEntry # k
    <3> SUFFICES ASSUME iter.nextEntry # NULL, iter.nextEntry = k PROVE FALSE
      OBVIOUS
    <3>1. iter.table \in {0, 1} /\ Place(s.ht[iter.table], iter.index, k, k)
      BY <2>1 DEF Kept, IterOK
    <3>2. k \in Keys(s)
      BY <1>2, <3>1, KeyPlaces
    <3> QED
      BY <1>1, <1>2, <3>2
  <2> QED
    BY <1>2, <1>4, <1>5, <2>1, <2>2, <2>3, KeptWhenSame
<1> QED
  BY <1>1, <1>4, <1>6 DEF IInv

LEMMA DeleteStep == ASSUME IInv, NEW k \in Key, dictDelete(k), Allowed = {} PROVE IInv'
<1> DEFINE s == Stepped(d)
<1>1. /\ k \in Keys(d) /\ iter' = iter /\ seen' = seen /\ again' = again
      /\ steady' = steady \ {k} /\ (Counted => k = iter.entry)
      /\ d' = [s EXCEPT !.ht = [t \in {0, 1} |-> Without(s.ht[t], k)]]
  BY DEF dictDelete
<1>2. Sound(s) /\ Keys(s) = Keys(d)
      /\ (iter = NULL \/ (IterOK(iter) /\ Kept(s, iter, steady, seen)))
  BY SteppedKept
<1> HIDE DEF s
<1>3. Sound(d') /\ SameOrder(s, d', k)
  BY <1>1, <1>2, DeletedIs
<1>4. ASSUME iter # NULL PROVE IterOK(iter) /\ Kept(d', iter, steady \ {k}, seen)
  <2>1. IterOK(iter) /\ Kept(s, iter, steady, seen)
    BY <1>2, <1>4
  <2>2. iter.nextEntry # NULL => iter.nextEntry # k
    <3>1. CASE Counted
      BY <1>1, <2>1, <3>1 DEF IterOK
    <3>2. CASE ~Counted
      <4>1. iter.index = -1 /\ iter.table = 0
        BY <1>4, <3>2 DEF Counted
      <4> QED
        BY <1>2, <2>1, <4>1, NotBelow DEF Kept, Place
    <3> QED
      BY <3>1, <3>2
  <2>3. k \notin steady \ {k} /\ steady \ {k} \subseteq steady
    OBVIOUS
  <2> QED
    BY <1>2, <1>3, <2>1, <2>2, <2>3, KeptWhenSame
<1>5. again' \cap steady' = {}
  BY <1>1 DEF IInv
<1> QED
  BY <1>1, <1>3, <1>4, <1>5 DEF IInv

LEMMA Steps == ASSUME IInv, [Next]_vars, Allowed = {} PROVE IInv'
<1>1. CASE dictFind
  BY <1>1, FindStep
<1>2. ASSUME NEW k \in Key, dictAdd(k) PROVE IInv'
  BY <1>2, AddStep
<1>3. ASSUME NEW k \in Key, dictDelete(k) PROVE IInv'
  BY <1>3, DeleteStep
<1>4. CASE dictRehash
  BY <1>4, RehashStep
<1>5. CASE dictGetSafeIterator
  BY <1>5, GetStep
<1>6. CASE dictNext
  BY <1>6, NextStep
<1>7. CASE dictReleaseIterator
  BY <1>7 DEF IInv, dictReleaseIterator
<1>8. CASE UNCHANGED vars
  BY <1>8 DEF IInv, vars
<1> QED
  BY <1>1, <1>2, <1>3, <1>4, <1>5, <1>6, <1>7, <1>8 DEF Next

LEMMA InitIInv == Init => IInv
<1> SUFFICES ASSUME Init PROVE IInv
  OBVIOUS
<1>1. d = Both(NoTable, NoTable, -1)
  BY DEF Init, Both
<1>2. SoundParts(NoTable, NoTable, -1)
  BY NoTableIs DEF SoundParts
<1>3. Sound(d)
  BY <1>1, <1>2, BothIs
<1> QED
  BY <1>3 DEF Init, IInv

(* Under a safe iterator, the keys that stay are at every moment those it has returned and
   those it has still ahead of it. *)
THEOREM Invariance == ASSUME Allowed = {} PROVE Spec => []IInv
<1>1. IInv /\ [Next]_vars => IInv'
  BY Steps
<1> QED
  BY <1>1, InitIInv, PTL DEF Spec

LEMMA SavedIsKey ==
    ASSUME IInv, iter # NULL, iter.nextEntry # NULL
    PROVE  iter.nextEntry \in Key /\ iter.nextEntry \in Keys(d)
<1>1. /\ iter.table \in {0, 1} /\ Sound(d)
      /\ Place(d.ht[iter.table], iter.index, iter.nextEntry, iter.nextEntry)
  BY DEF IInv, IterOK, Kept
<1>2. iter.nextEntry \in Key
  <2>1. Good(d.ht[iter.table])
    BY <1>1 DEF Sound, SoundParts
  <2>2. \E i \in 1 .. Len(d.ht[iter.table][iter.index]) :
            d.ht[iter.table][iter.index][i] = iter.nextEntry
    BY <1>1 DEF Place, Upto
  <2> QED
    BY <1>1, <2>1, <2>2, OnePlace DEF Place, KeysIn
<1> QED
  BY <1>1, <1>2, KeyPlaces

LEMMA RestHasKeys ==
    ASSUME Sound(d), NEW p \in Rest
    PROVE  d.ht[p[1]][p[2]][1] \in Key
<1>1. p[1] \in {0, 1} /\ p[2] \in DOMAIN d.ht[p[1]] /\ d.ht[p[1]][p[2]] # <<>>
  BY DEF Rest, Buckets
<1>2. PICK c : c = d.ht[p[1]][p[2]]
  OBVIOUS
<1>3. Good(d.ht[p[1]])
  BY <1>1 DEF Sound, SoundParts
<1>4. c \in Seq(Key) /\ Len(c) \in Nat /\ c # <<>>
  BY <1>1, <1>2, <1>3, TableSize
<1>5. 1 \in 1 .. Len(c)
  BY <1>4, EmptySeq
<1>6. c[1] \in Key
  BY <1>4, <1>5, ElementOfSeq
<1> QED
  BY <1>2, <1>6

HistoryOK == seen \subseteq Key /\ again \subseteq seen /\ steady \subseteq Key

(* Chains are of keys, the migration stands at a bucket, and what was returned are keys. *)
THEOREM TypeCorrect == ASSUME Allowed = {} PROVE Spec => []TypeOK
<1>1. Init => HistoryOK
  BY DEF Init, HistoryOK
<1>2. ASSUME IInv, HistoryOK, [Next]_vars PROVE HistoryOK'
  <2>1. CASE dictNext
    <3>1. CASE UNCHANGED <<seen, again, steady>>
      BY <1>2, <3>1, ZenonT(60) DEF HistoryOK
    <3>2. ASSUME NEW n, NEW b, NEW k \in Key, Return(n, b, k) PROVE HistoryOK'
      BY <1>2, <2>1, <3>2 DEF HistoryOK, Return, dictNext
    <3>3. iter # NULL /\ iter.nextEntry # NULL => iter.nextEntry \in Key
      BY <1>2, SavedIsKey DEF IInv
    <3>4. \A p \in Rest : d.ht[p[1]][p[2]][1] \in Key
      BY <1>2, RestHasKeys DEF IInv
    <3>5. \/ UNCHANGED <<seen, again, steady>>
          \/ \E n, b : \E k \in Key : Return(n, b, k)
      BY <2>1, <3>3, <3>4 DEF dictNext
    <3> QED
      BY <3>1, <3>2, <3>5
  <2>2. CASE dictGetSafeIterator
    <3>1. Keys(d) \subseteq Key
      BY <1>2, KeyPlaces DEF IInv
    <3> QED
      BY <1>2, <2>2, <3>1 DEF HistoryOK, dictGetSafeIterator
  <2>3. CASE dictReleaseIterator
    BY <2>3 DEF HistoryOK, dictReleaseIterator
  <2>4. CASE dictFind \/ dictRehash \/ UNCHANGED vars
    BY <1>2, <2>4 DEF HistoryOK, dictFind, dictRehash, vars
  <2>5. ASSUME NEW k \in Key, dictAdd(k) PROVE HistoryOK'
    BY <1>2, <2>5 DEF HistoryOK, dictAdd
  <2>6. ASSUME NEW k \in Key, dictDelete(k) PROVE HistoryOK'
    BY <1>2, <2>6 DEF HistoryOK, dictDelete
  <2> QED
    BY <1>2, <2>1, <2>2, <2>3, <2>4, <2>5, <2>6 DEF Next
<1>3. IInv /\ HistoryOK => TypeOK
  <2> SUFFICES ASSUME IInv, HistoryOK PROVE TypeOK
    OBVIOUS
  <2>1. \A n \in {0, 1} : Good(d.ht[n])
    BY DEF IInv, Sound, SoundParts
  <2>2. \A c \in Chains(d) : c \in Seq(Key)
    BY <2>1, ChainsAre, TableSize
  <2>3. Size(d.ht[0]) \in Nat
    BY <2>1, TableSize
  <2>4. d.rehashidx = -1 \/ d.rehashidx \in 0 .. Size(d.ht[0])
    BY DEF IInv, Sound, SoundParts
  <2>5. d.rehashidx \in -1 .. Size(d.ht[0])
    BY <2>3, <2>4
  <2> QED
    BY <2>2, <2>5 DEF TypeOK, HistoryOK
<1> QED
  BY <1>1, <1>2, <1>3, Invariance, PTL DEF Spec

(* dictNext never follows a pointer to an entry that was freed: the user may delete the
   entry it was given, add keys and look them up. *)
THEOREM NextNotFreed == ASSUME Allowed = {} PROVE Spec => []NextEntryLive
<1>1. IInv => NextEntryLive
  BY SavedIsKey DEF NextEntryLive
<1> QED
  BY <1>1, Invariance, PTL

(* A key that stays in the dictionary is returned once and once only, though a migration
   may start under the iterator and move the keys added meanwhile. *)
THEOREM ReturnedOnce == ASSUME Allowed = {} PROVE Spec => []SteadyKeysOnce
<1>1. IInv => SteadyKeysOnce
  BY DEF IInv, SteadyKeysOnce, Kept
<1> QED
  BY <1>1, Invariance, PTL

=============================================================================
