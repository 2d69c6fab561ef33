------------------------------ MODULE SdsProofs ------------------------------
(***************************************************************************)
(* The header, the block and the accounting of a string agree after any    *)
(* sequence of operations (BufferExact of Sds), for all texts, formats,    *)
(* sizes of words and headers, and rules of growth.                        *)
(*                                                                         *)
(* A string is Sound when length, room, block and used_memory fit together *)
(* and no byte is unwritten, Ended when the NUL is where the length says;  *)
(* every operation keeps both.  In between, sdscatfmt is only Sound.       *)
(*                                                                         *)
(* The operations do to the text what Text.tla says (MeansText of Sds),    *)
(* and the texts sdscatrepr quotes and sdssplitlen takes apart are read    *)
(* back and put together (RoundTrips of SdsText).                          *)
(***************************************************************************)
EXTENDS SdsText, SequenceTheorems, FiniteSetTheorems, WellFoundedInduction, TLAPS

Str == [len : Nat, free : Nat, buf : Seq(Byte), block : Nat, used : Int]

Sound(s) == /\ s \in Str
            /\ sdsAllocSize(s) = s.block
            /\ s.used = Padded(s.block) + WORD

Ended(s) == Len(s.buf) = s.len + 1 /\ s.buf[s.len + 1] = NUL

Exact(s) == Sound(s) /\ Ended(s)

IInv == m = NoString(0) \/ Exact(m)

-----------------------------------------------------------------------------
(* Numbers. *)

LEMMA LeastOf ==
    ASSUME NEW T, T \subseteq Nat, T # {}
    PROVE  \E n \in T : \A i \in T : n =< i
<1>1. PICK n \in T : \A i \in T : ~(<<i, n>> \in OpToRel(<, Nat))
  BY NatLessThanWellFounded, WFMin
<1>2. \A i \in T : ~(i < n)
  BY <1>1 DEF OpToRel
<1> QED
  BY <1>2

LEMMA GreatestOf ==
    ASSUME NEW k \in Nat, NEW T, T \subseteq 0 .. k, T # {}
    PROVE  \E n \in T : \A i \in T : i =< n
<1> DEFINE R == {k - i : i \in T}
<1>0. R \subseteq Nat /\ R # {}
  <2>1. PICK i \in T : TRUE
    OBVIOUS
  <2>2. k - i \in R
    BY <2>1
  <2>3. R \subseteq Nat
    OBVIOUS
  <2> QED
    BY <2>2, <2>3
<1>1. PICK r \in R : \A i \in R : r =< i
  <2> HIDE DEF R
  <2> QED
    BY <1>0, LeastOf
<1>2. PICK n \in T : r = k - n
  BY <1>1
<1>3. \A i \in T : k - n =< k - i
  BY <1>1, <1>2
<1> QED
  BY <1>3

LEMMA RemainderSame ==
    ASSUME NEW n \in Nat, NEW w \in Nat \ {0}
    PROVE  n % w \in 0 .. w - 1 /\ (n + w) % w = n % w
<1> DEFINE q == n \div w
           r == n % w
           k == (n + w) \div w
           t == (n + w) % w
<1>1. q \in Int /\ r \in 0 .. w - 1 /\ n = w * q + r
  OBVIOUS
<1>2. k \in Int /\ t \in 0 .. w - 1 /\ n + w = w * k + t
  OBVIOUS
<1> HIDE DEF q, r, k, t
<1>3. w * (k - q - 1) = r - t
  BY <1>1, <1>2
<1> DEFINE d == k - q - 1
<1>4. d \in Int /\ w * d = r - t
  BY <1>1, <1>2, <1>3
<1> HIDE DEF d
<1>5. d >= 1 => w * d >= w
  BY <1>4
<1>6. d =< -1 => w * d =< -w
  BY <1>4
<1>7. d = 0
  BY <1>1, <1>2, <1>4, <1>5, <1>6
<1>8. r = t
  BY <1>1, <1>2, <1>4, <1>7
<1> QED
  BY <1>1, <1>8 DEF r, t

(* A size is padded to a number that is no smaller, and a whole word more is padded to
   a whole word more. *)
LEMMA PaddedWord ==
    ASSUME NEW n \in Nat PROVE Padded(n) \in Nat /\ Padded(n + WORD) = Padded(n) + WORD
<1>1. WORD \in Nat \ {0}
  BY SdsAssumption
<1>2. n % WORD \in 0 .. WORD - 1 /\ (n + WORD) % WORD = n % WORD
  BY <1>1, RemainderSame
<1> QED
  BY <1>1, <1>2 DEF Padded

-----------------------------------------------------------------------------
(* Texts. *)

(* Digits is a recursive function on the numbers; DigitsTo is the same up to k. *)
DigitsFrom(g, n) ==
    IF n < 10 THEN <<Digit[n + 1]>> ELSE Append(g[n \div 10], Digit[(n % 10) + 1])

DigitsTo(g, k) == g = [n \in 0 .. k |-> DigitsFrom(g, n)]

LEMMA Tenth == ASSUME NEW n \in Nat, n >= 10 PROVE n \div 10 \in 0 .. n - 1
OBVIOUS

LEMMA DigitsToExists == ASSUME NEW k \in Nat PROVE \E g : DigitsTo(g, k)
<1> DEFINE Bad == {i \in Nat : ~ \E g : DigitsTo(g, i)}
<1> SUFFICES ASSUME Bad # {} PROVE FALSE
  OBVIOUS
<1>1. PICK i \in Bad : \A j \in Bad : i =< j
  BY LeastOf
<1>2. CASE i = 0
  <2> DEFINE h == [n \in 0 .. 0 |-> <<Digit[n + 1]>>]
  <2>1. h = [n \in 0 .. 0 |-> DigitsFrom(h, n)]
    BY DEF DigitsFrom
  <2> QED
    BY <1>2, <2>1 DEF DigitsTo
<1>3. CASE i # 0
  <2>1. i - 1 \in Nat /\ i - 1 \notin Bad
    BY <1>1, <1>3
  <2>2. PICK g : DigitsTo(g, i - 1)
    BY <2>1
  <2> DEFINE h == [n \in 0 .. i |-> DigitsFrom(g, n)]
  <2>3. ASSUME NEW n \in 0 .. i, n >= 10 PROVE h[n \div 10] = g[n \div 10]
    <3>1. n \div 10 \in 0 .. i - 1 /\ n \div 10 \in 0 .. i
      BY <1>1, <2>3, Tenth
    <3>2. g[n \div 10] = DigitsFrom(g, n \div 10)
      BY <2>2, <3>1 DEF DigitsTo
    <3> QED
      BY <3>1, <3>2
  <2>4. \A n \in 0 .. i : DigitsFrom(g, n) = DigitsFrom(h, n)
    <3> HIDE DEF h
    <3> QED
      BY <2>3, <1>1 DEF DigitsFrom
  <2>5. DigitsTo(h, i)
    BY <2>4 DEF DigitsTo
  <2> QED
    BY <1>1, <2>5
<1> QED
  BY <1>2, <1>3

LEMMA DigitsToAgree ==
    ASSUME NEW g, NEW h, NEW j \in Nat, NEW k \in Nat, DigitsTo(g, j), DigitsTo(h, k),
           NEW n \in Nat, n =< j, n =< k
    PROVE  g[n] = h[n]
<1> DEFINE Bad == {i \in Nat : i =< j /\ i =< k /\ g[i] # h[i]}
<1> SUFFICES ASSUME Bad # {} PROVE FALSE
  OBVIOUS
<1>1. PICK i \in Bad : \A l \in Bad : i =< l
  BY LeastOf
<1>2. g[i] = DigitsFrom(g, i) /\ h[i] = DigitsFrom(h, i)
  <2>1. i \in 0 .. j /\ i \in 0 .. k
    BY <1>1
  <2> HIDE DEF Bad
  <2> QED
    BY <2>1, Zenon DEF DigitsTo
<1>3. i >= 10
  BY <1>1, <1>2 DEF DigitsFrom
<1>4. g[i \div 10] = h[i \div 10]
  BY <1>1, <1>3, Tenth
<1> QED
  BY <1>1, <1>2, <1>4 DEF DigitsFrom

LEMMA DigitsStep == ASSUME NEW n \in Nat PROVE Digits[n] = DigitsFrom(Digits, n)
<1> DEFINE IsDigits(g) == g = [i \in Nat |-> DigitsFrom(g, i)]
           To(i) == CHOOSE g : DigitsTo(g, i)
           all == [i \in Nat |-> To(i)[i]]
<1>1. \A i \in Nat : DigitsTo(To(i), i)
  BY DigitsToExists, Zenon
<1> HIDE DEF To
<1>2. ASSUME NEW i \in Nat PROVE all[i] = DigitsFrom(all, i)
  <2>1. all[i] = DigitsFrom(To(i), i)
    BY <1>1 DEF DigitsTo
  <2>2. CASE i < 10
    BY <2>1, <2>2 DEF DigitsFrom
  <2>3. CASE i >= 10
    <3>1. i \div 10 \in Nat /\ i \div 10 =< i
      BY <2>3, Tenth
    <3>2. To(i)[i \div 10] = To(i \div 10)[i \div 10]
      BY <1>1, <3>1, DigitsToAgree
    <3>3. To(i)[i \div 10] = all[i \div 10]
      BY <3>1, <3>2
    <3> HIDE DEF all
    <3> QED
      BY <2>1, <3>3 DEF DigitsFrom
  <2> QED
    BY <2>2, <2>3
<1>3. IsDigits(all)
  BY <1>2
<1>4. Digits = CHOOSE g : IsDigits(g)
  BY DEF Digits, DigitsFrom
<1>5. IsDigits(Digits)
  BY <1>3, <1>4, Zenon
<1> QED
  BY <1>5

(* A number is written in bytes. *)
LEMMA DigitsText == \A n \in Nat : Digits[n] \in Seq(Byte)
<1> DEFINE Bad == {n \in Nat : Digits[n] \notin Seq(Byte)}
<1> SUFFICES ASSUME Bad # {} PROVE FALSE
  OBVIOUS
<1>1. PICK n \in Bad : \A i \in Bad : n =< i
  BY LeastOf
<1>2. \A d \in 0 .. 9 : Digit[d + 1] \in Byte
  <2>1. \A d \in 0 .. 9 : d + 1 \in DOMAIN Digit
    BY DEF Digit
  <2> QED
    BY <2>1, TextAssumption DEF ToSet
<1>3. CASE n < 10
  <2>1. Digits[n] = <<Digit[n + 1]>>
    BY <1>1, <1>3, DigitsStep DEF DigitsFrom
  <2>2. n \in 0 .. 9
    BY <1>1, <1>3
  <2>3. Digit[n + 1] \in Byte
    BY <1>2, <2>2
  <2>4. <<Digit[n + 1]>> \in Seq(Byte)
    BY <2>3
  <2> QED
    BY <1>1, <2>1, <2>4
<1>4. CASE n >= 10
  <2>1. n \div 10 \in Nat /\ n \div 10 < n
    BY <1>1, <1>4, Tenth
  <2>2. Digits[n \div 10] \in Seq(Byte)
    BY <1>1, <2>1
  <2>3. Digits[n] = Append(Digits[n \div 10], Digit[(n % 10) + 1])
    <3>1. n \in Nat /\ ~(n < 10)
      BY <1>1, <1>4
    <3>2. Digits[n] = DigitsFrom(Digits, n)
      BY <3>1, DigitsStep
    <3> QED
      BY <3>1, <3>2, Zenon DEF DigitsFrom
  <2>4. n % 10 \in 0 .. 9
    BY <1>1
  <2>5. Digit[(n % 10) + 1] \in Byte
    BY <1>2, <2>4
  <2>6. Append(Digits[n \div 10], Digit[(n % 10) + 1]) \in Seq(Byte)
    BY <2>2, <2>5, AppendProperties
  <2> QED
    BY <1>1, <2>3, <2>6
<1> QED
  BY <1>1, <1>3, <1>4

LEMMA NumeralText == ASSUME NEW n \in Int PROVE Numeral(n) \in Seq(Byte)
<1>1. <<"-">> \in Seq(Byte)
  BY TextAssumption
<1>2. n < 0 => -n \in Nat
  OBVIOUS
<1> QED
  BY <1>1, <1>2, DigitsText, ConcatProperties DEF Numeral

LEMMA ZerosText == ASSUME NEW n \in Nat PROVE Zeros(n) \in Seq(Byte) /\ Len(Zeros(n)) = n
BY TextAssumption DEF Zeros

(* A C string function sees a part of the text, up to a NUL if there is one. *)
LEMMA CStringText ==
    ASSUME NEW t \in Seq(Byte)
    PROVE  /\ CString(t) \in Seq(Byte)
           /\ Len(CString(t)) \in 0 .. Len(t)
           /\ CString(t) = SubSeq(t, 1, Len(CString(t)))
           /\ \A i \in 1 .. Len(CString(t)) : t[i] # NUL
           /\ Len(CString(t)) < Len(t) => t[Len(CString(t)) + 1] = NUL
<1> DEFINE P(n) == /\ \A i \in 1 .. n : t[i] # NUL
                   /\ n < Len(t) => t[n + 1] = NUL
           E == {n \in 0 .. Len(t) : n < Len(t) => t[n + 1] = NUL}
           k == CHOOSE n \in 0 .. Len(t) : P(n)
<1>1. \E n \in 0 .. Len(t) : P(n)
  <2>1. Len(t) \in E /\ E \subseteq Nat
    OBVIOUS
  <2>2. PICK n \in E : \A i \in E : n =< i
    <3> HIDE DEF E
    <3> QED
      BY <2>1, LeastOf
  <2>3. ASSUME NEW i \in 1 .. n, t[i] = NUL PROVE FALSE
    <3>1. i - 1 \in E
      BY <2>3
    <3>2. n =< i - 1
      <4> HIDE DEF E
      <4> QED
        BY <2>2, <3>1
    <3> QED
      BY <2>2, <3>2
  <2> QED
    BY <2>3
<1>2. k \in 0 .. Len(t) /\ P(k)
  BY <1>1, Zenon
<1>3. CString(t) = SubSeq(t, 1, k)
  BY DEF CString
<1> HIDE DEF k
<1>4. \A i \in 1 .. k : t[i] \in Byte
  BY <1>2, ElementOfSeq
<1>5. CString(t) \in Seq(Byte) /\ Len(CString(t)) = k
  BY <1>2, <1>3, <1>4, SubSeqProperties
<1> QED
  BY <1>2, <1>3, <1>5

-----------------------------------------------------------------------------
(* Blocks. *)

LEMMA Terminated ==
    ASSUME NEW t \in Seq(Byte)
    PROVE  /\ t \o <<NUL>> \in Seq(Byte) /\ Len(t \o <<NUL>>) = Len(t) + 1
           /\ (t \o <<NUL>>)[Len(t) + 1] = NUL
<1>1. <<NUL>> \in Seq(Byte) /\ Len(<<NUL>>) = 1 /\ <<NUL>>[1] = NUL
  BY TextAssumption
<1> QED
  BY <1>1, ConcatProperties

(* A new string fills its block; the block is added to what was in use. *)
LEMMA Made ==
    ASSUME NEW used \in Int, NEW t \in Seq(Byte)
    PROVE  LET s == sdsnewlen(used, t)
           IN  /\ s \in Str /\ Ended(s) /\ sdsAllocSize(s) = s.block
               /\ s.used = used + (Padded(s.block) + WORD)
<1> DEFINE n == HDR + Len(t) + 1
           b == t \o <<NUL>>
           u == used + Padded(n + PREFIX_SIZE)
           s == [len |-> Len(t), free |-> 0, buf |-> b, block |-> n, used |-> u]
<1>1. sdsnewlen(used, t) = s
  <2> DEFINE z == zmalloc(used, n)
  <2>1. sdsnewlen(used, t) = [z EXCEPT !.len = Len(t), !.buf = b]
    BY DEF sdsnewlen
  <2> HIDE DEF n, b
  <2>2. z = [len |-> 0, free |-> 0, buf |-> <<>>, block |-> n, used |-> u]
    <3>1. z = [NoString(used) EXCEPT !.block = n, !.used = u]
      BY DEF zmalloc, NoString
    <3> HIDE DEF u, z
    <3> QED
      BY <3>1 DEF NoString
  <2> HIDE DEF u, z
  <2> QED
    BY <2>1, <2>2
<1>2. n \in Nat /\ Len(t) \in Nat /\ WORD \in Nat
  BY SdsAssumption
<1>3. b \in Seq(Byte) /\ Len(b) = Len(t) + 1 /\ b[Len(t) + 1] = NUL
  BY Terminated
<1>4. u \in Int /\ u = used + (Padded(n) + WORD)
  <2> HIDE DEF n
  <2>1. Padded(n) \in Nat /\ Padded(n + WORD) = Padded(n) + WORD
    BY <1>2, PaddedWord
  <2> QED
    BY <1>2, <2>1 DEF PREFIX_SIZE
<1>5. HDR + Len(t) + 0 + 1 = n
  BY SdsAssumption
<1> HIDE DEF n, b, u
<1>6. s \in Str
  BY <1>2, <1>3, <1>4 DEF Str
<1> QED
  BY <1>1, <1>3, <1>4, <1>5, <1>6 DEF Ended, sdsAllocSize

LEMMA MadeFirst ==
    ASSUME NEW t \in Seq(Byte) PROVE Exact(sdsnewlen(0, t))
<1> DEFINE s == sdsnewlen(0, t)
<1>1. /\ s \in Str /\ Ended(s) /\ sdsAllocSize(s) = s.block
      /\ s.used = 0 + (Padded(s.block) + WORD)
  BY Made
<1> HIDE DEF s
<1>2. Padded(s.block) \in Nat /\ WORD \in Nat
  BY <1>1, PaddedWord, SdsAssumption DEF Str
<1> QED
  BY <1>1, <1>2 DEF Exact, Sound, s

(* A new string in the place of an old one. *)
LEMMA MadeInstead ==
    ASSUME NEW s, Exact(s), NEW t \in Seq(Byte)
    PROVE  Exact(Replaced(s, sdsnewlen(s.used, t)))
<1> DEFINE n == sdsnewlen(s.used, t)
           r == Replaced(s, n)
<1>1. s \in Str /\ s.used = Padded(s.block) + WORD
  BY DEF Exact, Sound
<1>2. s.used \in Int /\ s.block \in Nat /\ WORD \in Nat
  BY <1>1, SdsAssumption DEF Str
<1>3. /\ n \in Str /\ Ended(n) /\ sdsAllocSize(n) = n.block
      /\ n.used = s.used + (Padded(n.block) + WORD)
  BY <1>2, Made
<1> HIDE DEF n
<1>4. r = [n EXCEPT !.used = n.used - Padded(s.block + PREFIX_SIZE)]
  BY <1>1 DEF Replaced, zfree, NoString, Str
<1>5. Padded(s.block + PREFIX_SIZE) = s.used /\ Padded(n.block) \in Nat /\ n.block \in Nat
  BY <1>1, <1>2, <1>3, PaddedWord DEF PREFIX_SIZE, Str
<1>6. n.used - Padded(s.block + PREFIX_SIZE) = Padded(n.block) + WORD
  BY <1>2, <1>3, <1>5
<1>7. r = [n EXCEPT !.used = Padded(n.block) + WORD]
  BY <1>4, <1>6
<1>8. r \in Str /\ r.len = n.len /\ r.free = n.free /\ r.buf = n.buf
      /\ r.block = n.block /\ r.used = Padded(n.block) + WORD
  <2> DEFINE used == Padded(n.block) + WORD
  <2>1. used \in Int /\ r = [n EXCEPT !.used = used]
    BY <1>2, <1>5, <1>7
  <2> HIDE DEF used, r
  <2>2. /\ r \in Str /\ r.len = n.len /\ r.free = n.free /\ r.buf = n.buf
        /\ r.block = n.block /\ r.used = used
    BY <1>3, <2>1 DEF Str
  <2> QED
    BY <2>2 DEF used
<1> HIDE DEF r
<1> QED
  BY <1>3, <1>8 DEF Exact, Sound, Ended, sdsAllocSize, r, n

LEMMA Freed == ASSUME NEW s, Exact(s) PROVE zfree(s) = NoString(0)
<1>1. s.used = Padded(s.block + PREFIX_SIZE) /\ s.used \in Int
  BY PaddedWord DEF Exact, Sound, Str, PREFIX_SIZE
<1> QED
  BY <1>1 DEF zfree

(* A block that still holds the length and the NUL keeps the bytes. *)
LEMMA Reallocated ==
    ASSUME NEW s, Sound(s), Len(s.buf) =< s.len + 1, NEW room \in Nat
    PROVE  LET r == [zrealloc(s, HDR + (s.len + room) + 1) EXCEPT !.free = room]
           IN  Sound(r) /\ r.len = s.len /\ r.free = room /\ r.buf = s.buf
<1> DEFINE n == HDR + (s.len + room) + 1
           r == [zrealloc(s, n) EXCEPT !.free = room]
<1>1. /\ s \in Str /\ s.len \in Nat /\ s.buf \in Seq(Byte) /\ s.block \in Nat
      /\ s.used = Padded(s.block) + WORD
  BY DEF Sound, Str
<1>2. /\ n \in Nat /\ n - HDR >= Len(s.buf) /\ Len(s.buf) \in Nat /\ n - HDR \in Int
      /\ WORD \in Nat
  <2>1. HDR \in Nat /\ WORD \in Nat /\ Len(s.buf) \in Nat
    BY <1>1, SdsAssumption
  <2>2. n - HDR = s.len + room + 1
    BY <1>1, <2>1
  <2> QED
    BY <1>1, <2>1, <2>2, SMTT(30)
<1>3. Padded(n) \in Nat /\ Padded(s.block) \in Nat
  BY <1>1, <1>2, PaddedWord
<1> HIDE DEF n
<1>4. SubSeq(s.buf, 1, IF n - HDR < Len(s.buf) THEN n - HDR ELSE Len(s.buf)) = s.buf
  BY <1>1, <1>2, SubSeqFull
<1>5. s.used - Padded(s.block) + Padded(n) = Padded(n) + WORD
  BY <1>1, <1>2, <1>3
<1>6. r = [s EXCEPT !.free = room, !.block = n, !.used = Padded(n) + WORD]
  BY <1>1, <1>4, <1>5 DEF zrealloc, Str
<1>7. /\ r \in Str /\ r.len = s.len /\ r.free = room /\ r.buf = s.buf
      /\ r.block = n /\ r.used = Padded(n) + WORD
  <2> DEFINE used == Padded(n) + WORD
  <2>1. used \in Int /\ r = [s EXCEPT !.free = room, !.block = n, !.used = used]
    BY <1>2, <1>3, <1>6
  <2> HIDE DEF used, r
  <2>2. /\ r \in Str /\ r.len = s.len /\ r.free = room /\ r.buf = s.buf
        /\ r.block = n /\ r.used = used
    BY <1>1, <1>2, <2>1 DEF Str
  <2> QED
    BY <2>2 DEF used
<1> HIDE DEF r
<1>8. HDR + s.len + room + 1 = n
  BY <1>1, SdsAssumption DEF n
<1> QED
  BY <1>7, <1>8 DEF Sound, sdsAllocSize, r, n

(* Room is made without touching the bytes. *)
LEMMA Roomed ==
    ASSUME NEW s, Sound(s), Len(s.buf) =< s.len + 1, NEW n \in Nat
    PROVE  LET r == sdsMakeRoomFor(s, n)
           IN  Sound(r) /\ r.len = s.len /\ r.buf = s.buf /\ r.free >= n
<1>1. s.len \in Nat /\ s.free \in Nat
  BY DEF Sound, Str
<1>2. CASE s.free >= n
  BY <1>2 DEF sdsMakeRoomFor
<1>3. CASE ~(s.free >= n)
  <2> DEFINE newlen == IF s.len + n < SDS_MAX_PREALLOC
                       THEN 2 * (s.len + n)
                       ELSE s.len + n + SDS_MAX_PREALLOC
             room == newlen - s.len
             r == [zrealloc(s, HDR + newlen + 1) EXCEPT !.free = newlen - s.len]
  <2>1. room \in Nat /\ room >= n /\ newlen = s.len + room
    BY <1>1, SdsAssumption, SMTT(30)
  <2>2. sdsMakeRoomFor(s, n) = r
    BY <1>3 DEF sdsMakeRoomFor
  <2> HIDE DEF newlen
  <2>3. r = [zrealloc(s, HDR + (s.len + room) + 1) EXCEPT !.free = room]
    BY <2>1
  <2> HIDE DEF room, r
  <2>4. Sound(r) /\ r.len = s.len /\ r.free = room /\ r.buf = s.buf
    BY <2>1, <2>3, Reallocated
  <2> QED
    BY <2>1, <2>2, <2>4
<1> QED
  BY <1>2, <1>3

(* What is written within the block leaves an exact string. *)
LEMMA Written ==
    ASSUME NEW s, Sound(s), NEW at \in Nat, at =< Len(s.buf), NEW t \in Seq(Byte),
           at + Len(t) =< s.len + s.free
    PROVE  Exact(Write(s, at, t)) /\ Write(s, at, t).len = at + Len(t)
<1> DEFINE n == at + Len(t)
           a == [i \in 1 .. at |-> ByteAt(s, i)]
           b == a \o t \o <<NUL>>
           w == Write(s, at, t)
<1>1. /\ s \in Str /\ s.len \in Nat /\ s.free \in Nat /\ s.buf \in Seq(Byte)
      /\ s.block \in Nat /\ s.used \in Int
      /\ HDR + s.len + s.free + 1 = s.block /\ s.used = Padded(s.block) + WORD
  BY DEF Sound, Str, sdsAllocSize
<1>2. n \in Nat /\ s.free + s.len - n \in Nat /\ Len(t) \in Nat
  BY <1>1
<1>3. \A i \in 1 .. at : ByteAt(s, i) \in Byte
  <2>1. \A i \in 1 .. at : i \in 1 .. Len(s.buf)
    BY <1>1
  <2> QED
    BY <1>1, <2>1, ElementOfSeq, LenProperties DEF ByteAt
<1>4. a \in Seq(Byte) /\ Len(a) = at
  BY <1>3
<1>5. b \in Seq(Byte) /\ Len(b) = n + 1 /\ b[n + 1] = NUL
  <2>1. a \o t \in Seq(Byte) /\ Len(a \o t) = n
    <3> HIDE DEF a
    <3> QED
      BY <1>4, ConcatProperties, ZenonT(60)
  <2> DEFINE c == a \o t
  <2> HIDE DEF c, n
  <2>2. c \in Seq(Byte) /\ Len(c) = n
    BY <2>1 DEF c
  <2>3. c \o <<NUL>> \in Seq(Byte) /\ Len(c \o <<NUL>>) = n + 1 /\ (c \o <<NUL>>)[n + 1] = NUL
    BY <2>2, Terminated
  <2> QED
    BY <2>3 DEF c
<1>6. w = [s EXCEPT !.len = n, !.free = s.free + s.len - n, !.buf = b]
  BY <1>1 DEF Write, Resized, Str
<1> HIDE DEF b, n
<1>7. /\ w \in Str /\ w.len = n /\ w.free = s.free + s.len - n /\ w.buf = b
      /\ w.block = s.block /\ w.used = s.used
  BY <1>1, <1>2, <1>5, <1>6 DEF Str
<1> HIDE DEF w
<1>8. HDR + w.len + w.free + 1 = w.block
  BY <1>1, <1>2, <1>7, SdsAssumption, SMTT(30)
<1>9. Sound(w) /\ Ended(w)
  BY <1>1, <1>5, <1>7, <1>8 DEF Sound, Ended, sdsAllocSize
<1> QED
  BY <1>7, <1>9 DEF Exact, w, n

-----------------------------------------------------------------------------
(* The operations. *)

LEMMA ExactFields ==
    ASSUME NEW s, Exact(s)
    PROVE  /\ s \in Str /\ s.len \in Nat /\ s.free \in Nat /\ s.buf \in Seq(Byte)
           /\ s.block \in Nat /\ s.used \in Int /\ Sound(s)
           /\ Len(s.buf) = s.len + 1 /\ s.buf[s.len + 1] = NUL
BY DEF Exact, Sound, Ended, Str

(* A part of the bytes. *)
LEMMA Part ==
    ASSUME NEW s, Exact(s), NEW i \in Nat \ {0}, NEW j \in 0 .. s.len + 1
    PROVE  /\ SubSeq(s.buf, i, j) \in Seq(Byte)
           /\ Len(SubSeq(s.buf, i, j)) = IF i =< j THEN j - i + 1 ELSE 0
           /\ \A k \in 1 .. j - i + 1 : SubSeq(s.buf, i, j)[k] = s.buf[i + k - 1]
<1>1. i \in Int /\ j \in Int /\ \A k \in i .. j : k \in 1 .. Len(s.buf)
  BY ExactFields
<1>2. \A k \in i .. j : s.buf[k] \in Byte
  BY <1>1, ExactFields, ElementOfSeq
<1> QED
  BY <1>1, <1>2, SubSeqProperties

LEMMA Duplicated == ASSUME NEW s, Exact(s) PROVE Exact(sdsdup(s))
<1>1. Content(s) \in Seq(Byte)
  BY ExactFields, Part DEF Content
<1> QED
  BY <1>1, MadeInstead DEF sdsdup

LEMMA Shortened == ASSUME NEW s, Exact(s) PROVE Exact(sdsupdatelen(s))
<1> DEFINE n == Len(CString(s.buf))
           b == SubSeq(s.buf, 1, n + 1)
           u == sdsupdatelen(s)
<1>1. /\ s \in Str /\ s.len \in Nat /\ s.free \in Nat /\ s.buf \in Seq(Byte)
      /\ s.block \in Nat /\ s.used \in Int
      /\ Len(s.buf) = s.len + 1 /\ s.buf[s.len + 1] = NUL
  BY ExactFields
<1>2. /\ n \in 0 .. Len(s.buf) /\ \A i \in 1 .. n : s.buf[i] # NUL
      /\ n < Len(s.buf) => s.buf[n + 1] = NUL
  BY <1>1, CStringText
<1> HIDE DEF n
<1>3. n \in 0 .. s.len /\ s.buf[n + 1] = NUL
  BY <1>1, <1>2
<1>4. /\ b \in Seq(Byte) /\ Len(b) = n + 1 /\ b[n + 1] = NUL
  <2>1. 1 \in Nat \ {0} /\ n + 1 \in 0 .. s.len + 1 /\ n + 1 \in 1 .. (n + 1) - 1 + 1
    BY <1>1, <1>3
  <2>2. b \in Seq(Byte) /\ Len(b) = (n + 1) - 1 + 1 /\ b[n + 1] = s.buf[1 + (n + 1) - 1]
    BY <2>1, Part
  <2> QED
    BY <1>1, <1>3, <2>2
<1> HIDE DEF b
<1>5. u = [s EXCEPT !.len = n, !.free = s.free + s.len - n, !.buf = b]
  BY <1>1 DEF sdsupdatelen, Resized, n, b, Str
<1> HIDE DEF u
<1>6. s.free + s.len - n \in Nat /\ n \in Nat
  BY <1>1, <1>3
<1>7. /\ u \in Str /\ u.len = n /\ u.free = s.free + s.len - n /\ u.buf = b
      /\ u.block = s.block /\ u.used = s.used
  BY <1>1, <1>4, <1>5, <1>6 DEF Str
<1>8. HDR + s.len + s.free + 1 = s.block /\ s.used = Padded(s.block) + WORD
  BY DEF Exact, Sound, sdsAllocSize
<1>9. HDR + u.len + u.free + 1 = u.block
  BY <1>1, <1>3, <1>7, <1>8, SdsAssumption
<1>10. Sound(u) /\ Ended(u)
  BY <1>4, <1>7, <1>8, <1>9 DEF Sound, Ended, sdsAllocSize
<1> QED
  BY <1>10 DEF Exact, u

(* Writing from the front or behind a part that stays. *)
LEMMA Overwritten ==
    ASSUME NEW s, Exact(s), NEW at \in 0 .. s.len, NEW t \in Seq(Byte),
           at + Len(t) =< s.len + s.free
    PROVE  Exact(Write(s, at, t))
<1>1. Sound(s) /\ at \in Nat /\ at =< Len(s.buf)
  BY ExactFields
<1> QED
  BY <1>1, Written

LEMMA Cleared == ASSUME NEW s, Exact(s) PROVE Exact(sdsclear(s))
<1>1. 0 \in 0 .. s.len /\ <<>> \in Seq(Byte) /\ Len(<<>>) = 0 /\ 0 + 0 =< s.len + s.free
  BY ExactFields
<1> QED
  BY <1>1, Overwritten DEF sdsclear

LEMMA LengthLowered == ASSUME NEW s, Exact(s), NEW n \in 0 .. s.len PROVE Exact(sdsDecrLen(s, n))
<1>1. /\ s.len - n \in 0 .. s.len /\ <<>> \in Seq(Byte) /\ Len(<<>>) = 0
      /\ s.len - n + 0 =< s.len + s.free
  BY ExactFields
<1> QED
  BY <1>1, Overwritten DEF sdsDecrLen

LEMMA RoomRemoved == ASSUME NEW s, Exact(s) PROVE Exact(sdsRemoveFreeSpace(s))
<1> DEFINE r == [zrealloc(s, HDR + (s.len + 0) + 1) EXCEPT !.free = 0]
<1>1. s.len + 0 = s.len /\ Sound(s) /\ Len(s.buf) =< s.len + 1 /\ 0 \in Nat
  BY ExactFields
<1>2. Sound(r) /\ r.len = s.len /\ r.buf = s.buf
  BY <1>1, Reallocated
<1>3. r = sdsRemoveFreeSpace(s)
  BY <1>1 DEF sdsRemoveFreeSpace
<1> HIDE DEF r
<1> QED
  BY <1>2, <1>3, ExactFields DEF Exact, Ended

LEMMA RoomMade ==
    ASSUME NEW s, Exact(s), NEW n \in Nat
    PROVE  LET r == sdsMakeRoomFor(s, n)
           IN  Exact(r) /\ r.len = s.len /\ r.buf = s.buf /\ r.free >= n
<1>1. Sound(s) /\ Len(s.buf) =< s.len + 1
  BY ExactFields
<1> QED
  BY <1>1, Roomed, ExactFields DEF Exact, Ended

LEMMA Appended ==
    ASSUME NEW s, Exact(s), NEW t \in Seq(Byte)
    PROVE  Exact(Write(sdsMakeRoomFor(s, Len(t)), s.len, t))
<1> DEFINE r == sdsMakeRoomFor(s, Len(t))
<1>1. Exact(r) /\ r.len = s.len /\ r.free >= Len(t)
  BY RoomMade
<1> HIDE DEF r
<1>2. s.len \in 0 .. r.len /\ s.len + Len(t) =< r.len + r.free
  BY <1>1, ExactFields
<1>3. Exact(Write(r, s.len, t))
  BY <1>1, <1>2, Overwritten
<1> QED
  BY <1>3 DEF r

LEMMA Zeroed == ASSUME NEW s, Exact(s), NEW n \in Nat PROVE Exact(sdsgrowzero(s, n))
<1>1. CASE n =< s.len
  BY <1>1 DEF sdsgrowzero
<1>2. CASE ~(n =< s.len)
  <2>1. n - s.len \in Nat
    BY <1>2, ExactFields
  <2>2. Zeros(n - s.len) \in Seq(Byte) /\ Len(Zeros(n - s.len)) = n - s.len
    BY <2>1, ZerosText
  <2> QED
    BY <1>2, <2>2, Appended DEF sdsgrowzero
<1> QED
  BY <1>1, <1>2

LEMMA Copied == ASSUME NEW s, Exact(s), NEW t \in Seq(Byte) PROVE Exact(sdscpylen(s, t))
<1> DEFINE r == IF s.free + s.len < Len(t) THEN sdsMakeRoomFor(s, Len(t) - s.len) ELSE s
<1>1. Exact(r) /\ 0 \in 0 .. r.len /\ 0 + Len(t) =< r.len + r.free
  <2>1. CASE s.free + s.len < Len(t)
    <3> DEFINE q == sdsMakeRoomFor(s, Len(t) - s.len)
    <3>1. Len(t) - s.len \in Nat
      BY <2>1, ExactFields
    <3>2. Exact(q) /\ q.len = s.len /\ q.free >= Len(t) - s.len
      BY <3>1, RoomMade
    <3> HIDE DEF q
    <3>3. 0 \in 0 .. q.len /\ 0 + Len(t) =< q.len + q.free
      BY <3>1, <3>2, ExactFields
    <3> QED
      BY <2>1, <3>2, <3>3 DEF q
  <2>2. CASE ~(s.free + s.len < Len(t))
    BY <2>2, ExactFields
  <2> QED
    BY <2>1, <2>2
<1> HIDE DEF r
<1>2. Exact(Write(r, 0, t))
  BY <1>1, Overwritten
<1> QED
  BY <1>2 DEF sdscpylen, r

(* sdstrim keeps what is between the first and the last byte not of the set. *)
LEMMA Cut ==
    ASSUME NEW s, Exact(s), NEW i \in 1 .. s.len + 1, NEW j \in 0 .. s.len
    PROVE  Exact(Write(s, 0, SubSeq(s.buf, i, j)))
<1>1. /\ SubSeq(s.buf, i, j) \in Seq(Byte) /\ 0 \in 0 .. s.len
      /\ 0 + Len(SubSeq(s.buf, i, j)) =< s.len + s.free
  BY ExactFields, Part
<1> QED
  BY <1>1, Overwritten

(* The first byte that stays and the last one. *)
TrimFirst(s, C, i) == /\ \A n \in 1 .. i - 1 : s.buf[n] \in C
                      /\ i =< s.len => s.buf[i] \notin C

TrimLast(s, C, j) == /\ \A n \in j + 1 .. s.len : s.buf[n] \in C
                     /\ j > 1 => s.buf[j] \notin C
                     /\ s.len > 0 => j >= 1

LEMMA TrimEnds ==
    ASSUME NEW s, Exact(s), NEW cset
    PROVE  LET C == cset \cup {NUL}
           IN  \E i \in 1 .. s.len + 1, j \in 0 .. s.len :
                   /\ TrimFirst(s, C, i) /\ TrimLast(s, C, j)
                   /\ sdstrim(s, cset) =
                          Write(s, 0, IF i > j THEN <<>> ELSE SubSeq(s.buf, i, j))
<1> DEFINE C == cset \cup {NUL}
           sp == CHOOSE i \in 1 .. s.len + 1 : TrimFirst(s, C, i)
           ep == CHOOSE j \in 0 .. s.len : TrimLast(s, C, j)
<1>0. s.len \in Nat
  BY ExactFields
<1>1. \E i \in 1 .. s.len + 1 : TrimFirst(s, C, i)
  <2> DEFINE T == {i \in 1 .. s.len + 1 : i =< s.len => s.buf[i] \notin C}
  <2>1. T \subseteq Nat /\ s.len + 1 \in T
    BY <1>0
  <2>2. PICK i \in T : \A k \in T : i =< k
    <3> HIDE DEF T
    <3> QED
      BY <2>1, LeastOf
  <2>3. ASSUME NEW n \in 1 .. i - 1 PROVE s.buf[n] \in C
    <3>1. n \in 1 .. s.len + 1 /\ n =< s.len /\ ~(i =< n)
      BY <1>0
    <3>2. n \notin T
      BY <2>2, <3>1
    <3> QED
      BY <3>1, <3>2
  <2> QED
    BY <2>3 DEF TrimFirst
<1>2. \E j \in 0 .. s.len : TrimLast(s, C, j)
  <2> DEFINE T == {j \in 0 .. s.len : /\ j > 1 => s.buf[j] \notin C
                                      /\ s.len > 0 => j >= 1}
  <2>1. T \subseteq 0 .. s.len /\ T # {}
    <3>1. CASE s.len = 0
      <4>1. 0 \in T
        BY <3>1
      <4> QED
        BY <4>1
    <3>2. CASE s.len # 0
      <4>1. 1 \in T
        BY <1>0, <3>2
      <4> QED
        BY <4>1
    <3> QED
      BY <3>1, <3>2
  <2>2. PICK j \in T : \A k \in T : k =< j
    <3> HIDE DEF T
    <3> QED
      BY <1>0, <2>1, GreatestOf
  <2>3. ASSUME NEW n \in j + 1 .. s.len PROVE s.buf[n] \in C
    <3>1. n \in 0 .. s.len /\ ~(n =< j) /\ (s.len > 0 => n >= 1) /\ j \in 0 .. s.len
      BY <1>0
    <3>2. n \notin T
      BY <2>2, <3>1
    <3> QED
      BY <3>1, <3>2
  <2> QED
    BY <2>3 DEF TrimLast
<1>3. sp \in 1 .. s.len + 1 /\ TrimFirst(s, C, sp)
  BY <1>1, Zenon
<1>4. ep \in 0 .. s.len /\ TrimLast(s, C, ep)
  BY <1>2, Zenon
<1>5. sdstrim(s, cset) = Write(s, 0, IF sp > ep THEN <<>> ELSE SubSeq(s.buf, sp, ep))
  BY DEF sdstrim, TrimFirst, TrimLast
<1> HIDE DEF sp, ep
<1> QED
  BY <1>3, <1>4, <1>5

LEMMA TrimmedExact == ASSUME NEW s, Exact(s), NEW cset PROVE Exact(sdstrim(s, cset))
<1>1. PICK i \in 1 .. s.len + 1, j \in 0 .. s.len :
          sdstrim(s, cset) = Write(s, 0, IF i > j THEN <<>> ELSE SubSeq(s.buf, i, j))
  BY TrimEnds
<1>2. CASE i > j
  BY <1>1, <1>2, Cleared DEF sdsclear
<1>3. CASE ~(i > j)
  BY <1>1, <1>3, Cut
<1> QED
  BY <1>2, <1>3

LEMMA RangeTaken ==
    ASSUME NEW s, Exact(s), NEW start \in Int, NEW end \in Int PROVE Exact(sdsrange(s, start, end))
<1> DEFINE Clip(i) == IF i >= 0 THEN i ELSE IF s.len + i < 0 THEN 0 ELSE s.len + i
           a == Clip(start)
           b == IF Clip(end) >= s.len THEN s.len - 1 ELSE Clip(end)
           newlen == IF a > Clip(end) \/ a >= s.len THEN 0 ELSE b - a + 1
<1>0. s.len \in Nat
  BY ExactFields
<1>1. a \in Nat /\ newlen \in Nat /\ (newlen = 0 \/ a + newlen =< s.len)
  BY <1>0
<1>2. CASE s.len = 0
  BY <1>2 DEF sdsrange
<1>3. CASE s.len # 0
  <2>1. sdsrange(s, start, end) = Write(s, 0, SubSeq(s.buf, a + 1, a + newlen))
    BY <1>3 DEF sdsrange
  <2> HIDE DEF a, newlen
  <2>2. CASE newlen = 0
    <3>1. SubSeq(s.buf, a + 1, a + newlen) = <<>>
      BY <1>1, <2>2, SubSeqEmpty
    <3> QED
      BY <2>1, <3>1, Cleared DEF sdsclear
  <2>3. CASE newlen # 0
    BY <1>0, <1>1, <2>1, <2>3, Cut
  <2> QED
    BY <2>2, <2>3
<1> QED
  BY <1>2, <1>3

LEMMA FunctionIsText ==
    ASSUME NEW n \in Nat, NEW b \in [1 .. n -> Byte] PROVE b \in Seq(Byte) /\ Len(b) = n
OBVIOUS

LEMMA CharsMapped ==
    ASSUME NEW s, Exact(s), NEW from \in Seq(Byte), NEW to \in Seq(Byte), Len(from) = Len(to)
    PROVE  Exact(sdsmapchars(s, from, to))
<1> DEFINE at(j) == {i \in DOMAIN from : from[i] = s.buf[j]}
           c(j) == IF j > s.len \/ at(j) = {} THEN s.buf[j] ELSE to[Min(at(j))]
           b == [j \in DOMAIN s.buf |-> c(j)]
           w == sdsmapchars(s, from, to)
<1>1. /\ s \in Str /\ s.len \in Nat /\ s.buf \in Seq(Byte)
      /\ Len(s.buf) = s.len + 1 /\ s.buf[s.len + 1] = NUL
      /\ DOMAIN s.buf = 1 .. s.len + 1
  BY ExactFields, LenProperties
<1>2. ASSUME NEW j \in 1 .. s.len + 1 PROVE c(j) \in Byte
  <2>1. s.buf[j] \in Byte
    BY <1>1, ElementOfSeq
  <2>2. ASSUME at(j) # {} PROVE to[Min(at(j))] \in Byte
    <3> DEFINE T == at(j)
    <3>1. T \subseteq 1 .. Len(to) /\ T \subseteq Nat /\ T # {}
      BY <2>2, LenProperties
    <3> HIDE DEF T
    <3>2. \E n \in T : \A i \in T : n =< i
      BY <3>1, LeastOf
    <3>3. Min(T) \in T
      BY <3>2, Zenon DEF Min
    <3>4. to[Min(T)] \in Byte
      BY <3>1, <3>3, ElementOfSeq
    <3> QED
      BY <3>4 DEF T
  <2> HIDE DEF at
  <2> QED
    BY <2>1, <2>2
<1>3. c(s.len + 1) = NUL
  <2> HIDE DEF at
  <2> QED
    BY <1>1
<1> HIDE DEF c
<1>4. b \in Seq(Byte) /\ Len(b) = s.len + 1 /\ b[s.len + 1] = NUL
  <2>1. s.len + 1 \in Nat /\ s.len + 1 \in 1 .. s.len + 1
    BY <1>1
  <2>2. b \in [1 .. s.len + 1 -> Byte]
    BY <1>1, <1>2
  <2>3. b[s.len + 1] = NUL
    BY <1>1, <1>3, <2>1
  <2> HIDE DEF b
  <2> QED
    BY <2>1, <2>2, <2>3, FunctionIsText
<1>5. w = [s EXCEPT !.buf = b]
  BY <1>1 DEF sdsmapchars, c
<1> HIDE DEF b, w
<1>6. /\ w \in Str /\ w.len = s.len /\ w.free = s.free /\ w.buf = b
      /\ w.block = s.block /\ w.used = s.used
  BY <1>1, <1>4, <1>5 DEF Str
<1> QED
  BY <1>4, <1>6 DEF Exact, Sound, Ended, sdsAllocSize, w

(* A number is replaced by a text that is a number, or kept. *)
LEMMA Counted == ASSUME NEW s, Exact(s), NEW incr \in Int PROVE Exact(cobj_incrby(s, incr))
<1> DEFINE n == sds_to_int64(s)
           num == CHOOSE v \in n : TRUE
           r == Replaced(s, sdsnewlen(s.used, sdsll2str(num + incr)))
<1>1. n \subseteq Int64 /\ Int64 \subseteq Int
  <2>1. Int64 \subseteq Int
    BY SdsAssumption DEF Int64
  <2>2. \A t : Denoted(t) \subseteq Int64
    BY Zenon DEF Denoted
  <2> QED
    BY <2>1, <2>2 DEF sds_to_int64
<1>2. ASSUME n # {} PROVE Exact(r)
  <2>1. num \in n
    <3> HIDE DEF n
    <3> QED
      BY <1>2, Zenon
  <2> HIDE DEF n, num
  <2>2. num + incr \in Int
    BY <1>1, <2>1
  <2>3. sdsll2str(num + incr) \in Seq(Byte)
    BY <2>2, NumeralText DEF sdsll2str
  <2> QED
    BY <2>3, MadeInstead
<1>3. cobj_incrby(s, incr) \in {s, r} /\ (n = {} => cobj_incrby(s, incr) = s)
  BY DEF cobj_incrby
<1> HIDE DEF n, r
<1> QED
  BY <1>2, <1>3

-----------------------------------------------------------------------------
(* sdscatfmt, piece by piece. *)

LEMMA PieceBytes ==
    ASSUME NEW p \in Piece
    PROVE  PieceText(p) \in Seq(Byte) /\ (p.kind = "byte" => Len(PieceText(p)) = 1)
<1>1. CASE p \in [kind : {"byte"}, text : {<<c>> : c \in Byte}]
  <2>1. p.kind = "byte" /\ p.text \in {<<c>> : c \in Byte}
    BY <1>1
  <2>2. PieceText(p) = p.text
    BY <2>1 DEF PieceText
  <2>3. PICK c \in Byte : p.text = <<c>>
    BY <2>1
  <2>4. <<c>> \in Seq(Byte) /\ Len(<<c>>) = 1
    OBVIOUS
  <2> QED
    BY <2>2, <2>3, <2>4
<1>2. CASE p \in [kind : {"s", "S"}, text : Seq(Byte)]
  <2>1. p.kind \in {"s", "S"} /\ p.text \in Seq(Byte)
    BY <1>2
  <2>2. PieceText(p) \in {p.text, CString(p.text)}
    BY <2>1 DEF PieceText
  <2> QED
    BY <2>1, <2>2, CStringText
<1>3. CASE p \in [kind : {"i"}, num : Int64]
  <2>1. p.kind = "i" /\ p.num \in Int
    BY <1>3, SdsAssumption DEF Int64
  <2>2. PieceText(p) = Numeral(p.num)
    BY <2>1 DEF PieceText, sdsll2str
  <2> QED
    BY <2>1, <2>2, NumeralText
<1>4. CASE p \in [kind : {"u"}, num : Nat]
  <2>1. p.kind = "u" /\ p.num \in Nat
    BY <1>4
  <2>2. PieceText(p) = Digits[p.num]
    BY <2>1 DEF PieceText, sdsull2str
  <2> QED
    BY <2>1, <2>2, DigitsText
<1> QED
  BY <1>1, <1>2, <1>3, <1>4 DEF Piece

(* In between the bytes go as far as the length, or up to the old NUL. *)
Partial(s) == Sound(s) /\ Len(s.buf) \in {s.len, s.len + 1}

LEMMA PieceAdded ==
    ASSUME NEW s, Partial(s), NEW p \in Piece
    PROVE  Partial(AddPiece(s, p)) /\ Content(AddPiece(s, p)) = AddText(Content(s), p)
<1> DEFINE t == PieceText(p)
           a == IF s.free = 0 THEN sdsMakeRoomFor(s, 1) ELSE s
           b == IF p.kind # "byte" /\ a.free < Len(t) THEN sdsMakeRoomFor(a, Len(t)) ELSE a
           n == b.len + Len(t)
           h == [i \in 1 .. b.len |-> ByteAt(b, i)]
           w == AddPiece(s, p)
<1>1. t \in Seq(Byte) /\ Len(t) \in Nat /\ (p.kind = "byte" => Len(t) = 1)
  BY PieceBytes
<1>2. w = [Resized(b, n) EXCEPT !.buf = h \o t]
  BY DEF AddPiece
<1> HIDE DEF t
<1>3. Sound(s) /\ Len(s.buf) =< s.len + 1 /\ Len(s.buf) >= s.len
      /\ s.len \in Nat /\ s.free \in Nat
  BY DEF Partial, Sound, Str
<1>4. Sound(a) /\ a.len = s.len /\ a.buf = s.buf /\ a.free >= 1 /\ a.free \in Nat
  <2>1. CASE s.free = 0
    <3>1. Sound(a) /\ a.len = s.len /\ a.buf = s.buf /\ a.free >= 1
      BY <1>3, <2>1, Roomed
    <3> HIDE DEF a
    <3> QED
      BY <3>1 DEF Sound, Str
  <2>2. CASE s.free # 0
    BY <1>3, <2>2
  <2> QED
    BY <2>1, <2>2
<1> HIDE DEF a
<1>5. Sound(b) /\ b.len = s.len /\ b.buf = s.buf /\ b.free >= Len(t)
  <2>1. CASE p.kind # "byte" /\ a.free < Len(t)
    BY <1>1, <1>3, <1>4, <2>1, Roomed
  <2>2. CASE ~(p.kind # "byte" /\ a.free < Len(t))
    <3>1. b = a
      BY <2>2
    <3>2. a.free >= Len(t)
      <4>1. CASE p.kind = "byte"
        BY <1>1, <1>4, <4>1
      <4>2. CASE p.kind # "byte"
        <5>1. ~(a.free < Len(t))
          BY <2>2, <4>2
        <5> QED
          BY <1>1, <1>4, <5>1
      <4> QED
        BY <4>1, <4>2
    <3> HIDE DEF b
    <3> QED
      BY <1>4, <3>1, <3>2
  <2> QED
    BY <2>1, <2>2
<1> HIDE DEF b, w
<1>6. /\ b \in Str /\ b.len \in Nat /\ b.free \in Nat /\ b.buf \in Seq(Byte)
      /\ b.block \in Nat /\ b.used \in Int
      /\ HDR + b.len + b.free + 1 = b.block /\ b.used = Padded(b.block) + WORD
      /\ Len(b.buf) >= b.len
  BY <1>3, <1>5 DEF Sound, Str, sdsAllocSize
<1>7. \A i \in 1 .. b.len : ByteAt(b, i) \in Byte
  <2>1. \A i \in 1 .. b.len : i \in 1 .. Len(b.buf)
    BY <1>6
  <2> QED
    BY <1>6, <2>1, ElementOfSeq, LenProperties DEF ByteAt
<1>8. h \in Seq(Byte) /\ Len(h) = b.len
  BY <1>6, <1>7
<1>81. h = Content(s)
  <2> DEFINE c == SubSeq(s.buf, 1, s.len)
  <2>1. /\ s.buf \in Seq(Byte) /\ Len(s.buf) \in Nat /\ b.len = s.len /\ b.buf = s.buf
        /\ \A i \in 1 .. s.len : i \in 1 .. Len(s.buf)
    BY <1>3, <1>5, <1>6
  <2>2. \A i \in 1 .. s.len : s.buf[i] \in Byte
    BY <2>1, ElementOfSeq
  <2>3. /\ c \in Seq(Byte) /\ Len(c) = IF 1 =< s.len THEN s.len - 1 + 1 ELSE 0
        /\ \A i \in 1 .. s.len - 1 + 1 : c[i] = s.buf[1 + i - 1]
    BY <1>3, <2>2, SubSeqProperties
  <2>4. \A i \in 1 .. s.len : h[i] = s.buf[i]
    BY <2>1, LenProperties DEF ByteAt
  <2> HIDE DEF c, h
  <2>5. Len(c) = s.len /\ \A i \in 1 .. s.len : c[i] = s.buf[i]
    BY <1>3, <2>3
  <2>6. h = c
    BY <1>8, <2>1, <2>3, <2>4, <2>5, SeqEqual
  <2> QED
    BY <2>6 DEF c, Content
<1> HIDE DEF h
<1>9. h \o t \in Seq(Byte) /\ Len(h \o t) = n
  BY <1>1, <1>8, ConcatProperties
<1> DEFINE e == h \o t
<1>10. w = [b EXCEPT !.len = n, !.free = b.free + b.len - n, !.buf = e]
  BY <1>2, <1>6 DEF Resized, Str
<1>11. n \in Nat /\ b.free + b.len - n \in Nat
  BY <1>1, <1>5, <1>6
<1>12. e \in Seq(Byte) /\ Len(e) = n
  BY <1>9
<1> HIDE DEF e, n
<1>13. /\ w \in Str /\ w.len = n /\ w.free = b.free + b.len - n /\ w.buf = e
       /\ w.block = b.block /\ w.used = b.used
  BY <1>6, <1>10, <1>11, <1>12 DEF Str
<1>14. HDR + w.len + w.free + 1 = w.block
  BY <1>6, <1>11, <1>13, SdsAssumption, SMTT(30)
<1>15. Partial(w)
  BY <1>6, <1>12, <1>13, <1>14 DEF Partial, Sound, sdsAllocSize
<1>16. Content(w) = AddText(Content(s), p)
  <2>1. SubSeq(e, 1, n) = e
    BY <1>12, SubSeqFull
  <2> QED
    BY <1>13, <1>81, <2>1 DEF Content, AddText, e, t
<1> QED
  BY <1>15, <1>16 DEF w

(* FoldLeft is a recursive function on the sets of places; FoldTo is the same on the
   places up to k, with either operator. *)
Add(op, x, p) == IF op = "piece" THEN AddPiece(x, p) ELSE AddText(x, p)

FoldStep(op, g, s, f, S) ==
    IF S = {} THEN s ELSE Add(op, g[S \ {Max(S)}], f[Max(S)])

FoldTo(op, g, s, f, k) == g = [S \in SUBSET (1 .. k) |-> FoldStep(op, g, s, f, S)]

LEMMA MaxOf ==
    ASSUME NEW k \in Nat, NEW S \in SUBSET (1 .. k), S # {}
    PROVE  /\ Max(S) \in S /\ Max(S) \in 1 .. k
           /\ S \ {Max(S)} \in SUBSET (1 .. Max(S) - 1)
<1>1. S \subseteq 0 .. k
  OBVIOUS
<1>2. \E n \in S : \A i \in S : i =< n
  BY <1>1, GreatestOf
<1>3. \E n \in S : \A i \in S : n >= i
  BY <1>2
<1>4. Max(S) \in S /\ \A i \in S : Max(S) >= i
  BY <1>3, Zenon DEF Max
<1>5. ASSUME NEW i \in S, i # Max(S) PROVE i \in 1 .. Max(S) - 1
  <2>1. i \in 1 .. k /\ Max(S) \in 1 .. k /\ Max(S) >= i
    BY <1>4
  <2> HIDE DEF Max
  <2> QED
    BY <1>5, <2>1
<1> QED
  BY <1>4, <1>5

LEMMA FoldToExists ==
    ASSUME NEW op, NEW s, NEW f, NEW k \in Nat
    PROVE  \E g : FoldTo(op, g, s, f, k)
<1> DEFINE Bad == {i \in Nat : ~ \E g : FoldTo(op, g, s, f, i)}
<1> SUFFICES ASSUME Bad # {} PROVE FALSE
  OBVIOUS
<1>1. PICK i \in Bad : \A j \in Bad : i =< j
  BY LeastOf
<1>2. CASE i = 0
  <2> DEFINE h == [S \in SUBSET (1 .. 0) |-> s]
  <2>1. \A S \in SUBSET (1 .. 0) : S = {}
    OBVIOUS
  <2>2. h = [S \in SUBSET (1 .. 0) |-> FoldStep(op, h, s, f, S)]
    BY <2>1 DEF FoldStep
  <2> QED
    BY <1>2, <2>2 DEF FoldTo
<1>3. CASE i # 0
  <2>1. i - 1 \in Nat /\ i - 1 \notin Bad
    BY <1>1, <1>3
  <2>2. PICK g : FoldTo(op, g, s, f, i - 1)
    BY <2>1
  <2> DEFINE h == [S \in SUBSET (1 .. i) |-> FoldStep(op, g, s, f, S)]
  <2>3. ASSUME NEW S \in SUBSET (1 .. i), S # {}
        PROVE  g[S \ {Max(S)}] = h[S \ {Max(S)}]
    <3> DEFINE R == S \ {Max(S)}
    <3>1. Max(S) \in 1 .. i /\ R \in SUBSET (1 .. Max(S) - 1)
      BY <1>1, <2>3, MaxOf
    <3>2. R \in SUBSET (1 .. i - 1) /\ R \in SUBSET (1 .. i)
      BY <1>1, <3>1
    <3> HIDE DEF R
    <3>3. g[R] = FoldStep(op, g, s, f, R)
      BY <2>2, <3>2 DEF FoldTo
    <3>4. h[R] = FoldStep(op, g, s, f, R)
      BY <3>2
    <3> QED
      BY <3>3, <3>4 DEF R
  <2>4. \A S \in SUBSET (1 .. i) : FoldStep(op, g, s, f, S) = FoldStep(op, h, s, f, S)
    <3> HIDE DEF h
    <3> QED
      BY <2>3 DEF FoldStep
  <2>5. FoldTo(op, h, s, f, i)
    BY <2>4 DEF FoldTo
  <2> QED
    BY <1>1, <2>5
<1> QED
  BY <1>2, <1>3

(* Such a function goes from one place to the next. *)
Walk(op, g, s, f) == /\ g[{}] = s
                     /\ \A k \in 1 .. Len(f) : g[1 .. k] = Add(op, g[1 .. k - 1], f[k])

LEMMA FoldWalks ==
    ASSUME NEW op, NEW s, NEW f \in Seq(Piece), NEW g, FoldTo(op, g, s, f, Len(f))
    PROVE  Walk(op, g, s, f)
<1>1. Len(f) \in Nat
  OBVIOUS
<1>2. \A S \in SUBSET (1 .. Len(f)) : g[S] = FoldStep(op, g, s, f, S)
  BY DEF FoldTo
<1>3. g[{}] = s
  <2>1. {} \in SUBSET (1 .. Len(f))
    OBVIOUS
  <2> QED
    BY <1>2, <2>1 DEF FoldStep
<1>4. ASSUME NEW k \in 1 .. Len(f) PROVE g[1 .. k] = Add(op, g[1 .. k - 1], f[k])
  <2>0. k \in 1 .. k /\ k \in Nat /\ 1 .. k \in SUBSET (1 .. Len(f))
    BY <1>1
  <2>1. 1 .. k # {} /\ 1 .. k \in SUBSET (1 .. k)
    BY <2>0, Zenon
  <2>2. Max(1 .. k) = k
    <3>1. \A i \in 1 .. k : k >= i
      BY <2>0
    <3>2. \A x \in 1 .. k : (\A y \in 1 .. k : x >= y) => x = k
      BY <2>0
    <3>3. \E x \in 1 .. k : \A y \in 1 .. k : x >= y
      BY <2>0, <3>1
    <3> QED
      BY <3>2, <3>3, Zenon DEF Max
  <2>3. (1 .. k) \ {k} = 1 .. k - 1
    BY <2>0
  <2> QED
    BY <1>2, <2>0, <2>1, <2>2, <2>3 DEF FoldStep
<1> QED
  BY <1>3, <1>4 DEF Walk

LEMMA PiecesWalk ==
    ASSUME NEW s, NEW f \in Seq(Piece)
    PROVE  \E g : Walk("piece", g, s, f) /\ FoldLeft(AddPiece, s, f) = g[1 .. Len(f)]
<1> DEFINE St(g, S) == IF S = {} THEN s ELSE AddPiece(g[S \ {Max(S)}], f[Max(S)])
           P(g) == g = [S \in SUBSET (1 .. Len(f)) |-> St(g, S)]
           h == CHOOSE g : P(g)
<1>1. DOMAIN f = 1 .. Len(f) /\ Len(f) \in Nat
  BY LenProperties
<1>2. FoldLeft(AddPiece, s, f) = h[1 .. Len(f)]
  BY <1>1 DEF FoldLeft, MapThenFoldSet
<1>3. \A g, S : St(g, S) = FoldStep("piece", g, s, f, S)
  BY DEF FoldStep, Add
<1> HIDE DEF St
<1>4. \A g : P(g) <=> FoldTo("piece", g, s, f, Len(f))
  BY <1>3 DEF FoldTo
<1>5. \E g : P(g)
  <2> HIDE DEF P
  <2> QED
    BY <1>1, <1>4, FoldToExists
<1>6. P(h)
  <2> HIDE DEF P
  <2> QED
    BY <1>5, Zenon
<1> HIDE DEF h, P
<1> QED
  BY <1>2, <1>4, <1>6, FoldWalks

LEMMA TextsWalk ==
    ASSUME NEW f \in Seq(Piece)
    PROVE  \E g : Walk("text", g, <<>>, f) /\ FoldLeft(AddText, <<>>, f) = g[1 .. Len(f)]
<1> DEFINE St(g, S) == IF S = {} THEN <<>> ELSE AddText(g[S \ {Max(S)}], f[Max(S)])
           P(g) == g = [S \in SUBSET (1 .. Len(f)) |-> St(g, S)]
           h == CHOOSE g : P(g)
<1>1. DOMAIN f = 1 .. Len(f) /\ Len(f) \in Nat
  BY LenProperties
<1>2. FoldLeft(AddText, <<>>, f) = h[1 .. Len(f)]
  BY <1>1 DEF FoldLeft, MapThenFoldSet
<1>3. \A g, S : St(g, S) = FoldStep("text", g, <<>>, f, S)
  BY DEF FoldStep, Add
<1> HIDE DEF St
<1>4. \A g : P(g) <=> FoldTo("text", g, <<>>, f, Len(f))
  BY <1>3 DEF FoldTo
<1>5. \E g : P(g)
  <2> HIDE DEF P
  <2> QED
    BY <1>1, <1>4, FoldToExists
<1>6. P(h)
  <2> HIDE DEF P
  <2> QED
    BY <1>5, Zenon
<1> HIDE DEF h, P
<1> QED
  BY <1>2, <1>4, <1>6, FoldWalks

(* The string that grows piece by piece, and the text that does. *)
LEMMA PiecesAdded ==
    ASSUME NEW s, Partial(s), NEW f \in Seq(Piece), Content(s) \in Seq(Byte)
    PROVE  /\ Partial(FoldLeft(AddPiece, s, f))
           /\ FoldLeft(AddText, <<>>, f) \in Seq(Byte)
           /\ Content(FoldLeft(AddPiece, s, f)) = Content(s) \o FoldLeft(AddText, <<>>, f)
<1>1. PICK g : Walk("piece", g, s, f) /\ FoldLeft(AddPiece, s, f) = g[1 .. Len(f)]
  BY PiecesWalk
<1>2. PICK h : Walk("text", h, <<>>, f) /\ FoldLeft(AddText, <<>>, f) = h[1 .. Len(f)]
  BY TextsWalk
<1> DEFINE Good(k) == /\ Partial(g[1 .. k]) /\ h[1 .. k] \in Seq(Byte)
                      /\ Content(g[1 .. k]) = Content(s) \o h[1 .. k]
           Bad == {k \in Nat : k =< Len(f) /\ ~Good(k)}
<1>3. Len(f) \in Nat
  OBVIOUS
<1>4. Good(0)
  <2>1. 1 .. 0 = {} /\ <<>> \in Seq(Byte)
    OBVIOUS
  <2>2. g[1 .. 0] = s /\ h[1 .. 0] = <<>>
    BY <1>1, <1>2, <2>1 DEF Walk
  <2>3. Content(s) \o <<>> = Content(s)
    BY ConcatEmptySeq
  <2> QED
    BY <2>1, <2>2, <2>3
<1>5. ASSUME NEW k \in 1 .. Len(f), Good(k - 1) PROVE Good(k)
  <2> DEFINE x == g[1 .. k - 1]
             y == h[1 .. k - 1]
             t == PieceText(f[k])
  <2>1. f[k] \in Piece
    BY ElementOfSeq
  <2>2. g[1 .. k] = AddPiece(x, f[k]) /\ h[1 .. k] = AddText(y, f[k])
    BY <1>1, <1>2 DEF Walk, Add
  <2>3. Partial(x) /\ y \in Seq(Byte) /\ Content(x) = Content(s) \o y
    BY <1>5
  <2>4. t \in Seq(Byte)
    BY <2>1, PieceBytes
  <2> HIDE DEF x, y
  <2>5. Partial(AddPiece(x, f[k])) /\ Content(AddPiece(x, f[k])) = Content(x) \o t
    BY <2>1, <2>3, PieceAdded DEF AddText
  <2>6. AddText(y, f[k]) = y \o t
    BY DEF AddText
  <2> HIDE DEF t
  <2>7. y \o t \in Seq(Byte)
    BY <2>3, <2>4, ConcatProperties
  <2>8. (Content(s) \o y) \o t = Content(s) \o (y \o t)
    BY <2>3, <2>4, ConcatAssociative, SMTT(30)
  <2> QED
    BY <2>2, <2>3, <2>5, <2>6, <2>7, <2>8
<1> HIDE DEF Good
<1>6. ASSUME Bad # {} PROVE FALSE
  <2>1. PICK k \in Bad : \A j \in Bad : k =< j
    BY <1>6, LeastOf
  <2>2. k # 0 /\ k \in 1 .. Len(f) /\ k - 1 \in Nat /\ ~(k =< k - 1)
    BY <1>3, <1>4, <2>1
  <2>3. k - 1 \notin Bad
    BY <2>1, <2>2
  <2> QED
    BY <1>5, <2>1, <2>2, <2>3
<1>7. Good(Len(f))
  BY <1>3, <1>6
<1> QED
  BY <1>1, <1>2, <1>7 DEF Good

LEMMA Formatted ==
    ASSUME NEW s, Exact(s), NEW f \in Seq(Piece)
    PROVE  /\ Exact(sdscatfmt(s, f))
           /\ sdscatfmt(s, f).len = Len(Content(FoldLeft(AddPiece, s, f)))
           /\ sdscatfmt(s, f).buf = Content(FoldLeft(AddPiece, s, f)) \o <<NUL>>
           /\ Content(FoldLeft(AddPiece, s, f)) = Content(s) \o FoldLeft(AddText, <<>>, f)
           /\ Content(FoldLeft(AddPiece, s, f)) \in Seq(Byte)
<1> DEFINE r == FoldLeft(AddPiece, s, f)
           c == SubSeq(r.buf, 1, r.len)
           b == c \o <<NUL>>
           w == sdscatfmt(s, f)
<1>1. Partial(s)
  BY ExactFields DEF Partial
<1>2. Partial(r) /\ Content(r) = Content(s) \o FoldLeft(AddText, <<>>, f)
  <2>1. Content(s) \in Seq(Byte)
    BY ExactFields, Part DEF Content
  <2> QED
    BY <1>1, <2>1, PiecesAdded
<1>3. w = [r EXCEPT !.buf = b]
  BY DEF sdscatfmt
<1> HIDE DEF r, w
<1>4. /\ r \in Str /\ r.len \in Nat /\ r.buf \in Seq(Byte) /\ Len(r.buf) >= r.len
      /\ Len(r.buf) \in Nat
  BY <1>2 DEF Partial, Sound, Str
<1>5. \A i \in 1 .. r.len : r.buf[i] \in Byte
  <2>1. \A i \in 1 .. r.len : i \in 1 .. Len(r.buf)
    BY <1>4
  <2> QED
    BY <1>4, <2>1, ElementOfSeq
<1>6. c \in Seq(Byte) /\ Len(c) = r.len
  BY <1>4, <1>5, SubSeqProperties
<1>61. c = Content(r)
  BY DEF Content
<1> HIDE DEF c
<1>7. b \in Seq(Byte) /\ Len(b) = r.len + 1 /\ b[r.len + 1] = NUL
  BY <1>6, Terminated
<1>71. b = Content(r) \o <<NUL>> /\ Len(Content(r)) = r.len /\ Content(r) \in Seq(Byte)
  BY <1>6, <1>61
<1> HIDE DEF b
<1>8. /\ w \in Str /\ w.len = r.len /\ w.free = r.free /\ w.buf = b
      /\ w.block = r.block /\ w.used = r.used
  BY <1>3, <1>4, <1>7 DEF Str
<1>9. Exact(w)
  BY <1>2, <1>7, <1>8 DEF Partial, Exact, Sound, Ended, sdsAllocSize
<1> QED
  BY <1>2, <1>71, <1>8, <1>9 DEF w, r

-----------------------------------------------------------------------------
(* The invariant. *)

LEMMA MakeExact == ASSUME m.block = 0, IInv, Make PROVE Exact(m')
<1>1. m.used = 0
  <2>1. ~Exact(m)
    <3> SUFFICES ASSUME Exact(m) PROVE FALSE
      OBVIOUS
    <3>1. HDR + m.len + m.free + 1 = m.block /\ m.len \in Nat /\ m.free \in Nat
      BY DEF Exact, Sound, Str, sdsAllocSize
    <3> QED
      BY <3>1, SdsAssumption
  <2> QED
    BY <2>1 DEF IInv, NoString
<1>2. ASSUME NEW t \in Arg PROVE Exact(sdsnewlen(m.used, t)) /\ Exact(sdsnew(m.used, t))
  <2>1. t \in Seq(Byte) /\ CString(t) \in Seq(Byte)
    BY TextAssumption, CStringText
  <2> QED
    BY <1>1, <2>1, MadeFirst DEF sdsnew
<1>3. ASSUME NEW n \in 0 .. MaxLen PROVE Exact(sdsnewzeros(m.used, n))
  <2>1. Zeros(n) \in Seq(Byte)
    BY ZerosText
  <2> QED
    BY <1>1, <2>1, MadeFirst DEF sdsnewzeros
<1>4. ASSUME NEW v \in Int64 PROVE Exact(sdsnewlen(m.used, sdsll2str(v)))
  <2>1. v \in Int
    BY SdsAssumption DEF Int64
  <2>2. sdsll2str(v) \in Seq(Byte)
    BY <2>1, NumeralText DEF sdsll2str
  <2> QED
    BY <1>1, <2>2, MadeFirst
<1> QED
  BY <1>2, <1>3, <1>4 DEF Make

LEMMA ReshapeExact == ASSUME Exact(m), Reshape PROVE Exact(m')
<1>1. ASSUME NEW n \in 0 .. MaxRoom PROVE Exact(sdsMakeRoomFor(m, n))
  BY RoomMade
<1>2. ASSUME NEW n \in 0 .. MaxLen PROVE Exact(sdsgrowzero(m, n))
  BY Zeroed
<1> QED
  BY <1>1, <1>2, Duplicated, Shortened, Cleared, RoomRemoved, LengthLowered DEF Reshape

LEMMA GrowExact == ASSUME Exact(m), Grow PROVE Exact(m')
<1>1. ASSUME NEW t \in Arg
      PROVE  /\ Exact(sdscatlen(m, t)) /\ Exact(sdscat(m, t)) /\ Exact(sdsIncrLen(m, t))
             /\ Exact(sdscatvprintf(m, t))
  <2>1. t \in Seq(Byte) /\ CString(t) \in Seq(Byte)
    BY TextAssumption, CStringText
  <2> QED
    BY <2>1, Appended DEF sdscatlen, sdscat, sdsIncrLen, sdscatvprintf
<1>2. ASSUME NEW f \in Format PROVE Exact(sdscatfmt(m, f))
  BY TextAssumption, Formatted
<1> QED
  BY <1>1, <1>2 DEF Grow

LEMMA EditExact == ASSUME Exact(m), Edit PROVE Exact(m')
<1>1. ASSUME NEW t \in Arg PROVE Exact(sdscpylen(m, t))
  BY TextAssumption, Copied
<1>2. ASSUME NEW a \in -MaxLen - 1 .. MaxLen + 1, NEW b \in -MaxLen - 1 .. MaxLen + 1
      PROVE  Exact(sdsrange(m, a, b))
  <2>1. a \in Int /\ b \in Int
    BY SdsAssumption
  <2> QED
    BY <2>1, RangeTaken
<1>3. ASSUME NEW p \in Mapping \cup {<<Lower, Capital>>}
      PROVE  p[1] \in Seq(Byte) /\ p[2] \in Seq(Byte) /\ Len(p[1]) = Len(p[2])
  BY TextAssumption
<1>4. ASSUME NEW p \in Mapping PROVE Exact(sdsmapchars(m, p[1], p[2]))
  BY <1>3, CharsMapped
<1>5. Exact(sdstolower(m)) /\ Exact(sdstoupper(m))
  <2>1. <<Lower, Capital>>[1] = Lower /\ <<Lower, Capital>>[2] = Capital
    OBVIOUS
  <2>2. Lower \in Seq(Byte) /\ Capital \in Seq(Byte) /\ Len(Lower) = Len(Capital)
    BY <1>3, <2>1
  <2> QED
    BY <2>2, CharsMapped DEF sdstolower, sdstoupper
<1> QED
  BY <1>1, <1>2, <1>4, <1>5, TrimmedExact DEF Edit

LEMMA CountExact == ASSUME Exact(m), Count PROVE Exact(m')
<1>1. ASSUME NEW n \in Amount PROVE Exact(cobj_incrby(m, n)) /\ Exact(cobj_sds_decrby(m, n))
  <2>1. n \in Int /\ -n \in Int
    BY SdsAssumption DEF Amount
  <2> QED
    BY <2>1, Counted DEF cobj_sds_decrby
<1> QED
  BY <1>1 DEF Count

(* Every string there ever is, is exact, or there is none. *)
THEOREM Invariance == Spec => []IInv
<1>1. Init => IInv
  BY DEF Init, IInv
<1>2. IInv /\ [Next]_m => IInv'
  <2> SUFFICES ASSUME IInv, [Next]_m PROVE IInv'
    OBVIOUS
  <2>1. CASE Make /\ m.block = 0
    BY <2>1, MakeExact DEF IInv
  <2>2. CASE m.block # 0 /\ (sdsfree \/ Reshape \/ Grow \/ Edit \/ Count)
    <3>1. Exact(m)
      BY <2>2 DEF IInv, NoString
    <3>2. CASE sdsfree
      BY <3>1, <3>2, Freed DEF sdsfree, IInv
    <3>3. CASE ~sdsfree
      <4>1. Exact(m')
        BY <2>2, <3>1, <3>3, ReshapeExact, GrowExact, EditExact, CountExact
      <4> QED
        BY <4>1 DEF IInv
    <3> QED
      BY <3>2, <3>3
  <2>3. CASE UNCHANGED m
    BY <2>3 DEF IInv, Exact, Sound, Ended, sdsAllocSize
  <2>4. Make => m.block = 0
    BY DEF Make
  <2> QED
    BY <2>1, <2>2, <2>3, <2>4 DEF Next
<1> QED
  BY <1>1, <1>2, PTL DEF Spec

(* Header, block and used_memory agree, the NUL is in place and no byte before it is
   unwritten, whatever operations are applied to the string in whatever order. *)
THEOREM HeaderTruthful == Spec => []BufferExact
<1>1. IInv => BufferExact
  <2> SUFFICES ASSUME IInv PROVE BufferExact
    OBVIOUS
  <2>1. CASE m = NoString(0)
    BY <2>1 DEF BufferExact, NoString
  <2>2. CASE Exact(m)
    <3>1. /\ m.len \in Nat /\ m.free \in Nat /\ m.block \in Nat /\ m.buf \in Seq(Byte)
          /\ Len(m.buf) = m.len + 1 /\ m.buf[m.len + 1] = NUL
      BY <2>2, ExactFields
    <3>2. sdsAllocSize(m) = m.block /\ m.used = Padded(m.block) + WORD
      BY <2>2 DEF Exact, Sound
    <3>3. m.block # 0
      BY <3>1, <3>2, SdsAssumption DEF sdsAllocSize
    <3>4. \A i \in 1 .. m.len : m.buf[i] # Junk
      <4>1. \A i \in 1 .. m.len : i \in 1 .. Len(m.buf)
        BY <3>1
      <4>2. \A i \in 1 .. m.len : m.buf[i] \in Byte
        BY <3>1, <4>1, ElementOfSeq
      <4> QED
        BY <4>2, TextAssumption
    <3> QED
      BY <3>1, <3>2, <3>3, <3>4 DEF BufferExact, zmalloc_size, PREFIX_SIZE
  <2> QED
    BY <2>1, <2>2 DEF IInv
<1> QED
  BY <1>1, Invariance, PTL

-----------------------------------------------------------------------------
(* What the operations do to the bytes. *)

LEMMA ContentBytes ==
    ASSUME NEW s, Exact(s)
    PROVE  /\ Content(s) \in Seq(Byte) /\ Len(Content(s)) = s.len /\ s.len \in Nat
           /\ \A i \in 1 .. s.len : Content(s)[i] = s.buf[i] /\ s.buf[i] \in Byte
<1>1. s.len \in Nat /\ s.len \in 0 .. s.len + 1 /\ 1 \in Nat \ {0}
  BY ExactFields
<1>2. /\ SubSeq(s.buf, 1, s.len) \in Seq(Byte)
      /\ Len(SubSeq(s.buf, 1, s.len)) = IF 1 =< s.len THEN s.len - 1 + 1 ELSE 0
      /\ \A k \in 1 .. s.len - 1 + 1 : SubSeq(s.buf, 1, s.len)[k] = s.buf[1 + k - 1]
  BY <1>1, Part
<1>3. \A i \in 1 .. s.len : i \in 1 .. Len(s.buf)
  BY ExactFields
<1>4. \A i \in 1 .. s.len : s.buf[i] \in Byte
  BY <1>3, ExactFields, ElementOfSeq
<1> QED
  BY <1>1, <1>2, <1>4 DEF Content

LEMMA ContentIs ==
    ASSUME NEW s, Exact(s), NEW t \in Seq(Byte), Len(t) = s.len,
           \A i \in 1 .. s.len : s.buf[i] = t[i]
    PROVE  Content(s) = t
BY ContentBytes, SeqEqual

(* A part of the bytes before the NUL is that part of the text. *)
LEMMA PartOfContent ==
    ASSUME NEW s, Exact(s), NEW i \in Nat \ {0}, NEW j \in 0 .. s.len
    PROVE  SubSeq(s.buf, i, j) = SubSeq(Content(s), i, j)
<1> DEFINE t == Content(s)
           u == SubSeq(s.buf, i, j)
           w == SubSeq(t, i, j)
<1>0. i \in Int /\ j \in Int /\ j \in 0 .. s.len + 1
  BY ExactFields
<1>1. /\ u \in Seq(Byte) /\ Len(u) = IF i =< j THEN j - i + 1 ELSE 0
      /\ \A k \in 1 .. j - i + 1 : u[k] = s.buf[i + k - 1]
  BY <1>0, Part
<1>2. \A k \in 1 .. s.len : t[k] = s.buf[k] /\ t[k] \in Byte
  BY ContentBytes
<1>3. \A k \in i .. j : k \in 1 .. s.len
  BY <1>0, ContentBytes
<1>4. \A k \in i .. j : t[k] \in Byte
  BY <1>2, <1>3
<1> HIDE DEF t
<1>5. /\ w \in Seq(Byte) /\ Len(w) = IF i =< j THEN j - i + 1 ELSE 0
      /\ \A k \in 1 .. j - i + 1 : w[k] = t[i + k - 1]
  BY <1>0, <1>4, SubSeqProperties
<1> HIDE DEF u, w
<1>6. Len(u) = Len(w) /\ (i =< j => Len(u) = j - i + 1) /\ (i > j => Len(u) = 0)
  BY <1>0, <1>1, <1>5
<1>7. ASSUME NEW k \in 1 .. Len(u) PROVE u[k] = w[k]
  <2>1. k \in 1 .. j - i + 1 /\ i + k - 1 \in 1 .. s.len
    BY <1>0, <1>6, ContentBytes
  <2> QED
    BY <2>1, <1>1, <1>2, <1>5
<1>8. u = w
  BY <1>1, <1>5, <1>6, <1>7, SeqEqual
<1> QED
  BY <1>8 DEF u, w, t

LEMMA WrittenContent ==
    ASSUME NEW s, Exact(s), NEW at \in 0 .. s.len, NEW t \in Seq(Byte),
           at + Len(t) =< s.len + s.free
    PROVE  Content(Write(s, at, t)) = SubSeq(Content(s), 1, at) \o t
<1> DEFINE a == [i \in 1 .. at |-> ByteAt(s, i)]
           b == a \o t
           c == SubSeq(Content(s), 1, at)
           w == Write(s, at, t)
<1>0. /\ at \in Nat /\ Len(t) \in Nat /\ s.len \in Nat /\ s.buf \in Seq(Byte)
      /\ Len(s.buf) = s.len + 1 /\ DOMAIN s.buf = 1 .. Len(s.buf)
  BY ExactFields, LenProperties
<1>1. Exact(w) /\ w.len = at + Len(t)
  <2>1. Sound(s) /\ at \in Nat /\ at =< Len(s.buf)
    BY ExactFields
  <2> QED
    BY <2>1, Written
<1>2. \A i \in 1 .. at : /\ i \in 1 .. s.len /\ i \in DOMAIN s.buf
                         /\ ByteAt(s, i) = s.buf[i]
  BY <1>0 DEF ByteAt
<1>3. \A i \in 1 .. at : a[i] = s.buf[i] /\ a[i] \in Byte
  BY <1>2, ContentBytes
<1>4. a \in Seq(Byte) /\ Len(a) = at
  <2>1. a \in [1 .. at -> Byte]
    BY <1>3
  <2> HIDE DEF a
  <2> QED
    BY <1>0, <2>1, FunctionIsText
<1>5. w.buf = b \o <<NUL>>
  <2> DEFINE e == b \o <<NUL>>
             n == at + Len(t)
  <2>1. w = [s EXCEPT !.len = n, !.free = s.free + s.len - n, !.buf = e]
    BY ExactFields DEF Write, Resized, Str
  <2> HIDE DEF e, n, w
  <2>2. w.buf = e
    BY <2>1, ExactFields DEF Str
  <2> QED
    BY <2>2 DEF e
<1> HIDE DEF a, w
<1>6. /\ b \in Seq(Byte) /\ Len(b) = at + Len(t)
      /\ \A i \in 1 .. at + Len(t) : b[i] = IF i =< at THEN a[i] ELSE t[i - at]
  BY <1>4, ConcatProperties
<1> HIDE DEF b
<1>7. \A i \in 1 .. Len(b) : w.buf[i] = b[i]
  <2>1. <<NUL>> \in Seq(Byte) /\ Len(<<NUL>>) = 1
    BY TextAssumption
  <2>2. \A i \in 1 .. Len(b) + 1 : (b \o <<NUL>>)[i] = IF i =< Len(b) THEN b[i] ELSE <<NUL>>[i - Len(b)]
    BY <1>6, <2>1, ConcatProperties
  <2>3. \A i \in 1 .. Len(b) : i \in 1 .. Len(b) + 1 /\ i =< Len(b)
    BY <1>6
  <2> QED
    BY <1>5, <2>2, <2>3
<1>8. Content(w) = b
  BY <1>0, <1>1, <1>6, <1>7, ContentIs
<1>9. /\ c \in Seq(Byte) /\ Len(c) = at
      /\ \A i \in 1 .. at : c[i] = s.buf[i]
  <2>1. /\ 1 \in Nat \ {0} /\ at \in 0 .. s.len /\ at \in 0 .. s.len + 1
    BY <1>0
  <2>2. c = SubSeq(s.buf, 1, at)
    BY <2>1, PartOfContent
  <2>3. /\ c \in Seq(Byte) /\ Len(c) = (IF 1 =< at THEN at - 1 + 1 ELSE 0)
        /\ \A k \in 1 .. at - 1 + 1 : c[k] = s.buf[1 + k - 1]
    BY <2>1, <2>2, Part
  <2> HIDE DEF c
  <2> QED
    BY <1>0, <2>3
<1> HIDE DEF c
<1>10. a = c
  BY <1>3, <1>4, <1>9, SeqEqual
<1> QED
  BY <1>8, <1>10 DEF b, c, w

(* The same bytes and length mean the same text. *)
LEMMA SameBytes ==
    ASSUME NEW s, Exact(s), NEW r, r.len = s.len, r.buf = s.buf PROVE Content(r) = Content(s)
BY DEF Content

LEMMA RoomKeepsText ==
    ASSUME NEW s, Exact(s), NEW n \in Nat
    PROVE  Content(sdsMakeRoomFor(s, n)) = Content(s)
BY RoomMade, SameBytes

LEMMA RoomRemovedKeepsText ==
    ASSUME NEW s, Exact(s) PROVE Content(sdsRemoveFreeSpace(s)) = Content(s)
<1> DEFINE r == [zrealloc(s, HDR + (s.len + 0) + 1) EXCEPT !.free = 0]
<1>1. s.len + 0 = s.len /\ Sound(s) /\ Len(s.buf) =< s.len + 1 /\ 0 \in Nat
  BY ExactFields
<1>2. r.len = s.len /\ r.buf = s.buf
  BY <1>1, Reallocated
<1>3. r = sdsRemoveFreeSpace(s)
  BY <1>1 DEF sdsRemoveFreeSpace
<1> HIDE DEF r
<1> QED
  BY <1>2, <1>3, SameBytes

LEMMA NewContent ==
    ASSUME NEW used \in Int, NEW t \in Seq(Byte)
    PROVE  sdsnewlen(used, t).len = Len(t) /\ sdsnewlen(used, t).buf = t \o <<NUL>>
<1> DEFINE b == t \o <<NUL>>
           z == zmalloc(used, HDR + Len(t) + 1)
           w == sdsnewlen(used, t)
<1>1. w = [z EXCEPT !.len = Len(t), !.buf = b]
  BY DEF sdsnewlen
<1>2. DOMAIN z = {"len", "free", "buf", "block", "used"}
  BY DEF zmalloc, NoString
<1> HIDE DEF b, z, w
<1>3. w.len = Len(t) /\ w.buf = b
  BY <1>1, <1>2
<1> QED
  BY <1>3 DEF b, w

(* A text with a NUL behind it begins with the text. *)
LEMMA TextBeforeNul ==
    ASSUME NEW t \in Seq(Byte)
    PROVE  \A i \in 1 .. Len(t) : (t \o <<NUL>>)[i] = t[i]
<1>1. <<NUL>> \in Seq(Byte) /\ Len(<<NUL>>) = 1
  BY TextAssumption
<1>2. \A i \in 1 .. Len(t) + 1 : (t \o <<NUL>>)[i] = IF i =< Len(t) THEN t[i] ELSE <<NUL>>[i - Len(t)]
  BY <1>1, ConcatProperties
<1>3. \A i \in 1 .. Len(t) : i \in 1 .. Len(t) + 1 /\ i =< Len(t)
  OBVIOUS
<1> QED
  BY <1>2, <1>3

LEMMA ReplacedContent ==
    ASSUME NEW s, Exact(s), NEW t \in Seq(Byte)
    PROVE  Content(Replaced(s, sdsnewlen(s.used, t))) = t
<1> DEFINE n == sdsnewlen(s.used, t)
           r == Replaced(s, n)
<1>1. s.used \in Int
  BY ExactFields
<1>2. n.len = Len(t) /\ n.buf = t \o <<NUL>> /\ n \in Str
  BY <1>1, NewContent, Made
<1> HIDE DEF n
<1>3. r.len = n.len /\ r.buf = n.buf
  BY <1>2 DEF Replaced, Str
<1>4. Exact(r)
  BY MadeInstead DEF n
<1> HIDE DEF r
<1>5. \A i \in 1 .. r.len : r.buf[i] = t[i]
  BY <1>2, <1>3, TextBeforeNul
<1>6. Content(r) = t
  BY <1>2, <1>3, <1>4, <1>5, ContentIs
<1> QED
  BY <1>6 DEF r, n

LEMMA DuplicatedContent == ASSUME NEW s, Exact(s) PROVE Content(sdsdup(s)) = Content(s)
BY ContentBytes, ReplacedContent DEF sdsdup

(* The C string of the bytes is that of the text, as a NUL follows. *)
LEMMA SameCString == ASSUME NEW s, Exact(s) PROVE CString(s.buf) = CString(Content(s))
<1> DEFINE t == Content(s)
           k == Len(CString(s.buf))
           n == Len(CString(t))
<1>0. /\ s.len \in Nat /\ s.buf \in Seq(Byte) /\ Len(s.buf) = s.len + 1
      /\ s.buf[s.len + 1] = NUL
  BY ExactFields
<1>1. t \in Seq(Byte) /\ Len(t) = s.len /\ \A i \in 1 .. s.len : t[i] = s.buf[i]
  BY ContentBytes
<1>2. /\ k \in 0 .. Len(s.buf) /\ CString(s.buf) = SubSeq(s.buf, 1, k)
      /\ \A i \in 1 .. k : s.buf[i] # NUL /\ (k < Len(s.buf) => s.buf[k + 1] = NUL)
  BY <1>0, CStringText
<1>21. k < Len(s.buf) => s.buf[k + 1] = NUL
  BY <1>0, CStringText
<1>3. /\ n \in 0 .. Len(t) /\ CString(t) = SubSeq(t, 1, n)
      /\ \A i \in 1 .. n : t[i] # NUL
  BY <1>1, CStringText
<1>31. n < Len(t) => t[n + 1] = NUL
  BY <1>1, CStringText
<1> HIDE DEF t, k, n
<1>4. k =< s.len
  BY <1>0, <1>2
<1>5. ~(k < n)
  <2> SUFFICES ASSUME k < n PROVE FALSE
    OBVIOUS
  <2>1. k + 1 \in 1 .. n /\ k + 1 \in 1 .. s.len /\ k < Len(s.buf)
    BY <1>0, <1>1, <1>2, <1>3
  <2> QED
    BY <1>1, <1>21, <1>3, <2>1
<1>6. ~(n < k)
  <2> SUFFICES ASSUME n < k PROVE FALSE
    OBVIOUS
  <2>1. n + 1 \in 1 .. k /\ n + 1 \in 1 .. s.len /\ n < Len(t)
    BY <1>0, <1>1, <1>2, <1>3, <1>4
  <2> QED
    BY <1>1, <1>2, <1>31, <2>1
<1>7. k = n /\ k \in 0 .. s.len /\ 1 \in Nat \ {0}
  BY <1>0, <1>1, <1>2, <1>3, <1>4, <1>5, <1>6
<1>8. SubSeq(s.buf, 1, k) = SubSeq(t, 1, k)
  BY <1>7, PartOfContent DEF t
<1> QED
  BY <1>2, <1>3, <1>7, <1>8 DEF t

LEMMA ShortenedContent ==
    ASSUME NEW s, Exact(s) PROVE Content(sdsupdatelen(s)) = CString(Content(s))
<1> DEFINE n == Len(CString(s.buf))
           b == SubSeq(s.buf, 1, n + 1)
           u == sdsupdatelen(s)
           c == CString(s.buf)
<1>0. s \in Str /\ s.len \in Nat /\ s.buf \in Seq(Byte) /\ Len(s.buf) = s.len + 1
      /\ s.buf[s.len + 1] = NUL
  BY ExactFields
<1>1. /\ n \in 0 .. Len(s.buf) /\ c = SubSeq(s.buf, 1, n) /\ c \in Seq(Byte)
      /\ \A i \in 1 .. n : s.buf[i] # NUL
  BY <1>0, CStringText
<1>2. u.len = n /\ u.buf = b
  BY <1>0 DEF sdsupdatelen, Resized, Str
<1>3. Exact(u)
  BY Shortened
<1> HIDE DEF n, b, u, c
<1>4. n \in 0 .. s.len
  BY <1>0, <1>1
<1>5. \A i \in 1 .. n : b[i] = s.buf[i] /\ c[i] = s.buf[i]
  <2>1. 1 \in Nat \ {0} /\ n + 1 \in 0 .. s.len + 1 /\ n \in 0 .. s.len + 1 /\ n \in Int
    BY <1>0, <1>4
  <2>2. \A i \in 1 .. (n + 1) - 1 + 1 : b[i] = s.buf[1 + i - 1]
    BY <2>1, Part DEF b
  <2>3. \A i \in 1 .. n - 1 + 1 : c[i] = s.buf[1 + i - 1]
    BY <1>1, <2>1, Part
  <2> QED
    BY <2>1, <2>2, <2>3
<1>6. Len(c) = n
  BY DEF n, c
<1>7. Content(u) = c
  BY <1>1, <1>2, <1>3, <1>5, <1>6, ContentIs
<1> QED
  BY <1>7, SameCString DEF u, c

LEMMA AppendedContent ==
    ASSUME NEW s, Exact(s), NEW t \in Seq(Byte)
    PROVE  Content(Write(sdsMakeRoomFor(s, Len(t)), s.len, t)) = Content(s) \o t
<1> DEFINE r == sdsMakeRoomFor(s, Len(t))
<1>1. Exact(r) /\ r.len = s.len /\ r.free >= Len(t) /\ Content(r) = Content(s)
  BY RoomMade, RoomKeepsText
<1> HIDE DEF r
<1>2. s.len \in 0 .. r.len /\ s.len + Len(t) =< r.len + r.free
  BY <1>1, ExactFields
<1>3. Content(Write(r, s.len, t)) = SubSeq(Content(r), 1, s.len) \o t
  BY <1>1, <1>2, WrittenContent
<1>4. SubSeq(Content(s), 1, s.len) = Content(s)
  BY ContentBytes, SubSeqFull
<1> QED
  BY <1>1, <1>3, <1>4 DEF r

(* A text written from the front is all there is. *)
LEMMA FrontContent ==
    ASSUME NEW s, Exact(s), NEW t \in Seq(Byte), Len(t) =< s.len + s.free
    PROVE  Content(Write(s, 0, t)) = t
<1>1. 0 \in 0 .. s.len /\ 0 + Len(t) =< s.len + s.free
  BY ExactFields
<1>2. Content(Write(s, 0, t)) = SubSeq(Content(s), 1, 0) \o t
  BY <1>1, WrittenContent
<1>3. SubSeq(Content(s), 1, 0) = <<>>
  BY SubSeqEmpty
<1> QED
  BY <1>2, <1>3, ConcatEmptySeq

LEMMA CopiedContent ==
    ASSUME NEW s, Exact(s), NEW t \in Seq(Byte) PROVE Content(sdscpylen(s, t)) = t
<1>1. CASE s.free + s.len < Len(t)
  <2> DEFINE q == sdsMakeRoomFor(s, Len(t) - s.len)
  <2>1. Len(t) - s.len \in Nat
    BY <1>1, ExactFields
  <2>2. Exact(q) /\ q.len = s.len /\ q.free >= Len(t) - s.len
    BY <2>1, RoomMade
  <2> HIDE DEF q
  <2>3. Len(t) =< q.len + q.free
    BY <2>1, <2>2, ExactFields
  <2>4. Content(Write(q, 0, t)) = t
    BY <2>2, <2>3, FrontContent
  <2> QED
    BY <1>1, <2>4 DEF sdscpylen, q
<1>2. CASE ~(s.free + s.len < Len(t))
  <2>1. Len(t) =< s.len + s.free
    BY <1>2, ExactFields
  <2> QED
    BY <1>2, <2>1, FrontContent DEF sdscpylen
<1> QED
  BY <1>1, <1>2

LEMMA ZeroedContent ==
    ASSUME NEW s, Exact(s), NEW n \in Nat
    PROVE  Content(sdsgrowzero(s, n)) = Extended(Content(s), n)
<1>0. Content(s) \in Seq(Byte) /\ Len(Content(s)) = s.len /\ s.len \in Nat
  BY ContentBytes
<1>1. CASE n =< s.len
  <2>1. 1 .. (n - s.len) = {}
    BY <1>0, <1>1
  <2>2. Zeros(n - s.len) = <<>>
    BY <2>1 DEF Zeros
  <2> QED
    BY <1>0, <1>1, <2>2, ConcatEmptySeq DEF sdsgrowzero, Extended
<1>2. CASE ~(n =< s.len)
  <2>1. n - s.len \in Nat
    BY <1>2, ExactFields
  <2>2. Zeros(n - s.len) \in Seq(Byte) /\ Len(Zeros(n - s.len)) = n - s.len
    BY <2>1, ZerosText
  <2> QED
    BY <1>0, <1>2, <2>2, AppendedContent DEF sdsgrowzero, Extended
<1> QED
  BY <1>1, <1>2

-----------------------------------------------------------------------------
(* Comparisons. *)

LEMMA EqualMeans ==
    ASSUME NEW s, Exact(s), NEW t \in Seq(Byte)
    PROVE  dictSdsKeyCompare(s, t) <=> Content(s) = t
<1>1. Content(s) = t => Len(t) = s.len /\ \A i \in 1 .. s.len : s.buf[i] = t[i]
  BY ContentBytes
<1>2. Len(t) = s.len /\ (\A i \in 1 .. s.len : s.buf[i] = t[i]) => Content(s) = t
  BY ContentIs
<1> QED
  BY <1>1, <1>2 DEF dictSdsKeyCompare

(* Parts from the front are equal when their bytes are. *)
LEMMA FrontsEqual ==
    ASSUME NEW t \in Seq(Byte), NEW u \in Seq(Byte), NEW n \in Nat, n =< Len(t), n =< Len(u)
    PROVE  SubSeq(t, 1, n) = SubSeq(u, 1, n) <=> \A i \in 1 .. n : t[i] = u[i]
<1> DEFINE a == SubSeq(t, 1, n)
           b == SubSeq(u, 1, n)
<1>1. \A i \in 1 .. n : i \in 1 .. Len(t) /\ i \in 1 .. Len(u)
  OBVIOUS
<1>2. \A i \in 1 .. n : t[i] \in Byte /\ u[i] \in Byte
  BY <1>1, ElementOfSeq
<1>3. 1 \in Int /\ n \in Int /\ (IF 1 =< n THEN n - 1 + 1 ELSE 0) = n /\ n - 1 + 1 = n
      /\ \A i \in 1 .. n : 1 + i - 1 = i
  OBVIOUS
<1>4. a \in Seq(Byte) /\ Len(a) = n /\ \A i \in 1 .. n : a[i] = t[i]
  <2>1. /\ a \in Seq(Byte) /\ Len(a) = IF 1 =< n THEN n - 1 + 1 ELSE 0
        /\ \A i \in 1 .. n - 1 + 1 : a[i] = t[1 + i - 1]
    BY <1>2, <1>3, SubSeqProperties
  <2> HIDE DEF a
  <2> QED
    BY <1>3, <2>1
<1>5. b \in Seq(Byte) /\ Len(b) = n /\ \A i \in 1 .. n : b[i] = u[i]
  <2>1. /\ b \in Seq(Byte) /\ Len(b) = IF 1 =< n THEN n - 1 + 1 ELSE 0
        /\ \A i \in 1 .. n - 1 + 1 : b[i] = u[1 + i - 1]
    BY <1>2, <1>3, SubSeqProperties
  <2> HIDE DEF b
  <2> QED
    BY <1>3, <2>1
<1> HIDE DEF a, b
<1>6. a = b <=> \A i \in 1 .. n : a[i] = b[i]
  BY <1>4, <1>5, SeqEqual
<1> QED
  BY <1>4, <1>5, <1>6 DEF a, b

LEMMA LeastChosen ==
    ASSUME NEW T, T \subseteq Nat, T # {} PROVE Min(T) \in T /\ \A i \in T : Min(T) =< i
<1>1. \E n \in T : \A i \in T : n =< i
  BY LeastOf
<1> QED
  BY <1>1, Zenon DEF Min

(* The order of the texts is that of the first byte in which they differ, then that of
   their lengths. *)
LEMMA BeforeMeans ==
    ASSUME NEW t \in Seq(Byte), NEW u \in Seq(Byte), NEW T,
           T = {i \in 1 .. Len(t) : i =< Len(u) /\ t[i] # u[i]}
    PROVE  Before(t, u, Ascii) <=> IF T = {} THEN Len(t) < Len(u)
                                   ELSE Ascii[t[Min(T)]] < Ascii[u[Min(T)]]
<1>0. Len(t) \in Nat /\ Len(u) \in Nat /\ T \subseteq Nat
  OBVIOUS
<1> DEFINE Same(n) == \A i \in 1 .. n : t[i] = u[i]
           Less(n) == \/ n = Len(t) /\ n < Len(u)
                      \/ n < Len(t) /\ n < Len(u) /\ Ascii[t[n + 1]] < Ascii[u[n + 1]]
<1>1. Before(t, u, Ascii) <=> \E n \in 0 .. Len(t) : n =< Len(u) /\ Same(n) /\ Less(n)
  BY <1>0, FrontsEqual DEF Before
<1>2. CASE T = {}
  <2>1. \A i \in 1 .. Len(t) : i =< Len(u) => t[i] = u[i]
    BY <1>2
  <2>2. ASSUME Len(t) < Len(u) PROVE Same(Len(t)) /\ Less(Len(t))
    BY <1>0, <2>1, <2>2
  <2>3. ASSUME NEW n \in 0 .. Len(t), n =< Len(u), Less(n) PROVE Len(t) < Len(u)
    <3>1. CASE n = Len(t) /\ n < Len(u)
      BY <3>1
    <3>2. CASE n < Len(t) /\ n < Len(u) /\ Ascii[t[n + 1]] < Ascii[u[n + 1]]
      <4>1. n + 1 \in 1 .. Len(t) /\ n + 1 =< Len(u) /\ n + 1 \in 1 .. Len(u)
        BY <1>0, <3>2
      <4>2. t[n + 1] = u[n + 1] /\ t[n + 1] \in Byte
        BY <2>1, <4>1, ElementOfSeq
      <4>3. Ascii[t[n + 1]] \in Nat
        BY <4>2, TextAssumption
      <4> QED
        BY <3>2, <4>2, <4>3
    <3> QED
      BY <2>3, <3>1, <3>2
  <2>4. Len(t) < Len(u) => /\ Len(t) \in 0 .. Len(t) /\ Len(t) =< Len(u)
    BY <1>0
  <2> HIDE DEF Same, Less
  <2> QED
    BY <1>1, <1>2, <2>2, <2>3, <2>4
<1>3. CASE T # {}
  <2> DEFINE k == Min(T)
  <2>1. k \in T /\ \A i \in T : k =< i
    BY <1>0, <1>3, LeastChosen
  <2> HIDE DEF k
  <2>2. /\ k \in 1 .. Len(t) /\ k \in 1 .. Len(u) /\ t[k] # u[k]
        /\ \A i \in 1 .. k - 1 : t[i] = u[i]
    <3>1. k \in 1 .. Len(t) /\ k =< Len(u) /\ t[k] # u[k]
      BY <2>1
    <3>2. ASSUME NEW i \in 1 .. k - 1 PROVE t[i] = u[i]
      <4>1. i \in 1 .. Len(t) /\ i =< Len(u) /\ ~(k =< i)
        BY <1>0, <3>1
      <4>2. i \notin T
        BY <2>1, <4>1
      <4> QED
        BY <4>1, <4>2
    <3> QED
      BY <1>0, <3>1, <3>2
  <2>3. ASSUME Ascii[t[k]] < Ascii[u[k]] PROVE Before(t, u, Ascii)
    <3>1. k - 1 \in 0 .. Len(t) /\ k - 1 =< Len(u) /\ k - 1 < Len(t) /\ k - 1 < Len(u)
          /\ (k - 1) + 1 = k
      BY <1>0, <2>2
    <3>2. Same(k - 1) /\ Less(k - 1)
      BY <2>2, <2>3, <3>1
    <3> HIDE DEF Same, Less
    <3> QED
      BY <1>1, <3>1, <3>2
  <2>4. ASSUME NEW n \in 0 .. Len(t), n =< Len(u), Same(n), Less(n)
        PROVE  Ascii[t[k]] < Ascii[u[k]]
    <3>1. ~(k =< n)
      <4> SUFFICES ASSUME k =< n PROVE FALSE
        OBVIOUS
      <4>1. k \in 1 .. n
        BY <2>2
      <4> QED
        BY <2>2, <2>4, <4>1
    <3>2. n < Len(t) /\ n < Len(u) /\ Ascii[t[n + 1]] < Ascii[u[n + 1]]
      BY <1>0, <2>2, <2>4, <3>1
    <3>3. ~(n + 1 < k)
      <4> SUFFICES ASSUME n + 1 < k PROVE FALSE
        OBVIOUS
      <4>1. n + 1 \in 1 .. k - 1 /\ n + 1 \in 1 .. Len(t)
        BY <1>0, <2>2, <3>2
      <4>2. t[n + 1] = u[n + 1] /\ t[n + 1] \in Byte
        BY <2>2, <4>1, ElementOfSeq
      <4>3. Ascii[t[n + 1]] \in Nat
        BY <4>2, TextAssumption
      <4> QED
        BY <3>2, <4>2, <4>3
    <3>4. n + 1 = k
      BY <1>0, <2>2, <3>1, <3>3
    <3> QED
      BY <3>2, <3>4
  <2> HIDE DEF Same, Less
  <2>5. Before(t, u, Ascii) <=> Ascii[t[k]] < Ascii[u[k]]
    BY <1>1, <2>3, <2>4
  <2> QED
    BY <1>3, <2>5 DEF k
<1> QED
  BY <1>2, <1>3

LEMMA CompareMeans ==
    ASSUME NEW s, Exact(s), NEW u \in Seq(Byte)
    PROVE  /\ sdscmp(s, u) < 0 <=> Before(Content(s), u, Ascii)
           /\ sdscmp(s, u) > 0 <=> Before(u, Content(s), Ascii)
<1> DEFINE t == Content(s)
           T == {i \in 1 .. s.len : i =< Len(u) /\ s.buf[i] # u[i]}
<1>1. /\ t \in Seq(Byte) /\ Len(t) = s.len /\ s.len \in Nat /\ Len(u) \in Nat
      /\ \A i \in 1 .. s.len : t[i] = s.buf[i] /\ s.buf[i] \in Byte
  BY ContentBytes
<1> HIDE DEF t
<1>2. /\ T = {i \in 1 .. Len(t) : i =< Len(u) /\ t[i] # u[i]}
      /\ T = {i \in 1 .. Len(u) : i =< Len(t) /\ u[i] # t[i]}
  BY <1>1
<1>3. sdscmp(s, u) = IF T = {} THEN s.len - Len(u)
                     ELSE Ascii[s.buf[Min(T)]] - Ascii[u[Min(T)]]
  BY DEF sdscmp
<1> DEFINE k == Min(T)
<1>4. T # {} => k \in 1 .. s.len /\ k \in 1 .. Len(u)
  <2>1. T \subseteq Nat /\ \A i \in T : i \in 1 .. s.len /\ i \in 1 .. Len(u)
    BY <1>1
  <2> HIDE DEF T
  <2> QED
    BY <2>1, LeastChosen
<1>5. /\ Before(t, u, Ascii) <=> IF T = {} THEN Len(t) < Len(u)
                                  ELSE Ascii[t[k]] < Ascii[u[k]]
      /\ Before(u, t, Ascii) <=> IF T = {} THEN Len(u) < Len(t)
                                  ELSE Ascii[u[k]] < Ascii[t[k]]
  <2> HIDE DEF T
  <2> QED
    BY <1>1, <1>2, BeforeMeans
<1> HIDE DEF T, k
<1>6. CASE T = {}
  BY <1>1, <1>3, <1>5, <1>6 DEF t
<1>7. CASE T # {}
  <2>1. t[k] = s.buf[k] /\ Ascii[s.buf[k]] \in Nat /\ Ascii[u[k]] \in Nat
    BY <1>1, <1>4, <1>7, ElementOfSeq, TextAssumption
  <2>2. sdscmp(s, u) = Ascii[t[k]] - Ascii[u[k]]
    BY <1>3, <1>7, <2>1 DEF k
  <2> QED
    BY <1>5, <1>7, <2>1, <2>2 DEF t
<1> QED
  BY <1>6, <1>7

-----------------------------------------------------------------------------
(* Edits. *)

LEMMA RangeContent ==
    ASSUME NEW s, Exact(s), NEW start \in Int, NEW end \in Int
    PROVE  Content(sdsrange(s, start, end)) = Slice(Content(s), start, end)
<1> DEFINE t == Content(s)
           Clip(i) == IF i >= 0 THEN i ELSE IF s.len + i < 0 THEN 0 ELSE s.len + i
           a == Clip(start)
           e == Clip(end)
           b == IF e >= s.len THEN s.len - 1 ELSE e
           newlen == IF a > e \/ a >= s.len THEN 0 ELSE b - a + 1
           q == IF e < s.len THEN e + 1 ELSE s.len
<1>0. t \in Seq(Byte) /\ Len(t) = s.len /\ s.len \in Nat /\ s.free \in Nat
  BY ContentBytes, ExactFields
<1>1. a \in Nat /\ e \in Nat /\ newlen \in Nat /\ a + 1 \in Nat \ {0} /\ q \in 0 .. s.len
  <2>1. a \in Nat /\ e \in Nat
    BY <1>0
  <2> HIDE DEF a, e
  <2>2. newlen \in Nat /\ a + 1 \in Nat \ {0}
    BY <1>0, <2>1
  <2>3. q \in Nat /\ q =< s.len
    BY <1>0, <2>1
  <2> QED
    BY <2>1, <2>2, <2>3
<1>2. Slice(t, start, end) = SubSeq(t, a + 1, q)
  <2> HIDE DEF t
  <2> QED
    BY <1>0 DEF Slice
<1>3. newlen # 0 => a + newlen = q /\ a + newlen =< s.len
  BY <1>0, SMTT(30)
<1>4. newlen = 0 => a + 1 > q
  BY <1>0, SMTT(30)
<1>5. s.len # 0 => sdsrange(s, start, end) = Write(s, 0, SubSeq(s.buf, a + 1, a + newlen))
  BY DEF sdsrange
<1>6. s.len = 0 => sdsrange(s, start, end) = s /\ newlen = 0
  BY <1>1 DEF sdsrange
<1> HIDE DEF a, e, newlen, q, t
<1>7. newlen = 0 => SubSeq(t, a + 1, q) = <<>> /\ SubSeq(s.buf, a + 1, a + newlen) = <<>>
  BY <1>1, <1>4, SubSeqEmpty
<1>8. CASE s.len = 0
  <2>1. t = <<>>
    BY <1>0, <1>8, EmptySeq
  <2> QED
    BY <1>2, <1>6, <1>7, <1>8, <2>1 DEF t
<1>9. CASE s.len # 0 /\ newlen = 0
  <2>1. Content(Write(s, 0, <<>>)) = <<>>
    <3>1. <<>> \in Seq(Byte) /\ Len(<<>>) =< s.len + s.free
      BY <1>0
    <3> QED
      BY <3>1, FrontContent
  <2> QED
    BY <1>2, <1>5, <1>7, <1>9, <2>1 DEF t
<1>10. CASE s.len # 0 /\ newlen # 0
  <2> DEFINE u == SubSeq(s.buf, a + 1, q)
  <2>1. q \in 0 .. s.len + 1
    BY <1>0, <1>1
  <2>2. u \in Seq(Byte) /\ Len(u) = IF a + 1 =< q THEN q - (a + 1) + 1 ELSE 0
    BY <1>1, <2>1, Part
  <2>3. u = SubSeq(t, a + 1, q)
    BY <1>1, PartOfContent DEF t
  <2> HIDE DEF u
  <2>4. Len(u) =< s.len + s.free
    BY <1>0, <1>1, <2>2
  <2>5. Content(Write(s, 0, u)) = u
    BY <2>2, <2>4, FrontContent
  <2> QED
    BY <1>2, <1>3, <1>5, <1>10, <2>3, <2>5 DEF t, u
<1> QED
  BY <1>8, <1>9, <1>10

(* The first place of a byte in from is the one Mapped chooses. *)
LEMMA MapContent ==
    ASSUME NEW s, Exact(s), NEW from \in Seq(Byte), NEW to \in Seq(Byte), Len(from) = Len(to)
    PROVE  Content(sdsmapchars(s, from, to)) = Mapped(Content(s), from, to)
<1> DEFINE t == Content(s)
           at(x) == {i \in DOMAIN from : from[i] = x}
           Place(x) == CHOOSE i \in DOMAIN from :
                           from[i] = x /\ \A j \in 1 .. i - 1 : from[j] # x
           c(j) == IF j > s.len \/ at(s.buf[j]) = {} THEN s.buf[j] ELSE to[Min(at(s.buf[j]))]
           d(j) == IF Contains(from, t[j]) THEN to[Place(t[j])] ELSE t[j]
           w == sdsmapchars(s, from, to)
           v == Mapped(t, from, to)
<1>0. /\ t \in Seq(Byte) /\ Len(t) = s.len /\ s.len \in Nat
      /\ \A j \in 1 .. s.len : t[j] = s.buf[j] /\ s.buf[j] \in Byte
      /\ DOMAIN t = 1 .. s.len
  BY ContentBytes, LenProperties
<1>1. s.buf \in Seq(Byte) /\ DOMAIN s.buf = 1 .. s.len + 1 /\ s \in Str
  BY ExactFields, LenProperties
<1>2. DOMAIN from = 1 .. Len(from)
  BY LenProperties
<1>3. ASSUME NEW x, at(x) # {} PROVE Contains(from, x) /\ Place(x) = Min(at(x))
  <2> DEFINE T == at(x)
             k == Min(T)
  <2>1. T \subseteq Nat /\ T # {} /\ \A i : i \in T <=> i \in 1 .. Len(from) /\ from[i] = x
    BY <1>2, <1>3
  <2>2. k \in T /\ \A i \in T : k =< i
    <3> HIDE DEF T
    <3> QED
      BY <2>1, LeastChosen
  <2> HIDE DEF T, k
  <2>3. k \in DOMAIN from /\ from[k] = x /\ \A j \in 1 .. k - 1 : from[j] # x
    <3>1. ASSUME NEW j \in 1 .. k - 1 PROVE from[j] # x
      <4>1. k \in 1 .. Len(from) /\ j \in 1 .. Len(from) /\ ~(k =< j)
        BY <2>1, <2>2
      <4> QED
        BY <2>1, <2>2, <4>1
    <3> QED
      BY <1>2, <2>1, <2>2, <3>1
  <2>4. ASSUME NEW i \in DOMAIN from, from[i] = x, \A j \in 1 .. i - 1 : from[j] # x
        PROVE  i = k
    <3>1. i \in T /\ i \in Nat /\ k \in Nat /\ k =< i
      BY <1>2, <2>1, <2>2, <2>4
    <3>2. ~(k < i)
      <4> SUFFICES ASSUME k < i PROVE FALSE
        OBVIOUS
      <4>1. k \in 1 .. i - 1
        BY <1>2, <2>3, <3>1
      <4> QED
        BY <2>3, <2>4, <4>1
    <3> QED
      BY <3>1, <3>2
  <2>5. Place(x) = k
    <3> DEFINE P(i) == from[i] = x /\ \A j \in 1 .. i - 1 : from[j] # x
    <3>1. P(k) /\ \A i \in DOMAIN from : P(i) => i = k
      BY <2>3, <2>4
    <3>2. Place(x) = CHOOSE i \in DOMAIN from : P(i)
      OBVIOUS
    <3> HIDE DEF P, Place
    <3> QED
      BY <2>3, <3>1, <3>2, Zenon
  <2>6. Contains(from, x)
    BY <1>2, <2>3 DEF Contains
  <2> QED
    BY <2>5, <2>6 DEF T, k
<1>4. ASSUME NEW x, at(x) = {} PROVE ~Contains(from, x)
  BY <1>2, <1>4 DEF Contains
<1> HIDE DEF at, Place
<1>5. \A j \in 1 .. s.len : c(j) = d(j)
  <2> SUFFICES ASSUME NEW j \in 1 .. s.len PROVE c(j) = d(j)
    OBVIOUS
  <2>1. ~(j > s.len) /\ t[j] = s.buf[j]
    BY <1>0
  <2>2. CASE at(s.buf[j]) = {}
    BY <1>4, <2>1, <2>2
  <2>3. CASE at(s.buf[j]) # {}
    BY <1>3, <2>1, <2>3
  <2> QED
    BY <2>2, <2>3
<1>6. v = [j \in 1 .. s.len |-> d(j)]
  <2> HIDE DEF t
  <2> QED
    BY <1>0 DEF Mapped, Place
<1>7. w = [s EXCEPT !.buf = [j \in 1 .. s.len + 1 |-> c(j)]]
  BY <1>1 DEF sdsmapchars, at
<1>8. Exact(w)
  BY CharsMapped
<1> HIDE DEF c, d, w, v, t
<1>9. w.len = s.len /\ w.buf = [j \in 1 .. s.len + 1 |-> c(j)]
  BY <1>1, <1>7 DEF Str
<1>10. \A j \in 1 .. s.len : w.buf[j] = d(j)
  BY <1>0, <1>5, <1>9
<1>11. Content(w) = v
  <2>1. /\ Content(w) \in Seq(Byte) /\ Len(Content(w)) = s.len
        /\ \A i \in 1 .. s.len : Content(w)[i] = w.buf[i] /\ w.buf[i] \in Byte
    BY <1>8, <1>9, ContentBytes
  <2>2. v \in [1 .. s.len -> Byte] /\ \A j \in 1 .. s.len : v[j] = d(j)
    BY <1>6, <1>10, <2>1
  <2>3. v \in Seq(Byte) /\ Len(v) = s.len
    BY <1>0, <2>2, FunctionIsText
  <2> QED
    BY <1>10, <2>1, <2>2, <2>3, SeqEqual
<1> QED
  BY <1>11 DEF w, v, t

(* What is left between a byte outside C at either end is the only part that Trimmed
   allows. *)
LEMMA TrimChoice ==
    ASSUME NEW t \in Seq(Byte), NEW C, NEW i \in 1 .. Len(t) + 1, NEW j \in 0 .. Len(t),
           \A n \in 1 .. i - 1 : t[n] \in C,
           i =< Len(t) => t[i] \notin C,
           \A n \in j + 1 .. Len(t) : t[n] \in C,
           j > 1 => t[j] \notin C
    PROVE  Trimmed(t, C) = IF i > j THEN <<>> ELSE SubSeq(t, i, j)
<1> DEFINE All == {SubSeq(t, a, b) : a \in 1 .. Len(t) + 1, b \in 0 .. Len(t)}
           Cutout(u, k) == /\ \A n \in 1 .. Len(t) : n =< k \/ n > k + Len(u) => t[n] \in C
                           /\ u = SubSeq(t, k + 1, k + Len(u))
           R(u) == /\ u # <<>> => Head(u) \notin C /\ Last(u) \notin C
                   /\ \E k \in 0 .. Len(t) - Len(u) : Cutout(u, k)
           w == IF i > j THEN <<>> ELSE SubSeq(t, i, j)
<1>0. Len(t) \in Nat
  OBVIOUS
<1>1. \A a \in 1 .. Len(t) + 1, b \in 0 .. Len(t) :
          /\ SubSeq(t, a, b) \in Seq(Byte)
          /\ Len(SubSeq(t, a, b)) = IF a =< b THEN b - a + 1 ELSE 0
          /\ \A k \in 1 .. b - a + 1 : SubSeq(t, a, b)[k] = t[a + k - 1]
  <2> SUFFICES ASSUME NEW a \in 1 .. Len(t) + 1, NEW b \in 0 .. Len(t)
               PROVE  /\ SubSeq(t, a, b) \in Seq(Byte)
                      /\ Len(SubSeq(t, a, b)) = IF a =< b THEN b - a + 1 ELSE 0
                      /\ \A k \in 1 .. b - a + 1 : SubSeq(t, a, b)[k] = t[a + k - 1]
    OBVIOUS
  <2>1. \A k \in a .. b : k \in 1 .. Len(t)
    BY <1>0
  <2>2. \A k \in a .. b : t[k] \in Byte
    BY <2>1, ElementOfSeq
  <2> QED
    BY <2>2, SubSeqProperties
<1>2. Trimmed(t, C) = CHOOSE u \in All : R(u)
  BY DEF Trimmed
<1>3. ASSUME NEW u \in All, R(u), u # <<>>
      PROVE  \E k \in Nat : /\ Cutout(u, k) /\ Len(u) \in Nat \ {0} /\ k + Len(u) =< Len(t)
                             /\ t[k + 1] \notin C /\ t[k + Len(u)] \notin C
  <2>1. u \in Seq(Byte)
    <3>0. u \in All
      OBVIOUS
    <3>1. PICK a \in 1 .. Len(t) + 1, b \in 0 .. Len(t) : u = SubSeq(t, a, b)
      <4> HIDE DEF R, Cutout
      <4> QED
        BY <3>0
    <3> QED
      BY <1>1, <3>1
  <2>2. PICK k \in 0 .. Len(t) - Len(u) : Cutout(u, k)
    <3> HIDE DEF All, Cutout
    <3> QED
      BY <1>3, Zenon
  <2>3. Len(u) \in Nat \ {0}
    BY <1>3, <2>1, EmptySeq
  <2>4. k + 1 \in 1 .. Len(t) + 1 /\ k + Len(u) \in 0 .. Len(t) /\ k \in Nat
    BY <1>0, <2>3
  <2>5. u = SubSeq(t, k + 1, k + Len(u))
    BY <2>2
  <2>6. \A n \in 1 .. (k + Len(u)) - (k + 1) + 1 : u[n] = t[(k + 1) + n - 1]
    <3> DEFINE a == k + 1
               b == k + Len(u)
    <3>1. a \in 1 .. Len(t) + 1 /\ b \in 0 .. Len(t) /\ u = SubSeq(t, a, b)
      BY <2>4, <2>5
    <3> HIDE DEF a, b
    <3>2. \A n \in 1 .. b - a + 1 : u[n] = t[a + n - 1]
      BY <1>1, <3>1
    <3> QED
      BY <3>2 DEF a, b
  <2>7. u[1] = t[k + 1] /\ u[Len(u)] = t[k + Len(u)]
    <3>1. 1 \in 1 .. (k + Len(u)) - (k + 1) + 1 /\ Len(u) \in 1 .. (k + Len(u)) - (k + 1) + 1
      BY <2>3, <2>4
    <3>2. (k + 1) + 1 - 1 = k + 1 /\ (k + 1) + Len(u) - 1 = k + Len(u)
      BY <2>3, <2>4
    <3> QED
      BY <2>6, <3>1, <3>2
  <2>8. Head(u) = u[1] /\ Last(u) = u[Len(u)]
    BY <1>3, <2>1 DEF Last
  <2>9. k + Len(u) =< Len(t) /\ k \in Nat
    BY <1>0, <2>3, <2>4
  <2>10. t[k + 1] \notin C /\ t[k + Len(u)] \notin C
    <3>1. Head(u) \notin C /\ Last(u) \notin C
      <4> HIDE DEF All, Cutout
      <4> QED
        BY <1>3, Zenon
    <3> QED
      BY <2>7, <2>8, <3>1
  <2> HIDE DEF All, Cutout, R
  <2> QED
    BY <2>2, <2>3, <2>9, <2>10
<1>4. CASE i > j
  <2>1. \A n \in 1 .. Len(t) : t[n] \in C
    BY <1>0, <1>4
  <2>2. <<>> \in All
    <3>1. 1 \in 1 .. Len(t) + 1 /\ 0 \in 0 .. Len(t) /\ SubSeq(t, 1, 0) = <<>>
      BY <1>0, SubSeqEmpty
    <3> QED
      BY <3>1
  <2>3. R(<<>>)
    <3>1. Len(<<>>) = 0 /\ SubSeq(t, 0 + 1, 0 + 0) = <<>> /\ 0 \in 0 .. Len(t) - 0
      BY <1>0, SubSeqEmpty
    <3>2. Cutout(<<>>, 0)
      BY <2>1, <3>1
    <3> QED
      BY <3>1, <3>2
  <2>4. ASSUME NEW u \in All, R(u) PROVE u = <<>>
    <3> SUFFICES ASSUME u # <<>> PROVE FALSE
      OBVIOUS
    <3>1. PICK k \in Nat : Len(u) \in Nat \ {0} /\ k + Len(u) =< Len(t) /\ t[k + 1] \notin C
      <4> HIDE DEF All, R, Cutout
      <4> QED
        BY <1>3, <2>4
    <3>2. k + 1 \in 1 .. Len(t)
      BY <1>0, <3>1
    <3> QED
      BY <2>1, <3>1, <3>2
  <2> HIDE DEF All, R
  <2> QED
    BY <1>2, <1>4, <2>2, <2>3, <2>4, Zenon
<1>5. CASE ~(i > j)
  <2> DEFINE v == SubSeq(t, i, j)
  <2>1. i \in 1 .. Len(t) /\ j \in 1 .. Len(t) /\ i =< j /\ t[i] \notin C /\ t[j] \notin C
    BY <1>0, <1>5
  <2>2. v \in All /\ v \in Seq(Byte) /\ Len(v) = j - i + 1
        /\ \A k \in 1 .. j - i + 1 : v[k] = t[i + k - 1]
    BY <1>1, <2>1
  <2>3. R(v)
    <3>1. v[1] = t[i] /\ v[Len(v)] = t[j]
      <4>1. 1 \in 1 .. j - i + 1 /\ j - i + 1 \in 1 .. j - i + 1
            /\ i + 1 - 1 = i /\ i + (j - i + 1) - 1 = j
        BY <2>1
      <4> HIDE DEF v
      <4> QED
        BY <2>2, <4>1
    <3>2. v # <<>> /\ i - 1 + Len(v) = j /\ i - 1 \in 0 .. Len(t) - Len(v) /\ (i - 1) + 1 = i
      <4> HIDE DEF v
      <4> QED
        BY <1>0, <2>1, <2>2
    <3>3. Head(v) = v[1] /\ Last(v) = v[Len(v)]
      <4> HIDE DEF v
      <4> QED
        BY <2>2, <3>2 DEF Last
    <3>4. \A n \in 1 .. Len(t) : n =< i - 1 \/ n > (i - 1) + Len(v) => t[n] \in C
      <4> HIDE DEF v
      <4> QED
        BY <1>0, <2>1, <3>2
    <3>5. v = SubSeq(t, (i - 1) + 1, (i - 1) + Len(v))
      BY <3>2
    <3> HIDE DEF v
    <3>6. Cutout(v, i - 1)
      BY <3>4, <3>5
    <3> QED
      BY <2>1, <3>1, <3>2, <3>3, <3>6
  <2>4. ASSUME NEW u \in All, R(u) PROVE u = v
    <3>1. u # <<>>
      <4> SUFFICES ASSUME u = <<>> PROVE FALSE
        OBVIOUS
      <4>1. PICK k \in 0 .. Len(t) - Len(u) : Cutout(u, k)
        BY <2>4
      <4>2. Len(u) = 0 /\ k \in Nat
        BY <1>0
      <4>3. i =< k \/ i > k + Len(u)
        BY <2>1, <4>2
      <4> QED
        BY <2>1, <4>1, <4>3
    <3>2. PICK k \in Nat : /\ Cutout(u, k) /\ Len(u) \in Nat \ {0} /\ k + Len(u) =< Len(t)
                           /\ t[k + 1] \notin C /\ t[k + Len(u)] \notin C
      <4> HIDE DEF All, R, Cutout
      <4> QED
        BY <1>3, <2>4, <3>1
    <3>3. k < i /\ i =< k + Len(u) /\ k < j /\ j =< k + Len(u)
      <4>1. ~(i =< k \/ i > k + Len(u)) /\ ~(j =< k \/ j > k + Len(u))
        BY <2>1, <3>2
      <4> QED
        BY <2>1, <3>2, <4>1
    <3>4. ~(k + 1 < i) /\ ~(j < k + Len(u))
      <4>1. k + 1 < i => k + 1 \in 1 .. i - 1
        BY <2>1, <3>2
      <4>2. j < k + Len(u) => k + Len(u) \in j + 1 .. Len(t)
        BY <1>0, <2>1, <3>2
      <4> QED
        BY <3>2, <4>1, <4>2, SMTT(30)
    <3>5. k + 1 = i /\ k + Len(u) = j
      BY <2>1, <3>2, <3>3, <3>4
    <3>6. u = SubSeq(t, k + 1, k + Len(u))
      BY <3>2
    <3> HIDE DEF All, R
    <3> QED
      BY <3>5, <3>6, Zenon
  <2> HIDE DEF All, R, v
  <2>5. Trimmed(t, C) = v
    BY <1>2, <2>2, <2>3, <2>4, Zenon
  <2> QED
    BY <1>5, <2>5 DEF v
<1> QED
  BY <1>4, <1>5

LEMMA TrimContent ==
    ASSUME NEW s, Exact(s), NEW cset, NulInside(Content(s), cset)
    PROVE  Content(sdstrim(s, cset)) = Trimmed(Content(s), cset)
<1> DEFINE C == cset \cup {NUL}
           t == Content(s)
<1>1. PICK i \in 1 .. s.len + 1, j \in 0 .. s.len :
          /\ TrimFirst(s, C, i) /\ TrimLast(s, C, j)
          /\ sdstrim(s, cset) = Write(s, 0, IF i > j THEN <<>> ELSE SubSeq(s.buf, i, j))
  BY TrimEnds
<1>2. /\ t \in Seq(Byte) /\ Len(t) = s.len /\ s.len \in Nat /\ s.free \in Nat
      /\ \A n \in 1 .. s.len : t[n] = s.buf[n]
  BY ContentBytes, ExactFields
<1> HIDE DEF C, t
<1>3. /\ \A n \in 1 .. i - 1 : t[n] \in C
      /\ i =< Len(t) => t[i] \notin C
      /\ \A n \in j + 1 .. Len(t) : t[n] \in C
      /\ j > 1 => t[j] \notin C
  <2>1. /\ \A n \in 1 .. i - 1 : n \in 1 .. s.len
        /\ i =< Len(t) => i \in 1 .. s.len
        /\ \A n \in j + 1 .. Len(t) : n \in 1 .. s.len /\ n \in j + 1 .. s.len
        /\ j > 1 => j \in 1 .. s.len
    BY <1>2
  <2> QED
    BY <1>1, <1>2, <2>1 DEF TrimFirst, TrimLast
<1>4. Trimmed(t, cset) = IF i > j THEN <<>> ELSE SubSeq(t, i, j)
  <2>1. i \in 1 .. Len(t) + 1 /\ j \in 0 .. Len(t) /\ Len(t) \in Nat
    BY <1>2
  <2>2. \A n \in 1 .. Len(t) : t[n] = NUL =>
           /\ \E k \in 1 .. n - 1 : t[k] \notin C
           /\ \E k \in n + 1 .. Len(t) : t[k] \notin C
    BY DEF NulInside, t, C
  <2>3. ASSUME NEW n \in 1 .. i - 1 PROVE t[n] \in cset
    <3>1. n \in 1 .. Len(t) /\ t[n] \in C
      BY <1>3, <2>1
    <3>2. \A k \in 1 .. n - 1 : t[k] \in C
      <4>1. \A k \in 1 .. n - 1 : k \in 1 .. i - 1
        BY <2>1
      <4> QED
        BY <1>3, <4>1
    <3> QED
      BY <2>2, <3>1, <3>2 DEF C
  <2>4. ASSUME NEW n \in j + 1 .. Len(t) PROVE t[n] \in cset
    <3>1. n \in 1 .. Len(t) /\ t[n] \in C
      BY <1>3, <2>1
    <3>2. \A k \in n + 1 .. Len(t) : t[k] \in C
      <4>1. \A k \in n + 1 .. Len(t) : k \in j + 1 .. Len(t)
        BY <2>1
      <4> QED
        BY <1>3, <4>1
    <3> QED
      BY <2>2, <3>1, <3>2 DEF C
  <2>5. (i =< Len(t) => t[i] \notin cset) /\ (j > 1 => t[j] \notin cset)
    BY <1>3 DEF C
  <2> QED
    BY <1>2, <2>1, <2>3, <2>4, <2>5, TrimChoice
<1>5. CASE i > j
  <2>1. <<>> \in Seq(Byte) /\ Len(<<>>) =< s.len + s.free
    BY <1>2
  <2>2. Content(Write(s, 0, <<>>)) = <<>>
    BY <2>1, FrontContent
  <2> QED
    BY <1>1, <1>4, <1>5, <2>2 DEF t
<1>6. CASE ~(i > j)
  <2> DEFINE u == SubSeq(s.buf, i, j)
  <2>1. i \in Nat \ {0} /\ j \in 0 .. s.len + 1
    BY <1>2
  <2>2. u \in Seq(Byte) /\ Len(u) = IF i =< j THEN j - i + 1 ELSE 0
    BY <2>1, Part
  <2>3. u = SubSeq(t, i, j)
    BY <2>1, PartOfContent DEF t
  <2> HIDE DEF u
  <2>4. Len(u) =< s.len + s.free
    BY <1>2, <1>6, <2>2
  <2>5. Content(Write(s, 0, u)) = u
    BY <2>2, <2>4, FrontContent
  <2> QED
    BY <1>1, <1>4, <1>6, <2>3, <2>5 DEF t, C, u
<1> QED
  BY <1>5, <1>6

LEMMA FormatContent ==
    ASSUME NEW s, Exact(s), NEW f \in Seq(Piece)
    PROVE  Content(sdscatfmt(s, f)) = Content(s) \o FoldLeft(AddText, <<>>, f)
<1> DEFINE w == sdscatfmt(s, f)
           c == Content(FoldLeft(AddPiece, s, f))
<1>1. /\ Exact(w) /\ w.len = Len(c) /\ w.buf = c \o <<NUL>> /\ c \in Seq(Byte)
      /\ c = Content(s) \o FoldLeft(AddText, <<>>, f)
  BY Formatted
<1> HIDE DEF w, c
<1>2. \A i \in 1 .. w.len : w.buf[i] = c[i]
  BY <1>1, TextBeforeNul
<1>3. Content(w) = c
  BY <1>1, <1>2, ContentIs
<1> QED
  BY <1>1, <1>3 DEF w

(* The test of the range is exact for every int but INT_MIN. *)
LEMMA CountContent ==
    ASSUME NEW s, Exact(s), NEW incr \in Amount
    PROVE  Content(cobj_incrby(s, incr)) = Sum(Content(s), incr)
<1> DEFINE D == sds_to_int64(s)
           num == CHOOSE v \in D : TRUE
           t == Content(s)
<1>0. /\ MaxInt64 \in Nat /\ incr \in Int /\ -MaxInt64 =< incr /\ incr =< MaxInt64
  BY SdsAssumption DEF Amount
<1>1. D = Denoted(CString(t))
  BY SameCString DEF sds_to_int64
<1>2. D \subseteq Int64 /\ \A v, w \in D : v = w
  <2>1. \A u : \E x : Denoted(u) = {} \/ Denoted(u) = {x} \cap Int64
    BY ZenonT(60) DEF Denoted
  <2>2. PICK x : D = {} \/ D = {x} \cap Int64
    BY <2>1 DEF sds_to_int64
  <2> HIDE DEF D
  <2> QED
    BY <2>2
<1>3. Sum(t, incr) = IF {v + incr : v \in D} \cap Int64 = {} THEN t
                     ELSE Numeral(incr + num)
  BY <1>1 DEF Sum
<1> DEFINE bad == \/ incr < 0 /\ num < 0 /\ incr < -MaxInt64 - 1 - num
                  \/ incr > 0 /\ num > 0 /\ incr > MaxInt64 - num
           r == Replaced(s, sdsnewlen(s.used, sdsll2str(num + incr)))
<1>4. cobj_incrby(s, incr) = IF D = {} \/ bad THEN s ELSE r
  BY DEF cobj_incrby
<1> HIDE DEF D, t
<1>5. CASE D = {}
  <2>1. {v + incr : v \in D} = {}
    BY <1>5
  <2> QED
    BY <1>3, <1>4, <1>5, <2>1 DEF t
<1>6. CASE D # {}
  <2>1. num \in D
    BY <1>6, Zenon
  <2> HIDE DEF num
  <2>2. num \in Int /\ -MaxInt64 - 1 =< num /\ num =< MaxInt64 /\ D = {num}
    <3>1. num \in Int64 /\ D = {num}
      BY <1>2, <2>1
    <3> QED
      BY <1>0, <3>1 DEF Int64
  <2>3. {v + incr : v \in D} = {num + incr}
    BY <2>2
  <2>4. num + incr \in Int64 <=> ~bad
    BY <1>0, <2>2 DEF Int64
  <2>5. num + incr \in Int /\ num + incr = incr + num
    BY <1>0, <2>2
  <2> HIDE DEF bad, r
  <2>6. CASE bad
    BY <1>3, <1>4, <2>3, <2>4, <2>6 DEF t
  <2>7. CASE ~bad
    <3>1. Content(r) = Numeral(num + incr)
      BY <2>5, NumeralText, ReplacedContent DEF r, sdsll2str
    <3>2. ~({v + incr : v \in D} \cap Int64 = {})
      BY <2>3, <2>4, <2>7
    <3> QED
      BY <1>3, <1>4, <1>6, <2>5, <2>7, <3>1, <3>2 DEF t
  <2> QED
    BY <2>6, <2>7
<1> QED
  BY <1>5, <1>6

-----------------------------------------------------------------------------
(* Every operation means what it says, whatever room the string has and however it
   came to it: cutting, copying, appending, formatting, comparing and counting, for
   all texts, sets, formats, mappings and numbers. *)
THEOREM MeansWhatItSays == Spec => []MeansText
<1>1. IInv => MeansText
  <2> SUFFICES ASSUME IInv, m.block # 0 PROVE MeansText
    BY DEF MeansText
  <2> DEFINE t == Content(m)
  <2>1. Exact(m)
    BY DEF IInv, NoString
  <2>2. \A s \in {sdsdup(m), sdsRemoveFreeSpace(m)} \cup
                  {sdsMakeRoomFor(m, n) : n \in 0 .. MaxRoom} : Content(s) = t
    <3>1. \A n \in 0 .. MaxRoom : Content(sdsMakeRoomFor(m, n)) = t
      BY <2>1, RoomKeepsText, SdsAssumption
    <3> QED
      BY <2>1, <3>1, DuplicatedContent, RoomRemovedKeepsText
  <2>3. Content(sdsupdatelen(m)) = CString(t)
    BY <2>1, ShortenedContent
  <2>4. \A n \in 0 .. MaxLen : Content(sdsgrowzero(m, n)) = Extended(t, n)
    BY <2>1, ZeroedContent, SdsAssumption
  <2>5. ASSUME NEW u \in Arg
        PROVE  /\ Content(sdsIncrLen(m, u)) = t \o u
               /\ Content(sdscat(m, u)) = t \o CString(u)
               /\ Content(sdscpylen(m, u)) = u
               /\ (sdscmp(m, u) < 0 <=> Before(t, u, Ascii))
               /\ (sdscmp(m, u) > 0 <=> Before(u, t, Ascii))
               /\ (dictSdsKeyCompare(m, u) <=> t = u)
    <3>1. u \in Seq(Byte) /\ CString(u) \in Seq(Byte)
      BY TextAssumption, CStringText
    <3>2. Content(sdsIncrLen(m, u)) = t \o u
      BY <2>1, <3>1, AppendedContent DEF sdsIncrLen
    <3>3. Content(sdscat(m, u)) = t \o CString(u)
      BY <2>1, <3>1, AppendedContent DEF sdscat, sdscatlen
    <3> HIDE DEF t
    <3> QED
      BY <2>1, <3>1, <3>2, <3>3, CopiedContent, CompareMeans, EqualMeans DEF t
  <2>6. \A f \in Format : Content(sdscatfmt(m, f)) = t \o FoldLeft(AddText, <<>>, f)
    BY <2>1, FormatContent, TextAssumption
  <2>7. \A C \in Charset : NulInside(t, C) => Content(sdstrim(m, C)) = Trimmed(t, C)
    BY <2>1, TrimContent
  <2>8. \A a, b \in -MaxLen - 1 .. MaxLen + 1 :
            Content(sdsrange(m, a, b)) = Slice(t, a, b)
    BY <2>1, RangeContent, SdsAssumption
  <2>9. \A p \in Mapping : Content(sdsmapchars(m, p[1], p[2])) = Mapped(t, p[1], p[2])
    BY <2>1, MapContent, TextAssumption
  <2>10. ASSUME NEW n \in Amount
         PROVE  /\ Content(cobj_incrby(m, n)) = Sum(t, n)
                /\ Content(cobj_sds_decrby(m, n)) = Sum(t, -n)
    <3>1. -n \in Amount
      BY SdsAssumption DEF Amount
    <3> QED
      BY <2>1, <3>1, CountContent DEF cobj_sds_decrby
  <2> HIDE DEF t
  <2> QED
    BY <2>2, <2>3, <2>4, <2>5, <2>6, <2>7, <2>8, <2>9, <2>10 DEF MeansText, t
<1> QED
  BY <1>1, Invariance, PTL

-----------------------------------------------------------------------------
(* Texts taken apart and put together.

   Places, Readings and FlattenSeq are recursive functions on the numbers; LoopTo is any
   of the three up to k. *)
LoopStep(loop, s, sep, g, k) ==
    CASE loop = "places"  -> IF k = 0 THEN FirstPlace ELSE NextPlace(s, sep, g[k - 1])
      [] loop = "bytes"   -> IF k = 0 THEN Reading ELSE NextByte(s, g[k - 1])
      [] loop = "flatten" -> IF k = 0 THEN <<>> ELSE IF k = 1 THEN s[k] ELSE g[k - 1] \o s[k]
      [] OTHER            -> g

LoopTo(loop, s, sep, g, k) == g = [i \in 0 .. k |-> LoopStep(loop, s, sep, g, i)]

LEMMA EveryNumber ==
    ASSUME NEW T, 0 \in T, \A i \in Nat : i \in T => i + 1 \in T
    PROVE  Nat \subseteq T
<1> DEFINE Bad == {i \in Nat : i \notin T}
<1> SUFFICES ASSUME Bad # {} PROVE FALSE
  OBVIOUS
<1>1. PICK n \in Bad : \A i \in Bad : n =< i
  <2>1. Bad \subseteq Nat
    OBVIOUS
  <2> HIDE DEF Bad
  <2> QED
    BY <2>1, LeastOf
<1>2. n # 0 /\ n \in Nat
  BY <1>1
<1>3. n - 1 \in Nat /\ n - 1 \notin Bad
  BY <1>1, <1>2
<1> QED
  BY <1>1, <1>2, <1>3

(* A step looks only at what came before. *)
LEMMA LoopStepLooksBack ==
    ASSUME NEW loop \in {"places", "bytes", "flatten"}, NEW s, NEW sep, NEW g, NEW h,
           NEW k \in Nat, k # 0 => g[k - 1] = h[k - 1]
    PROVE  LoopStep(loop, s, sep, g, k) = LoopStep(loop, s, sep, h, k)
<1>1. CASE loop = "places"
  BY <1>1 DEF LoopStep
<1>2. CASE loop = "bytes"
  BY <1>2 DEF LoopStep
<1>3. CASE loop = "flatten"
  BY <1>3 DEF LoopStep
<1> QED
  BY <1>1, <1>2, <1>3

LEMMA LoopToExists ==
    ASSUME NEW loop \in {"places", "bytes", "flatten"}, NEW s, NEW sep
    PROVE  \A k \in Nat : \E g : LoopTo(loop, s, sep, g, k)
<1> DEFINE T == {k \in Nat : \E g : LoopTo(loop, s, sep, g, k)}
<1>1. 0 \in T
  <2> DEFINE h == [i \in 0 .. 0 |-> LoopStep(loop, s, sep, <<>>, i)]
  <2>1. \A i \in 0 .. 0 : LoopStep(loop, s, sep, <<>>, i) = LoopStep(loop, s, sep, h, i)
    <3> SUFFICES ASSUME NEW i \in 0 .. 0
                 PROVE  LoopStep(loop, s, sep, <<>>, i) = LoopStep(loop, s, sep, h, i)
      OBVIOUS
    <3> HIDE DEF h
    <3> QED
      BY LoopStepLooksBack
  <2>2. LoopTo(loop, s, sep, h, 0)
    BY <2>1 DEF LoopTo
  <2> QED
    BY <2>2
<1>2. ASSUME NEW k \in Nat, k \in T PROVE k + 1 \in T
  <2>1. PICK g : LoopTo(loop, s, sep, g, k)
    BY <1>2
  <2> DEFINE h == [i \in 0 .. k + 1 |-> LoopStep(loop, s, sep, g, i)]
  <2>2. \A i \in 0 .. k : g[i] = h[i]
    BY <2>1 DEF LoopTo
  <2>3. \A i \in 0 .. k + 1 : LoopStep(loop, s, sep, g, i) = LoopStep(loop, s, sep, h, i)
    <3> SUFFICES ASSUME NEW i \in 0 .. k + 1
                 PROVE  LoopStep(loop, s, sep, g, i) = LoopStep(loop, s, sep, h, i)
      OBVIOUS
    <3> HIDE DEF h
    <3>1. i # 0 => g[i - 1] = h[i - 1]
      BY <2>2
    <3> QED
      BY <3>1, LoopStepLooksBack
  <2>4. LoopTo(loop, s, sep, h, k + 1)
    BY <2>3 DEF LoopTo
  <2> QED
    BY <2>4
<1> HIDE DEF T
<1>3. Nat \subseteq T
  BY <1>1, <1>2, EveryNumber
<1> QED
  BY <1>3 DEF T

LEMMA LoopToValue ==
    ASSUME NEW loop, NEW s, NEW sep, NEW g, NEW k \in Nat, LoopTo(loop, s, sep, g, k),
           NEW i \in 0 .. k
    PROVE  g[i] = LoopStep(loop, s, sep, g, i)
<1> DEFINE P(n) == LoopStep(loop, s, sep, g, n)
<1>1. g = [n \in 0 .. k |-> P(n)]
  BY DEF LoopTo
<1> HIDE DEF P
<1>2. g[i] = P(i)
  BY <1>1, Zenon
<1> QED
  BY <1>2 DEF P

LEMMA LoopToAgree ==
    ASSUME NEW loop \in {"places", "bytes", "flatten"}, NEW s, NEW sep, NEW g, NEW h,
           NEW j \in Nat, NEW k \in Nat,
           LoopTo(loop, s, sep, g, j), LoopTo(loop, s, sep, h, k)
    PROVE  \A i \in Nat : i =< j /\ i =< k => g[i] = h[i]
<1> DEFINE T == {i \in Nat : i =< j /\ i =< k => g[i] = h[i]}
<1>1. \A i \in 0 .. j : g[i] = LoopStep(loop, s, sep, g, i)
  BY LoopToValue
<1>2. \A i \in 0 .. k : h[i] = LoopStep(loop, s, sep, h, i)
  BY LoopToValue
<1>3. 0 \in T
  <2>1. LoopStep(loop, s, sep, g, 0) = LoopStep(loop, s, sep, h, 0)
    BY LoopStepLooksBack
  <2> QED
    BY <1>1, <1>2, <2>1
<1>4. ASSUME NEW i \in Nat, i \in T PROVE i + 1 \in T
  <2> SUFFICES ASSUME i + 1 =< j, i + 1 =< k PROVE g[i + 1] = h[i + 1]
    OBVIOUS
  <2>1. g[i] = h[i] /\ i + 1 \in 0 .. j /\ i + 1 \in 0 .. k /\ i + 1 \in Nat
    BY <1>4
  <2>2. LoopStep(loop, s, sep, g, i + 1) = LoopStep(loop, s, sep, h, i + 1)
    <3>1. g[(i + 1) - 1] = h[(i + 1) - 1]
      BY <2>1
    <3> HIDE DEF T
    <3> QED
      BY <2>1, <3>1, LoopStepLooksBack
  <2> QED
    BY <1>1, <1>2, <2>1, <2>2
<1> HIDE DEF T
<1>5. Nat \subseteq T
  BY <1>3, <1>4, EveryNumber
<1> QED
  BY <1>5 DEF T

LEMMA LoopExists ==
    ASSUME NEW loop \in {"places", "bytes", "flatten"}, NEW s, NEW sep
    PROVE  \E g : g = [k \in Nat |-> LoopStep(loop, s, sep, g, k)]
<1> DEFINE To(k) == CHOOSE g : LoopTo(loop, s, sep, g, k)
           all == [k \in Nat |-> To(k)[k]]
<1>1. \A k \in Nat : LoopTo(loop, s, sep, To(k), k)
  BY LoopToExists, Zenon
<1> HIDE DEF To
<1>2. ASSUME NEW k \in Nat PROVE all[k] = LoopStep(loop, s, sep, all, k)
  <2>1. all[k] = LoopStep(loop, s, sep, To(k), k)
    <3>1. To(k)[k] = LoopStep(loop, s, sep, To(k), k)
      <4>1. k \in 0 .. k
        OBVIOUS
      <4>2. LoopTo(loop, s, sep, To(k), k)
        BY <1>1
      <4> QED
        BY <4>1, <4>2, LoopToValue
    <3> QED
      BY <3>1
  <2>2. k # 0 => To(k)[k - 1] = all[k - 1]
    <3> SUFFICES ASSUME k # 0 PROVE To(k)[k - 1] = all[k - 1]
      OBVIOUS
    <3>1. k - 1 \in Nat /\ k - 1 =< k
      OBVIOUS
    <3>2. LoopTo(loop, s, sep, To(k), k) /\ LoopTo(loop, s, sep, To(k - 1), k - 1)
      BY <1>1, <3>1
    <3>3. To(k)[k - 1] = To(k - 1)[k - 1]
      BY <3>1, <3>2, LoopToAgree
    <3>4. all[k - 1] = To(k - 1)[k - 1]
      BY <3>1
    <3> QED
      BY <3>3, <3>4
  <2> HIDE DEF all
  <2>3. LoopStep(loop, s, sep, To(k), k) = LoopStep(loop, s, sep, all, k)
    BY <2>2, LoopStepLooksBack
  <2> QED
    BY <2>1, <2>3
<1>3. all = [k \in Nat |-> LoopStep(loop, s, sep, all, k)]
  BY <1>2
<1> QED
  BY <1>3

LEMMA PlacesSteps ==
    ASSUME NEW s, NEW sep
    PROVE  /\ Places(s, sep)[0] = FirstPlace
           /\ \A k \in Nat : Places(s, sep)[k + 1] = NextPlace(s, sep, Places(s, sep)[k])
<1> DEFINE St(g, k) == IF k = 0 THEN FirstPlace ELSE NextPlace(s, sep, g[k - 1])
           Is(g) == g = [k \in Nat |-> St(g, k)]
           r == Places(s, sep)
<1>1. r = CHOOSE g : Is(g)
  BY DEF Places
<1>2. \E g : Is(g)
  <2>1. \A g, k : St(g, k) = LoopStep("places", s, sep, g, k)
    BY DEF LoopStep
  <2>2. "places" \in {"places", "bytes", "flatten"}
    OBVIOUS
  <2>3. PICK g : g = [k \in Nat |-> LoopStep("places", s, sep, g, k)]
    BY <2>2, LoopExists, Zenon
  <2> HIDE DEF St
  <2>4. g = [k \in Nat |-> St(g, k)]
    BY <2>1, <2>3
  <2> QED
    BY <2>4
<1>3. r = [k \in Nat |-> St(r, k)]
  <2>1. Is(r)
    <3> HIDE DEF Is, r
    <3> QED
      BY <1>1, <1>2, Zenon
  <2> QED
    BY <2>1
<1>4. \A k \in Nat : r[k] = St(r, k)
  <2> HIDE DEF St, r
  <2> QED
    BY <1>3
<1>5. r[0] = FirstPlace
  <2> HIDE DEF r
  <2> QED
    BY <1>4
<1>6. ASSUME NEW k \in Nat PROVE r[k + 1] = NextPlace(s, sep, r[k])
  <2>1. k + 1 \in Nat /\ k + 1 # 0 /\ (k + 1) - 1 = k
    OBVIOUS
  <2> HIDE DEF r
  <2> QED
    BY <1>4, <2>1
<1> QED
  BY <1>5, <1>6

LEMMA ReadingsSteps ==
    ASSUME NEW s
    PROVE  /\ Readings(s)[0] = Reading
           /\ \A k \in Nat : Readings(s)[k + 1] = NextByte(s, Readings(s)[k])
<1> DEFINE St(g, k) == IF k = 0 THEN Reading ELSE NextByte(s, g[k - 1])
           Is(g) == g = [k \in Nat |-> St(g, k)]
           r == Readings(s)
<1>1. r = CHOOSE g : Is(g)
  BY DEF Readings
<1>2. \E g : Is(g)
  <2>1. \A g, k : St(g, k) = LoopStep("bytes", s, s, g, k)
    BY DEF LoopStep
  <2>2. "bytes" \in {"places", "bytes", "flatten"}
    OBVIOUS
  <2>3. PICK g : g = [k \in Nat |-> LoopStep("bytes", s, s, g, k)]
    BY <2>2, LoopExists, Zenon
  <2> HIDE DEF St
  <2>4. g = [k \in Nat |-> St(g, k)]
    BY <2>1, <2>3
  <2> QED
    BY <2>4
<1>3. r = [k \in Nat |-> St(r, k)]
  <2>1. Is(r)
    <3> HIDE DEF Is, r
    <3> QED
      BY <1>1, <1>2, Zenon
  <2> QED
    BY <2>1
<1>4. \A k \in Nat : r[k] = St(r, k)
  <2> HIDE DEF St, r
  <2> QED
    BY <1>3
<1>5. r[0] = Reading
  <2> HIDE DEF r
  <2> QED
    BY <1>4
<1>6. ASSUME NEW k \in Nat PROVE r[k + 1] = NextByte(s, r[k])
  <2>1. k + 1 \in Nat /\ k + 1 # 0 /\ (k + 1) - 1 = k
    OBVIOUS
  <2> HIDE DEF r
  <2> QED
    BY <1>4, <2>1
<1> QED
  BY <1>5, <1>6

(* FlattenSeq puts one text after the other: g[i] is what the first i make. *)
Flattens(x, g) == /\ g[0] = <<>>
                  /\ \A i \in 1 .. Len(x) : g[i] = g[i - 1] \o x[i]

LEMMA FlattenSteps ==
    ASSUME NEW S, NEW x \in Seq(Seq(S))
    PROVE  \E g : Flattens(x, g) /\ FlattenSeq(x) = g[Len(x)]
<1> DEFINE n == Len(x)
           St(g, i) == IF i = 1 THEN x[i] ELSE g[i - 1] \o x[i]
           Is(g) == g = [i \in 1 .. n |-> St(g, i)]
           f == CHOOSE g : Is(g)
<1>0. n \in Nat
  OBVIOUS
<1>1. CASE n = 0
  <2>1. x = <<>> /\ FlattenSeq(x) = x
    BY <1>1, EmptySeq DEF FlattenSeq
  <2>2. [i \in {0} |-> <<>>][0] = <<>>
    OBVIOUS
  <2>3. Flattens(x, [i \in {0} |-> <<>>])
    BY <1>1, <2>2 DEF Flattens
  <2> QED
    BY <1>1, <2>1, <2>2, <2>3
<1>2. CASE n # 0
  <2>1. FlattenSeq(x) = f[n]
    BY <1>2 DEF FlattenSeq
  <2>2. \E g : Is(g)
    <3>1. "flatten" \in {"places", "bytes", "flatten"}
      OBVIOUS
    <3>2. PICK g : g = [k \in Nat |-> LoopStep("flatten", x, x, g, k)]
      BY <3>1, LoopExists, Zenon
    <3> DEFINE h == [i \in 1 .. n |-> g[i]]
    <3>3. \A i \in 1 .. n : h[i] = St(h, i)
      <4> SUFFICES ASSUME NEW i \in 1 .. n PROVE h[i] = St(h, i)
        OBVIOUS
      <4>1. i \in Nat /\ i # 0 /\ (i # 1 => i - 1 \in 1 .. n)
        BY <1>0
      <4>2. g[i] = LoopStep("flatten", x, x, g, i)
        <5> DEFINE P(k) == LoopStep("flatten", x, x, g, k)
        <5>1. g = [k \in Nat |-> P(k)]
          BY <3>2
        <5> HIDE DEF P
        <5>2. g[i] = P(i)
          BY <4>1, <5>1
        <5> QED
          BY <5>2 DEF P
      <4>3. g[i] = St(g, i)
        BY <4>1, <4>2 DEF LoopStep
      <4>4. i # 1 => h[i - 1] = g[i - 1]
        BY <4>1
      <4>5. h[i] = g[i]
        OBVIOUS
      <4> HIDE DEF h
      <4> QED
        BY <4>3, <4>4, <4>5
    <3>4. h = [i \in 1 .. n |-> h[i]]
      OBVIOUS
    <3>5. Is(h)
      <4> HIDE DEF h, St
      <4> QED
        BY <3>3, <3>4
    <3> QED
      BY <3>5
  <2>3. Is(f)
    <3> HIDE DEF Is
    <3> QED
      BY <2>2, Zenon
  <2>4. \A i \in 1 .. n : f[i] = St(f, i)
    <3> HIDE DEF f, St
    <3> QED
      BY <2>3
  <2> DEFINE e == [i \in 0 .. n |-> IF i = 0 THEN <<>> ELSE f[i]]
  <2> HIDE DEF f
  <2>5. e[0] = <<>>
    BY <1>0
  <2>6. ASSUME NEW i \in 1 .. n PROVE e[i] = e[i - 1] \o x[i]
    <3>1. e[i] = f[i] /\ x[i] \in Seq(S)
      BY <1>0, ElementOfSeq
    <3>2. CASE i = 1
      <4>1. e[i - 1] = <<>> /\ f[i] = x[i]
        BY <3>2, <2>4, <2>5
      <4>2. <<>> \o x[i] = x[i]
        BY <3>1, ConcatEmptySeq
      <4> QED
        BY <3>1, <4>1, <4>2
    <3>3. CASE i # 1
      <4>0. i - 1 \in 0 .. n /\ i - 1 # 0
        BY <1>0, <3>3
      <4>1. e[i - 1] = f[i - 1]
        BY <4>0 DEF e
      <4>2. f[i] = St(f, i)
        BY <2>4
      <4>3. f[i] = f[i - 1] \o x[i]
        BY <3>3, <4>2
      <4> QED
        BY <3>1, <4>1, <4>3
    <3> QED
      BY <3>2, <3>3
  <2>7. e[n] = f[n]
    BY <1>0, <1>2
  <2> HIDE DEF e
  <2> QED
    BY <2>1, <2>5, <2>6, <2>7 DEF Flattens
<1> QED
  BY <1>1, <1>2

LEMMA FlattensText ==
    ASSUME NEW S, NEW x \in Seq(Seq(S)), NEW g, Flattens(x, g)
    PROVE  \A i \in 0 .. Len(x) : g[i] \in Seq(S)
<1> DEFINE T == {i \in Nat : i =< Len(x) => g[i] \in Seq(S)}
<1>0. Len(x) \in Nat
  OBVIOUS
<1>1. 0 \in T
  <2>1. g[0] = <<>> /\ <<>> \in Seq(S)
    BY DEF Flattens
  <2> QED
    BY <2>1
<1>2. ASSUME NEW i \in Nat, i \in T PROVE i + 1 \in T
  <2> SUFFICES ASSUME i + 1 =< Len(x) PROVE g[i + 1] \in Seq(S)
    OBVIOUS
  <2>1. g[i] \in Seq(S) /\ i + 1 \in 1 .. Len(x) /\ (i + 1) - 1 = i
    BY <1>0, <1>2
  <2> HIDE DEF T
  <2>2. g[i + 1] = g[i] \o x[i + 1]
    <3>1. \A j \in 1 .. Len(x) : g[j] = g[j - 1] \o x[j]
      BY DEF Flattens
    <3>2. g[i + 1] = g[(i + 1) - 1] \o x[i + 1]
      BY <2>1, <3>1
    <3> QED
      BY <2>1, <3>2
  <2>3. x[i + 1] \in Seq(S)
    BY <2>1, ElementOfSeq
  <2> QED
    BY <2>1, <2>2, <2>3, ConcatProperties
<1> HIDE DEF T
<1>3. Nat \subseteq T
  BY <1>1, <1>2, EveryNumber
<1> QED
  BY <1>3 DEF T

LEMMA FlattensSame ==
    ASSUME NEW x, NEW y, NEW g, NEW h, Flattens(x, g), Flattens(y, h),
           NEW n \in Nat, n =< Len(x), n =< Len(y), Len(x) \in Nat, Len(y) \in Nat,
           \A i \in 1 .. n : x[i] = y[i]
    PROVE  g[n] = h[n]
<1> DEFINE T == {i \in Nat : i =< n => g[i] = h[i]}
<1>1. 0 \in T
  BY DEF Flattens
<1>2. ASSUME NEW i \in Nat, i \in T PROVE i + 1 \in T
  <2> SUFFICES ASSUME i + 1 =< n PROVE g[i + 1] = h[i + 1]
    OBVIOUS
  <2>1. g[i] = h[i] /\ i + 1 \in 1 .. Len(x) /\ i + 1 \in 1 .. Len(y) /\ i + 1 \in 1 .. n
    BY <1>2
  <2> HIDE DEF T
  <2>2. g[i + 1] = g[i] \o x[i + 1] /\ h[i + 1] = h[i] \o y[i + 1]
    <3>1. (i + 1) - 1 = i
      OBVIOUS
    <3> QED
      BY <2>1, <3>1 DEF Flattens
  <2>3. x[i + 1] = y[i + 1]
    BY <2>1
  <2> QED
    BY <2>1, <2>2, <2>3
<1> HIDE DEF T
<1>3. Nat \subseteq T
  BY <1>1, <1>2, EveryNumber
<1> QED
  BY <1>3 DEF T

LEMMA FlattenEmpty == FlattenSeq(<<>>) = <<>>
BY DEF FlattenSeq

LEMMA FlattenAppend ==
    ASSUME NEW S, NEW x \in Seq(Seq(S)), NEW u \in Seq(S)
    PROVE  /\ FlattenSeq(x) \in Seq(S)
           /\ FlattenSeq(Append(x, u)) = FlattenSeq(x) \o u
<1> DEFINE y == Append(x, u)
<1>1. y \in Seq(Seq(S)) /\ Len(y) = Len(x) + 1 /\ y[Len(x) + 1] = u
      /\ \A i \in 1 .. Len(x) : x[i] = y[i]
  BY AppendProperties
<1> HIDE DEF y
<1>2. PICK g : Flattens(x, g) /\ FlattenSeq(x) = g[Len(x)]
  BY FlattenSteps
<1>3. PICK h : Flattens(y, h) /\ FlattenSeq(y) = h[Len(y)]
  BY <1>1, FlattenSteps
<1> DEFINE n == Len(x)
<1>4. n \in Nat /\ Len(y) \in Nat /\ n =< Len(y) /\ n =< Len(x)
  BY <1>1
<1>5. g[n] = h[n]
  <2>1. Flattens(x, g) /\ Flattens(y, h) /\ \A i \in 1 .. n : x[i] = y[i]
    BY <1>1, <1>2, <1>3
  <2>2. Len(x) \in Nat
    OBVIOUS
  <2> HIDE DEF n
  <2> QED
    BY <1>4, <2>1, <2>2, FlattensSame
<1>6. h[Len(y)] = h[Len(x)] \o u
  <2>1. Len(y) \in 1 .. Len(y) /\ Len(y) - 1 = Len(x) /\ y[Len(y)] = u
    BY <1>1, <1>4
  <2> QED
    BY <1>3, <2>1 DEF Flattens
<1>7. g[Len(x)] \in Seq(S)
  BY <1>2, <1>4, FlattensText
<1> QED
  BY <1>2, <1>3, <1>5, <1>6, <1>7 DEF y

(* What the first i make is the beginning of the whole. *)
LEMMA FlattenBegins ==
    ASSUME NEW S, NEW x \in Seq(Seq(S)), NEW g, Flattens(x, g), FlattenSeq(x) = g[Len(x)],
           NEW n \in 0 .. Len(x)
    PROVE  /\ g[n] \in Seq(S) /\ FlattenSeq(x) \in Seq(S)
           /\ Len(g[n]) =< Len(FlattenSeq(x))
           /\ \A j \in 1 .. Len(g[n]) : FlattenSeq(x)[j] = g[n][j]
<1> DEFINE f == FlattenSeq(x)
           Begins(u) == Len(u) =< Len(f) /\ \A j \in 1 .. Len(u) : f[j] = u[j]
           T == {d \in Nat : d =< Len(x) => Begins(g[Len(x) - d])}
<1>0. Len(x) \in Nat /\ \A i \in 0 .. Len(x) : g[i] \in Seq(S)
  BY FlattensText
<1>1. f \in Seq(S) /\ f = g[Len(x)]
  BY <1>0
<1> HIDE DEF f
<1>2. 0 \in T
  BY <1>0, <1>1
<1>3. ASSUME NEW d \in Nat, d \in T PROVE d + 1 \in T
  <2> SUFFICES ASSUME d + 1 =< Len(x) PROVE Begins(g[Len(x) - (d + 1)])
    OBVIOUS
  <2> DEFINE i == Len(x) - d
  <2>1. i \in 1 .. Len(x) /\ Len(x) - (d + 1) = i - 1 /\ i - 1 \in 0 .. Len(x)
    BY <1>0
  <2>2. Begins(g[i])
    BY <1>3
  <2> HIDE DEF i
  <2>3. g[i] = g[i - 1] \o x[i]
    BY <2>1 DEF Flattens
  <2>4. g[i - 1] \in Seq(S) /\ x[i] \in Seq(S)
    BY <1>0, <2>1, ElementOfSeq
  <2> DEFINE a == g[i - 1]
             b == x[i]
             w == g[i]
  <2>5. w \in Seq(S) /\ Len(w) = Len(a) + Len(b) /\ \A j \in 1 .. Len(a) : w[j] = a[j]
    <3>1. w = a \o b /\ a \in Seq(S) /\ b \in Seq(S)
      BY <2>3, <2>4
    <3> HIDE DEF a, b, w
    <3> QED
      BY <3>1, ConcatProperties
  <2>6. Len(a) \in Nat /\ Len(b) \in Nat /\ Len(f) \in Nat
    BY <1>1, <2>4
  <2>7. Begins(a)
    <3>1. Begins(w)
      BY <2>2
    <3> HIDE DEF a, b, w
    <3> QED
      BY <2>5, <2>6, <3>1
  <2> QED
    BY <2>1, <2>7
<1> HIDE DEF T
<1>4. Nat \subseteq T
  BY <1>2, <1>3, EveryNumber
<1>5. Len(x) - n \in Nat /\ Len(x) - n =< Len(x) /\ Len(x) - (Len(x) - n) = n
  BY <1>0
<1>6. Begins(g[n])
  BY <1>4, <1>5 DEF T
<1> QED
  BY <1>0, <1>1, <1>6 DEF f

(* The i-th text stands behind the first i - 1. *)
PartOf(S, x, g, i) ==
    /\ g[i - 1] \in Seq(S) /\ x[i] \in Seq(S) /\ g[i] = g[i - 1] \o x[i]
    /\ Len(g[i]) = Len(g[i - 1]) + Len(x[i])
    /\ Len(g[i - 1]) + Len(x[i]) =< Len(FlattenSeq(x))
    /\ \A j \in 1 .. Len(x[i]) : FlattenSeq(x)[Len(g[i - 1]) + j] = x[i][j]

LEMMA FlattenPart ==
    ASSUME NEW S, NEW x \in Seq(Seq(S)), NEW g, Flattens(x, g), FlattenSeq(x) = g[Len(x)],
           NEW i \in 1 .. Len(x)
    PROVE  PartOf(S, x, g, i)
<1>1. i \in 0 .. Len(x) /\ i - 1 \in 0 .. Len(x)
  OBVIOUS
<1>2. g[i - 1] \in Seq(S) /\ x[i] \in Seq(S) /\ g[i] = g[i - 1] \o x[i]
  BY <1>1, FlattensText, ElementOfSeq DEF Flattens
<1> DEFINE a == g[i - 1]
           b == x[i]
           w == g[i]
           f == FlattenSeq(x)
<1>3. /\ Len(w) = Len(a) + Len(b) /\ Len(a) \in Nat /\ Len(b) \in Nat
      /\ \A j \in Len(a) + 1 .. Len(a) + Len(b) : w[j] = b[j - Len(a)]
  <2>1. w = a \o b /\ a \in Seq(S) /\ b \in Seq(S)
    BY <1>2
  <2> HIDE DEF a, b, w
  <2>2. Len(a) \in Nat /\ Len(b) \in Nat
    BY <2>1
  <2>3. /\ Len(w) = Len(a) + Len(b)
        /\ \A j \in 1 .. Len(a) + Len(b) : w[j] = IF j <= Len(a) THEN a[j] ELSE b[j - Len(a)]
    BY <2>1, ConcatProperties
  <2> QED
    BY <2>2, <2>3
<1>4. Len(w) =< Len(f) /\ \A j \in 1 .. Len(w) : f[j] = w[j]
  BY <1>1, FlattenBegins
<1> HIDE DEF a, b, w, f
<1>5. ASSUME NEW j \in 1 .. Len(b) PROVE f[Len(a) + j] = b[j]
  <2>1. Len(a) + j \in 1 .. Len(w) /\ Len(a) + j \in Len(a) + 1 .. Len(a) + Len(b)
        /\ (Len(a) + j) - Len(a) = j
    BY <1>3
  <2> QED
    BY <1>3, <1>4, <2>1
<1>6. Len(a) + Len(b) =< Len(f)
  BY <1>3, <1>4
<1> QED
  BY <1>2, <1>3, <1>5, <1>6 DEF a, b, w, f, PartOf

-----------------------------------------------------------------------------
(* A line read byte by byte. *)

State(p, mode, text, argv) == [p |-> p, mode |-> mode, text |-> text, argv |-> argv]

(* A state the reader is in after fewer steps than its place. *)
Reaches(s, r) == r.p \in Nat /\ \E k \in Nat : k < r.p /\ Readings(s)[k] = r

LEMMA StateFields ==
    \A p, mode, text, argv :
        /\ State(p, mode, text, argv).p = p
        /\ State(p, mode, text, argv).mode = mode
        /\ State(p, mode, text, argv).text = text
        /\ State(p, mode, text, argv).argv = argv
BY DEF State

LEMMA StatePut ==
    \A p, mode, text, argv, n, c :
        Put(State(p, mode, text, argv), n, c) = State(p + n, mode, Append(text, c), argv)
<1> SUFFICES ASSUME NEW p, NEW mode, NEW text, NEW argv, NEW n, NEW c
             PROVE  Put(State(p, mode, text, argv), n, c)
                        = State(p + n, mode, Append(text, c), argv)
  OBVIOUS
<1> DEFINE r == State(p, mode, text, argv)
<1>1. r = [p |-> p, mode |-> mode, text |-> text, argv |-> argv]
  BY DEF State
<1>2. r.p = p /\ r.text = text
  BY StateFields
<1> HIDE DEF r
<1>3. Put(r, n, c) = [r EXCEPT !.p = p + n, !.text = Append(text, c)]
  BY <1>2 DEF Put
<1>4. Put(r, n, c) = State(p + n, mode, Append(text, c), argv)
  BY <1>1, <1>3 DEF State
<1> QED
  BY <1>4 DEF r

LEMMA StateMode ==
    \A p, mode, text, argv, q :
        [State(p, mode, text, argv) EXCEPT !.mode = q] = State(p, q, text, argv)
BY DEF State

LEMMA StateTokenEnd ==
    \A p, mode, text, argv, n :
        TokenEnd(State(p, mode, text, argv), n) = State(n, "blank", <<>>, Append(argv, text))
<1> SUFFICES ASSUME NEW p, NEW mode, NEW text, NEW argv, NEW n
             PROVE  TokenEnd(State(p, mode, text, argv), n)
                        = State(n, "blank", <<>>, Append(argv, text))
  OBVIOUS
<1> DEFINE r == State(p, mode, text, argv)
<1>1. r.argv = argv /\ r.text = text
  BY StateFields
<1> HIDE DEF r
<1>2. TokenEnd(r, n) = State(n, "blank", <<>>, Append(argv, text))
  BY <1>1 DEF State, TokenEnd
<1> QED
  BY <1>2 DEF r

(* Between two tokens: the end, a blank, the first byte of a token. *)
LEMMA BlankNext ==
    ASSUME NEW s, NEW p \in Nat, NEW text, NEW argv,
           NEW r, r = State(p, "blank", text, argv)
    PROVE  /\ At(s, p) = NUL => NextByte(s, r) = State(p, "end", text, argv)
           /\ At(s, p) # NUL /\ isspace(At(s, p)) =>
                  NextByte(s, r) = State(p + 1, "blank", text, argv)
           /\ At(s, p) # NUL /\ ~isspace(At(s, p)) => NextByte(s, r) = Unquoted(s, r)
<1>1. r.p = p /\ r.mode = "blank"
  BY StateFields
<1>2. NextByte(s, r) = Between(s, r)
  BY <1>1 DEF NextByte
<1>3. [r EXCEPT !.mode = "end"] = State(p, "end", text, argv)
  BY DEF State
<1>4. [r EXCEPT !.p = @ + 1] = State(p + 1, "blank", text, argv)
  BY DEF State
<1>5. At(s, p) = NUL => NextByte(s, r) = [r EXCEPT !.mode = "end"]
  BY <1>1, <1>2 DEF Between
<1>6. At(s, p) # NUL /\ isspace(At(s, p)) => NextByte(s, r) = [r EXCEPT !.p = @ + 1]
  BY <1>1, <1>2 DEF Between
<1>7. At(s, p) # NUL /\ ~isspace(At(s, p)) => NextByte(s, r) = Unquoted(s, r)
  BY <1>1, <1>2 DEF Between
<1> QED
  BY <1>3, <1>4, <1>5, <1>6, <1>7

(* Out of quotes: the end of the line, the end of the token, a byte of the token. *)
LEMMA TokenStops ==
    ASSUME NEW s, NEW p \in Nat, At(s, p) = NUL, NEW mode, NEW text, NEW argv
    PROVE  Unquoted(s, State(p, mode, text, argv)) = State(p, "blank", <<>>, Append(argv, text))
<1>1. /\ State(p, mode, text, argv).p = p
      /\ TokenEnd(State(p, mode, text, argv), p) = State(p, "blank", <<>>, Append(argv, text))
  BY StateFields, StateTokenEnd
<1> QED
  BY <1>1 DEF Unquoted

LEMMA TokenStopsAtBlank ==
    ASSUME NEW s, NEW p \in Nat, At(s, p) \in {"SP", "LF", "CR", "HT"},
           NEW mode, NEW text, NEW argv
    PROVE  Unquoted(s, State(p, mode, text, argv))
               = State(p + 1, "blank", <<>>, Append(argv, text))
<1>1. /\ State(p, mode, text, argv).p = p
      /\ TokenEnd(State(p, mode, text, argv), p + 1)
             = State(p + 1, "blank", <<>>, Append(argv, text))
  BY StateFields, StateTokenEnd
<1>2. At(s, p) # NUL
  BY CharAssumption DEF Named, Blank
<1> QED
  BY <1>1, <1>2 DEF Unquoted

LEMMA TokenGrows ==
    ASSUME NEW s, NEW p \in Nat, NEW mode, NEW text, NEW argv,
           At(s, p) \notin {NUL, "SP", "LF", "CR", "HT", "DQ", "'"}
    PROVE  Unquoted(s, State(p, mode, text, argv))
               = State(p + 1, "token", Append(text, At(s, p)), argv)
<1> DEFINE r == State(p, mode, text, argv)
           c == At(s, p)
           w == State(p + 1, mode, Append(text, c), argv)
<1>1. r.p = p
  BY StateFields
<1>2. Put(r, 1, c) = w
  BY StatePut
<1>3. [w EXCEPT !.mode = "token"] = State(p + 1, "token", Append(text, c), argv)
  BY StateMode
<1> HIDE DEF r, w
<1>4. Unquoted(s, r) = [Put(r, 1, c) EXCEPT !.mode = "token"]
  BY <1>1 DEF Unquoted
<1> QED
  BY <1>2, <1>3, <1>4 DEF r, c

-----------------------------------------------------------------------------
(* What stands in quotes is read byte by byte. *)

QuoteMark(mode) == IF mode = "double" THEN "DQ" ELSE "'"

Shown(mode, c) ==
    IF mode = "double" THEN Escape(c) ELSE IF c = "'" THEN <<"\\", "'">> ELSE <<c>>

LEMMA Names ==
    /\ NUL \notin {"SP", "LF", "CR", "HT", "DQ", "'", "\\", "x", "n", "r", "t", "a", "b"}
    /\ \A i \in 1 .. 16 : HexDigit[i] \in Named /\ HexDigit[i] # NUL
    /\ {"DQ", "'", "\\", "x", "n", "r", "t", "a", "b"} \subseteq Named
<1>1. \A i \in 1 .. 16 : HexDigit[i] \in ToSet(HexDigit)
  <2>1. DOMAIN HexDigit = 1 .. 16
    BY DEF HexDigit
  <2> QED
    BY <2>1 DEF ToSet
<1> QED
  BY <1>1, CharAssumption, SMTT(30) DEF Named, Blank

LEMMA OpensQuote ==
    ASSUME NEW s, NEW p \in Nat, NEW mode \in {"double", "single"}, NEW text, NEW argv,
           At(s, p) = QuoteMark(mode)
    PROVE  NextByte(s, State(p, "blank", text, argv)) = State(p + 1, mode, text, argv)
<1> DEFINE r == State(p, "blank", text, argv)
<1>1. r.p = p
  BY StateFields
<1>2. At(s, p) # NUL /\ ~isspace(At(s, p)) /\ At(s, p) \notin {"SP", "LF", "CR", "HT"}
  BY Names DEF QuoteMark, isspace, Blank
<1>3. NextByte(s, r) = Unquoted(s, r)
  BY <1>2, BlankNext
<1>4. [r EXCEPT !.p = p + 1, !.mode = mode] = State(p + 1, mode, text, argv)
  <2>1. [r EXCEPT !.p = p + 1] = State(p + 1, "blank", text, argv)
    BY DEF State
  <2>2. [r EXCEPT !.p = p + 1, !.mode = mode] = [[r EXCEPT !.p = p + 1] EXCEPT !.mode = mode]
    OBVIOUS
  <2>3. [State(p + 1, "blank", text, argv) EXCEPT !.mode = mode] = State(p + 1, mode, text, argv)
    BY StateMode
  <2> QED
    BY <2>1, <2>2, <2>3
<1> HIDE DEF r
<1>5. Unquoted(s, r) = [r EXCEPT !.p = p + 1, !.mode = mode]
  <2>1. CASE mode = "double"
    BY <1>1, <1>2, <2>1 DEF Unquoted, QuoteMark
  <2>2. CASE mode = "single"
    BY <1>1, <1>2, <2>2 DEF Unquoted, QuoteMark
  <2> QED
    BY <2>1, <2>2
<1> QED
  BY <1>3, <1>4, <1>5 DEF r

LEMMA ClosesQuote ==
    ASSUME NEW s, NEW p \in Nat, NEW mode \in {"double", "single"}, NEW text, NEW argv,
           At(s, p) = QuoteMark(mode), At(s, p + 1) \in {NUL, "SP"}
    PROVE  NextByte(s, State(p, mode, text, argv))
               = State(p + 1, "blank", <<>>, Append(argv, text))
<1> DEFINE r == State(p, mode, text, argv)
<1>1. r.p = p /\ r.mode = mode
  BY StateFields
<1>2. TokenEnd(r, p + 1) = State(p + 1, "blank", <<>>, Append(argv, text))
  BY StateTokenEnd
<1> HIDE DEF r
<1>3. Closed(s, r) = TokenEnd(r, p + 1)
  BY <1>1 DEF Closed, isspace, Blank
<1>4. NextByte(s, r) = Closed(s, r)
  <2>1. CASE mode = "double"
    <3>1. NextByte(s, r) = DoubleQuoted(s, r)
      BY <1>1, <2>1 DEF NextByte
    <3>2. At(s, r.p) = "DQ"
      BY <1>1, <2>1 DEF QuoteMark
    <3>3. DoubleQuoted(s, r) = Closed(s, r)
      BY <3>2, Zenon DEF DoubleQuoted
    <3> QED
      BY <3>1, <3>3
  <2>2. CASE mode = "single"
    <3>1. NextByte(s, r) = SingleQuoted(s, r)
      BY <1>1, <2>2 DEF NextByte
    <3>2. At(s, r.p) = "'"
      BY <1>1, <2>2 DEF QuoteMark
    <3>3. SingleQuoted(s, r) = Closed(s, r)
      BY <3>2 DEF SingleQuoted
    <3> QED
      BY <3>1, <3>3
  <2> QED
    BY <2>1, <2>2
<1> QED
  BY <1>2, <1>3, <1>4 DEF r

LEMMA Letters ==
    /\ DOMAIN Letter = {"LF", "CR", "HT", "BEL", "BS"}
    /\ Letter["LF"] = "n" /\ Letter["CR"] = "r" /\ Letter["HT"] = "t"
    /\ Letter["BEL"] = "a" /\ Letter["BS"] = "b"
BY DEF Letter

LEMMA Unescaped ==
    /\ \A c \in DOMAIN Letter : /\ Letter[c] \in {"n", "r", "t", "a", "b"}
                                /\ Unescape(Letter[c]) = c
    /\ \A d : d \notin {"n", "r", "t", "a", "b"} => Unescape(d) = d
<1>1. ASSUME NEW c \in DOMAIN Letter
      PROVE  Letter[c] \in {"n", "r", "t", "a", "b"} /\ Unescape(Letter[c]) = c
  <2>1. \A b \in DOMAIN Letter : Letter[b] = Letter[c] => b = c
    BY Letters
  <2>2. (CHOOSE b \in DOMAIN Letter : Letter[b] = Letter[c]) = c
    BY <2>1
  <2>3. Letter[c] \in {"n", "r", "t", "a", "b"}
    BY Letters
  <2> QED
    BY <2>2, <2>3 DEF Unescape
<1>2. ASSUME NEW d, d \notin {"n", "r", "t", "a", "b"} PROVE Unescape(d) = d
  BY <1>2, Letters DEF Unescape
<1> QED
  BY <1>1, <1>2

(* Two hexadecimal digits make a byte. *)
LEMMA HexDigits ==
    ASSUME NEW i \in 0 .. 15
    PROVE  is_hex_digit(HexDigit[i + 1]) /\ hex_digit_to_int(HexDigit[i + 1]) = i
<1> DEFINE h == HexDigit[i + 1]
<1>1. h \in ToSet(HexDigit)
  <2>1. DOMAIN HexDigit = 1 .. 16 /\ i + 1 \in 1 .. 16
    BY DEF HexDigit
  <2> QED
    BY <2>1 DEF ToSet
<1>2. h \notin {"A", "B", "C", "D", "E", "F"}
  BY DEF HexDigit
<1>3. \A j \in 0 .. 15 : HexDigit[j + 1] = h => j = i
  BY DEF HexDigit
<1> HIDE DEF h
<1>4. (CHOOSE j \in 0 .. 15 : HexDigit[j + 1] = h) = i
  BY <1>3 DEF h
<1> QED
  BY <1>1, <1>2, <1>4 DEF is_hex_digit, hex_digit_to_int, h

LEMMA ByteOfCode == ASSUME NEW c \in Byte PROVE ByteOf(Ascii[c]) = c
<1>1. DOMAIN Ascii = Byte
  BY TextAssumption
<1>2. \A d \in Byte : Ascii[d] = Ascii[c] => d = c
  BY CharAssumption
<1> QED
  BY <1>1, <1>2 DEF ByteOf

LEMMA CodeDigits ==
    ASSUME NEW c \in Byte
    PROVE  /\ Ascii[c] \div 16 \in 0 .. 15 /\ Ascii[c] % 16 \in 0 .. 15
           /\ 16 * (Ascii[c] \div 16) + (Ascii[c] % 16) = Ascii[c]
<1>1. Ascii[c] \in 0 .. 255
  BY CharAssumption
<1>2. \A n \in 0 .. 255 : n \div 16 \in 0 .. 15 /\ n % 16 \in 0 .. 15
                        /\ 16 * (n \div 16) + (n % 16) = n
  OBVIOUS
<1> QED
  BY <1>1, <1>2

(* The forms a byte in double quotes has. *)
LEMMA EscapeForms ==
    ASSUME NEW c \in Byte
    PROVE  \/ c \in {"\\", "DQ"} /\ Escape(c) = <<"\\", c>>
           \/ c \in DOMAIN Letter /\ Escape(c) = <<"\\", Letter[c]>>
           \/ c \notin {"\\", "DQ", NUL} /\ Escape(c) = <<c>>
           \/ Escape(c) = <<"\\", "x", HexDigit[Ascii[c] \div 16 + 1],
                           HexDigit[(Ascii[c] % 16) + 1]>>
<1>1. CASE c \in {"\\", "DQ"}
  BY <1>1 DEF Escape
<1>2. CASE c \notin {"\\", "DQ"} /\ c \in DOMAIN Letter
  BY <1>2 DEF Escape
<1>3. CASE c \notin {"\\", "DQ"} /\ c \notin DOMAIN Letter /\ isprint(c)
  <2>1. c # NUL
    <3>1. Ascii[c] \in 32 .. 126
      BY <1>3 DEF isprint
    <3>2. Ascii[c] # 0
      BY <3>1
    <3>3. Ascii[NUL] = 0
      BY CharAssumption
    <3> QED
      BY <3>2, <3>3
  <2> QED
    BY <1>3, <2>1 DEF Escape
<1>4. CASE c \notin {"\\", "DQ"} /\ c \notin DOMAIN Letter /\ ~isprint(c)
  BY <1>4 DEF Escape
<1> QED
  BY <1>1, <1>2, <1>3, <1>4

(* u stands in s at place p. *)
Standing(s, p, u) == \A j \in 1 .. Len(u) : At(s, p + (j - 1)) = u[j]

(* Each form is read as the byte it stands for. *)
LEMMA DoubleByteRead ==
    ASSUME NEW s, NEW p \in Nat, NEW c \in Byte, NEW text, NEW argv,
           Standing(s, p, Escape(c))
    PROVE  /\ Len(Escape(c)) \in Nat \ {0}
           /\ NextByte(s, State(p, "double", text, argv))
                  = State(p + Len(Escape(c)), "double", Append(text, c), argv)
<1> DEFINE r == State(p, "double", text, argv)
<1>0. \A j \in 1 .. Len(Escape(c)) : At(s, p + (j - 1)) = Escape(c)[j]
  BY DEF Standing
<1>1. r.p = p /\ r.mode = "double"
  BY StateFields
<1>2. \A n, d : Put(r, n, d) = State(p + n, "double", Append(text, d), argv)
  BY StatePut
<1> HIDE DEF r
<1>3. NextByte(s, r) = DoubleQuoted(s, r)
  BY <1>1 DEF NextByte
<1> SUFFICES Len(Escape(c)) \in Nat \ {0} /\ DoubleQuoted(s, r) = Put(r, Len(Escape(c)), c)
  BY <1>2, <1>3 DEF r
<1>4. ASSUME NEW d, Escape(c) = <<"\\", d>>, d \notin {"x", NUL}, Unescape(d) = c
      PROVE  Len(Escape(c)) \in Nat \ {0} /\ DoubleQuoted(s, r) = Put(r, Len(Escape(c)), c)
  <2>1. Len(Escape(c)) = 2 /\ Escape(c)[1] = "\\" /\ Escape(c)[2] = d
    BY <1>4
  <2>2. At(s, p + (1 - 1)) = "\\" /\ At(s, p + (2 - 1)) = d
    BY <1>0, <2>1
  <2>3. p + (1 - 1) = p /\ p + (2 - 1) = p + 1
    OBVIOUS
  <2>4. At(s, r.p) = "\\" /\ At(s, r.p + 1) = d
    BY <1>1, <2>2, <2>3
  <2>5. DoubleQuoted(s, r) = Put(r, 2, Unescape(d))
    BY <1>4, <2>4 DEF DoubleQuoted
  <2> QED
    BY <1>4, <2>1, <2>5
<1>5. CASE c \in {"\\", "DQ"} /\ Escape(c) = <<"\\", c>>
  <2>1. c \notin {"x", NUL} /\ Unescape(c) = c
    BY <1>5, Names, Unescaped
  <2> QED
    BY <1>4, <1>5, <2>1
<1>6. CASE c \in DOMAIN Letter /\ Escape(c) = <<"\\", Letter[c]>>
  <2>1. Letter[c] \in {"n", "r", "t", "a", "b"} /\ Unescape(Letter[c]) = c
    BY <1>6, Unescaped
  <2>2. Letter[c] \notin {"x", NUL}
    BY <2>1, Names
  <2> QED
    BY <1>4, <1>6, <2>1, <2>2
<1>7. CASE c \notin {"\\", "DQ", NUL} /\ Escape(c) = <<c>>
  <2>1. Len(Escape(c)) = 1 /\ Escape(c)[1] = c
    BY <1>7
  <2>2. At(s, p + (1 - 1)) = c
    BY <1>0, <2>1
  <2>3. At(s, r.p) = c
    BY <1>1, <2>2
  <2>4. DoubleQuoted(s, r) = Put(r, 1, c)
    BY <1>7, <2>3 DEF DoubleQuoted
  <2> QED
    BY <2>1, <2>4
<1>8. CASE Escape(c) = <<"\\", "x", HexDigit[Ascii[c] \div 16 + 1],
                         HexDigit[(Ascii[c] % 16) + 1]>>
  <2> DEFINE a == Ascii[c] \div 16
             b == Ascii[c] % 16
             h == HexDigit[a + 1]
             l == HexDigit[b + 1]
  <2>1. a \in 0 .. 15 /\ b \in 0 .. 15 /\ 16 * a + b = Ascii[c]
    BY CodeDigits
  <2>2. Escape(c) = <<"\\", "x", h, l>>
    BY <1>8
  <2> HIDE DEF a, b
  <2>3. /\ is_hex_digit(h) /\ hex_digit_to_int(h) = a
        /\ is_hex_digit(l) /\ hex_digit_to_int(l) = b
    BY <2>1, HexDigits
  <2>4. ByteOf(16 * hex_digit_to_int(h) + hex_digit_to_int(l)) = c
    BY <2>1, <2>3, ByteOfCode
  <2> HIDE DEF h, l
  <2>5. /\ Len(Escape(c)) = 4 /\ Escape(c)[1] = "\\" /\ Escape(c)[2] = "x"
        /\ Escape(c)[3] = h /\ Escape(c)[4] = l
    BY <2>2
  <2>6. /\ At(s, p + (1 - 1)) = "\\" /\ At(s, p + (2 - 1)) = "x"
        /\ At(s, p + (3 - 1)) = h /\ At(s, p + (4 - 1)) = l
    BY <1>0, <2>5
  <2>7. p + (1 - 1) = p /\ p + (2 - 1) = p + 1 /\ p + (3 - 1) = p + 2 /\ p + (4 - 1) = p + 3
    OBVIOUS
  <2>8. /\ At(s, r.p) = "\\" /\ At(s, r.p + 1) = "x"
        /\ At(s, r.p + 2) = h /\ At(s, r.p + 3) = l
    BY <1>1, <2>6, <2>7
  <2>9. DoubleQuoted(s, r) = Put(r, 4, ByteOf(16 * hex_digit_to_int(h) + hex_digit_to_int(l)))
    BY <2>3, <2>8 DEF DoubleQuoted
  <2> QED
    BY <2>4, <2>5, <2>9
<1> QED
  BY <1>5, <1>6, <1>7, <1>8, EscapeForms

LEMMA SingleByteRead ==
    ASSUME NEW s, NEW p \in Nat, NEW c \in Byte \ {"\\", NUL}, NEW text, NEW argv,
           Standing(s, p, Shown("single", c))
    PROVE  /\ Len(Shown("single", c)) \in Nat \ {0}
           /\ NextByte(s, State(p, "single", text, argv))
                  = State(p + Len(Shown("single", c)), "single", Append(text, c), argv)
<1> DEFINE r == State(p, "single", text, argv)
           e == Shown("single", c)
<1>1. r.p = p /\ r.mode = "single"
  BY StateFields
<1>2. \A n, d : Put(r, n, d) = State(p + n, "single", Append(text, d), argv)
  BY StatePut
<1> HIDE DEF r
<1>3. NextByte(s, r) = SingleQuoted(s, r)
  BY <1>1 DEF NextByte
<1> HIDE DEF e
<1> SUFFICES Len(e) \in Nat \ {0} /\ SingleQuoted(s, r) = Put(r, Len(e), c)
  BY <1>2, <1>3 DEF r, e
<1>4. \A j \in 1 .. Len(e) : At(s, p + (j - 1)) = e[j]
  BY DEF e, Standing
<1>5. CASE c = "'"
  <2>1. Len(e) = 2 /\ e[1] = "\\" /\ e[2] = "'"
    BY <1>5 DEF e, Shown
  <2>2. At(s, p + (1 - 1)) = "\\" /\ At(s, p + (2 - 1)) = "'"
    BY <1>4, <2>1
  <2>3. At(s, r.p) = "\\" /\ At(s, r.p + 1) = "'"
    <3>1. p + (1 - 1) = p /\ p + (2 - 1) = p + 1
      OBVIOUS
    <3> QED
      BY <1>1, <2>2, <3>1
  <2>4. SingleQuoted(s, r) = Put(r, 2, "'")
    BY <2>3 DEF SingleQuoted
  <2> QED
    BY <1>5, <2>1, <2>4
<1>6. CASE c # "'"
  <2>1. Len(e) = 1 /\ e[1] = c
    BY <1>6 DEF e, Shown
  <2>2. At(s, p + (1 - 1)) = c
    BY <1>4, <2>1
  <2>3. At(s, r.p) = c
    BY <1>1, <2>2
  <2>4. SingleQuoted(s, r) = Put(r, 1, c)
    BY <1>6, <2>3 DEF SingleQuoted
  <2> QED
    BY <2>1, <2>4
<1> QED
  BY <1>5, <1>6

LEMMA StateBegins == Reading = State(1, "blank", <<>>, <<>>)
BY DEF Reading, State

LEMMA ReachesFirst == ASSUME NEW s PROVE Reaches(s, State(1, "blank", <<>>, <<>>))
<1>1. Reading.p = 1
  BY DEF Reading
<1>2. Readings(s)[0] = Reading
  BY ReadingsSteps
<1>3. Reaches(s, Reading)
  BY <1>1, <1>2 DEF Reaches
<1> QED
  BY <1>3, StateBegins

LEMMA ReachesNext ==
    ASSUME NEW s, NEW r, Reaches(s, r), NextByte(s, r).p \in Nat, r.p < NextByte(s, r).p
    PROVE  Reaches(s, NextByte(s, r))
<1>1. PICK k \in Nat : k < r.p /\ Readings(s)[k] = r
  BY DEF Reaches
<1>2. Readings(s)[k + 1] = NextByte(s, r)
  BY <1>1, ReadingsSteps
<1>3. r.p \in Nat
  BY DEF Reaches
<1> DEFINE q == NextByte(s, r)
<1>4. k + 1 \in Nat /\ k + 1 < q.p
  BY <1>1, <1>3
<1> HIDE DEF q
<1> QED
  BY <1>2, <1>4 DEF Reaches, q

(* The reader stays where it ends. *)
LEMMA EndStays ==
    ASSUME NEW s, NEW k \in Nat, Readings(s)[k].mode = "end", NEW n \in Nat, k =< n
    PROVE  Readings(s)[n] = Readings(s)[k]
<1> DEFINE T == {d \in Nat : Readings(s)[k + d] = Readings(s)[k]}
<1>1. 0 \in T
  OBVIOUS
<1>2. ASSUME NEW d \in Nat, d \in T PROVE d + 1 \in T
  <2>1. Readings(s)[k + d] = Readings(s)[k] /\ k + d \in Nat /\ k + (d + 1) = (k + d) + 1
    BY <1>2
  <2>2. Readings(s)[(k + d) + 1] = NextByte(s, Readings(s)[k + d])
    BY <2>1, ReadingsSteps
  <2>3. NextByte(s, Readings(s)[k]) = Readings(s)[k]
    BY DEF NextByte
  <2> QED
    BY <2>1, <2>2, <2>3
<1> HIDE DEF T
<1>3. Nat \subseteq T
  BY <1>1, <1>2, EveryNumber
<1>4. n - k \in Nat /\ k + (n - k) = n
  OBVIOUS
<1> QED
  BY <1>3, <1>4 DEF T

LEMMA BehindTheEnd == ASSUME NEW S, NEW s \in Seq(S) PROVE At(s, Len(s) + 1) = NUL
<1>1. DOMAIN s = 1 .. Len(s) /\ Len(s) \in Nat
  BY LenProperties
<1>2. Len(s) + 1 \notin DOMAIN s
  BY <1>1
<1> QED
  BY <1>2 DEF At

LEMMA LineRead ==
    ASSUME NEW S, NEW line, CString(line) \in Seq(S), NEW text, NEW argv,
           NEW mode \in {"blank", "token"},
           Reaches(CString(line), State(Len(CString(line)) + 1, mode, text, argv))
    PROVE  sdssplitargs(line) =
               [ok |-> TRUE, argv |-> IF mode = "blank" THEN argv ELSE Append(argv, text)]
<1> DEFINE s == CString(line)
           n == Len(s)
           r == State(n + 1, mode, text, argv)
           a == IF mode = "blank" THEN argv ELSE Append(argv, text)
<1>1. n \in Nat /\ At(s, n + 1) = NUL
  BY BehindTheEnd
<1>2. r.p = n + 1 /\ r.mode = mode
  BY StateFields
<1>3. Reaches(s, r)
  OBVIOUS
<1> HIDE DEF r
<1>4. PICK k \in Nat : k < n + 1 /\ Readings(s)[k] = r
  BY <1>2, <1>3 DEF Reaches
<1>5. ASSUME NEW j \in Nat, j =< n + 2, NEW q, Readings(s)[j] = q, q.mode = "end", q.argv = a
      PROVE  sdssplitargs(line) = [ok |-> TRUE, argv |-> a]
  <2>1. Readings(s)[n + 2] = q
    BY <1>1, <1>5, EndStays
  <2> QED
    BY <1>5, <2>1 DEF sdssplitargs
<1>6. Readings(s)[k + 1] = NextByte(s, r) /\ k + 1 \in Nat /\ k + 1 =< n + 1
  <2>1. Readings(s)[k + 1] = NextByte(s, Readings(s)[k])
    BY ReadingsSteps
  <2>2. k + 1 \in Nat /\ k + 1 =< n + 1
    BY <1>1, <1>4
  <2> HIDE DEF s, n
  <2> QED
    BY <1>4, <2>1, <2>2
<1> DEFINE q == State(n + 1, "end", <<>>, a)
<1>7. q.mode = "end" /\ q.argv = a
  BY StateFields
<1>8. CASE mode = "blank"
  <2> DEFINE e == State(n + 1, "end", text, argv)
  <2>1. NextByte(s, r) = e
    BY <1>1, <1>8, BlankNext DEF r
  <2>2. e.mode = "end" /\ e.argv = a
    BY <1>8, StateFields
  <2> HIDE DEF e, a
  <2>3. k + 1 =< n + 2
    BY <1>1, <1>6
  <2>4. Readings(s)[k + 1] = e
    BY <2>1, <1>6
  <2>5. sdssplitargs(line) = [ok |-> TRUE, argv |-> a]
    BY <2>2, <2>3, <2>4, <1>5, <1>6
  <2> QED
    BY <2>5 DEF a
<1>9. CASE mode = "token"
  <2> DEFINE e == State(n + 1, "blank", <<>>, a)
  <2>1. NextByte(s, r) = e
    <3>1. NextByte(s, r) = Unquoted(s, r)
      BY <1>2, <1>9 DEF NextByte
    <3>2. Unquoted(s, r) = State(n + 1, "blank", <<>>, Append(argv, text))
      <4>1. n + 1 \in Nat /\ At(s, n + 1) = NUL /\ r = State(n + 1, mode, text, argv)
        BY <1>1 DEF r
      <4> HIDE DEF s, n
      <4> QED
        BY <4>1, TokenStops
    <3> QED
      BY <1>9, <3>1, <3>2
  <2>2. NextByte(s, e) = q
    BY <1>1, BlankNext
  <2> HIDE DEF e, a, q
  <2>3. Readings(s)[(k + 1) + 1] = q /\ (k + 1) + 1 \in Nat /\ (k + 1) + 1 =< n + 2
    <3>1. Readings(s)[(k + 1) + 1] = NextByte(s, Readings(s)[k + 1])
      BY <1>6, ReadingsSteps
    <3>2. (k + 1) + 1 \in Nat /\ (k + 1) + 1 =< n + 2
      BY <1>1, <1>6
    <3> HIDE DEF s, n
    <3> QED
      BY <1>6, <2>1, <2>2, <3>1, <3>2
  <2>4. sdssplitargs(line) = [ok |-> TRUE, argv |-> a]
    BY <2>3, <1>5, <1>7
  <2> QED
    BY <2>4 DEF a
<1> QED
  BY <1>8, <1>9

-----------------------------------------------------------------------------
(* Texts in quotes. *)

Char == (Byte \cup Named) \ {NUL}

Shows(mode, t) == [i \in DOMAIN t |-> Shown(mode, t[i])]

Quoted(mode, t) == <<QuoteMark(mode)>> \o FlattenSeq(Shows(mode, t)) \o <<QuoteMark(mode)>>

(* Single quotes can show any byte but these two. *)
Showable(mode, t) == \A i \in 1 .. Len(t) : mode = "single" => t[i] \notin {"\\", NUL}

LEMMA ReachesOn ==
    ASSUME NEW s, NEW p \in Nat, NEW q \in Nat, p < q,
           NEW mode, NEW text, NEW argv, NEW mode2, NEW text2, NEW argv2,
           Reaches(s, State(p, mode, text, argv)),
           NextByte(s, State(p, mode, text, argv)) = State(q, mode2, text2, argv2)
    PROVE  Reaches(s, State(q, mode2, text2, argv2))
<1> DEFINE r == State(p, mode, text, argv)
           w == State(q, mode2, text2, argv2)
<1>1. r.p = p /\ w.p = q
  BY StateFields
<1> HIDE DEF r, w
<1>2. Reaches(s, r) /\ NextByte(s, r) = w
  BY DEF r, w
<1>3. Reaches(s, w)
  BY <1>1, <1>2, ReachesNext
<1> QED
  BY <1>3 DEF w

LEMMA ShownText ==
    ASSUME NEW mode \in {"double", "single"}, NEW c \in Byte, mode = "single" => c # NUL
    PROVE  Shown(mode, c) \in Seq(Char)
<1>0. /\ {"\\", "'", "x", "n", "r", "t", "a", "b"} \subseteq Char
      /\ \A i \in 1 .. 16 : HexDigit[i] \in Char
  BY Names DEF Char
<1>1. CASE mode = "double"
  <2> SUFFICES Escape(c) \in Seq(Char)
    BY <1>1 DEF Shown
  <2>1. CASE c \in {"\\", "DQ"} /\ Escape(c) = <<"\\", c>>
    <3>1. c \in Char
      BY <2>1, Names DEF Char
    <3> QED
      BY <1>0, <2>1, <3>1
  <2>2. CASE c \in DOMAIN Letter /\ Escape(c) = <<"\\", Letter[c]>>
    <3>1. Letter[c] \in {"n", "r", "t", "a", "b"}
      BY <2>2, Unescaped
    <3> QED
      BY <1>0, <2>2, <3>1
  <2>3. CASE c \notin {"\\", "DQ", NUL} /\ Escape(c) = <<c>>
    <3>1. c \in Char
      BY <2>3 DEF Char
    <3> QED
      BY <2>3, <3>1
  <2>4. CASE Escape(c) = <<"\\", "x", HexDigit[Ascii[c] \div 16 + 1],
                           HexDigit[(Ascii[c] % 16) + 1]>>
    <3> DEFINE h == HexDigit[Ascii[c] \div 16 + 1]
               l == HexDigit[(Ascii[c] % 16) + 1]
    <3>1. Ascii[c] \div 16 + 1 \in 1 .. 16 /\ (Ascii[c] % 16) + 1 \in 1 .. 16
      BY CodeDigits
    <3>2. h \in Char /\ l \in Char
      BY <1>0, <3>1
    <3> HIDE DEF h, l
    <3>3. Escape(c) = <<"\\", "x", h, l>>
      BY <2>4 DEF h, l
    <3> QED
      BY <1>0, <3>2, <3>3
  <2> QED
    BY <2>1, <2>2, <2>3, <2>4, EscapeForms
<1>2. CASE mode = "single"
  <2>1. c \in Char
    BY <1>2 DEF Char
  <2> QED
    BY <1>0, <1>2, <2>1 DEF Shown
<1> QED
  BY <1>1, <1>2

LEMMA ShowsText ==
    ASSUME NEW mode \in {"double", "single"}, NEW t \in Seq(Byte), Showable(mode, t)
    PROVE  /\ Shows(mode, t) \in Seq(Seq(Char)) /\ Len(Shows(mode, t)) = Len(t)
           /\ \A i \in 1 .. Len(t) : Shows(mode, t)[i] = Shown(mode, t[i])
           /\ FlattenSeq(Shows(mode, t)) \in Seq(Char)
<1> DEFINE x == Shows(mode, t)
<1>1. DOMAIN t = 1 .. Len(t) /\ Len(t) \in Nat
  BY LenProperties
<1>2. \A i \in 1 .. Len(t) : Shown(mode, t[i]) \in Seq(Char)
  BY ShownText, ElementOfSeq DEF Showable
<1>3. x \in [1 .. Len(t) -> Seq(Char)] /\ \A i \in 1 .. Len(t) : x[i] = Shown(mode, t[i])
  BY <1>1, <1>2 DEF Shows
<1> HIDE DEF x
<1>4. x \in Seq(Seq(Char)) /\ Len(x) = Len(t)
  BY <1>1, <1>3
<1>5. FlattenSeq(x) \in Seq(Char)
  <2>1. <<>> \in Seq(Char)
    OBVIOUS
  <2> QED
    BY <1>4, <2>1, FlattenAppend
<1> QED
  BY <1>3, <1>4, <1>5 DEF x

(* The bytes between the quotes are read one by one. *)
LEMMA BytesRead ==
    ASSUME NEW s, NEW p \in Nat, NEW mode \in {"double", "single"}, NEW argv,
           NEW t \in Seq(Byte), Showable(mode, t),
           Standing(s, p, FlattenSeq(Shows(mode, t))),
           Reaches(s, State(p, mode, <<>>, argv))
    PROVE  Reaches(s, State(p + Len(FlattenSeq(Shows(mode, t))), mode, t, argv))
<1> DEFINE x == Shows(mode, t)
           f == FlattenSeq(x)
<1>1. /\ x \in Seq(Seq(Char)) /\ Len(x) = Len(t) /\ f \in Seq(Char)
      /\ \A i \in 1 .. Len(t) : x[i] = Shown(mode, t[i])
  BY ShowsText
<1>2. \A j \in 1 .. Len(f) : At(s, p + (j - 1)) = f[j]
  BY DEF Standing
<1> HIDE DEF x
<1>3. PICK g : Flattens(x, g) /\ f = g[Len(x)]
  BY <1>1, FlattenSteps
<1>4. \A i \in 1 .. Len(x) :
          /\ g[i - 1] \in Seq(Char) /\ x[i] \in Seq(Char)
          /\ Len(g[i]) = Len(g[i - 1]) + Len(x[i])
          /\ Len(g[i - 1]) + Len(x[i]) =< Len(f)
          /\ \A j \in 1 .. Len(x[i]) : f[Len(g[i - 1]) + j] = x[i][j]
  <2> TAKE i \in 1 .. Len(x)
  <2>1. Flattens(x, g) /\ FlattenSeq(x) = g[Len(x)] /\ x \in Seq(Seq(Char))
    BY <1>1, <1>3
  <2>2. PartOf(Char, x, g, i)
    BY <2>1, FlattenPart
  <2> QED
    BY <2>2 DEF PartOf
<1> DEFINE After(i) == Reaches(s, State(p + Len(g[i]), mode, SubSeq(t, 1, i), argv))
           T == {i \in Nat : i =< Len(t) => After(i)}
<1>5. 0 \in T
  <2>1. g[0] = <<>> /\ Len(<<>>) = 0 /\ p + 0 = p
    BY <1>3 DEF Flattens
  <2>2. SubSeq(t, 1, 0) = <<>>
    BY SubSeqEmpty
  <2> QED
    BY <2>1, <2>2
<1>6. ASSUME NEW i \in Nat, i \in T PROVE i + 1 \in T
  <2> SUFFICES ASSUME i + 1 =< Len(t) PROVE After(i + 1)
    OBVIOUS
  <2>0. Len(t) \in Nat
    OBVIOUS
  <2>1. i + 1 \in 1 .. Len(x) /\ (i + 1) - 1 = i /\ i + 1 \in 1 .. Len(t)
    BY <1>1, <2>0
  <2>2. After(i)
    BY <1>6, <2>0
  <2> DEFINE c == t[i + 1]
             k == Len(g[i])
             e == x[i + 1]
             n == Len(e)
  <2>3. /\ k \in Nat /\ n \in Nat /\ Len(g[i + 1]) = k + n /\ k + n =< Len(f)
        /\ \A j \in 1 .. n : f[k + j] = e[j]
    <3>1. g[i] \in Seq(Char) /\ e \in Seq(Char)
      BY <1>4, <2>1
    <3>2. k \in Nat /\ n \in Nat
      BY <3>1
    <3> QED
      BY <1>4, <2>1, <3>2
  <2>4. e = Shown(mode, c) /\ c \in Byte /\ (mode = "single" => c \notin {"\\", NUL})
    BY <1>1, <2>1, ElementOfSeq DEF Showable
  <2> HIDE DEF e, k, n, c
  <2>p. PICK y \in Nat : y = p + k
    BY <2>3
  <2>5. Standing(s, y, e)
    <3> SUFFICES ASSUME NEW j \in 1 .. n PROVE At(s, y + (j - 1)) = e[j]
      BY DEF Standing, n
    <3>1. Len(f) \in Nat
      BY <1>1
    <3>2. k + j \in 1 .. Len(f) /\ p + ((k + j) - 1) = y + (j - 1)
      BY <2>3, <2>p, <3>1
    <3> HIDE DEF f
    <3> QED
      BY <1>2, <2>3, <3>2
  <2>6. /\ n \in Nat \ {0}
        /\ NextByte(s, State(y, mode, SubSeq(t, 1, i), argv))
               = State(y + n, mode, Append(SubSeq(t, 1, i), c), argv)
    <3>1. CASE mode = "double"
      <4>1. e = Escape(c)
        BY <2>4, <3>1 DEF Shown
      <4>2. Standing(s, y, Escape(c)) /\ c \in Byte
        BY <2>4, <2>5, <4>1
      <4>3. /\ Len(Escape(c)) \in Nat \ {0}
            /\ NextByte(s, State(y, "double", SubSeq(t, 1, i), argv))
                   = State(y + Len(Escape(c)), "double", Append(SubSeq(t, 1, i), c), argv)
        BY <4>2, DoubleByteRead
      <4> QED
        BY <3>1, <4>1, <4>3 DEF n
    <3>2. CASE mode = "single"
      <4>1. e = Shown("single", c) /\ c \in Byte \ {"\\", NUL}
        BY <2>4, <3>2
      <4> DEFINE u == Shown("single", c)
      <4>2. Standing(s, y, u)
        BY <2>5, <4>1
      <4>3. /\ Len(u) \in Nat \ {0}
            /\ NextByte(s, State(y, "single", SubSeq(t, 1, i), argv))
                   = State(y + Len(u), "single", Append(SubSeq(t, 1, i), c), argv)
        BY <4>1, <4>2, SingleByteRead
      <4> HIDE DEF u
      <4>4. e = u
        BY <4>1 DEF u
      <4> QED
        BY <3>2, <4>3, <4>4 DEF n
    <3> QED
      BY <3>1, <3>2
  <2>7. Append(SubSeq(t, 1, i), c) = SubSeq(t, 1, i + 1)
    <3>1. SubSeq(t, 1, i + 1) = SubSeq(t, 1, i) \o <<t[i + 1]>>
      <4>1. 1 \in 1 .. Len(t) /\ i + 1 \in 1 .. Len(t)
        BY <2>1
      <4> QED
        BY <2>1, <4>1, SubSeqRecursiveSecond
    <3>2. SubSeq(t, 1, i) \in Seq(Byte)
      <4>1. \A j \in 1 .. i : t[j] \in Byte
        BY <2>0, <2>1, ElementOfSeq
      <4> QED
        BY <4>1, SubSeqProperties
    <3> QED
      BY <2>4, <3>1, <3>2, AppendIsConcat DEF c
  <2>8. y + n \in Nat /\ y \in Nat /\ y < y + n /\ y + n = p + (k + n)
    BY <2>3, <2>6, <2>p
  <2>9. Reaches(s, State(y, mode, SubSeq(t, 1, i), argv))
    BY <2>2, <2>p DEF k
  <2>10. Reaches(s, State(y + n, mode, Append(SubSeq(t, 1, i), c), argv))
    BY <2>6, <2>8, <2>9, ReachesOn
  <2> QED
    BY <2>3, <2>7, <2>8, <2>10
<1> HIDE DEF T
<1>7. Nat \subseteq T
  BY <1>5, <1>6, EveryNumber
<1>8. Len(t) \in Nat /\ SubSeq(t, 1, Len(t)) = t
  BY SubSeqFull
<1>9. After(Len(t))
  BY <1>7, <1>8 DEF T
<1> QED
  BY <1>1, <1>3, <1>8, <1>9 DEF x

(* A text in quotes, with the end of the line or a space behind it, is a token. *)
LEMMA QuotedRead ==
    ASSUME NEW s, NEW p \in Nat, NEW mode \in {"double", "single"}, NEW argv,
           NEW t \in Seq(Byte), Showable(mode, t),
           Standing(s, p, Quoted(mode, t)),
           At(s, p + Len(Quoted(mode, t))) \in {NUL, "SP"},
           Reaches(s, State(p, "blank", <<>>, argv))
    PROVE  Reaches(s, State(p + Len(Quoted(mode, t)), "blank", <<>>, Append(argv, t)))
<1> DEFINE f == FlattenSeq(Shows(mode, t))
           q == QuoteMark(mode)
           w == Quoted(mode, t)
           n == Len(f)
<1>1. f \in Seq(Char)
  BY ShowsText
<1>2. q \in Char
  BY Names DEF QuoteMark, Char
<1>3. w = <<q>> \o f \o <<q>>
  BY DEF Quoted
<1> HIDE DEF f, q, w
<1>4. /\ n \in Nat /\ Len(w) = n + 2 /\ w[1] = q /\ w[n + 2] = q
      /\ \A j \in 1 .. n : w[j + 1] = f[j]
  BY <1>1, <1>2, <1>3
<1> HIDE DEF n
<1>5. \A j \in 1 .. n + 2 : At(s, p + (j - 1)) = w[j]
  BY <1>4 DEF Standing, w
<1>6. At(s, p) = q /\ At(s, (p + 1) + n) = q /\ At(s, ((p + 1) + n) + 1) \in {NUL, "SP"}
  <2>1. /\ p + (1 - 1) = p /\ p + ((n + 2) - 1) = (p + 1) + n
        /\ ((p + 1) + n) + 1 = p + (n + 2)
        /\ 1 \in 1 .. n + 2 /\ n + 2 \in 1 .. n + 2
    BY <1>4
  <2>2. At(s, p + (1 - 1)) = q /\ At(s, p + ((n + 2) - 1)) = q
    BY <1>4, <1>5, <2>1
  <2>3. At(s, p + (n + 2)) \in {NUL, "SP"}
    BY <1>4 DEF w
  <2> QED
    BY <2>1, <2>2, <2>3
<1>7. Reaches(s, State(p + 1, mode, <<>>, argv))
  <2>1. NextByte(s, State(p, "blank", <<>>, argv)) = State(p + 1, mode, <<>>, argv)
    BY <1>6, OpensQuote DEF q
  <2>2. p + 1 \in Nat /\ p < p + 1
    OBVIOUS
  <2> QED
    BY <2>1, <2>2, ReachesOn
<1>8. Standing(s, p + 1, f)
  <2>1. ASSUME NEW j \in 1 .. n PROVE At(s, (p + 1) + (j - 1)) = f[j]
    <3>1. j + 1 \in 1 .. n + 2 /\ p + ((j + 1) - 1) = (p + 1) + (j - 1)
      BY <1>4
    <3> QED
      BY <1>4, <1>5, <3>1
  <2> QED
    BY <2>1 DEF Standing, n
<1>9. Reaches(s, State((p + 1) + n, mode, t, argv))
  <2>1. p + 1 \in Nat
    OBVIOUS
  <2> QED
    BY <1>7, <1>8, <2>1, BytesRead DEF f, n
<1>10. Reaches(s, State(((p + 1) + n) + 1, "blank", <<>>, Append(argv, t)))
  <2>1. (p + 1) + n \in Nat /\ ((p + 1) + n) + 1 \in Nat /\ (p + 1) + n < ((p + 1) + n) + 1
    BY <1>4
  <2>2. NextByte(s, State((p + 1) + n, mode, t, argv))
            = State(((p + 1) + n) + 1, "blank", <<>>, Append(argv, t))
    BY <1>6, <2>1, ClosesQuote DEF q
  <2> QED
    BY <1>9, <2>1, <2>2, ReachesOn
<1>11. ((p + 1) + n) + 1 = p + Len(w)
  BY <1>4
<1> QED
  BY <1>10, <1>11 DEF w

-----------------------------------------------------------------------------
(* Quoted texts in a line. *)

(* A text without a NUL is what a C string function sees of it. *)
LEMMA WholeText == ASSUME NEW S, NUL \notin S, NEW t \in Seq(S) PROVE CString(t) = t
<1> DEFINE P(n) == /\ \A i \in 1 .. n : t[i] # NUL
                   /\ n < Len(t) => t[n + 1] = NUL
           k == CHOOSE n \in 0 .. Len(t) : P(n)
<1>0. Len(t) \in Nat /\ \A i \in 1 .. Len(t) : t[i] # NUL
  BY ElementOfSeq
<1>1. P(Len(t)) /\ Len(t) \in 0 .. Len(t)
  BY <1>0
<1>2. k \in 0 .. Len(t) /\ P(k)
  <2> HIDE DEF P
  <2> QED
    BY <1>1, Zenon
<1>3. CString(t) = SubSeq(t, 1, k)
  BY DEF CString
<1> HIDE DEF k
<1>4. k = Len(t)
  <2> SUFFICES ASSUME k < Len(t) PROVE FALSE
    BY <1>0, <1>2
  <2>1. k + 1 \in 1 .. Len(t) /\ t[k + 1] = NUL
    BY <1>0, <1>2
  <2> QED
    BY <1>0, <2>1
<1> QED
  BY <1>3, <1>4, SubSeqFull

(* Every text with the separator behind it. *)
Followed(x, sep) == [i \in 1 .. Len(x) |-> x[i] \o sep]

LEMMA Joined ==
    ASSUME NEW S, NUL \notin S, NEW x \in Seq(Seq(S)), NEW w \in Seq(S), NEW sep \in Seq(S)
    PROVE  sdsjoin(Append(x, w), sep) = FlattenSeq(Followed(x, sep)) \o w
<1> DEFINE argv == Append(x, w)
           n == Len(x)
           y == [i \in 1 .. n |-> x[i] \o sep]
           z == [i \in DOMAIN argv |->
                    CString(argv[i]) \o (IF i # Len(argv) THEN CString(sep) ELSE <<>>)]
<1>1. /\ n \in Nat /\ argv \in Seq(Seq(S)) /\ Len(argv) = n + 1 /\ argv[n + 1] = w
      /\ \A i \in 1 .. n : argv[i] = x[i]
  BY AppendProperties
<1>2. sdsjoin(argv, sep) = FlattenSeq(z)
  BY DEF sdsjoin
<1>3. CString(sep) = sep /\ CString(w) = w /\ \A i \in 1 .. n : CString(x[i]) = x[i]
  BY WholeText, ElementOfSeq
<1>4. \A i \in 1 .. n : x[i] \o sep \in Seq(S)
  BY ElementOfSeq, ConcatProperties
<1>5. y \in Seq(Seq(S)) /\ Len(y) = n /\ \A i \in 1 .. n : y[i] = x[i] \o sep
  BY <1>1, <1>4
<1>6. DOMAIN argv = 1 .. n + 1
  BY <1>1, LenProperties
<1> HIDE DEF argv, y
<1>7. \A i \in 1 .. n + 1 : z[i] = IF i = n + 1 THEN w ELSE y[i]
  <2> TAKE i \in 1 .. n + 1
  <2>1. CASE i = n + 1
    <3>1. z[i] = CString(argv[i]) \o <<>>
      BY <1>1, <1>6, <2>1
    <3>2. CString(argv[i]) = w
      BY <1>1, <1>3, <2>1
    <3> QED
      BY <2>1, <3>1, <3>2, ConcatEmptySeq
  <2>2. CASE i # n + 1
    <3>1. i \in 1 .. n
      BY <1>1, <2>2
    <3>2. z[i] = CString(argv[i]) \o CString(sep)
      BY <1>1, <1>6, <2>2
    <3> HIDE DEF z, n
    <3>3. z[i] = y[i]
      BY <1>1, <1>3, <1>5, <3>1, <3>2
    <3> QED
      BY <2>2, <3>3
  <2> QED
    BY <2>1, <2>2
<1>8. z = Append(y, w)
  <2> DEFINE v == Append(y, w)
  <2>1. /\ v \in Seq(Seq(S)) /\ Len(v) = n + 1 /\ v[n + 1] = w
        /\ \A i \in 1 .. n : v[i] = y[i]
    BY <1>5, AppendProperties
  <2>2. DOMAIN z = 1 .. n + 1
    BY <1>6
  <2>3. DOMAIN v = 1 .. n + 1
    BY <2>1, LenProperties
  <2> HIDE DEF z, v
  <2>4. \A i \in 1 .. n + 1 : z[i] = v[i]
    <3> TAKE i \in 1 .. n + 1
    <3>1. CASE i = n + 1
      BY <1>7, <2>1, <3>1
    <3>2. CASE i # n + 1
      <4>1. i \in 1 .. n
        BY <1>1, <3>2
      <4> QED
        BY <1>7, <2>1, <3>2, <4>1
    <3> QED
      BY <3>1, <3>2
  <2>5. v \in [1 .. n + 1 -> Seq(S)]
    BY <2>1, LenProperties
  <2>6. z = [i \in 1 .. n + 1 |-> z[i]]
    BY <2>2 DEF z
  <2>7. v = [i \in 1 .. n + 1 |-> v[i]]
    BY <2>5
  <2> QED
    BY <2>4, <2>6, <2>7 DEF v
<1>9. FlattenSeq(Append(y, w)) = FlattenSeq(y) \o w
  BY <1>5, FlattenAppend
<1> QED
  BY <1>2, <1>8, <1>9 DEF argv, y, Followed

LEMMA QuotedText ==
    ASSUME NEW mode \in {"double", "single"}, NEW t \in Seq(Byte), Showable(mode, t)
    PROVE  Quoted(mode, t) \in Seq(Char) /\ CString(Quoted(mode, t)) = Quoted(mode, t)
<1>1. FlattenSeq(Shows(mode, t)) \in Seq(Char)
  BY ShowsText
<1>2. <<QuoteMark(mode)>> \in Seq(Char)
  BY Names DEF QuoteMark, Char
<1>3. Quoted(mode, t) \in Seq(Char)
  BY <1>1, <1>2, ConcatProperties DEF Quoted
<1>4. NUL \notin Char
  BY DEF Char
<1> QED
  BY <1>3, <1>4, WholeText

LEMMA QuoteIsQuoted ==
    ASSUME NEW t \in Seq(Byte) PROVE Quote(t) = Quoted("double", t) /\ Showable("double", t)
<1>1. Shows("double", t) = [i \in DOMAIN t |-> Escape(t[i])]
  BY DEF Shows, Shown
<1>2. <<>> \o <<"DQ">> = <<"DQ">>
  OBVIOUS
<1>3. QuoteMark("double") = "DQ"
  BY DEF QuoteMark
<1> QED
  BY <1>1, <1>2, <1>3 DEF Quote, sdscatrepr, Quoted, Showable

LEMMA SingleQuoteIsQuoted ==
    ASSUME NEW t \in Seq(Byte) PROVE SingleQuote(t) = Quoted("single", t)
<1>1. Shows("single", t)
          = [i \in DOMAIN t |-> IF t[i] = "'" THEN <<"\\", "'">> ELSE <<t[i]>>]
  BY DEF Shows, Shown
<1>2. QuoteMark("single") = "'"
  BY DEF QuoteMark
<1> QED
  BY <1>1, <1>2 DEF SingleQuote, Quoted

LEMMA AtPlace == ASSUME NEW S, NEW s \in Seq(S), NEW j \in 1 .. Len(s) PROVE At(s, j) = s[j]
<1>1. DOMAIN s = 1 .. Len(s)
  BY LenProperties
<1> QED
  BY <1>1 DEF At

(* A text in single quotes is read back. *)
LEMMA SingleReadBack ==
    ASSUME NEW t \in Seq(Byte), Showable("single", t)
    PROVE  sdssplitargs(SingleQuote(t)) = [ok |-> TRUE, argv |-> <<t>>]
<1> DEFINE s == Quoted("single", t)
<1>0. SingleQuote(t) = s
  BY SingleQuoteIsQuoted
<1>1. s \in Seq(Char) /\ CString(s) = s
  BY QuotedText
<1>2. Standing(s, 1, s)
  <2> HIDE DEF s
  <2> SUFFICES ASSUME NEW j \in 1 .. Len(s) PROVE At(s, 1 + (j - 1)) = s[j]
    BY DEF Standing
  <2>1. 1 + (j - 1) = j
    OBVIOUS
  <2> QED
    BY <1>1, <2>1, AtPlace
<1>3. At(s, 1 + Len(s)) = NUL /\ Len(s) \in Nat
  <2> HIDE DEF s
  <2>1. Len(s) \in Nat /\ 1 + Len(s) = Len(s) + 1
    BY <1>1
  <2> QED
    BY <1>1, <2>1, BehindTheEnd
<1>4. Reaches(s, State(1, "blank", <<>>, <<>>))
  BY ReachesFirst
<1>5. Reaches(s, State(1 + Len(s), "blank", <<>>, Append(<<>>, t)))
  <2>1. 1 \in Nat /\ "single" \in {"double", "single"} /\ At(s, 1 + Len(s)) \in {NUL, "SP"}
    BY <1>3
  <2> QED
    BY <1>2, <1>4, <2>1, QuotedRead
<1> HIDE DEF s
<1>6. 1 + Len(s) = Len(s) + 1 /\ Append(<<>>, t) = <<t>>
  BY <1>3
<1>7. Reaches(CString(s), State(Len(CString(s)) + 1, "blank", <<>>, <<t>>))
  BY <1>1, <1>5, <1>6
<1>8. "blank" \in {"blank", "token"} /\ CString(s) \in Seq(Char)
  BY <1>1
<1>9. sdssplitargs(s) = [ok |-> TRUE, argv |-> IF "blank" = "blank" THEN <<t>> ELSE Append(<<t>>, <<>>)]
  BY <1>7, <1>8, LineRead
<1> QED
  BY <1>0, <1>9

LEMMA PairAppends == ASSUME NEW S, NEW t \in S, NEW u \in S PROVE Append(<<t>>, u) = <<t, u>>
<1> DEFINE a == <<t>>
           v == Append(a, u)
           w == <<t, u>>
<1>1. a \in Seq(S) /\ Len(a) = 1 /\ a[1] = t
  OBVIOUS
<1> HIDE DEF a
<1>2. v \in Seq(S) /\ Len(v) = 2 /\ v[1] = t /\ v[2] = u
  <2>1. /\ v \in Seq(S) /\ Len(v) = Len(a) + 1 /\ v[Len(a) + 1] = u
        /\ \A i \in 1 .. Len(a) : v[i] = a[i]
    BY <1>1, AppendProperties, ZenonT(60)
  <2>2. 1 \in 1 .. Len(a) /\ Len(a) + 1 = 2
    BY <1>1
  <2> HIDE DEF v
  <2> QED
    BY <1>1, <2>1, <2>2
<1>3. w \in Seq(S) /\ Len(w) = 2 /\ w[1] = t /\ w[2] = u
  OBVIOUS
<1> HIDE DEF v, w
<1>4. \A i \in 1 .. 2 : v[i] = w[i]
  BY <1>2, <1>3
<1>5. v = w
  BY <1>2, <1>3, <1>4, SeqEqual
<1> QED
  BY <1>5 DEF a, v, w

(* Two quoted texts in a line are read back. *)
LEMMA QuotesReadBack ==
    ASSUME NEW t \in Seq(Byte), NEW u \in Seq(Byte)
    PROVE  sdssplitargs(sdsjoin(<<Quote(t), Quote(u)>>, <<"SP">>))
               = [ok |-> TRUE, argv |-> <<t, u>>]
<1> DEFINE a == Quoted("double", t)
           b == Quoted("double", u)
           line == sdsjoin(<<Quote(t), Quote(u)>>, <<"SP">>)
           s == (a \o <<"SP">>) \o b
<1>1. /\ Quote(t) = a /\ Quote(u) = b /\ a \in Seq(Char) /\ b \in Seq(Char)
      /\ Showable("double", t) /\ Showable("double", u)
  BY QuoteIsQuoted, QuotedText
<1> HIDE DEF a, b
<1>2. line = s
  <2>1. <<a, b>> = Append(<<a>>, b)
    OBVIOUS
  <2>2. <<"SP">> \in Seq(Char) /\ NUL \notin Char /\ <<a>> \in Seq(Seq(Char))
    <3>1. "SP" \in Char
      BY CharAssumption DEF Char, Named, Blank
    <3>2. NUL \notin Char
      BY DEF Char
    <3> QED
      BY <1>1, <3>1, <3>2
  <2>3. PICK x, sep : x = <<a>> /\ sep = <<"SP">>
    OBVIOUS
  <2>4. x \in Seq(Seq(Char)) /\ sep \in Seq(Char)
    BY <2>2, <2>3
  <2>5. sdsjoin(Append(x, b), sep) = FlattenSeq(Followed(x, sep)) \o b
    BY <1>1, <2>2, <2>4, Joined, SMTT(30)
  <2>6. Followed(x, sep) = <<a \o <<"SP">>>>
    BY <2>3 DEF Followed
  <2>7. FlattenSeq(<<a \o <<"SP">>>>) = a \o <<"SP">>
    <3> DEFINE e == a \o <<"SP">>
    <3>1. e \in Seq(Char) /\ <<>> \in Seq(Seq(Char))
      BY <1>1, <2>2, ConcatProperties
    <3> HIDE DEF e
    <3>2. FlattenSeq(Append(<<>>, e)) = FlattenSeq(<<>>) \o e
      BY <3>1, FlattenAppend
    <3>3. Append(<<>>, e) = <<e>>
      OBVIOUS
    <3>4. FlattenSeq(<<e>>) = e
      BY <3>1, <3>2, <3>3, FlattenEmpty, ConcatEmptySeq
    <3> QED
      BY <3>4 DEF e
  <2> QED
    BY <1>1, <2>1, <2>3, <2>5, <2>6, <2>7
<1> DEFINE n == Len(a)
           k == Len(b)
<1>3. /\ n \in Nat /\ k \in Nat /\ s \in Seq(Char) /\ Len(s) = n + 1 + k
      /\ \A j \in 1 .. n : s[j] = a[j]
      /\ s[n + 1] = "SP"
      /\ \A j \in 1 .. k : s[(n + 2) + (j - 1)] = b[j]
  <2>1. "SP" \in Char
    BY CharAssumption DEF Char, Named, Blank
  <2> DEFINE c == a \o <<"SP">>
  <2>2. c \in Seq(Char) /\ Len(c) = n + 1 /\ c[n + 1] = "SP" /\ \A j \in 1 .. n : c[j] = a[j]
    BY <1>1, <2>1
  <2> HIDE DEF c
  <2>3. n \in Nat /\ k \in Nat
    BY <1>1
  <2>4. s = c \o b
    BY DEF c
  <2> HIDE DEF n, k, s
  <2>5. /\ s \in Seq(Char) /\ Len(s) = (n + 1) + k
        /\ \A j \in 1 .. (n + 1) + k : s[j] = IF j =< n + 1 THEN c[j] ELSE b[j - (n + 1)]
    <3>1. c \in Seq(Char) /\ b \in Seq(Char) /\ Len(c) = n + 1 /\ Len(b) = k
      BY <1>1, <2>2 DEF k
    <3>2. /\ c \o b \in Seq(Char) /\ Len(c \o b) = Len(c) + Len(b)
          /\ \A j \in 1 .. Len(c) + Len(b) :
                 (c \o b)[j] = IF j =< Len(c) THEN c[j] ELSE b[j - Len(c)]
      BY <3>1, ConcatProperties
    <3> QED
      BY <2>4, <3>1, <3>2
  <2>6. ASSUME NEW j \in 1 .. k PROVE s[(n + 2) + (j - 1)] = b[j]
    <3> DEFINE i == (n + 2) + (j - 1)
    <3>1. i \in 1 .. (n + 1) + k /\ ~(i =< n + 1) /\ i - (n + 1) = j
      BY <2>3
    <3> HIDE DEF i
    <3>2. s[i] = b[j]
      BY <2>5, <3>1
    <3> QED
      BY <3>2 DEF i
  <2>7. \A j \in 1 .. n : s[j] = a[j]
    BY <2>2, <2>3, <2>5
  <2>8. s[n + 1] = "SP"
    BY <2>2, <2>3, <2>5
  <2> QED
    BY <2>3, <2>5, <2>6, <2>7, <2>8
<1> HIDE DEF s, n, k
<1>4. \A j \in 1 .. n + 1 + k : At(s, j) = s[j]
  BY <1>3, AtPlace
<1>5. Standing(s, 1, a)
  <2> SUFFICES ASSUME NEW j \in 1 .. n PROVE At(s, 1 + (j - 1)) = a[j]
    BY DEF Standing, n
  <2>1. 1 + (j - 1) = j /\ j \in 1 .. n + 1 + k
    BY <1>3
  <2> QED
    BY <1>3, <1>4, <2>1
<1>6. Standing(s, n + 2, b)
  <2> SUFFICES ASSUME NEW j \in 1 .. k PROVE At(s, (n + 2) + (j - 1)) = b[j]
    BY DEF Standing, k
  <2>1. (n + 2) + (j - 1) \in 1 .. n + 1 + k
    BY <1>3
  <2> QED
    BY <1>3, <1>4, <2>1
<1>7. At(s, n + 1) = "SP" /\ At(s, (n + 2) + k) = NUL
  <2>1. n + 1 \in 1 .. n + 1 + k /\ Len(s) + 1 = (n + 2) + k
    BY <1>3
  <2>2. At(s, Len(s) + 1) = NUL
    BY <1>3, BehindTheEnd
  <2> QED
    BY <1>3, <1>4, <2>1, <2>2
<1>8. Reaches(s, State(1, "blank", <<>>, <<>>))
  BY ReachesFirst
<1>9. Reaches(s, State(n + 1, "blank", <<>>, <<t>>))
  <2>1. /\ 1 \in Nat /\ "double" \in {"double", "single"}
        /\ At(s, 1 + Len(Quoted("double", t))) \in {NUL, "SP"}
        /\ Standing(s, 1, Quoted("double", t))
    <3>1. 1 + n = n + 1
      BY <1>3
    <3> QED
      BY <1>5, <1>7, <3>1 DEF n, a
  <2>2. Reaches(s, State(1 + Len(Quoted("double", t)), "blank", <<>>, Append(<<>>, t)))
    BY <1>1, <1>8, <2>1, QuotedRead
  <2>3. 1 + Len(Quoted("double", t)) = n + 1 /\ Append(<<>>, t) = <<t>>
    BY <1>3 DEF n, a
  <2> QED
    BY <2>2, <2>3
<1>10. Reaches(s, State(n + 2, "blank", <<>>, <<t>>))
  <2>1. At(s, n + 1) # NUL /\ isspace(At(s, n + 1))
    BY <1>7, Names DEF isspace, Blank
  <2>2. n + 1 \in Nat /\ n + 2 \in Nat /\ n + 1 < n + 2 /\ (n + 1) + 1 = n + 2
    BY <1>3
  <2>3. PICK r : r = State(n + 1, "blank", <<>>, <<t>>)
    OBVIOUS
  <2>4. NextByte(s, r) = State((n + 1) + 1, "blank", <<>>, <<t>>)
    BY <2>1, <2>2, <2>3, BlankNext
  <2> QED
    BY <1>9, <2>2, <2>3, <2>4, ReachesOn
<1>11. Reaches(s, State((n + 2) + k, "blank", <<>>, <<t, u>>))
  <2>1. /\ n + 2 \in Nat /\ "double" \in {"double", "single"}
        /\ At(s, (n + 2) + Len(Quoted("double", u))) \in {NUL, "SP"}
        /\ Standing(s, n + 2, Quoted("double", u))
    BY <1>3, <1>6, <1>7 DEF k, b
  <2>2. Reaches(s, State((n + 2) + Len(Quoted("double", u)), "blank", <<>>, Append(<<t>>, u)))
    BY <1>1, <1>10, <2>1, QuotedRead
  <2>3. Append(<<t>>, u) = <<t, u>>
    BY PairAppends DEF k
  <2> QED
    BY <2>2, <2>3 DEF k, b
<1>12. CString(s) = s
  <2>1. NUL \notin Char
    BY DEF Char
  <2> QED
    BY <1>3, <2>1, WholeText
<1>13. Reaches(CString(s), State(Len(CString(s)) + 1, "blank", <<>>, <<t, u>>))
  <2>1. Len(s) + 1 = (n + 2) + k
    BY <1>3
  <2> QED
    BY <1>11, <1>12, <2>1
<1>14. "blank" \in {"blank", "token"} /\ CString(s) \in Seq(Char)
  BY <1>3, <1>12
<1>15. sdssplitargs(s)
           = [ok |-> TRUE, argv |-> IF "blank" = "blank" THEN <<t, u>> ELSE Append(<<t, u>>, <<>>)]
  BY <1>13, <1>14, LineRead
<1> QED
  BY <1>2, <1>15

-----------------------------------------------------------------------------
(* A text split at a separator. *)

Place(at, start, tokens, slots) ==
    [at |-> at, start |-> start, tokens |-> tokens, slots |-> slots]

(* No separator begins at a place from i to j. *)
NoneFrom(s, sep, i, j) == \A p \in i .. j : SubSeq(s, p, p + (Len(sep) - 1)) # sep

(* The tokens, each with the separator behind it, are the text before start; none has the
   separator in it, and there has been none since. *)
SplitUpTo(S, s, sep, at, start, tokens, slots) ==
    /\ at \in 1 .. Len(s) + 1 /\ start \in 1 .. at /\ slots \in Nat
    /\ tokens \in Seq(Seq(S)) /\ Len(tokens) + 1 =< slots
    /\ FlattenSeq(Followed(tokens, sep)) = SubSeq(s, 1, start - 1)
    /\ \A i \in 1 .. Len(tokens) : ~HasPart(tokens[i], sep)
    /\ NoneFrom(s, sep, start, at - 1)

(* After k steps the reader is at the k-th place behind the first, or near the end. *)
FarAfter(s, sep, k, at) == k + 1 =< at \/ at > Len(s) - (Len(sep) - 1)

LEMMA FollowedAppend ==
    ASSUME NEW S, NEW x \in Seq(Seq(S)), NEW u \in Seq(S), NEW sep \in Seq(S)
    PROVE  /\ Followed(x, sep) \in Seq(Seq(S))
           /\ Followed(Append(x, u), sep) = Append(Followed(x, sep), u \o sep)
<1> DEFINE y == Append(x, u)
           e == Followed(x, sep)
           v == Followed(y, sep)
           w == Append(e, u \o sep)
           n == Len(x)
<1>1. /\ n \in Nat /\ y \in Seq(Seq(S)) /\ Len(y) = n + 1 /\ y[n + 1] = u
      /\ \A i \in 1 .. n : y[i] = x[i]
  BY AppendProperties
<1>2. u \o sep \in Seq(S) /\ \A i \in 1 .. n : x[i] \o sep \in Seq(S)
  BY ElementOfSeq, ConcatProperties
<1> HIDE DEF y
<1>3. e \in Seq(Seq(S)) /\ Len(e) = n /\ \A i \in 1 .. n : e[i] = x[i] \o sep
  <2>1. e = [i \in 1 .. n |-> x[i] \o sep]
    BY DEF Followed
  <2>2. n \in Nat
    BY <1>1
  <2> HIDE DEF e, n
  <2>3. e \in [1 .. n -> Seq(S)] /\ \A i \in 1 .. n : e[i] = x[i] \o sep
    BY <1>2, <2>1
  <2> QED
    BY <2>2, <2>3
<1>4. v \in Seq(Seq(S)) /\ Len(v) = n + 1 /\ \A i \in 1 .. n + 1 : v[i] = y[i] \o sep
  <2>1. \A i \in 1 .. n + 1 : y[i] \o sep \in Seq(S)
    BY <1>1, ElementOfSeq, ConcatProperties
  <2> QED
    BY <1>1, <2>1 DEF Followed
<1> HIDE DEF e, v
<1>5. /\ w \in Seq(Seq(S)) /\ Len(w) = n + 1 /\ w[n + 1] = u \o sep
      /\ \A i \in 1 .. n : w[i] = e[i]
  BY <1>2, <1>3, AppendProperties, SMTT(30)
<1> HIDE DEF w, n
<1>6. \A i \in 1 .. n + 1 : v[i] = w[i]
  <2> TAKE i \in 1 .. n + 1
  <2>1. CASE i = n + 1
    BY <1>1, <1>4, <1>5, <2>1
  <2>2. CASE i # n + 1
    <3>1. i \in 1 .. n
      BY <1>1, <2>2
    <3>2. w[i] = x[i] \o sep
      BY <1>3, <1>5, <3>1
    <3>3. v[i] = x[i] \o sep
      BY <1>1, <1>4, <3>1
    <3> QED
      BY <3>2, <3>3
  <2> QED
    BY <2>1, <2>2
<1>7. v = w
  BY <1>4, <1>5, <1>6, SeqEqual
<1> QED
  BY <1>3, <1>7 DEF e, v, w, y

LEMMA SliceText ==
    ASSUME NEW S, NEW s \in Seq(S), NEW i \in 1 .. Len(s) + 1, NEW j \in 0 .. Len(s), i =< j + 1
    PROVE  SubSeq(s, i, j) \in Seq(S) /\ Len(SubSeq(s, i, j)) = (j - i) + 1
<1>1. i \in Int /\ j \in Int /\ \A p \in i .. j : s[p] \in S
  BY ElementOfSeq
<1>2. SubSeq(s, i, j) \in Seq(S) /\ Len(SubSeq(s, i, j)) = IF i <= j THEN j - i + 1 ELSE 0
  BY <1>1, SubSeqProperties
<1> QED
  BY <1>1, <1>2

(* Where no separator begins there is none inside. *)
LEMMA NoPart ==
    ASSUME NEW S, NEW s \in Seq(S), NEW sep \in Seq(S), sep # <<>>,
           NEW i \in 1 .. Len(s) + 1, NEW j \in 0 .. Len(s), i =< j + 1,
           NEW k \in Int, j - Len(sep) < k, NoneFrom(s, sep, i, k)
    PROVE  ~HasPart(SubSeq(s, i, j), sep)
<1> DEFINE u == SubSeq(s, i, j)
           l == Len(sep)
<1>1. l \in Nat /\ l >= 1 /\ Len(s) \in Nat
  BY EmptySeq
<1>2. Len(u) = (j - i) + 1
  BY <1>1, SliceText
<1> SUFFICES ASSUME NEW p \in 1 .. Len(u) - l + 1, SubSeq(u, p, p + l - 1) = sep PROVE FALSE
  BY DEF HasPart
<1> HIDE DEF l, u
<1> DEFINE q == p + l - 1
<1>3. /\ p \in 1 .. (j - i) + 1 /\ q \in 1 .. (j - i) + 1
      /\ i \in 1 .. Len(s) /\ j \in 1 .. Len(s)
      /\ (i + p) - 1 \in i .. k /\ (i + q) - 1 = ((i + p) - 1) + (l - 1)
  BY <1>1, <1>2 DEF l
<1> HIDE DEF q
<1>4. SubSeq(SubSeq(s, i, j), p, q) = SubSeq(s, i + p - 1, i + q - 1)
  <2>1. p \in 1 .. j - i + 1 /\ q \in 1 .. j - i + 1
    BY <1>3
  <2> QED
    BY <1>3, <2>1, SubSeqOfSubSeq
<1>5. SubSeq(s, (i + p) - 1, ((i + p) - 1) + (l - 1)) = sep
  <2>1. SubSeq(SubSeq(s, i, j), p, q) = sep
    BY DEF u, q
  <2>2. i + p - 1 = (i + p) - 1 /\ i + q - 1 = ((i + p) - 1) + (l - 1)
    BY <1>3
  <2> HIDE DEF l, q
  <2> QED
    BY <1>4, <2>1, <2>2
<1> QED
  BY <1>3, <1>5 DEF NoneFrom, l

LEMMA SplitBegins ==
    ASSUME NEW S, NEW s \in Seq(S), NEW sep \in Seq(S), sep # <<>>
    PROVE  /\ FirstPlace = Place(1, 1, <<>>, SPLIT_SLOTS)
           /\ SplitUpTo(S, s, sep, 1, 1, <<>>, SPLIT_SLOTS)
           /\ FarAfter(s, sep, 0, 1)
<1>1. FirstPlace = Place(1, 1, <<>>, SPLIT_SLOTS)
  BY DEF FirstPlace, Place
<1>2. Followed(<<>>, sep) = <<>>
  <2>1. Len(<<>>) = 0
    OBVIOUS
  <2>2. Followed(<<>>, sep) \in Seq({}) /\ Len(Followed(<<>>, sep)) = 0
    BY <2>1 DEF Followed
  <2> HIDE DEF Followed
  <2> QED
    BY <2>2, EmptySeq
<1>3. SubSeq(s, 1, 1 - 1) = <<>>
  BY SubSeqEmpty
<1>4. FlattenSeq(Followed(<<>>, sep)) = SubSeq(s, 1, 1 - 1)
  BY <1>2, <1>3, FlattenEmpty
<1>5. SPLIT_SLOTS \in Nat /\ 0 + 1 =< SPLIT_SLOTS /\ Len(s) \in Nat
  BY CharAssumption
<1>6. NoneFrom(s, sep, 1, 1 - 1)
  BY DEF NoneFrom
<1>7. <<>> \in Seq(Seq(S)) /\ Len(<<>>) = 0
  OBVIOUS
<1>8. SplitUpTo(S, s, sep, 1, 1, <<>>, SPLIT_SLOTS)
  BY <1>4, <1>5, <1>6, <1>7 DEF SplitUpTo
<1>9. FarAfter(s, sep, 0, 1)
  BY DEF FarAfter
<1> QED
  BY <1>1, <1>8, <1>9

(* A step: nothing is left to see, a separator, or another byte. *)
LEMMA PlaceNext ==
    ASSUME NEW s, NEW sep, NEW at, NEW start, NEW tokens, NEW slots,
           NEW next, next = at + Len(sep),
           NEW room, room = IF slots < Len(tokens) + 2 THEN 2 * slots ELSE slots
    PROVE  NextPlace(s, sep, Place(at, start, tokens, slots)) =
               IF at > Len(s) - (Len(sep) - 1) THEN Place(at, start, tokens, slots)
               ELSE IF SubSeq(s, at, next - 1) = sep
               THEN Place(next, next, Append(tokens, SubSeq(s, start, at - 1)), room)
               ELSE Place(at + 1, start, tokens, room)
<1> DEFINE r == Place(at, start, tokens, slots)
<1>1. r.at = at /\ r.start = start /\ r.tokens = tokens /\ r.slots = slots
  BY DEF Place
<1>2. [r EXCEPT !.at = at + 1, !.slots = room] = Place(at + 1, start, tokens, room)
  <2>1. [r EXCEPT !.at = at + 1] = Place(at + 1, start, tokens, slots)
    BY DEF Place
  <2>2. [Place(at + 1, start, tokens, slots) EXCEPT !.slots = room]
            = Place(at + 1, start, tokens, room)
    BY DEF Place
  <2>3. [r EXCEPT !.at = at + 1, !.slots = room] = [[r EXCEPT !.at = at + 1] EXCEPT !.slots = room]
    OBVIOUS
  <2> QED
    BY <2>1, <2>2, <2>3
<1> HIDE DEF r
<1>3. NextPlace(s, sep, r) =
          IF at > Len(s) - (Len(sep) - 1) THEN r
          ELSE IF SubSeq(s, at, next - 1) = sep
          THEN [at |-> next, start |-> next, slots |-> room,
                tokens |-> Append(tokens, SubSeq(s, start, at - 1))]
          ELSE [r EXCEPT !.at = at + 1, !.slots = room]
  BY <1>1 DEF NextPlace
<1>4. [at |-> next, start |-> next, slots |-> room,
       tokens |-> Append(tokens, SubSeq(s, start, at - 1))]
          = Place(next, next, Append(tokens, SubSeq(s, start, at - 1)), room)
  BY DEF Place
<1> QED
  BY <1>2, <1>3, <1>4 DEF r

(* y is x with one more text at its end: with a separator behind each, the texts of x come
   to v, and those of y to v and the new one. *)
FlatGrows(S, x, u, sep, y, v) ==
    /\ x \in Seq(Seq(S)) /\ u \in Seq(S) /\ sep \in Seq(S)
    /\ y = Append(x, u) /\ FlattenSeq(Followed(x, sep)) = v
    => FlattenSeq(Followed(y, sep)) = v \o (u \o sep)

LEMMA FollowedFlat ==
    ASSUME NEW S, NEW x, NEW u, NEW sep, NEW y, NEW v
    PROVE  FlatGrows(S, x, u, sep, y, v)
<1> SUFFICES ASSUME x \in Seq(Seq(S)), u \in Seq(S), sep \in Seq(S), y = Append(x, u),
                    FlattenSeq(Followed(x, sep)) = v
             PROVE  FlattenSeq(Followed(y, sep)) = v \o (u \o sep)
  BY DEF FlatGrows
<1>1. u \o sep \in Seq(S)
  BY ConcatProperties
<1>2. Followed(x, sep) \in Seq(Seq(S)) /\ Followed(y, sep) = Append(Followed(x, sep), u \o sep)
  BY FollowedAppend
<1> QED
  BY <1>1, <1>2, FlattenAppend

(* A token and the separator behind it, one more byte without a separator. *)
LEMMA TokenTaken ==
    ASSUME NEW S, NEW s \in Seq(S), NEW sep \in Seq(S), sep # <<>>,
           NEW at, NEW start, NEW tokens, NEW slots,
           SplitUpTo(S, s, sep, at, start, tokens, slots),
           at =< Len(s) - (Len(sep) - 1),
           NEW next, next = at + Len(sep), SubSeq(s, at, next - 1) = sep,
           NEW room, room = IF slots < Len(tokens) + 2 THEN 2 * slots ELSE slots
    PROVE  SplitUpTo(S, s, sep, next, next, Append(tokens, SubSeq(s, start, at - 1)), room)
<1> DEFINE u == SubSeq(s, start, at - 1)
           l == Len(sep)
           n == Len(s)
           more == Append(tokens, u)
<1>1. /\ at \in 1 .. n + 1 /\ start \in 1 .. at /\ slots \in Nat
      /\ tokens \in Seq(Seq(S)) /\ Len(tokens) + 1 =< slots /\ Len(tokens) \in Nat
      /\ FlattenSeq(Followed(tokens, sep)) = SubSeq(s, 1, start - 1)
      /\ \A i \in 1 .. Len(tokens) : ~HasPart(tokens[i], sep)
      /\ NoneFrom(s, sep, start, at - 1)
  <2>1. tokens \in Seq(Seq(S))
    BY DEF SplitUpTo
  <2> QED
    BY <2>1, LenProperties DEF SplitUpTo
<1>2. l \in Nat /\ l >= 1 /\ n \in Nat
  BY EmptySeq
<1>3. next \in 1 .. n + 1 /\ at - 1 \in 0 .. n /\ start \in 1 .. n + 1 /\ at - 1 \in start - 1 .. n
  BY <1>1, <1>2
<1>4. u \in Seq(S)
  BY <1>3, SliceText
<1>5. ~HasPart(u, sep)
  <2>1. start =< (at - 1) + 1 /\ at - 1 \in Int /\ (at - 1) - Len(sep) < at - 1
    BY <1>1, <1>2
  <2> QED
    BY <1>1, <1>3, <2>1, NoPart
<1> HIDE DEF u
<1>6. /\ more \in Seq(Seq(S)) /\ Len(more) = Len(tokens) + 1 /\ more[Len(tokens) + 1] = u
      /\ \A i \in 1 .. Len(tokens) : more[i] = tokens[i]
  BY <1>1, <1>4, AppendProperties
<1>7. FlattenSeq(Followed(more, sep)) = SubSeq(s, 1, next - 1)
  <2> DEFINE v == SubSeq(s, 1, start - 1)
  <2>1. more = Append(tokens, u) /\ FlattenSeq(Followed(tokens, sep)) = v
    BY <1>1
  <2> HIDE DEF more, v
  <2>2. FlattenSeq(Followed(more, sep)) = v \o (u \o sep)
    <3>1. FlatGrows(S, tokens, u, sep, more, v)
      BY FollowedFlat
    <3>2. tokens \in Seq(Seq(S)) /\ u \in Seq(S) /\ sep \in Seq(S)
      BY <1>1, <1>4
    <3> QED
      BY <2>1, <3>1, <3>2 DEF FlatGrows
  <2>3. u \o sep = SubSeq(s, start, next - 1)
    <3>1. SubSeq(s, start, at - 1) \o SubSeq(s, (at - 1) + 1, next - 1) = SubSeq(s, start, next - 1)
      <4>1. next - 1 \in at - 1 .. n
        BY <1>1, <1>2, <1>3
      <4> HIDE DEF n
      <4> QED
        BY <1>3, <4>1, ConcatAdjacentSubSeq DEF n
    <3>2. (at - 1) + 1 = at
      BY <1>1
    <3> QED
      BY <3>1, <3>2 DEF u
  <2>4. SubSeq(s, 1, start - 1) \o SubSeq(s, (start - 1) + 1, next - 1) = SubSeq(s, 1, next - 1)
    <3>1. /\ 1 \in 1 .. n + 1 /\ start - 1 \in 1 - 1 .. n /\ next - 1 \in start - 1 .. n
      BY <1>1, <1>2, <1>3
    <3> QED
      BY <3>1, ConcatAdjacentSubSeq
  <2>5. (start - 1) + 1 = start
    BY <1>1
  <2> QED
    BY <2>2, <2>3, <2>4, <2>5 DEF v
<1>8. room \in Nat /\ Len(more) + 1 =< room
  BY <1>1, <1>6, SMTT(30)
<1>9. \A i \in 1 .. Len(more) : ~HasPart(more[i], sep)
  <2> TAKE i \in 1 .. Len(more)
  <2>1. CASE i = Len(tokens) + 1
    BY <1>5, <1>6, <2>1
  <2>2. CASE i # Len(tokens) + 1
    <3>1. i \in 1 .. Len(tokens)
      BY <1>1, <1>6, <2>2, SMTT(30)
    <3> QED
      BY <1>1, <1>6, <3>1
  <2> QED
    BY <2>1, <2>2
<1>10. NoneFrom(s, sep, next, next - 1)
  BY <1>3 DEF NoneFrom
<1> HIDE DEF more
<1>11. next \in 1 .. next
  BY <1>3
<1>12. SplitUpTo(S, s, sep, next, next, more, room)
  BY <1>3, <1>6, <1>7, <1>8, <1>9, <1>10, <1>11 DEF SplitUpTo
<1> QED
  BY <1>12 DEF more, u

LEMMA SplitStep ==
    ASSUME NEW S, NEW s \in Seq(S), NEW sep \in Seq(S), sep # <<>>, NEW k \in Nat,
           NEW at, NEW start, NEW tokens, NEW slots,
           SplitUpTo(S, s, sep, at, start, tokens, slots), FarAfter(s, sep, k, at)
    PROVE  \E at2, start2, tokens2, slots2 :
               /\ NextPlace(s, sep, Place(at, start, tokens, slots))
                      = Place(at2, start2, tokens2, slots2)
               /\ SplitUpTo(S, s, sep, at2, start2, tokens2, slots2)
               /\ FarAfter(s, sep, k + 1, at2)
<1>1. /\ at \in 1 .. Len(s) + 1 /\ start \in 1 .. at /\ slots \in Nat
      /\ tokens \in Seq(Seq(S)) /\ Len(tokens) + 1 =< slots
      /\ NoneFrom(s, sep, start, at - 1)
  BY DEF SplitUpTo
<1>2. Len(sep) \in Nat /\ Len(sep) >= 1 /\ Len(s) \in Nat /\ Len(tokens) \in Nat
  BY <1>1, EmptySeq, LenProperties
<1>3. PICK next, room : /\ next = at + Len(sep)
                        /\ room = IF slots < Len(tokens) + 2 THEN 2 * slots ELSE slots
  OBVIOUS
<1> DEFINE r == NextPlace(s, sep, Place(at, start, tokens, slots))
           u == SubSeq(s, start, at - 1)
<1>4. r = IF at > Len(s) - (Len(sep) - 1) THEN Place(at, start, tokens, slots)
          ELSE IF SubSeq(s, at, next - 1) = sep
          THEN Place(next, next, Append(tokens, u), room)
          ELSE Place(at + 1, start, tokens, room)
  BY <1>3, PlaceNext
<1> HIDE DEF r, u
<1>5. CASE at > Len(s) - (Len(sep) - 1)
  <2>1. FarAfter(s, sep, k + 1, at)
    BY <1>5 DEF FarAfter
  <2>2. r = Place(at, start, tokens, slots)
    BY <1>4, <1>5
  <2> QED
    BY <2>1, <2>2 DEF r
<1>6. CASE ~(at > Len(s) - (Len(sep) - 1)) /\ SubSeq(s, at, next - 1) = sep
  <2>1. r = Place(next, next, Append(tokens, u), room)
    BY <1>4, <1>6
  <2>2. at =< Len(s) - (Len(sep) - 1)
    BY <1>1, <1>2, <1>6
  <2>3. SplitUpTo(S, s, sep, next, next, Append(tokens, SubSeq(s, start, at - 1)), room)
    BY <1>3, <1>6, <2>2, TokenTaken
  <2>4. FarAfter(s, sep, k + 1, next)
    BY <1>1, <1>2, <1>3, <2>2 DEF FarAfter
  <2> QED
    BY <2>1, <2>3, <2>4 DEF r, u
<1>7. CASE ~(at > Len(s) - (Len(sep) - 1)) /\ SubSeq(s, at, next - 1) # sep
  <2>1. r = Place(at + 1, start, tokens, room)
    BY <1>4, <1>7
  <2>2. at + 1 \in 1 .. Len(s) + 1 /\ start \in 1 .. at + 1
    BY <1>1, <1>2, <1>7
  <2>3. room \in Nat /\ Len(tokens) + 1 =< room
    BY <1>1, <1>2, <1>3
  <2>4. NoneFrom(s, sep, start, (at + 1) - 1)
    <3> SUFFICES ASSUME NEW p \in start .. (at + 1) - 1
                 PROVE  SubSeq(s, p, p + (Len(sep) - 1)) # sep
      BY DEF NoneFrom
    <3>1. CASE p = at
      <4>1. at + (Len(sep) - 1) = next - 1
        BY <1>1, <1>2, <1>3
      <4> QED
        BY <1>7, <3>1, <4>1
    <3>2. CASE p # at
      <4>1. p \in start .. at - 1
        BY <1>1, <3>2
      <4> QED
        BY <1>1, <4>1 DEF NoneFrom
    <3> QED
      BY <3>1, <3>2
  <2>5. SplitUpTo(S, s, sep, at + 1, start, tokens, room)
    BY <2>2, <2>3, <2>4 DEF SplitUpTo
  <2>6. FarAfter(s, sep, k + 1, at + 1)
    BY <1>1, <1>2, <1>7 DEF FarAfter
  <2> QED
    BY <2>1, <2>5, <2>6 DEF r
<1> QED
  BY <1>5, <1>6, <1>7

LEMMA SplitTo ==
    ASSUME NEW S, NEW s \in Seq(S), NEW sep \in Seq(S), sep # <<>>, NEW n \in Nat
    PROVE  \E at, start, tokens, slots :
               /\ Places(s, sep)[n] = Place(at, start, tokens, slots)
               /\ SplitUpTo(S, s, sep, at, start, tokens, slots) /\ FarAfter(s, sep, n, at)
<1> DEFINE Is(k) == \E at, start, tokens, slots :
               /\ Places(s, sep)[k] = Place(at, start, tokens, slots)
               /\ SplitUpTo(S, s, sep, at, start, tokens, slots) /\ FarAfter(s, sep, k, at)
           T == {k \in Nat : Is(k)}
<1>1. Is(0)
  BY PlacesSteps, SplitBegins
<1>2. ASSUME NEW k \in Nat, Is(k) PROVE Is(k + 1)
  <2>1. PICK at, start, tokens, slots :
            /\ Places(s, sep)[k] = Place(at, start, tokens, slots)
            /\ SplitUpTo(S, s, sep, at, start, tokens, slots) /\ FarAfter(s, sep, k, at)
    BY <1>2
  <2>2. Places(s, sep)[k + 1] = NextPlace(s, sep, Place(at, start, tokens, slots))
    BY <2>1, PlacesSteps, ZenonT(60)
  <2>3. PICK at2, start2, tokens2, slots2 :
            /\ NextPlace(s, sep, Place(at, start, tokens, slots))
                   = Place(at2, start2, tokens2, slots2)
            /\ SplitUpTo(S, s, sep, at2, start2, tokens2, slots2)
            /\ FarAfter(s, sep, k + 1, at2)
    BY <2>1, SplitStep
  <2>4. Places(s, sep)[k + 1] = Place(at2, start2, tokens2, slots2)
    BY <2>2, <2>3
  <2> QED
    BY <2>3, <2>4
<1> HIDE DEF Is
<1>3. 0 \in T /\ \A k \in Nat : k \in T => k + 1 \in T
  BY <1>1, <1>2
<1> HIDE DEF T
<1>4. Nat \subseteq T
  BY <1>3, EveryNumber
<1>5. Is(n)
  BY <1>4 DEF T
<1> QED
  BY <1>5 DEF Is

(* Splitting at a separator and joining with it restores the text. *)
LEMMA SplitAndJoin ==
    ASSUME NEW S, NUL \notin S, NEW s \in Seq(S), NEW sep \in Seq(S), sep # <<>>
    PROVE  /\ Len(sdssplitlen(s, sep).tokens) =< sdssplitlen(s, sep).slots
           /\ sdssplitlen(s, sep).tokens \in Seq(Seq(S))
           /\ sdsjoin(sdssplitlen(s, sep).tokens, sep) = s
           /\ \A i \in DOMAIN sdssplitlen(s, sep).tokens :
                  ~HasPart(sdssplitlen(s, sep).tokens[i], sep)
<1> DEFINE n == Len(s)
           d == sdssplitlen(s, sep)
<1>0. n \in Nat /\ Len(sep) \in Nat /\ Len(sep) >= 1
  BY EmptySeq
<1>1. PICK at, start, tokens, slots :
          /\ Places(s, sep)[n] = Place(at, start, tokens, slots)
          /\ SplitUpTo(S, s, sep, at, start, tokens, slots) /\ FarAfter(s, sep, n, at)
  BY <1>0, SplitTo
<1> DEFINE u == SubSeq(s, start, n)
           r == Place(at, start, tokens, slots)
<1>2. /\ d.tokens = (IF s = <<>> THEN <<>> ELSE Append(tokens, u))
      /\ d.slots = slots
  <2>1. r.start = start /\ r.tokens = tokens /\ r.slots = slots
    BY DEF Place
  <2>2. Places(s, sep)[Len(s)] = r
    BY <1>1
  <2> HIDE DEF r
  <2> QED
    BY <2>1, <2>2 DEF sdssplitlen
<1> HIDE DEF d, r
<1>3. /\ at \in 1 .. n + 1 /\ start \in 1 .. at /\ slots \in Nat
      /\ tokens \in Seq(Seq(S)) /\ Len(tokens) + 1 =< slots
      /\ FlattenSeq(Followed(tokens, sep)) = SubSeq(s, 1, start - 1)
      /\ \A i \in 1 .. Len(tokens) : ~HasPart(tokens[i], sep)
      /\ NoneFrom(s, sep, start, at - 1)
  BY <1>1 DEF SplitUpTo
<1>4. n - Len(sep) < at - 1
  BY <1>0, <1>1, <1>3 DEF FarAfter
<1>5. CASE s = <<>>
  <2>1. d.tokens = <<>>
    BY <1>2, <1>5
  <2>2. Len(d.tokens) =< d.slots
    BY <1>2, <1>3, <2>1
  <2>3. sdsjoin(<<>>, sep) = <<>>
    <3> DEFINE e == [i \in DOMAIN <<>> |->
                        CString(<<>>[i]) \o (IF i # Len(<<>>) THEN CString(sep) ELSE <<>>)]
    <3>1. e \in Seq({}) /\ Len(e) = 0
      <4>1. DOMAIN <<>> = 1 .. 0
        OBVIOUS
      <4>2. e = [i \in 1 .. 0 |->
                     CString(<<>>[i]) \o (IF i # Len(<<>>) THEN CString(sep) ELSE <<>>)]
        BY <4>1
      <4>3. e \in [1 .. 0 -> {}]
        BY <4>2
      <4> HIDE DEF e
      <4> QED
        BY <4>3
    <3>2. sdsjoin(<<>>, sep) = FlattenSeq(e)
      BY DEF sdsjoin
    <3> HIDE DEF e
    <3>3. e = <<>>
      BY <3>1, EmptySeq
    <3> QED
      BY <3>2, <3>3, FlattenEmpty
  <2>4. DOMAIN <<>> = {}
    OBVIOUS
  <2>5. <<>> \in Seq(Seq(S))
    OBVIOUS
  <2> QED
    BY <1>5, <2>1, <2>2, <2>3, <2>4, <2>5 DEF d
<1>6. CASE s # <<>>
  <2> DEFINE more == Append(tokens, u)
  <2>1. d.tokens = more
    BY <1>2, <1>6
  <2>2. start \in 1 .. n + 1 /\ n \in 0 .. n /\ start =< n + 1
    BY <1>0, <1>3
  <2>3. u \in Seq(S)
    BY <2>2, SliceText
  <2>4. ~HasPart(u, sep)
    <3>1. at - 1 \in Int
      BY <1>3
    <3> QED
      BY <1>3, <1>4, <2>2, <3>1, NoPart
  <2>5. SubSeq(s, 1, start - 1) \o u = s
    <3>1. 1 \in 1 .. n + 1 /\ start - 1 \in 1 - 1 .. n /\ n \in start - 1 .. n
      BY <1>0, <1>3
    <3>2. SubSeq(s, 1, start - 1) \o SubSeq(s, (start - 1) + 1, n) = SubSeq(s, 1, n)
      BY <3>1, ConcatAdjacentSubSeq
    <3>3. (start - 1) + 1 = start
      BY <1>3
    <3>4. SubSeq(s, 1, n) = s
      BY SubSeqFull
    <3> QED
      BY <3>2, <3>3, <3>4
  <2> HIDE DEF u
  <2>6. sdsjoin(more, sep) = s
    BY <1>3, <2>3, <2>5, Joined
  <2>7. /\ more \in Seq(Seq(S)) /\ Len(more) = Len(tokens) + 1 /\ more[Len(tokens) + 1] = u
        /\ \A i \in 1 .. Len(tokens) : more[i] = tokens[i]
    BY <1>3, <2>3, AppendProperties
  <2>8. Len(tokens) \in Nat /\ DOMAIN more = 1 .. Len(tokens) + 1
    BY <1>3, <2>7, LenProperties
  <2>9. \A i \in 1 .. Len(tokens) + 1 : ~HasPart(more[i], sep)
    <3> TAKE i \in 1 .. Len(tokens) + 1
    <3>1. CASE i = Len(tokens) + 1
      BY <2>4, <2>7, <3>1
    <3>2. CASE i # Len(tokens) + 1
      <4>1. i \in 1 .. Len(tokens)
        BY <2>8, <3>2
      <4> QED
        BY <1>3, <2>7, <4>1
    <3> QED
      BY <3>1, <3>2
  <2> HIDE DEF more
  <2>10. Len(more) =< slots
    BY <1>3, <2>7
  <2> QED
    BY <1>2, <2>1, <2>6, <2>7, <2>8, <2>9, <2>10 DEF d
<1> QED
  BY <1>5, <1>6

-----------------------------------------------------------------------------
(* A line without quotes. *)

Spaced(t) == Mapped(t, <<"LF", "CR", "HT">>, <<"SP", "SP", "SP">>)

WordsOf(x) == [i \in 1 .. Len(x) |-> IF x[i] = <<>> THEN <<>> ELSE <<x[i]>>]

(* A text whose words count. *)
Unmarked(t) == \A i \in 1 .. Len(t) : t[i] \notin {NUL, "DQ", "'", "FF", "VT"}

SpacedByte(c) == IF c \in {"LF", "CR", "HT"} THEN "SP" ELSE c

LEMMA SpacedText ==
    ASSUME NEW t \in Seq(Byte), Unmarked(t)
    PROVE  /\ Spaced(t) \in Seq(Char) /\ Len(Spaced(t)) = Len(t)
           /\ \A i \in 1 .. Len(t) : Spaced(t)[i] = SpacedByte(t[i])
<1> DEFINE from == <<"LF", "CR", "HT">>
           to == <<"SP", "SP", "SP">>
           First(c, i) == from[i] = c /\ \A j \in 1 .. i - 1 : from[j] # c
           At1(c) == CHOOSE i \in DOMAIN from : First(c, i)
           d(c) == IF Contains(from, c) THEN to[At1(c)] ELSE c
           w == Spaced(t)
<1>1. w = [n \in DOMAIN t |-> d(t[n])]
  BY DEF Spaced, Mapped
<1>2. /\ DOMAIN from = 1 .. 3 /\ Len(from) = 3 /\ from[1] = "LF" /\ from[2] = "CR" /\ from[3] = "HT"
      /\ \A i \in 1 .. 3 : to[i] = "SP"
  OBVIOUS
<1> HIDE DEF from, to
<1>3. ASSUME NEW c PROVE d(c) = SpacedByte(c)
  <2>1. CASE c \in {"LF", "CR", "HT"}
    <3>1. \E i \in DOMAIN from : First(c, i)
      <4>1. CASE c = "LF"
        <5>1. First(c, 1) /\ 1 \in DOMAIN from
          BY <1>2, <4>1
        <5> QED
          BY <5>1
      <4>2. CASE c = "CR"
        <5>1. First(c, 2) /\ 2 \in DOMAIN from
          BY <1>2, <4>2
        <5> QED
          BY <5>1
      <4>3. CASE c = "HT"
        <5>1. First(c, 3) /\ 3 \in DOMAIN from
          BY <1>2, <4>3
        <5> QED
          BY <5>1
      <4> QED
        BY <2>1, <4>1, <4>2, <4>3
    <3>2. At1(c) \in DOMAIN from /\ First(c, At1(c))
      <4> HIDE DEF First
      <4> QED
        BY <3>1, Zenon
    <3>3. Contains(from, c)
      BY <1>2, <2>1 DEF Contains
    <3> HIDE DEF At1
    <3>4. d(c) = "SP"
      BY <1>2, <3>2, <3>3
    <3> QED
      BY <2>1, <3>4 DEF SpacedByte
  <2>2. CASE c \notin {"LF", "CR", "HT"}
    <3>1. ~Contains(from, c)
      BY <1>2, <2>2 DEF Contains
    <3> QED
      BY <2>2, <3>1 DEF SpacedByte
  <2> QED
    BY <2>1, <2>2
<1> HIDE DEF d, w
<1>4. DOMAIN t = 1 .. Len(t) /\ Len(t) \in Nat
  BY LenProperties
<1>5. \A i \in 1 .. Len(t) : w[i] = SpacedByte(t[i])
  BY <1>1, <1>3, <1>4
<1>6. \A i \in 1 .. Len(t) : SpacedByte(t[i]) \in Char
  <2> TAKE i \in 1 .. Len(t)
  <2>1. t[i] \in Byte /\ t[i] # NUL
    BY ElementOfSeq DEF Unmarked
  <2>2. "SP" \in Char
    BY CharAssumption DEF Char, Named, Blank
  <2> QED
    BY <2>1, <2>2 DEF SpacedByte, Char
<1>7. w \in [1 .. Len(t) -> Char]
  BY <1>1, <1>4, <1>5, <1>6
<1>8. w \in Seq(Char) /\ Len(w) = Len(t)
  BY <1>4, <1>7
<1> QED
  BY <1>5, <1>8 DEF w

LEMMA WordsOfAppend ==
    ASSUME NEW S, NEW x \in Seq(S), NEW u \in S
    PROVE  /\ WordsOf(x) \in Seq(Seq(S))
           /\ WordsOf(Append(x, u)) = Append(WordsOf(x), IF u = <<>> THEN <<>> ELSE <<u>>)
<1> DEFINE y == Append(x, u)
           f(a) == IF a = <<>> THEN <<>> ELSE <<a>>
           e == WordsOf(x)
           v == WordsOf(y)
           w == Append(e, f(u))
           n == Len(x)
<1>1. /\ n \in Nat /\ y \in Seq(S) /\ Len(y) = n + 1 /\ y[n + 1] = u
      /\ \A i \in 1 .. n : y[i] = x[i]
  BY AppendProperties
<1>2. \A a \in S : f(a) \in Seq(S)
  OBVIOUS
<1> HIDE DEF y
<1>3. \A i \in 1 .. n : x[i] \in S
  BY ElementOfSeq
<1>4. \A i \in 1 .. n + 1 : y[i] \in S
  BY <1>1, ElementOfSeq
<1>5. e = [i \in 1 .. n |-> f(x[i])] /\ v = [i \in 1 .. n + 1 |-> f(y[i])]
  BY <1>1 DEF WordsOf
<1> HIDE DEF e, v, f
<1>6. e \in Seq(Seq(S)) /\ Len(e) = n /\ \A i \in 1 .. n : e[i] = f(x[i])
  <2>1. e \in [1 .. n -> Seq(S)] /\ \A i \in 1 .. n : e[i] = f(x[i])
    BY <1>2, <1>3, <1>5
  <2> QED
    BY <1>1, <2>1
<1>7. v \in Seq(Seq(S)) /\ Len(v) = n + 1 /\ \A i \in 1 .. n + 1 : v[i] = f(y[i])
  <2>1. v \in [1 .. n + 1 -> Seq(S)] /\ \A i \in 1 .. n + 1 : v[i] = f(y[i])
    BY <1>2, <1>4, <1>5
  <2> QED
    BY <1>1, <2>1
<1>8. /\ w \in Seq(Seq(S)) /\ Len(w) = n + 1 /\ w[n + 1] = f(u)
      /\ \A i \in 1 .. n : w[i] = e[i]
  BY <1>2, <1>6, AppendProperties
<1> HIDE DEF w, n
<1>9. \A i \in 1 .. n + 1 : v[i] = w[i]
  <2> TAKE i \in 1 .. n + 1
  <2>1. CASE i = n + 1
    BY <1>1, <1>7, <1>8, <2>1
  <2>2. CASE i # n + 1
    <3>1. i \in 1 .. n
      BY <1>1, <2>2
    <3> QED
      BY <1>1, <1>6, <1>7, <1>8, <3>1
  <2> QED
    BY <2>1, <2>2
<1>10. v = w
  BY <1>7, <1>8, <1>9, SeqEqual
<1> QED
  BY <1>6, <1>10 DEF e, v, w, y, f

(* One byte outside quotes. *)
LEMMA PlainByteRead ==
    ASSUME NEW s, NEW p \in Nat, NEW text, NEW argv, NEW mode \in {"blank", "token"},
           At(s, p) \notin {NUL, "DQ", "'", "FF", "VT"}
    PROVE  NextByte(s, State(p, mode, text, argv)) =
               IF At(s, p) \notin {"SP", "LF", "CR", "HT"}
               THEN State(p + 1, "token", Append(text, At(s, p)), argv)
               ELSE IF mode = "blank" THEN State(p + 1, "blank", text, argv)
               ELSE State(p + 1, "blank", <<>>, Append(argv, text))
<1>1. PICK r : r = State(p, mode, text, argv)
  OBVIOUS
<1>2. isspace(At(s, p)) <=> At(s, p) \in {"SP", "LF", "CR", "HT"}
  BY DEF isspace, Blank
<1>3. r.mode = mode
  BY <1>1, StateFields
<1>4. At(s, p) \notin {"SP", "LF", "CR", "HT"} =>
          Unquoted(s, r) = State(p + 1, "token", Append(text, At(s, p)), argv)
  BY <1>1, TokenGrows
<1>5. At(s, p) \in {"SP", "LF", "CR", "HT"} =>
          Unquoted(s, r) = State(p + 1, "blank", <<>>, Append(argv, text))
  BY <1>1, TokenStopsAtBlank
<1>6. mode = "token" => NextByte(s, r) = Unquoted(s, r)
  BY <1>3 DEF NextByte
<1>7. mode = "blank" =>
          NextByte(s, r) = IF At(s, p) \in {"SP", "LF", "CR", "HT"}
                           THEN State(p + 1, "blank", text, argv) ELSE Unquoted(s, r)
  <2> SUFFICES ASSUME mode = "blank"
               PROVE  NextByte(s, r) = IF At(s, p) \in {"SP", "LF", "CR", "HT"}
                           THEN State(p + 1, "blank", text, argv) ELSE Unquoted(s, r)
    OBVIOUS
  <2>1. r = State(p, "blank", text, argv) /\ At(s, p) # NUL
    BY <1>1
  <2>2. At(s, p) # NUL /\ isspace(At(s, p)) => NextByte(s, r) = State(p + 1, "blank", text, argv)
    BY <2>1, BlankNext
  <2>3. At(s, p) # NUL /\ ~isspace(At(s, p)) => NextByte(s, r) = Unquoted(s, r)
    BY <2>1, BlankNext
  <2> QED
    BY <1>2, <2>1, <2>2, <2>3
<1>8. CASE mode = "token"
  BY <1>1, <1>4, <1>5, <1>6, <1>8
<1>9. CASE mode = "blank"
  BY <1>1, <1>4, <1>7, <1>9
<1> QED
  BY <1>8, <1>9

(* After k bytes of t the reader has the words of the tokens and the begun token as its
   text, and sdssplitlen, in the text with spaces for the blanks, the tokens. *)
InStep(t, w, k, start, tokens, slots) ==
    /\ start \in 1 .. k + 1 /\ tokens \in Seq(Seq(Char))
    /\ Places(w, <<"SP">>)[k] = Place(k + 1, start, tokens, slots)
    /\ Readings(t)[k] = State(k + 1, IF SubSeq(w, start, k) = <<>> THEN "blank" ELSE "token",
                              SubSeq(w, start, k), FlattenSeq(WordsOf(tokens)))

LEMMA WordsStep ==
    ASSUME NEW t \in Seq(Byte), Unmarked(t), NEW w, w = Spaced(t),
           NEW k \in Nat, k + 1 =< Len(t), NEW start, NEW tokens, NEW slots,
           InStep(t, w, k, start, tokens, slots)
    PROVE  \E start2, tokens2, slots2 : InStep(t, w, k + 1, start2, tokens2, slots2)
<1> DEFINE at == k + 1
           u == SubSeq(w, start, k)
           argv == FlattenSeq(WordsOf(tokens))
           mode == IF u = <<>> THEN "blank" ELSE "token"
           b == t[k + 1]
<1>1. /\ w \in Seq(Char) /\ Len(w) = Len(t) /\ Len(t) \in Nat /\ at \in 1 .. Len(t)
      /\ w[at] = SpacedByte(b)
  <2>1. at \in 1 .. Len(t) /\ Len(t) \in Nat
    OBVIOUS
  <2> QED
    BY <2>1, SpacedText
<1>2. b \notin {NUL, "DQ", "'", "FF", "VT"} /\ At(t, at) = b
  BY <1>1, AtPlace DEF Unmarked
<1>3. /\ start \in 1 .. k + 1 /\ tokens \in Seq(Seq(Char))
      /\ Places(w, <<"SP">>)[k] = Place(at, start, tokens, slots)
      /\ Readings(t)[k] = State(at, mode, u, argv)
  BY DEF InStep
<1>4. u \in Seq(Char) /\ Len(u) = (k - start) + 1
  <2>1. start \in 1 .. Len(w) + 1 /\ k \in 0 .. Len(w) /\ start =< k + 1
    BY <1>1, <1>3
  <2> QED
    BY <1>1, <2>1, SliceText
<1>5. PICK room : room = IF slots < Len(tokens) + 2 THEN 2 * slots ELSE slots
  OBVIOUS
<1>6. Places(w, <<"SP">>)[k + 1] =
          IF w[at] = "SP" THEN Place(k + 2, k + 2, Append(tokens, u), room)
          ELSE Place(k + 2, start, tokens, room)
  <2>1. PICK sep, next : sep = <<"SP">> /\ next = at + 1
    OBVIOUS
  <2>2. Len(sep) = 1
    BY <2>1
  <2>3. Places(w, sep)[k + 1] = NextPlace(w, sep, Place(at, start, tokens, slots))
    BY <1>3, <2>1, PlacesSteps
  <2>4. next = at + Len(sep)
    BY <2>1, <2>2
  <2> HIDE DEF at
  <2>5. NextPlace(w, sep, Place(at, start, tokens, slots)) =
            IF at > Len(w) - (Len(sep) - 1) THEN Place(at, start, tokens, slots)
            ELSE IF SubSeq(w, at, next - 1) = sep
            THEN Place(next, next, Append(tokens, SubSeq(w, start, at - 1)), room)
            ELSE Place(at + 1, start, tokens, room)
    BY <1>5, <2>4, PlaceNext, SMTT(30)
  <2>6. ~(at > Len(w) - (Len(sep) - 1)) /\ next - 1 = at /\ at - 1 = k /\ next = k + 2
        /\ at + 1 = k + 2
    BY <1>1, <2>1, <2>2 DEF at
  <2>7. SubSeq(w, at, at) = sep <=> w[at] = "SP"
    <3>1. SubSeq(w, at, at) \in Seq(Char) /\ Len(SubSeq(w, at, at)) = 1
          /\ SubSeq(w, at, at)[1] = w[at]
      <4>1. at \in Int /\ \A i \in at .. at : w[i] \in Char
        BY <1>1, ElementOfSeq
      <4>2. /\ SubSeq(w, at, at) \in Seq(Char)
            /\ Len(SubSeq(w, at, at)) = IF at <= at THEN at - at + 1 ELSE 0
            /\ \A i \in 1 .. at - at + 1 : SubSeq(w, at, at)[i] = w[at + i - 1]
        BY <4>1, SubSeqProperties
      <4>3. 1 \in 1 .. at - at + 1 /\ at + 1 - 1 = at
        BY <1>1
      <4> QED
        BY <4>2, <4>3
    <3> DEFINE v == SubSeq(w, at, at)
    <3>2. sep \in Seq({"SP"}) /\ sep[1] = "SP"
      BY <2>1
    <3> HIDE DEF v
    <3>3. v[1] = "SP" => v = sep
      <4> SUFFICES ASSUME v[1] = "SP" PROVE v = sep
        OBVIOUS
      <4>1. "SP" \in Char
        BY CharAssumption DEF Char, Named, Blank
      <4>2. sep \in Seq(Char)
        BY <2>1, <4>1
      <4>3. \A i \in 1 .. Len(v) : v[i] = sep[i]
        BY <3>1, <3>2 DEF v
      <4> QED
        BY <2>2, <3>1, <4>2, <4>3, SeqEqual DEF v
    <3> QED
      BY <3>1, <3>2, <3>3 DEF v
  <2> QED
    BY <2>1, <2>3, <2>5, <2>6, <2>7
<1> HIDE DEF u, argv, mode
<1>7. /\ mode \in {"blank", "token"} /\ (mode = "blank" <=> u = <<>>)
  BY DEF mode
<1>8. Readings(t)[k + 1] =
          IF b \notin {"SP", "LF", "CR", "HT"}
          THEN State(k + 2, "token", Append(u, b), argv)
          ELSE IF mode = "blank" THEN State(k + 2, "blank", u, argv)
          ELSE State(k + 2, "blank", <<>>, Append(argv, u))
  <2>1. Readings(t)[k + 1] = NextByte(t, State(at, mode, u, argv))
    BY <1>3, ReadingsSteps
  <2>2. at \in Nat /\ at + 1 = k + 2
    OBVIOUS
  <2> HIDE DEF at, b
  <2>3. NextByte(t, State(at, mode, u, argv)) =
            IF At(t, at) \notin {"SP", "LF", "CR", "HT"}
            THEN State(at + 1, "token", Append(u, At(t, at)), argv)
            ELSE IF mode = "blank" THEN State(at + 1, "blank", u, argv)
            ELSE State(at + 1, "blank", <<>>, Append(argv, u))
    BY <1>2, <1>7, <2>2, PlainByteRead
  <2> QED
    BY <1>2, <2>1, <2>2, <2>3
<1> HIDE DEF b
<1>9. CASE b \in {"SP", "LF", "CR", "HT"}
  <2> DEFINE more == Append(tokens, u)
  <2>1. Places(w, <<"SP">>)[k + 1] = Place(k + 2, k + 2, more, room)
    BY <1>1, <1>6, <1>9 DEF SpacedByte
  <2>2. more \in Seq(Seq(Char))
    BY <1>3, <1>4, AppendProperties
  <2>3. SubSeq(w, k + 2, k + 1) = <<>>
    <3>1. k + 2 \in Int /\ k + 1 \in Int /\ k + 1 < k + 2
      OBVIOUS
    <3> QED
      BY <3>1, SubSeqEmpty
  <2>4. FlattenSeq(WordsOf(more)) = IF u = <<>> THEN argv ELSE Append(argv, u)
    <3>1. PICK S : S = Seq(Char)
      OBVIOUS
    <3>2. tokens \in Seq(S) /\ u \in S
      BY <1>3, <1>4, <3>1
    <3>3. /\ WordsOf(tokens) \in Seq(Seq(S))
          /\ WordsOf(more) = Append(WordsOf(tokens), IF u = <<>> THEN <<>> ELSE <<u>>)
      BY <3>2, WordsOfAppend
    <3>4. PICK x : x = IF u = <<>> THEN <<>> ELSE <<u>>
      OBVIOUS
    <3>5. x \in Seq(S)
      BY <3>2, <3>4
    <3>6. argv \in Seq(S) /\ FlattenSeq(Append(WordsOf(tokens), x)) = argv \o x
      BY <3>3, <3>5, FlattenAppend DEF argv
    <3>7. Append(argv, u) = argv \o <<u>> /\ argv \o <<>> = argv
      BY <3>2, <3>6, AppendIsConcat, ConcatEmptySeq
    <3> QED
      BY <3>3, <3>4, <3>6, <3>7
  <2>5. Readings(t)[k + 1] = State(k + 2, "blank", <<>>, IF u = <<>> THEN argv ELSE Append(argv, u))
    BY <1>7, <1>8, <1>9
  <2> HIDE DEF more
  <2>6. k + 2 \in 1 .. (k + 1) + 1 /\ (k + 1) + 1 = k + 2
    OBVIOUS
  <2>7. InStep(t, w, k + 1, k + 2, more, room)
    BY <2>1, <2>2, <2>3, <2>4, <2>5, <2>6 DEF InStep
  <2> QED
    BY <2>7
<1>10. CASE b \notin {"SP", "LF", "CR", "HT"}
  <2>1. w[at] = b /\ b # "SP"
    BY <1>1, <1>10 DEF SpacedByte
  <2>2. Places(w, <<"SP">>)[k + 1] = Place(k + 2, start, tokens, room)
    BY <1>6, <2>1
  <2> DEFINE v == SubSeq(w, start, k + 1)
  <2>3. v = Append(u, b)
    <3>1. start \in 1 .. Len(w) /\ k + 1 \in start .. Len(w) /\ (k + 1) - 1 = k
      BY <1>1, <1>3
    <3>2. SubSeq(w, start, k + 1) = SubSeq(w, start, (k + 1) - 1) \o <<w[k + 1]>>
      BY <1>1, <3>1, SubSeqRecursiveSecond
    <3>3. b \in Char
      BY <1>1, <2>1, ElementOfSeq
    <3>4. Append(u, b) = u \o <<b>>
      BY <1>4, <3>3, AppendIsConcat
    <3> QED
      BY <2>1, <3>1, <3>2, <3>4 DEF u
  <2>4. v # <<>>
    <3>1. b \in Char
      BY <1>1, <2>1, ElementOfSeq
    <3>2. Append(u, b) # <<>>
      BY <1>4, <3>1, AppendProperties
    <3> QED
      BY <2>3, <3>2
  <2>5. Readings(t)[k + 1] = State(k + 2, "token", v, argv)
    BY <1>8, <1>10, <2>3
  <2>6. start \in 1 .. (k + 1) + 1 /\ (k + 1) + 1 = k + 2
    BY <1>3
  <2>7. InStep(t, w, k + 1, start, tokens, room)
    BY <1>3, <2>2, <2>4, <2>5, <2>6 DEF InStep, argv
  <2> QED
    BY <2>7
<1> QED
  BY <1>9, <1>10

(* A line without quotes is split into its words. *)
LEMMA WordsRead ==
    ASSUME NEW t \in Seq(Byte), Unmarked(t)
    PROVE  sdssplitargs(t) = [ok |-> TRUE, argv |-> Words(t)]
<1> DEFINE w == Spaced(t)
           n == Len(t)
           In(k) == \E start, tokens, slots : InStep(t, w, k, start, tokens, slots)
           T == {k \in Nat : k =< n => In(k)}
<1>1. n \in Nat /\ w \in Seq(Char) /\ Len(w) = n
  BY SpacedText
<1>2. In(0)
  <2>1. PICK sep, tokens : sep = <<"SP">> /\ tokens = <<>>
    OBVIOUS
  <2>2. Places(w, sep)[0] = Place(0 + 1, 1, tokens, SPLIT_SLOTS)
    <3>1. FirstPlace = Place(1, 1, <<>>, SPLIT_SLOTS)
      BY DEF FirstPlace, Place
    <3> QED
      BY <2>1, <3>1, PlacesSteps
  <2>3. SubSeq(w, 1, 0) = <<>>
    BY SubSeqEmpty
  <2>4. FlattenSeq(WordsOf(tokens)) = <<>> /\ tokens \in Seq(Seq(Char))
    <3>1. tokens \in Seq(Seq(Char)) /\ Len(tokens) = 0
      BY <2>1
    <3>2. WordsOf(tokens) = [i \in 1 .. 0 |-> IF tokens[i] = <<>> THEN <<>> ELSE <<tokens[i]>>]
      BY <3>1 DEF WordsOf
    <3>3. WordsOf(tokens) \in [1 .. 0 -> {}]
      BY <3>2
    <3>4. WordsOf(tokens) \in Seq({}) /\ Len(WordsOf(tokens)) = 0
      BY <3>3
    <3>5. WordsOf(tokens) = <<>>
      BY <3>4, EmptySeq
    <3> QED
      BY <3>1, <3>5, FlattenEmpty
  <2>5. Readings(t)[0] = State(0 + 1, "blank", <<>>, <<>>)
    BY ReadingsSteps, StateBegins
  <2>6. 1 \in 1 .. 0 + 1
    OBVIOUS
  <2>7. InStep(t, w, 0, 1, tokens, SPLIT_SLOTS)
    BY <2>1, <2>2, <2>3, <2>4, <2>5, <2>6 DEF InStep
  <2> QED
    BY <2>7
<1>3. ASSUME NEW k \in Nat, k + 1 =< n, In(k) PROVE In(k + 1)
  <2>1. PICK start, tokens, slots : InStep(t, w, k, start, tokens, slots)
    BY <1>3
  <2>2. PICK v : v = w
    OBVIOUS
  <2>3. v = Spaced(t) /\ InStep(t, v, k, start, tokens, slots)
    BY <2>1, <2>2
  <2> HIDE DEF w
  <2>4. \E start2, tokens2, slots2 : InStep(t, v, k + 1, start2, tokens2, slots2)
    BY <1>3, <2>3, WordsStep
  <2> QED
    BY <2>2, <2>4
<1> HIDE DEF In
<1>4. 0 \in T /\ \A k \in Nat : k \in T => k + 1 \in T
  BY <1>1, <1>2, <1>3
<1> HIDE DEF T
<1>5. Nat \subseteq T
  BY <1>4, EveryNumber
<1>6. In(n)
  BY <1>1, <1>5 DEF T
<1>7. PICK start, tokens, slots : InStep(t, w, n, start, tokens, slots)
  BY <1>6 DEF In
<1> DEFINE u == SubSeq(w, start, n)
           argv == FlattenSeq(WordsOf(tokens))
           mode == IF u = <<>> THEN "blank" ELSE "token"
           all == IF u = <<>> THEN argv ELSE Append(argv, u)
<1>8. /\ start \in 1 .. n + 1 /\ tokens \in Seq(Seq(Char))
      /\ Places(w, <<"SP">>)[n] = Place(n + 1, start, tokens, slots)
      /\ Readings(t)[n] = State(n + 1, mode, u, argv)
  BY <1>7 DEF InStep
<1>9. u \in Seq(Char)
  <2>1. start \in 1 .. Len(w) + 1 /\ n \in 0 .. Len(w) /\ start =< n + 1
    BY <1>1, <1>8
  <2> QED
    BY <1>1, <2>1, SliceText
<1>10. mode \in {"blank", "token"} /\ (mode = "blank" <=> u = <<>>)
  BY DEF mode
<1> HIDE DEF w, n, u, mode
<1>11. sdssplitargs(t) = [ok |-> TRUE, argv |-> all]
  <2>1. CString(t) = t /\ t \in Seq(Char)
    <3>1. t \in Seq(Char) /\ NUL \notin Char
      <4>1. \A i \in 1 .. Len(t) : t[i] \in Char
        BY ElementOfSeq DEF Unmarked, Char
      <4>2. t = [i \in 1 .. Len(t) |-> t[i]] /\ Len(t) \in Nat
        BY LenProperties
      <4>3. t \in [1 .. Len(t) -> Char]
        BY <4>1, <4>2
      <4>4. NUL \notin Char
        BY DEF Char
      <4> QED
        BY <4>2, <4>3, <4>4
    <3> QED
      BY <3>1, WholeText
  <2>2. Reaches(t, State(n + 1, mode, u, argv))
    <3>1. State(n + 1, mode, u, argv).p = n + 1
      BY StateFields
    <3>2. n + 1 \in Nat /\ n < n + 1
      BY <1>1
    <3> QED
      BY <1>1, <1>8, <3>1, <3>2 DEF Reaches
  <2>3. Reaches(CString(t), State(Len(CString(t)) + 1, mode, u, argv))
    BY <2>1, <2>2 DEF n
  <2> HIDE DEF argv
  <2>4. sdssplitargs(t) = [ok |-> TRUE, argv |-> IF mode = "blank" THEN argv ELSE Append(argv, u)]
    BY <1>10, <2>1, <2>3, LineRead
  <2> QED
    BY <1>10, <2>4
<1>12. Words(t) = all
  <2> DEFINE given == sdssplitlen(w, <<"SP">>).tokens
  <2>1. given = IF w = <<>> THEN <<>> ELSE Append(tokens, u)
    <3>1. PICK sep : sep = <<"SP">>
      OBVIOUS
    <3>2. PICK r : r = Place(n + 1, start, tokens, slots)
      OBVIOUS
    <3>3. r.start = start /\ r.tokens = tokens
      BY <3>2 DEF Place
    <3>4. Places(w, sep)[Len(w)] = r /\ sep # <<>>
      BY <1>1, <1>8, <3>1, <3>2
    <3>5. sdssplitlen(w, sep).tokens = IF w = <<>> THEN <<>> ELSE Append(tokens, SubSeq(w, start, Len(w)))
      BY <3>3, <3>4 DEF sdssplitlen
    <3> QED
      BY <1>1, <3>1, <3>5 DEF u
  <2>2. given \in Seq(Seq(Char))
    <3>1. Append(tokens, u) \in Seq(Seq(Char))
      BY <1>8, <1>9, AppendProperties
    <3>2. <<>> \in Seq(Seq(Char))
      OBVIOUS
    <3> HIDE DEF given
    <3> QED
      BY <2>1, <3>1, <3>2
  <2> HIDE DEF given
  <2>3. Words(t) = FlattenSeq(WordsOf(given))
    <3>1. Words(t) = FlattenSeq([i \in DOMAIN given |-> IF given[i] = <<>> THEN <<>> ELSE <<given[i]>>])
      BY DEF Words, given, w, Spaced
    <3>2. DOMAIN given = 1 .. Len(given)
      BY <2>2, LenProperties
    <3> QED
      BY <3>1, <3>2 DEF WordsOf
  <2>4. PICK S : S = Seq(Char)
    OBVIOUS
  <2>5. tokens \in Seq(S) /\ u \in S
    BY <1>8, <1>9, <2>4
  <2>6. FlattenSeq(WordsOf(Append(tokens, u))) = all
    <3>1. /\ WordsOf(tokens) \in Seq(Seq(S))
          /\ WordsOf(Append(tokens, u)) = Append(WordsOf(tokens), IF u = <<>> THEN <<>> ELSE <<u>>)
      BY <2>5, WordsOfAppend
    <3>2. PICK x : x = IF u = <<>> THEN <<>> ELSE <<u>>
      OBVIOUS
    <3>3. x \in Seq(S)
      BY <2>5, <3>2
    <3>4. argv \in Seq(S) /\ FlattenSeq(Append(WordsOf(tokens), x)) = argv \o x
      BY <3>1, <3>3, FlattenAppend
    <3> HIDE DEF argv
    <3>5. Append(argv, u) = argv \o <<u>> /\ argv \o <<>> = argv
      BY <2>5, <3>4, AppendIsConcat, ConcatEmptySeq
    <3> QED
      BY <3>1, <3>2, <3>4, <3>5
  <2>7. CASE w # <<>>
    BY <2>1, <2>3, <2>6, <2>7
  <2>8. CASE w = <<>>
    <3>1. n = 0
      BY <1>1, <2>8, EmptySeq
    <3>2. Readings(t)[0] = State(1, "blank", <<>>, <<>>)
      BY ReadingsSteps, StateBegins
    <3>3. State(n + 1, mode, u, argv) = State(1, "blank", <<>>, <<>>)
      BY <1>8, <3>1, <3>2
    <3> HIDE DEF argv
    <3>4. u = <<>> /\ argv = <<>>
      <4>1. /\ State(n + 1, mode, u, argv).text = u /\ State(n + 1, mode, u, argv).argv = argv
            /\ State(1, "blank", <<>>, <<>>).text = <<>> /\ State(1, "blank", <<>>, <<>>).argv = <<>>
        BY StateFields
      <4> QED
        BY <3>3, <4>1
    <3>5. given = <<>>
      BY <2>1, <2>8
    <3>6. FlattenSeq(WordsOf(<<>>)) = <<>>
      <4>1. WordsOf(given) = [i \in 1 .. 0 |-> IF given[i] = <<>> THEN <<>> ELSE <<given[i]>>]
        BY <3>5 DEF WordsOf
      <4>2. WordsOf(given) \in [1 .. 0 -> {}]
        BY <4>1
      <4>3. WordsOf(given) \in Seq({}) /\ Len(WordsOf(given)) = 0
        BY <4>2
      <4>4. WordsOf(given) = <<>>
        BY <4>3, EmptySeq
      <4> QED
        BY <3>5, <4>4, FlattenEmpty
    <3> QED
      BY <2>3, <3>4, <3>5, <3>6
  <2> QED
    BY <2>7, <2>8
<1> QED
  BY <1>11, <1>12

(* Quoting and splitting, splitting and joining restore every text the string can hold. *)
THEOREM ReadsBack == Spec => []RoundTrips
<1>1. IInv => RoundTrips
  <2> SUFFICES ASSUME IInv PROVE RoundTrips
    OBVIOUS
  <2> DEFINE t == Content(m)
  <2>1. t \in Seq(Byte)
    <3>1. CASE m = NoString(0)
      <4>1. m.len = 0
        BY <3>1 DEF NoString
      <4>2. SubSeq(m.buf, 1, 0) = <<>>
        BY SubSeqEmpty
      <4> QED
        BY <4>1, <4>2 DEF Content
    <3>2. CASE Exact(m)
      BY <3>2, ContentBytes
    <3> QED
      BY <3>1, <3>2 DEF IInv
  <2> HIDE DEF t
  <2>2. ASSUME NEW u \in Arg
        PROVE  sdssplitargs(sdsjoin(<<Quote(t), Quote(u)>>, <<"SP">>))
                   = [ok |-> TRUE, argv |-> <<t, u>>]
    <3>1. u \in Seq(Byte)
      BY TextAssumption
    <3> QED
      BY <2>1, <3>1, QuotesReadBack
  <2>3. DOMAIN t = 1 .. Len(t) /\ Len(t) \in Nat /\ ToSet(t) = {t[i] : i \in 1 .. Len(t)}
    BY <2>1, LenProperties DEF ToSet
  <2>4. ASSUME NUL \notin ToSet(t), NEW sep \in Separator
        PROVE  /\ Len(sdssplitlen(t, sep).tokens) =< sdssplitlen(t, sep).slots
               /\ sdsjoin(sdssplitlen(t, sep).tokens, sep) = t
               /\ \A i \in DOMAIN sdssplitlen(t, sep).tokens :
                      ~HasPart(sdssplitlen(t, sep).tokens[i], sep)
    <3>1. PICK S : S = Byte \ {NUL}
      OBVIOUS
    <3>2. sep \in Seq(S) /\ sep # <<>> /\ NUL \notin S
      BY <3>1, CharAssumption
    <3>3. t \in Seq(S)
      <4>1. \A i \in 1 .. Len(t) : t[i] \in S
        BY <2>1, <2>3, <2>4, <3>1, ElementOfSeq
      <4>2. t \in [1 .. Len(t) -> S]
        BY <2>1, <4>1, LenProperties
      <4> QED
        BY <2>3, <4>2
    <3> QED
      BY <3>2, <3>3, SplitAndJoin
  <2>5. ASSUME NUL \notin ToSet(t), "\\" \notin ToSet(t)
        PROVE  sdssplitargs(SingleQuote(t)) = [ok |-> TRUE, argv |-> <<t>>]
    <3>1. Showable("single", t)
      BY <2>3, <2>5 DEF Showable
    <3> QED
      BY <2>1, <3>1, SingleReadBack
  <2>6. ASSUME NUL \notin ToSet(t), ToSet(t) \cap {"DQ", "'", "FF", "VT"} = {}
        PROVE  sdssplitargs(t) = [ok |-> TRUE, argv |-> Words(t)]
    <3>1. Unmarked(t)
      BY <2>3, <2>6 DEF Unmarked
    <3> QED
      BY <2>1, <3>1, WordsRead
  <2> QED
    BY <2>2, <2>4, <2>5, <2>6 DEF RoundTrips, t
<1> QED
  BY <1>1, Invariance, PTL

=============================================================================
