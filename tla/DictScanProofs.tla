--------------------------- MODULE DictScanProofs ---------------------------
(***************************************************************************)
(* dictScan misses no key that stays in the dictionary while the iteration *)
(* lasts, if no resize makes the table less than half of one a cursor came *)
(* from: NothingMissed, for every width of a hash and all table sizes.     *)
(*                                                                         *)
(* The argument is about reversed cursors.  A call raises the reversed     *)
(* cursor to the next multiple of the reversed step, and a key whose       *)
(* reversed hash is at or above the reversed cursor is still to come.      *)
(***************************************************************************)
EXTENDS DictScan, WellFoundedInduction, TLAPS

-----------------------------------------------------------------------------
(* Induction over the numbers, for a set of them. *)
LEMMA AllNumbers ==
    ASSUME NEW T, 0 \in T, \A i \in Nat : i \in T => i + 1 \in T
    PROVE  Nat \subseteq T
<1> DEFINE Bad == Nat \ T
<1> SUFFICES ASSUME Bad # {} PROVE FALSE
  OBVIOUS
<1>1. PICK n \in Bad : \A i \in Bad : ~(<<i, n>> \in OpToRel(<, Nat))
  BY NatLessThanWellFounded, WFMin
<1>2. n \in Nat /\ n \notin T /\ n # 0
  BY <1>1
<1>3. n - 1 \in Nat /\ n - 1 < n
  BY <1>2
<1>4. n - 1 \in T
  BY <1>1, <1>3 DEF OpToRel
<1> QED
  BY <1>2, <1>3, <1>4

-----------------------------------------------------------------------------
(* Powers of two. *)

PowerFrom(g, i) == IF i = 0 THEN 1 ELSE 2 * g[i - 1]

PowerTo(g, k) == g = [i \in 0 .. k |-> PowerFrom(g, i)]

LEMMA PowerToExists == \A k \in Nat : \E g : PowerTo(g, k)
<1> DEFINE T == {k \in Nat : \E g : PowerTo(g, k)}
<1>1. 0 \in T
  <2> DEFINE h == [i \in 0 .. 0 |-> 1]
  <2>1. PowerTo(h, 0)
    BY DEF PowerTo, PowerFrom
  <2> QED
    BY <2>1
<1>2. ASSUME NEW k \in Nat, k \in T PROVE k + 1 \in T
  <2>1. PICK g : PowerTo(g, k)
    BY <1>2
  <2> DEFINE h == [i \in 0 .. k + 1 |-> PowerFrom(g, i)]
  <2>2. \A i \in 0 .. k : h[i] = g[i]
    BY <2>1 DEF PowerTo
  <2>3. \A i \in 0 .. k + 1 : PowerFrom(g, i) = PowerFrom(h, i)
    <3> HIDE DEF h
    <3> QED
      BY <2>2 DEF PowerFrom
  <2>4. PowerTo(h, k + 1)
    BY <2>3 DEF PowerTo
  <2> QED
    BY <2>4
<1> HIDE DEF T
<1>3. Nat \subseteq T
  BY <1>1, <1>2, AllNumbers
<1> QED
  BY <1>3 DEF T

LEMMA PowerToValue ==
    ASSUME NEW g, NEW k \in Nat, PowerTo(g, k), NEW i \in Nat, i =< k
    PROVE  g[i] = PowerFrom(g, i)
<1> DEFINE P(n) == PowerFrom(g, n)
<1>1. g = [n \in 0 .. k |-> P(n)]
  BY DEF PowerTo
<1>2. i \in 0 .. k
  OBVIOUS
<1> HIDE DEF P
<1>3. g[i] = P(i)
  BY <1>1, <1>2, Zenon
<1> QED
  BY <1>3 DEF P

LEMMA PowerToAgree ==
    ASSUME NEW g, NEW h, NEW j \in Nat, NEW k \in Nat, PowerTo(g, j), PowerTo(h, k)
    PROVE  \A i \in Nat : i =< j /\ i =< k => g[i] = h[i]
<1> DEFINE T == {i \in Nat : i =< j /\ i =< k => g[i] = h[i]}
<1>0. \A i \in Nat : (i =< j => g[i] = PowerFrom(g, i)) /\ (i =< k => h[i] = PowerFrom(h, i))
  BY PowerToValue
<1>1. 0 \in T
  BY <1>0 DEF PowerFrom
<1>2. ASSUME NEW i \in Nat, i \in T PROVE i + 1 \in T
  BY <1>0, <1>2 DEF PowerFrom
<1> HIDE DEF T
<1>3. Nat \subseteq T
  BY <1>1, <1>2, AllNumbers
<1> QED
  BY <1>3 DEF T

LEMMA PowerStep == \A i \in Nat : Pow2[i] = PowerFrom(Pow2, i)
<1> DEFINE Is(g) == g = [i \in Nat |-> PowerFrom(g, i)]
           To(i) == CHOOSE g : PowerTo(g, i)
           all == [i \in Nat |-> To(i)[i]]
<1>1. \A i \in Nat : PowerTo(To(i), i)
  BY PowerToExists, Zenon
<1> HIDE DEF To
<1>2. ASSUME NEW i \in Nat PROVE all[i] = PowerFrom(all, i)
  <2>1. all[i] = PowerFrom(To(i), i)
    BY <1>1 DEF PowerTo
  <2>2. i # 0 => To(i)[i - 1] = To(i - 1)[i - 1]
    BY <1>1, PowerToAgree
  <2>3. i # 0 => To(i)[i - 1] = all[i - 1]
    BY <2>2
  <2> HIDE DEF all
  <2> QED
    BY <2>1, <2>3 DEF PowerFrom
<1>3. Is(all)
  BY <1>2
<1>4. Pow2 = CHOOSE g : Is(g)
  BY DEF Pow2, PowerFrom
<1>5. Is(Pow2)
  BY <1>3, <1>4, Zenon
<1> QED
  BY <1>5

LEMMA Powers ==
    /\ Pow2[0] = 1
    /\ \A i \in Nat : Pow2[i] \in Nat \ {0} /\ Pow2[i + 1] = 2 * Pow2[i]
<1> DEFINE T == {i \in Nat : Pow2[i] \in Nat \ {0}}
<1>1. Pow2[0] = 1
  BY PowerStep DEF PowerFrom
<1>2. \A i \in Nat : Pow2[i + 1] = 2 * Pow2[i]
  <2> TAKE i \in Nat
  <2>1. i + 1 \in Nat /\ i + 1 # 0 /\ (i + 1) - 1 = i
    OBVIOUS
  <2>2. Pow2[i + 1] = PowerFrom(Pow2, i + 1)
    BY PowerStep, <2>1
  <2> QED
    BY <2>1, <2>2 DEF PowerFrom
<1>3. 0 \in T
  BY <1>1
<1>4. \A i \in Nat : i \in T => i + 1 \in T
  BY <1>2
<1> HIDE DEF T
<1>5. Nat \subseteq T
  BY <1>3, <1>4, AllNumbers
<1> QED
  BY <1>1, <1>2, <1>5 DEF T

LEMMA PowerSum == ASSUME NEW i \in Nat PROVE \A j \in Nat : Pow2[i + j] = Pow2[i] * Pow2[j]
<1> DEFINE T == {j \in Nat : Pow2[i + j] = Pow2[i] * Pow2[j]}
<1>1. 0 \in T
  BY Powers
<1>2. ASSUME NEW j \in Nat, j \in T PROVE j + 1 \in T
  <2> DEFINE a == Pow2[i]
             b == Pow2[j]
  <2>1. Pow2[i + (j + 1)] = 2 * Pow2[i + j] /\ Pow2[j + 1] = 2 * b /\ a \in Nat /\ b \in Nat
    <3>1. i + j \in Nat /\ i + (j + 1) = (i + j) + 1
      OBVIOUS
    <3> QED
      BY <3>1, Powers
  <2>2. Pow2[i + j] = a * b
    BY <1>2
  <2> HIDE DEF a, b
  <2>3. Pow2[i + (j + 1)] = a * Pow2[j + 1]
    BY <2>1, <2>2
  <2> QED
    BY <2>3 DEF a
<1> HIDE DEF T
<1>3. Nat \subseteq T
  BY <1>1, <1>2, AllNumbers
<1> QED
  BY <1>3 DEF T

-----------------------------------------------------------------------------
(* Quotients and remainders. *)

LEMMA Division ==
    ASSUME NEW n \in Nat, NEW m \in Nat \ {0}
    PROVE  n \div m \in Nat /\ n % m \in 0 .. m - 1 /\ n = m * (n \div m) + (n % m)
<1>1. n \div m \in Int /\ n % m \in 0 .. m - 1 /\ n = m * (n \div m) + (n % m)
  OBVIOUS
<1> DEFINE q == n \div m
           r == n % m
<1> HIDE DEF q, r
<1>2. q \in Int /\ r \in 0 .. m - 1 /\ n = m * q + r
  BY <1>1 DEF q, r
<1>3. q =< -1 => m * q =< -m
  BY <1>2
<1>4. q \in Nat
  BY <1>2, <1>3
<1> QED
  BY <1>1, <1>4 DEF q

LEMMA NoGreater == ASSUME NEW n \in Nat, NEW m \in Nat \ {0} PROVE n % m =< n
<1> DEFINE q == n \div m
           r == n % m
<1>1. q \in Nat /\ r \in 0 .. m - 1 /\ n = m * q + r
  BY Division
<1> HIDE DEF q, r
<1>2. m * q \in Nat
  BY <1>1
<1> QED
  BY <1>1, <1>2 DEF r

LEMMA DivisionOnce ==
    ASSUME NEW n \in Nat, NEW m \in Nat \ {0}, NEW q \in Int, NEW r \in 0 .. m - 1,
           n = m * q + r
    PROVE  n \div m = q /\ n % m = r
<1> DEFINE k == n \div m
           t == n % m
           d == q - k
<1>1. k \in Nat /\ t \in 0 .. m - 1 /\ n = m * k + t
  BY Division
<1> HIDE DEF k, t
<1>2. d \in Int /\ m * d = t - r
  BY <1>1
<1> HIDE DEF d
<1>3. d >= 1 => m * d >= m
  BY <1>2
<1>4. d =< -1 => m * d =< -m
  BY <1>2
<1>5. d = 0
  BY <1>1, <1>2, <1>3, <1>4
<1>6. k = q /\ t = r
  BY <1>1, <1>2, <1>5 DEF d
<1> QED
  BY <1>6 DEF k, t

(* The low bits of the low bits, and the bits above them, are those of the number. *)
LEMMA Nested ==
    ASSUME NEW n \in Nat, NEW a \in Nat \ {0}, NEW b \in Nat \ {0}
    PROVE  /\ (n % (a * b)) % a = n % a
           /\ (n % (a * b)) \div a = (n \div a) % b
           /\ n \div (a * b) = (n \div a) \div b
           /\ n % (a * b) = a * ((n \div a) % b) + (n % a)
<1> DEFINE q == n \div a
           r == n % a
           k == q \div b
           t == q % b
<1>1. q \in Nat /\ r \in 0 .. a - 1 /\ n = a * q + r
  BY Division
<1> HIDE DEF q, r
<1>2. k \in Nat /\ t \in 0 .. b - 1 /\ q = b * k + t
  BY <1>1, Division
<1> HIDE DEF k, t
<1> DEFINE m == a * b
           l == a * t + r
<1>3. a * t \in Nat /\ a * t =< a * (b - 1) /\ a * (b - 1) = m - a
  BY <1>2
<1>4. m \in Nat \ {0}
  OBVIOUS
<1>5. l \in 0 .. m - 1
  BY <1>1, <1>3, <1>4
<1>6. n = m * k + l
  BY <1>1, <1>2
<1>7. l % a = r /\ l \div a = t
  <2> l \in Nat /\ t \in Int
    BY <1>2, <1>5
  <2> QED
    BY <1>1, DivisionOnce
<1> HIDE DEF m, l
<1>8. n \div m = k /\ n % m = l
  BY <1>2, <1>4, <1>5, <1>6, DivisionOnce
<1> QED
  BY <1>7, <1>8 DEF m, l, k, t, q, r

-----------------------------------------------------------------------------
(* Reversed bits. *)

ReversedFrom(g, k) ==
    IF k = 0 THEN [n \in Nat |-> 0]
    ELSE [n \in Nat |-> (n % 2) * Pow2[k - 1] + g[k - 1][n \div 2]]

ReversedTo(g, k) == g = [i \in 0 .. k |-> ReversedFrom(g, i)]

LEMMA ReversedToExists == \A k \in Nat : \E g : ReversedTo(g, k)
<1> DEFINE T == {k \in Nat : \E g : ReversedTo(g, k)}
<1>1. 0 \in T
  <2> DEFINE h == [i \in 0 .. 0 |-> [n \in Nat |-> 0]]
  <2>1. ReversedTo(h, 0)
    BY DEF ReversedTo, ReversedFrom
  <2> QED
    BY <2>1
<1>2. ASSUME NEW k \in Nat, k \in T PROVE k + 1 \in T
  <2>1. PICK g : ReversedTo(g, k)
    BY <1>2
  <2> DEFINE h == [i \in 0 .. k + 1 |-> ReversedFrom(g, i)]
  <2>2. \A i \in 0 .. k : h[i] = g[i]
    <3>1. \A i \in 0 .. k : g[i] = ReversedFrom(g, i) /\ i \in 0 .. k + 1
      BY <2>1 DEF ReversedTo
    <3> QED
      BY <3>1, Zenon
  <2>3. \A i \in 0 .. k + 1 : ReversedFrom(g, i) = ReversedFrom(h, i)
    <3> HIDE DEF h
    <3> TAKE i \in 0 .. k + 1
    <3>1. i # 0 => h[i - 1] = g[i - 1]
      BY <2>2
    <3> QED
      BY <3>1, Zenon DEF ReversedFrom
  <2>4. ReversedTo(h, k + 1)
    BY <2>3, Zenon DEF ReversedTo
  <2> QED
    BY <2>4
<1> HIDE DEF T
<1>3. Nat \subseteq T
  BY <1>1, <1>2, AllNumbers
<1> QED
  BY <1>3 DEF T

LEMMA ReversedToAgree ==
    ASSUME NEW g, NEW h, NEW j \in Nat, NEW k \in Nat, ReversedTo(g, j), ReversedTo(h, k)
    PROVE  \A i \in Nat : i =< j /\ i =< k => g[i] = h[i]
<1> DEFINE T == {i \in Nat : i =< j /\ i =< k => g[i] = h[i]}
<1>0. \A i \in Nat : (i =< j => g[i] = ReversedFrom(g, i)) /\ (i =< k => h[i] = ReversedFrom(h, i))
  BY SMTT(30) DEF ReversedTo
<1>1. 0 \in T
  BY <1>0 DEF ReversedFrom
<1>2. ASSUME NEW i \in Nat, i \in T PROVE i + 1 \in T
  <2> SUFFICES ASSUME i + 1 =< j, i + 1 =< k PROVE g[i + 1] = h[i + 1]
    OBVIOUS
  <2>1. g[i] = h[i] /\ (i + 1) - 1 = i /\ i + 1 \in Nat
    BY <1>2
  <2>2. ReversedFrom(g, i + 1) = ReversedFrom(h, i + 1)
    BY <2>1, Zenon DEF ReversedFrom
  <2> QED
    BY <1>0, <2>1, <2>2
<1> HIDE DEF T
<1>3. Nat \subseteq T
  BY <1>1, <1>2, AllNumbers
<1> QED
  BY <1>3 DEF T

LEMMA ReversedStep == \A k \in Nat : Reversed[k] = ReversedFrom(Reversed, k)
<1> DEFINE Is(g) == g = [k \in Nat |-> ReversedFrom(g, k)]
           To(k) == CHOOSE g : ReversedTo(g, k)
           all == [k \in Nat |-> To(k)[k]]
<1>1. \A k \in Nat : ReversedTo(To(k), k)
  BY ReversedToExists, Zenon
<1> HIDE DEF To
<1>2. ASSUME NEW k \in Nat PROVE all[k] = ReversedFrom(all, k)
  <2>1. all[k] = ReversedFrom(To(k), k)
    BY <1>1 DEF ReversedTo
  <2>2. k # 0 => To(k)[k - 1] = To(k - 1)[k - 1]
    BY <1>1, ReversedToAgree
  <2>3. k # 0 => To(k)[k - 1] = all[k - 1]
    BY <2>2
  <2> HIDE DEF all
  <2> QED
    BY <2>1, <2>3, Zenon DEF ReversedFrom
<1>3. Is(all)
  BY <1>2, Zenon
<1>4. Reversed = CHOOSE g : Is(g)
  BY DEF Reversed, ReversedFrom
<1>5. Is(Reversed)
  BY <1>3, <1>4, Zenon
<1> QED
  BY <1>5

(* The lowest bit becomes the highest of k + 1 bits. *)
LEMMA LowestFirst ==
    /\ \A n \in Nat : Reversed[0][n] = 0
    /\ \A k \in Nat, n \in Nat :
           Reversed[k + 1][n] = (n % 2) * Pow2[k] + Reversed[k][n \div 2]
<1>1. \A n \in Nat : Reversed[0][n] = 0
  BY ReversedStep DEF ReversedFrom
<1>2. ASSUME NEW k \in Nat, NEW n \in Nat
      PROVE  Reversed[k + 1][n] = (n % 2) * Pow2[k] + Reversed[k][n \div 2]
  <2>1. k + 1 \in Nat /\ k + 1 # 0 /\ (k + 1) - 1 = k
    OBVIOUS
  <2>2. Reversed[k + 1] = ReversedFrom(Reversed, k + 1)
    BY <2>1, ReversedStep
  <2> QED
    BY <2>1, <2>2 DEF ReversedFrom
<1> QED
  BY <1>1, <1>2

(* k bits reversed are k bits. *)
LEMMA ReversedBits == \A k \in Nat : \A n \in Nat : Reversed[k][n] \in 0 .. Pow2[k] - 1
<1> DEFINE T == {k \in Nat : \A n \in Nat : Reversed[k][n] \in 0 .. Pow2[k] - 1}
<1>1. 0 \in T
  <2>1. Pow2[0] - 1 = 0
    BY Powers
  <2>2. \A n \in Nat : Reversed[0][n] = 0
    BY LowestFirst
  <2> QED
    BY <2>1, <2>2
<1>2. ASSUME NEW k \in Nat, k \in T PROVE k + 1 \in T
  <2> SUFFICES ASSUME NEW n \in Nat PROVE Reversed[k + 1][n] \in 0 .. Pow2[k + 1] - 1
    OBVIOUS
  <2>1. n % 2 \in {0, 1} /\ n \div 2 \in Nat
    OBVIOUS
  <2>2. Reversed[k][n \div 2] \in 0 .. Pow2[k] - 1
    BY <1>2, <2>1
  <2>3. /\ Reversed[k + 1][n] = (n % 2) * Pow2[k] + Reversed[k][n \div 2]
        /\ Pow2[k] \in Nat \ {0} /\ Pow2[k + 1] = 2 * Pow2[k]
    BY LowestFirst, Powers
  <2> QED
    BY <2>1, <2>2, <2>3
<1> HIDE DEF T
<1>3. Nat \subseteq T
  BY <1>1, <1>2, AllNumbers
<1> QED
  BY <1>3 DEF T

(* Only the s lowest bits count. *)
LEMMA LowBits == \A s \in Nat : \A n \in Nat : Reversed[s][n % Pow2[s]] = Reversed[s][n]
<1> DEFINE T == {s \in Nat : \A n \in Nat : Reversed[s][n % Pow2[s]] = Reversed[s][n]}
<1>0. ASSUME NEW s \in Nat, NEW n \in Nat PROVE n % Pow2[s] \in Nat
  <2>1. Pow2[s] \in Nat \ {0}
    BY Powers
  <2> QED
    BY <2>1, Division
<1>1. 0 \in T
  BY <1>0, LowestFirst
<1>2. ASSUME NEW s \in Nat, s \in T PROVE s + 1 \in T
  <2> SUFFICES ASSUME NEW n \in Nat
               PROVE  Reversed[s + 1][n % Pow2[s + 1]] = Reversed[s + 1][n]
    OBVIOUS
  <2> DEFINE m == n % Pow2[s + 1]
  <2>1. m \in Nat /\ n \div 2 \in Nat
    BY <1>0
  <2>2. m % 2 = n % 2 /\ m \div 2 = (n \div 2) % Pow2[s]
    <3>1. Pow2[s] \in Nat \ {0} /\ Pow2[s + 1] = 2 * Pow2[s]
      BY Powers
    <3>2. \A p \in Nat \ {0} : /\ (n % (2 * p)) % 2 = n % 2
                               /\ (n % (2 * p)) \div 2 = (n \div 2) % p
      BY Nested, 2 \in Nat \ {0}, Zenon
    <3> QED
      BY <3>1, <3>2
  <2> HIDE DEF m
  <2>3. Reversed[s][m \div 2] = Reversed[s][n \div 2]
    BY <1>2, <2>1, <2>2
  <2>4. Reversed[s + 1][m] = Reversed[s + 1][n]
    <3>1. /\ Reversed[s + 1][m] = (m % 2) * Pow2[s] + Reversed[s][m \div 2]
          /\ Reversed[s + 1][n] = (n % 2) * Pow2[s] + Reversed[s][n \div 2]
      BY <2>1, LowestFirst
    <3> QED
      BY <3>1, <2>2, <2>3
  <2> QED
    BY <2>4 DEF m
<1> HIDE DEF T
<1>3. Nat \subseteq T
  BY <1>1, <1>2, AllNumbers
<1> QED
  BY <1>3 DEF T

(* The s lowest bits come first, the other j after them. *)
LEMMA LowBitsFirst ==
    \A s \in Nat : \A j \in Nat, n \in Nat :
        Reversed[s + j][n] = Reversed[s][n] * Pow2[j] + Reversed[j][n \div Pow2[s]]
<1> DEFINE Split(s, j, n) ==
             Reversed[s + j][n] = Reversed[s][n] * Pow2[j] + Reversed[j][n \div Pow2[s]]
           T == {s \in Nat : \A j \in Nat, n \in Nat : Split(s, j, n)}
<1>1. 0 \in T
  <2> SUFFICES ASSUME NEW j \in Nat, NEW n \in Nat PROVE Split(0, j, n)
    OBVIOUS
  <2>1. n \div Pow2[0] = n
    BY Powers
  <2>2. Reversed[0][n] * Pow2[j] = 0 /\ Reversed[j][n] \in Nat /\ 0 + j = j
    <3>1. Reversed[0][n] = 0
      BY LowestFirst
    <3>2. Pow2[j] \in Nat
      BY Powers
    <3>3. Reversed[j][n] \in 0 .. Pow2[j] - 1
      BY ReversedBits
    <3> QED
      BY <3>1, <3>2, <3>3
  <2> QED
    BY <2>1, <2>2
<1>2. ASSUME NEW s \in Nat, s \in T PROVE s + 1 \in T
  <2> SUFFICES ASSUME NEW j \in Nat, NEW n \in Nat PROVE Split(s + 1, j, n)
    OBVIOUS
  <2> DEFINE x == n % 2
             h == n \div 2
             a == Pow2[s]
             p == Pow2[j]
             b == Reversed[s][h]
             c == Reversed[j][h \div a]
  <2>1. x \in {0, 1} /\ h \in Nat /\ a \in Nat \ {0} /\ p \in Nat \ {0}
    BY Powers
  <2>2. h \div a \in Nat
    BY <2>1, Division
  <2>3. b \in Nat /\ c \in Nat
    BY <2>1, <2>2, ReversedBits
  <2>4. Reversed[s + j][h] = b * p + c
    BY <1>2, <2>1
  <2>5. Reversed[(s + 1) + j][n] = x * (a * p) + (b * p + c)
    <3>1. (s + 1) + j = (s + j) + 1 /\ s + j \in Nat
      OBVIOUS
    <3>2. Reversed[(s + j) + 1][n] = x * Pow2[s + j] + Reversed[s + j][h]
      BY <3>1, LowestFirst
    <3> QED
      BY <3>1, <3>2, <2>4, PowerSum
  <2>6. Reversed[s + 1][n] = x * a + b
    BY LowestFirst
  <2>7. n \div Pow2[s + 1] = h \div a
    <3>1. \A q \in Nat \ {0} : n \div (2 * q) = (n \div 2) \div q
      BY Nested, 2 \in Nat \ {0}, Zenon
    <3> QED
      BY <2>1, <3>1, Powers
  <2>8. Reversed[j][n \div Pow2[s + 1]] = c
    BY <2>7
  <2> HIDE DEF x, h, a, b, c
  <2>9. (x * a + b) * p = x * (a * p) + b * p
    <3>1. CASE x = 0
      BY <3>1, <2>1, <2>3
    <3>2. CASE x = 1
      BY <3>2, <2>1, <2>3
    <3> QED
      BY <2>1, <3>1, <3>2
  <2> HIDE DEF p
  <2>10. a * p \in Nat /\ b * p \in Nat
    BY <2>1, <2>3
  <2>11. x * (a * p) \in Nat
    BY <2>1, <2>10
  <2>12. Reversed[(s + 1) + j][n] = (x * a + b) * p + c
    BY <2>3, <2>5, <2>9, <2>10, <2>11
  <2> QED
    BY <2>6, <2>8, <2>12 DEF p
<1> HIDE DEF T
<1>3. Nat \subseteq T
  BY <1>1, <1>2, AllNumbers
<1> QED
  BY <1>3 DEF T

(* One more bit is the lowest of the reversed number. *)
LEMMA OneBitMore ==
    ASSUME NEW s \in Nat, NEW n \in Nat
    PROVE  Reversed[s + 1][n] = 2 * Reversed[s][n] + ((n \div Pow2[s]) % 2)
<1> DEFINE q == n \div Pow2[s]
<1>1. q \in Nat /\ Reversed[s][n] \in Nat
  <2>1. Pow2[s] \in Nat \ {0}
    BY Powers
  <2>2. Reversed[s][n] \in 0 .. Pow2[s] - 1
    BY ReversedBits
  <2>3. \A m \in Nat \ {0} : n \div m \in Nat
    BY Division, Zenon
  <2> QED
    BY <2>1, <2>2, <2>3
<1>2. Reversed[s + 1][n] = Reversed[s][n] * Pow2[1] + Reversed[1][q]
  BY LowBitsFirst
<1> HIDE DEF q
<1>3. Reversed[1][q] = (q % 2) * Pow2[0] + Reversed[0][q \div 2] /\ q \div 2 \in Nat
  <2>1. 0 + 1 = 1
    OBVIOUS
  <2> QED
    BY <1>1, <2>1, LowestFirst, SMTT(30)
<1>4. Pow2[0] = 1 /\ Pow2[1] = 2
  <2>1. 0 + 1 = 1
    OBVIOUS
  <2> QED
    BY <2>1, Powers
<1>5. Reversed[0][q \div 2] = 0
  BY <1>3, LowestFirst
<1> QED
  BY <1>1, <1>2, <1>3, <1>4, <1>5 DEF q

LEMMA ReversedZero == \A k \in Nat : Reversed[k][0] = 0
<1> DEFINE T == {k \in Nat : Reversed[k][0] = 0}
<1>1. 0 \in T
  BY LowestFirst
<1>2. ASSUME NEW k \in Nat, k \in T PROVE k + 1 \in T
  <2>1. Reversed[k + 1][0] = (0 % 2) * Pow2[k] + Reversed[k][0 \div 2]
    BY LowestFirst
  <2>2. 0 % 2 = 0 /\ 0 \div 2 = 0 /\ Pow2[k] \in Nat
    BY Powers
  <2> QED
    BY <1>2, <2>1, <2>2
<1> HIDE DEF T
<1>3. Nat \subseteq T
  BY <1>1, <1>2, AllNumbers
<1> QED
  BY <1>3 DEF T

LEMMA ReversedOnes == \A k \in Nat : Reversed[k][Pow2[k] - 1] = Pow2[k] - 1
<1> DEFINE T == {k \in Nat : Reversed[k][Pow2[k] - 1] = Pow2[k] - 1}
<1>1. 0 \in T
  <2>1. Pow2[0] - 1 = 0
    BY Powers
  <2> QED
    BY <2>1, ReversedZero
<1>2. ASSUME NEW k \in Nat, k \in T PROVE k + 1 \in T
  <2> DEFINE p == Pow2[k]
             n == Pow2[k + 1] - 1
  <2>1. p \in Nat \ {0} /\ n = 2 * (p - 1) + 1
    BY Powers
  <2> HIDE DEF n, p
  <2>2. n \in Nat /\ n % 2 = 1 /\ n \div 2 = p - 1
    BY <2>1
  <2>3. Reversed[k + 1][n] = (n % 2) * p + Reversed[k][n \div 2]
    BY <2>2, LowestFirst DEF p
  <2>4. Reversed[k][p - 1] = p - 1
    BY <1>2 DEF p
  <2>5. Reversed[k + 1][n] = n
    BY <2>1, <2>2, <2>3, <2>4
  <2> QED
    BY <2>5 DEF n
<1> HIDE DEF T
<1>3. Nat \subseteq T
  BY <1>1, <1>2, AllNumbers
<1> QED
  BY <1>3 DEF T

(* Reversed twice, k bits are as before. *)
LEMMA ReversedTwice == \A k \in Nat : \A n \in 0 .. Pow2[k] - 1 : Reversed[k][Reversed[k][n]] = n
<1> DEFINE T == {k \in Nat : \A n \in 0 .. Pow2[k] - 1 : Reversed[k][Reversed[k][n]] = n}
<1>1. 0 \in T
  <2>1. Pow2[0] - 1 = 0 /\ Reversed[0][0] = 0
    BY LowestFirst, Powers
  <2> QED
    BY <2>1
<1>2. ASSUME NEW k \in Nat, k \in T PROVE k + 1 \in T
  <2> SUFFICES ASSUME NEW n \in 0 .. Pow2[k + 1] - 1
               PROVE  Reversed[k + 1][Reversed[k + 1][n]] = n
    OBVIOUS
  <2> DEFINE p == Pow2[k]
             b == n % 2
             h == n \div 2
             y == Reversed[k][h]
             x == Reversed[k + 1][n]
  <2>1. p \in Nat \ {0} /\ Pow2[k + 1] = 2 * p
    BY Powers
  <2>2. b \in {0, 1} /\ h \in 0 .. p - 1 /\ n = 2 * h + b /\ n \in Nat
    BY <2>1
  <2>3. y \in 0 .. p - 1 /\ Reversed[k][y] = h
    BY <1>2, <2>2, ReversedBits
  <2>4. x = b * p + y
    BY <2>2, LowestFirst
  <2> HIDE DEF b, h, p, x, y
  <2>5. x \in Nat /\ x = p * b + y
    BY <2>1, <2>2, <2>3, <2>4
  <2>6. x \div p = b /\ x % p = y
    <3>1. b \in Int
      BY <2>2
    <3> QED
      BY <2>1, <2>3, <2>5, <3>1, DivisionOnce
  <2>7. Reversed[k][x] = Reversed[k][x % p]
    BY <2>5, LowBits DEF p
  <2>8. Reversed[k + 1][x] = 2 * Reversed[k][x] + ((x \div p) % 2)
    BY <2>5, OneBitMore DEF p
  <2>9. Reversed[k + 1][x] = n
    BY <2>2, <2>3, <2>6, <2>7, <2>8
  <2> QED
    BY <2>9 DEF x
<1> HIDE DEF T
<1>3. Nat \subseteq T
  BY <1>1, <1>2, AllNumbers
<1> QED
  BY <1>3 DEF T

(* Numbers have the same s lowest bits if these are the same when reversed. *)
LEMMA SameBits ==
    ASSUME NEW s \in Nat, NEW a \in Nat, NEW b \in Nat
    PROVE  Reversed[s][a] = Reversed[s][b] <=> a % Pow2[s] = b % Pow2[s]
<1>1. /\ a % Pow2[s] \in 0 .. Pow2[s] - 1 /\ b % Pow2[s] \in 0 .. Pow2[s] - 1
      /\ Reversed[s][a % Pow2[s]] = Reversed[s][a]
      /\ Reversed[s][b % Pow2[s]] = Reversed[s][b]
  BY Powers, Division, LowBits
<1>2. /\ Reversed[s][Reversed[s][a % Pow2[s]]] = a % Pow2[s]
      /\ Reversed[s][Reversed[s][b % Pow2[s]]] = b % Pow2[s]
  BY <1>1, ReversedTwice
<1> QED
  BY <1>1, <1>2

-----------------------------------------------------------------------------
(* A step of the cursor.  In a table of Pow2[s] buckets the s lowest bits of a cursor
   are a bucket; reversed they are the highest of W bits, and count the buckets the
   iteration has behind it. *)

LEMMA Width ==
    ASSUME NEW s \in 0 .. W
    PROVE  /\ s \in Nat /\ W - s \in Nat
           /\ Pow2[s] \in Nat \ {0} /\ Pow2[W - s] \in Nat \ {0}
           /\ Pow2[W] = Pow2[s] * Pow2[W - s] /\ Pow2[W] = Pow2[W - s] * Pow2[s]
<1>1. W \in Nat /\ s \in Nat /\ W - s \in Nat /\ s + (W - s) = W /\ (W - s) + s = W
  BY ScanAssumption
<1>2. Pow2[s + (W - s)] = Pow2[s] * Pow2[W - s]
  BY <1>1, PowerSum
<1>3. Pow2[(W - s) + s] = Pow2[W - s] * Pow2[s]
  BY <1>1, PowerSum
<1>4. Pow2[s] \in Nat \ {0} /\ Pow2[W - s] \in Nat \ {0}
  BY <1>1, Powers
<1> QED
  BY <1>1, <1>2, <1>3, <1>4

LEMMA HighBits ==
    ASSUME NEW s \in 0 .. W, NEW n \in Nat
    PROVE  /\ Reversed[s][n] \in 0 .. Pow2[s] - 1
           /\ Reversed[W - s][n \div Pow2[s]] \in 0 .. Pow2[W - s] - 1
           /\ rev(n) = Reversed[s][n] * Pow2[W - s] + Reversed[W - s][n \div Pow2[s]]
<1>1. n \div Pow2[s] \in Nat
  BY Width, Division
<1>2. Reversed[s][n] \in 0 .. Pow2[s] - 1
  BY Width, ReversedBits
<1>3. Reversed[W - s][n \div Pow2[s]] \in 0 .. Pow2[W - s] - 1
  BY <1>1, Width, ReversedBits
<1>4. s \in Nat /\ W - s \in Nat /\ s + (W - s) = W
  BY Width, ScanAssumption
<1>5. Reversed[s + (W - s)][n]
        = Reversed[s][n] * Pow2[W - s] + Reversed[W - s][n \div Pow2[s]]
  BY <1>4, LowBitsFirst
<1> QED
  BY <1>2, <1>3, <1>4, <1>5 DEF rev

(* A cursor that is not behind another is in no earlier bucket. *)
LEMMA OrderKept ==
    ASSUME NEW s \in 0 .. W, NEW a \in Nat, NEW b \in Nat, rev(a) >= rev(b)
    PROVE  Reversed[s][a] >= Reversed[s][b]
<1> DEFINE S == Pow2[W - s]
           x == Reversed[s][a]
           y == Reversed[s][b]
           t == Reversed[W - s][a \div Pow2[s]]
           u == Reversed[W - s][b \div Pow2[s]]
<1>1. x \in Nat /\ t \in 0 .. S - 1 /\ rev(a) = x * S + t
  BY HighBits
<1>2. y \in Nat /\ u \in 0 .. S - 1 /\ rev(b) = y * S + u
  BY HighBits
<1>3. S \in Nat \ {0}
  BY Width
<1> HIDE DEF S, x, y, t, u
<1> SUFFICES ASSUME x + 1 =< y PROVE FALSE
  BY <1>1, <1>2 DEF x, y
<1>4. (x + 1) * S =< y * S
  BY <1>1, <1>2, <1>3
<1>5. (x + 1) * S = x * S + S
  BY <1>1, <1>3
<1> QED
  BY <1>1, <1>2, <1>3, <1>4, <1>5

(* The reversed cursor goes on to the next multiple of its step, Pow2[W - s]; after the
   last bucket the cursor is 0. *)
LEMMA Advanced ==
    ASSUME NEW s \in 0 .. W, NEW n \in Nat
    PROVE  LET c  == Reversed[s][n] + 1
               n2 == Advance(n, Pow2[s])
           IN  /\ n2 \in 0 .. Pow2[s] - 1
               /\ c = Pow2[s] => n2 = 0
               /\ c < Pow2[s] => n2 # 0 /\ rev(n2) = c * Pow2[W - s]
<1> DEFINE z == Pow2[s]
           S == Pow2[W - s]
           D == Pow2[W]
           m == n % z
           x == m + D - z
           c == Reversed[s][n] + 1
           n2 == Advance(n, z)
<1>1. z \in Nat \ {0} /\ S \in Nat \ {0} /\ D = z * S
  BY Width
<1>2. m \in 0 .. z - 1 /\ c \in 1 .. z
  <2>1. m \in 0 .. z - 1
    BY <1>1, Division
  <2>2. Reversed[s][n] \in 0 .. z - 1
    BY HighBits
  <2> QED
    BY <1>1, <2>1, <2>2
<1>3. rev(x) + 1 = c * S
  <2>1. x \in Nat /\ x = z * (S - 1) + m
    <3> HIDE DEF z, S, D, m
    <3>1. z * (S - 1) = z * S - z /\ z * (S - 1) \in Nat
      BY <1>1
    <3> QED
      BY <1>1, <1>2, <3>1
  <2>2. x % z = m /\ x \div z = S - 1
    <3> HIDE DEF x, z, S, m
    <3>1. S - 1 \in Int
      BY <1>1
    <3> QED
      BY <1>1, <1>2, <2>1, <3>1, DivisionOnce
  <2>3. Reversed[s][x] = Reversed[s][n]
    <3>1. n % z = x % z
      BY <2>2
    <3> HIDE DEF x
    <3> QED
      BY <2>1, <3>1, SameBits, Width
  <2>4. Reversed[W - s][x \div z] = S - 1
    BY <2>2, ReversedOnes, Width
  <2>5. rev(x) = Reversed[s][n] * S + (S - 1)
    <3> HIDE DEF x
    <3> QED
      BY <2>1, <2>3, <2>4, HighBits
  <2>6. Reversed[s][n] \in Nat
    BY HighBits
  <2> HIDE DEF x, S
  <2>7. (Reversed[s][n] + 1) * S = Reversed[s][n] * S + S
    BY <1>1, <2>6
  <2>8. Reversed[s][n] * S \in Nat
    BY <1>1, <2>6
  <2> QED
    BY <1>1, <2>5, <2>7, <2>8
<1>4. n2 = rev((c * S) % D)
  BY <1>3 DEF Advance
<1>5. CASE c = z
  <2>1. c * S = D
    BY <1>1, <1>5
  <2>2. D % D = 0
    <3> D \in Nat \ {0} /\ D = D * 1 + 0 /\ 1 \in Int /\ 0 \in 0 .. D - 1
      BY Width
    <3> QED
      BY DivisionOnce
  <2>3. n2 = 0
    BY <1>4, <2>1, <2>2, ReversedZero, ScanAssumption DEF rev
  <2> HIDE DEF n2, z, c
  <2>4. n2 \in 0 .. z - 1 /\ ~(c < z)
    BY <1>1, <1>5, <2>3
  <2> QED
    BY <1>5, <2>3, <2>4 DEF n2, z, c
<1>6. CASE c < z
  <2> DEFINE u == c * S
  <2>1. u \in 1 .. D - 1
    <3> HIDE DEF c, z, S, D
    <3>1. c * S >= S
      BY <1>1, <1>2
    <3>2. c * S =< (z - 1) * S /\ (z - 1) * S = z * S - S
      BY <1>1, <1>2, <1>6
    <3> QED
      BY <1>1, <1>2, <3>1, <3>2
  <2>2. u % D = u
    <3>0. D \in Nat \ {0}
      BY Width, ScanAssumption
    <3> HIDE DEF u, D
    <3>1. u = D * 0 + u /\ 0 \in Int /\ u \in Nat
      BY <2>1, <3>0
    <3> QED
      BY <2>1, <3>0, <3>1, DivisionOnce
  <2>3. n2 = rev(u)
    BY <1>4, <2>2
  <2>4. rev(u) = Reversed[s][c]
    <3>1. u \div S = c /\ u % S = 0
      <4>1. u = S * c + 0 /\ c \in Int /\ 0 \in 0 .. S - 1 /\ u \in Nat
        BY <1>1, <1>2, <2>1
      <4> HIDE DEF u, S, c
      <4> QED
        BY <1>1, <4>1, DivisionOnce
    <3>2. W - s \in 0 .. W /\ W - (W - s) = s
      BY ScanAssumption
    <3>3. rev(u) = Reversed[W - s][u] * z + Reversed[s][u \div S]
      <4> HIDE DEF u
      <4>1. rev(u) = Reversed[W - s][u] * Pow2[W - (W - s)]
                     + Reversed[W - (W - s)][u \div Pow2[W - s]]
        BY <2>1, <3>2, HighBits
      <4> QED
        BY <3>2, <4>1
    <3>4. Reversed[W - s][u] = 0
      <4> HIDE DEF u
      <4>1. Reversed[W - s][u % S] = Reversed[W - s][u]
        BY <2>1, Width, LowBits
      <4> QED
        BY <3>1, <4>1, ReversedZero, Width
    <3>5. Reversed[s][c] \in Nat
      BY <1>2, HighBits
    <3> HIDE DEF u, c, z
    <3> QED
      BY <1>1, <3>1, <3>3, <3>4, <3>5
  <2>5. n2 = Reversed[s][c]
    BY <2>3, <2>4
  <2>6. n2 \in 0 .. z - 1
    <3>1. c \in Nat
      BY <1>2
    <3> HIDE DEF c, n2
    <3> QED
      BY <2>5, <3>1, HighBits
  <2>7. rev(n2) = u
    <3>1. Reversed[s][n2] = c
      <4>1. c \in 0 .. Pow2[s] - 1
        BY <1>1, <1>2, <1>6
      <4> QED
        BY <2>5, <4>1, ReversedTwice, Width
    <3>2. n2 \div z = 0
      <4> HIDE DEF n2, z
      <4>1. n2 \in Nat /\ n2 = z * 0 + n2 /\ 0 \in Int
        BY <2>6, <1>1
      <4> QED
        BY <1>1, <2>6, <4>1, DivisionOnce
    <3>3. rev(n2) = Reversed[s][n2] * S + Reversed[W - s][n2 \div z]
      <4> HIDE DEF n2
      <4> QED
        BY <2>6, HighBits
    <3>4. Reversed[W - s][n2 \div z] = 0
      BY <3>2, ReversedZero, Width
    <3>5. u \in Nat
      BY <2>1
    <3> HIDE DEF n2, c
    <3> QED
      BY <3>1, <3>3, <3>4, <3>5
  <2>8. n2 # 0
    <3>1. rev(0) = 0
      BY ReversedZero, ScanAssumption DEF rev
    <3>2. u # 0
      BY <2>1
    <3> HIDE DEF n2, u
    <3> QED
      BY <2>7, <3>1, <3>2
  <2>9. c # z
    BY <1>2, <1>6
  <2> HIDE DEF n2, c
  <2> QED
    BY <2>6, <2>7, <2>8, <2>9 DEF n2, c
<1>7. c = z \/ c < z
  BY <1>1, <1>2
<1> QED
  BY <1>5, <1>6, <1>7

(* A key whose bucket is not the cursor's stays ahead of it, and the iteration does not
   end. *)
LEMMA StaysAhead ==
    ASSUME NEW s \in 0 .. W, NEW h \in Nat, NEW n \in Nat,
           rev(h) >= rev(n), h % Pow2[s] # n % Pow2[s]
    PROVE  rev(h) >= rev(Advance(n, Pow2[s])) /\ Advance(n, Pow2[s]) # 0
<1> DEFINE S == Pow2[W - s]
           x == Reversed[s][h]
           y == Reversed[s][n]
           t == Reversed[W - s][h \div Pow2[s]]
<1>1. x \in 0 .. Pow2[s] - 1 /\ t \in 0 .. S - 1 /\ rev(h) = x * S + t
  BY HighBits
<1>2. y \in 0 .. Pow2[s] - 1 /\ x >= y /\ x # y
  BY HighBits, OrderKept, SameBits, Width
<1>3. Pow2[s] \in Nat \ {0} /\ S \in Nat \ {0}
  BY Width
<1> HIDE DEF S, x, y, t
<1>4. y + 1 =< x /\ y + 1 < Pow2[s]
  BY <1>1, <1>2, <1>3
<1>5. Advance(n, Pow2[s]) # 0 /\ rev(Advance(n, Pow2[s])) = (y + 1) * S
  BY <1>4, Advanced DEF S, y
<1>6. (y + 1) * S =< x * S /\ x * S \in Nat /\ (y + 1) * S \in Nat
  BY <1>1, <1>2, <1>3, <1>4
<1> DEFINE i == (y + 1) * S
           j == x * S
<1> HIDE DEF i, j
<1>7. i =< j /\ i \in Nat /\ j \in Nat /\ rev(h) = j + t /\ rev(Advance(n, Pow2[s])) = i
  BY <1>1, <1>5, <1>6 DEF i, j
<1>8. j + t >= i
  BY <1>1, <1>3, <1>7
<1> QED
  BY <1>5, <1>7, <1>8

(* A key in a bucket of the larger table that agrees with the cursor is in one the call
   visits, if the cursor came from a table at most twice as large as the smaller one. *)
LEMMA InExpansion ==
    ASSUME NEW s \in 0 .. W, NEW l \in 0 .. W, s =< l, NEW h \in Nat, NEW n \in Nat,
           n < Pow2[W], n < 2 * Pow2[s],
           rev(h) >= rev(n), h % Pow2[s] = n % Pow2[s]
    PROVE  /\ h % Pow2[l] \in 0 .. Pow2[l] - 1
           /\ (h % Pow2[l]) % Pow2[s] = n % Pow2[s]
           /\ h % Pow2[l] >= n % Pow2[l]
<1> DEFINE z == Pow2[s]
           L == Pow2[l]
           a == Pow2[l - s]
<1>1. /\ s \in Nat /\ l \in Nat /\ l - s \in Nat /\ z \in Nat \ {0} /\ L \in Nat \ {0}
      /\ a \in Nat \ {0} /\ L = z * a
  <2>1. s \in Nat /\ l \in Nat /\ l - s \in Nat /\ s + (l - s) = l
    BY Width
  <2>2. Pow2[s + (l - s)] = Pow2[s] * Pow2[l - s]
    BY <2>1, PowerSum
  <2> QED
    BY <2>1, <2>2, Powers
<1>2. h % L \in 0 .. L - 1 /\ n % L \in 0 .. L - 1
  BY <1>1, Division
<1>3. (h % L) % z = h % z /\ (n % L) % z = n % z
  <2>1. /\ (h % (z * a)) % z = h % z
        /\ (n % (z * a)) % z = n % z
    <3> HIDE DEF z, a
    <3> QED
      BY <1>1, Nested, ZenonT(60)
  <2> QED
    BY <1>1, <2>1
<1>4. h % L >= n % L
  <2>1. CASE l = s
    BY <2>1, <1>2
  <2>2. CASE l # s /\ n < z
    <3>1. a # 1 => a >= 2
      BY <1>1
    <3>2. n % z = n
      <4> HIDE DEF z
      <4>1. n = z * 0 + n /\ n \in 0 .. z - 1 /\ 0 \in Int
        BY <1>1, <2>2
      <4> QED
        BY <1>1, <4>1, DivisionOnce
    <3>3. z * a >= z
      <4> HIDE DEF z, a
      <4> QED
        BY <1>1
    <3>4. n % L = n
      <4> HIDE DEF z, L, a
      <4>1. n = L * 0 + n /\ n \in 0 .. L - 1 /\ 0 \in Int
        BY <1>1, <2>2, <3>3
      <4> QED
        BY <1>1, <4>1, DivisionOnce
    <3>5. (h % L) % z = n /\ h % L \in Nat
      BY <1>2, <1>3, <3>2
    <3> DEFINE b == h % L
    <3> HIDE DEF b, z, L
    <3>6. b % z =< b
      <4> b \in Nat
        BY <3>5 DEF b
      <4> QED
        BY <1>1, NoGreater
    <3> QED
      BY <3>4, <3>5, <3>6 DEF b
  <2>3. CASE l # s /\ n >= z
    <3>1. s + 1 \in 0 .. W /\ s + 1 =< l /\ Pow2[s + 1] = 2 * z
      <4>1. s + 1 =< l /\ l =< W /\ s + 1 \in Nat /\ W \in Nat
        BY <2>3, <1>1, ScanAssumption
      <4>2. Pow2[s + 1] = 2 * z
        BY <1>1, Powers
      <4> HIDE DEF z
      <4> QED
        BY <4>1, <4>2
    <3>2. Reversed[s + 1][h] >= Reversed[s + 1][n]
      BY <3>1, OrderKept
    <3>3. Reversed[s][h] = Reversed[s][n]
      BY <1>1, SameBits
    <3>4. n \div z = 1
      <4> HIDE DEF z
      <4>1. n = z * 1 + (n - z) /\ n - z \in 0 .. z - 1 /\ 1 \in Int
        BY <1>1, <2>3 DEF z
      <4> QED
        BY <1>1, <4>1, DivisionOnce, ZenonT(60)
    <3>5. /\ Reversed[s + 1][h] = 2 * Reversed[s][h] + ((h \div z) % 2)
          /\ Reversed[s + 1][n] = 2 * Reversed[s][n] + ((n \div z) % 2)
      BY <1>1, OneBitMore
    <3>6. h \div z \in Nat /\ Reversed[s][n] \in Nat
      <4>1. Reversed[s][n] \in Nat
        BY HighBits
      <4> HIDE DEF z
      <4> QED
        BY <1>1, <4>1, Division
    <3>7. (h \div z) % 2 \in {0, 1} /\ 1 % 2 = 1
      BY <3>6
    <3>8. Reversed[s + 1][h] = Reversed[s + 1][n]
      <4> HIDE DEF z
      <4> QED
        BY <3>2, <3>3, <3>4, <3>5, <3>6, <3>7
    <3>9. h % (2 * z) = n % (2 * z)
      BY <3>1, <3>8, SameBits
    <3>10. n % (2 * z) = n
      <4> HIDE DEF z
      <4>1. n = (2 * z) * 0 + n /\ n \in 0 .. 2 * z - 1 /\ 0 \in Int /\ 2 * z \in Nat \ {0}
        BY <1>1 DEF z
      <4> QED
        BY <4>1, DivisionOnce
    <3> DEFINE a2 == Pow2[l - (s + 1)]
    <3>11. a2 \in Nat \ {0} /\ L = (2 * z) * a2
      <4>1. s + 1 \in Nat /\ l - (s + 1) \in Nat /\ (s + 1) + (l - (s + 1)) = l
        BY <1>1, <3>1
      <4>2. Pow2[(s + 1) + (l - (s + 1))] = Pow2[s + 1] * Pow2[l - (s + 1)]
        BY <4>1, PowerSum
      <4> QED
        BY <3>1, <4>1, <4>2, Powers
    <3>12. (h % L) % (2 * z) = n
      <4> HIDE DEF z, a2, L
      <4>1. 2 * z \in Nat \ {0}
        BY <1>1
      <4>2. (h % ((2 * z) * a2)) % (2 * z) = h % (2 * z)
        BY <3>11, <4>1, Nested
      <4> QED
        BY <3>9, <3>10, <3>11, <4>2
    <3> DEFINE b == h % L
               y == 2 * z
    <3>13. b \in Nat /\ y \in Nat \ {0} /\ b % y = n
      <4> HIDE DEF L, z
      <4> QED
        BY <1>1, <1>2, <3>12
    <3>14. n % L = n
      <4> HIDE DEF z, L, a2
      <4>1. (2 * z) * a2 >= 2 * z
        BY <1>1, <3>11
      <4>2. n = L * 0 + n /\ n \in 0 .. L - 1 /\ 0 \in Int
        BY <1>1, <3>11, <4>1 DEF z
      <4> QED
        BY <1>1, <4>2, DivisionOnce
    <3> HIDE DEF b, y, L, z
    <3>15. b % y =< b
      BY <3>13, NoGreater
    <3> QED
      BY <3>13, <3>14, <3>15 DEF b
  <2> QED
    BY <1>1, <2>1, <2>2, <2>3
<1> QED
  BY <1>2, <1>3, <1>4

-----------------------------------------------------------------------------
(* Table sizes. *)

LEMMA SizeIsPower ==
    ASSUME NEW z \in Sizes
    PROVE  z \in Nat \ {0} /\ z =< Pow2[W] /\ \E s \in 0 .. W : z = Pow2[s]
<1>1. PICK s \in 0 .. W : z = Pow2[s]
  BY ScanAssumption
<1> DEFINE S == Pow2[W - s]
<1>2. z \in Nat \ {0} /\ S \in Nat \ {0} /\ Pow2[W] = z * S
  BY <1>1, Width
<1> HIDE DEF S
<1>3. z * S >= z
  BY <1>2
<1> QED
  BY <1>1, <1>2, <1>3

LEMMA SmallerPower ==
    ASSUME NEW s \in 0 .. W, NEW l \in 0 .. W, Pow2[s] =< Pow2[l] PROVE s =< l
<1> SUFFICES ASSUME l < s PROVE FALSE
  BY Width
<1>1. /\ l \in Nat /\ (s - l) - 1 \in Nat /\ l + (s - l) = s /\ s - l \in Nat
      /\ ((s - l) - 1) + 1 = s - l
  BY Width
<1>2. Pow2[l + (s - l)] = Pow2[l] * Pow2[s - l]
  BY <1>1, PowerSum
<1>3. Pow2[((s - l) - 1) + 1] = 2 * Pow2[(s - l) - 1] /\ Pow2[(s - l) - 1] \in Nat \ {0}
  BY <1>1, Powers
<1> DEFINE a == Pow2[l]
           b == Pow2[s - l]
<1>4. a \in Nat \ {0} /\ b \in Nat /\ b >= 2 /\ a * b =< a
  BY <1>1, <1>2, <1>3, Powers
<1> HIDE DEF a, b
<1>5. a * b >= a * 2
  BY <1>4
<1> QED
  BY <1>4, <1>5

-----------------------------------------------------------------------------
(* The inductive invariant.  That nothing is missed needs Ahead: a key that is not
   returned yet has its reversed hash at or above the reversed cursor, so it is in the
   cursor's bucket or in a later one.  For a key in the larger table Ahead needs Cursor:
   a cursor from a table more than twice as large as the smaller one may be behind the
   first of the expansions. *)

Tables == /\ dictIsRehashing <=> size1 # 0
          /\ table = 1 => dictIsRehashing

Cursor == /\ v # 0 => v < widest
          /\ widest =< 2 * size0
          /\ dictIsRehashing => widest =< 2 * size1

Ahead == /\ state = "before" => v = 0
         /\ state # "over" => seen \/ rev(hash) >= rev(v)

IInv == TypeOK /\ Tables /\ Cursor /\ Ahead /\ NothingMissed

(* Both tables' sizes, as powers of two, and the cursor under the smaller one. *)
LEMMA SmallerTable ==
    ASSUME IInv
    PROVE  /\ Smaller \in Sizes /\ Smaller =< size0
           /\ dictIsRehashing => Smaller =< size1 /\ size1 \in Sizes
           /\ v < 2 * Smaller
<1>1. size0 \in Sizes /\ (dictIsRehashing => size1 \in Sizes) /\ v \in Nat
  BY Width, ScanAssumption DEF IInv, TypeOK, Tables
<1>2. size0 \in Nat \ {0} /\ (dictIsRehashing => size1 \in Nat \ {0})
  BY <1>1, SizeIsPower
<1>3. widest \in Nat
  BY SizeIsPower DEF IInv, TypeOK
<1>4. Smaller \in Sizes /\ Smaller =< size0 /\ (dictIsRehashing => Smaller =< size1)
  BY <1>1, <1>2 DEF Smaller
<1>5. CASE Smaller = size0
  BY <1>1, <1>2, <1>3, <1>4, <1>5 DEF IInv, Cursor
<1>6. CASE dictIsRehashing /\ Smaller = size1
  BY <1>1, <1>2, <1>3, <1>4, <1>6 DEF IInv, Cursor
<1>7. v < 2 * Smaller
  BY <1>5, <1>6 DEF Smaller
<1> QED
  BY <1>1, <1>4, <1>7

(* A call returns a key whose bucket agrees with the cursor in the smaller table, if the
   cursor is not past it. *)
LEMMA ReturnedHere ==
    ASSUME IInv, rev(hash) >= rev(v), hash % Smaller = v % Smaller
    PROVE  Returned
<1>1. /\ hash \in Nat /\ v \in Nat /\ v < Pow2[W] /\ table \in {0, 1}
      /\ size0 \in Sizes /\ size0 \in Nat \ {0}
  <2>1. Pow2[W] \in Nat
    BY Powers, ScanAssumption
  <2> QED
    BY <2>1, SizeIsPower DEF IInv, TypeOK
<1>2. CASE ~dictIsRehashing
  BY <1>2 DEF Returned, Emitted, Smaller
<1>3. CASE dictIsRehashing
  <2>1. size1 \in Sizes /\ size1 \in Nat \ {0}
    BY <1>3, SmallerTable, SizeIsPower
  <2>2. ASSUME NEW z \in Sizes, NEW L \in Sizes, z =< L, Smaller = z, Larger = L
        PROVE  hash % L \in Expansions
    <3>1. PICK s \in 0 .. W : z = Pow2[s]
      BY SizeIsPower
    <3>2. PICK l \in 0 .. W : L = Pow2[l]
      BY SizeIsPower
    <3>3. s =< l
      BY <2>2, <3>1, <3>2, SmallerPower
    <3>4. v < 2 * Pow2[s] /\ hash % Pow2[s] = v % Pow2[s]
      BY <2>2, <3>1, SmallerTable
    <3>5. /\ hash % L \in 0 .. L - 1
          /\ (hash % L) % z = v % z
          /\ hash % L >= v % L
      BY <1>1, <3>1, <3>2, <3>3, <3>4, InExpansion
    <3> QED
      BY <2>2, <3>5 DEF Expansions
  <2>3. CASE size0 =< size1
    <3>1. Smaller = size0 /\ Larger = size1
      BY <1>1, <1>3, <2>1, <2>3 DEF Smaller, Larger
    <3>2. hash % size1 \in Expansions
      BY <1>1, <2>1, <2>2, <2>3, <3>1
    <3>3. hash % size0 \in {v % size0}
      BY <3>1
    <3> QED
      BY <1>1, <1>3, <2>3, <3>2, <3>3 DEF Returned, Emitted
  <2>4. CASE ~(size0 =< size1)
    <3>1. Smaller = size1 /\ Larger = size0 /\ size1 =< size0
      BY <1>1, <1>3, <2>1, <2>4 DEF Smaller, Larger
    <3>2. hash % size0 \in Expansions
      BY <1>1, <2>1, <2>2, <3>1
    <3>3. hash % size1 \in {v % size1}
      BY <3>1
    <3> QED
      BY <1>1, <1>3, <2>4, <3>2, <3>3 DEF Returned, Emitted
  <2> QED
    BY <2>3, <2>4
<1> QED
  BY <1>2, <1>3

-----------------------------------------------------------------------------
LEMMA InitIInv == Init => IInv
<1> SUFFICES ASSUME Init PROVE IInv
  OBVIOUS
<1>1. Pow2[W] \in Nat \ {0} /\ size0 \in Nat \ {0}
  BY Powers, SizeIsPower, ScanAssumption DEF Init
<1>2. TypeOK
  <2>1. 0 \in 0 .. Pow2[W] - 1 /\ -1 \in -1 .. Pow2[W]
    BY <1>1
  <2> QED
    BY <2>1 DEF Init, TypeOK
<1>3. Tables /\ Cursor /\ NothingMissed
  BY <1>1 DEF Init, Tables, Cursor, NothingMissed, dictIsRehashing
<1>4. Ahead
  <2>1. rev(0) = 0
    BY ReversedZero, ScanAssumption DEF rev
  <2>2. hash \in Nat
    BY <1>1 DEF Init
  <2>3. rev(hash) \in 0 .. Pow2[W] - 1
    BY <2>2, ReversedBits, ScanAssumption DEF rev
  <2> QED
    BY <1>1, <2>1, <2>3 DEF Init, Ahead
<1> QED
  BY <1>2, <1>3, <1>4 DEF IInv

(* Only dictScan changes what Ahead and NothingMissed speak of. *)
LEMMA ScanUnchanged ==
    ASSUME IInv, UNCHANGED <<hash, scan>> PROVE Ahead' /\ NothingMissed'
BY DEF IInv, Ahead, NothingMissed, scan, rev

LEMMA ResizeIInv ==
    ASSUME MAX_SHRINK =< 2, IInv, NEW size \in Sizes, Resize(size) PROVE IInv'
<1>1. Ahead' /\ NothingMissed'
  BY ScanUnchanged DEF Resize
<1>2. size \in Nat \ {0} /\ widest \in Nat /\ Pow2[W] \in Nat
  BY SizeIsPower, Powers, ScanAssumption DEF IInv, TypeOK
<1>3. TypeOK'
  BY <1>2 DEF IInv, TypeOK, Resize, scan
<1>4. Tables'
  BY <1>2 DEF IInv, Tables, Resize, dictIsRehashing
<1>5. widest =< 2 * size
  <2>1. widest =< MAX_SHRINK * size /\ MAX_SHRINK \in {1, 2}
    BY ScanAssumption DEF Resize
  <2> QED
    BY <1>2, <2>1
<1>6. Cursor'
  BY <1>5 DEF IInv, Cursor, Resize, scan, dictIsRehashing
<1> QED
  BY <1>1, <1>3, <1>4, <1>6 DEF IInv

LEMMA MoveBucketIInv ==
    ASSUME IInv, NEW i \in 0 .. size0 - 1, MoveBucket(i) PROVE IInv'
<1>1. Ahead' /\ NothingMissed'
  BY ScanUnchanged DEF MoveBucket
<1>2. size0 \in Nat \ {0} /\ size0 =< Pow2[W] /\ Pow2[W] \in Nat
  BY SizeIsPower, Powers, ScanAssumption DEF IInv, TypeOK
<1>3. i + 1 \in -1 .. Pow2[W] /\ i + 1 # -1
  BY <1>2
<1>4. TypeOK'
  BY <1>3 DEF IInv, TypeOK, MoveBucket, scan
<1>5. Tables' /\ Cursor'
  BY <1>3 DEF IInv, Tables, Cursor, MoveBucket, scan, dictIsRehashing
<1> QED
  BY <1>1, <1>4, <1>5 DEF IInv

LEMMA RehashDoneIInv == ASSUME IInv, RehashDone PROVE IInv'
<1>1. Ahead' /\ NothingMissed'
  BY ScanUnchanged DEF RehashDone
<1>2. Pow2[W] \in Nat /\ size1 \in Sizes
  BY SmallerTable, Powers, ScanAssumption DEF RehashDone
<1>3. TypeOK'
  BY <1>2 DEF IInv, TypeOK, RehashDone, scan
<1>4. Tables' /\ Cursor'
  BY DEF IInv, Tables, Cursor, RehashDone, scan, dictIsRehashing
<1> QED
  BY <1>1, <1>3, <1>4 DEF IInv

LEMMA ReaddIInv == ASSUME IInv, Readd PROVE IInv'
<1>1. Ahead' /\ NothingMissed'
  BY ScanUnchanged DEF Readd
<1>2. TypeOK'
  BY DEF IInv, TypeOK, Readd, scan
<1>3. Tables' /\ Cursor'
  BY DEF IInv, Tables, Cursor, Readd, scan, dictIsRehashing
<1> QED
  BY <1>1, <1>2, <1>3 DEF IInv

LEMMA ScanIInv == ASSUME IInv, dictScan PROVE IInv'
<1> DEFINE z == Smaller
<1>1. PICK s \in 0 .. W : z = Pow2[s]
  BY SmallerTable, SizeIsPower
<1>2. /\ hash \in Nat /\ v \in Nat /\ z \in Sizes /\ z \in Nat \ {0} /\ z =< Pow2[W]
      /\ Pow2[W] \in Nat /\ widest \in Nat /\ size0 \in Nat
      /\ dictIsRehashing => size1 \in Nat
  <2>1. Pow2[W] \in Nat
    BY Powers, ScanAssumption
  <2> QED
    BY <2>1, SmallerTable, SizeIsPower DEF IInv, TypeOK
<1>3. /\ z =< size0 /\ (dictIsRehashing => z =< size1)
  BY SmallerTable
<1>4. v' = Advance(v, z) /\ v' \in 0 .. z - 1
  BY <1>1, <1>2, Advanced DEF dictScan
<1>5. widest' = (IF z > widest THEN z ELSE widest)
  BY DEF dictScan
<1>6. /\ UNCHANGED <<size0, size1, rehashidx, table, hash>>
      /\ dictIsRehashing' = dictIsRehashing
  BY DEF dictScan, tables, dictIsRehashing
<1>7. /\ seen' = (seen \/ Returned) /\ state \in {"before", "running"}
      /\ state' = (IF v' = 0 THEN "over" ELSE "running")
  BY DEF dictScan
<1>8. seen \/ rev(hash) >= rev(v)
  BY <1>7 DEF IInv, Ahead
<1> HIDE DEF z
<1>9. TypeOK'
  <2>1. v' \in 0 .. Pow2[W] - 1 /\ widest' \in Sizes \cup {0}
    BY <1>2, <1>4, <1>5 DEF IInv, TypeOK
  <2>2. state' \in {"before", "running", "over"}
    BY <1>7
  <2>3. seen' \in BOOLEAN
    BY <1>7 DEF IInv, TypeOK, Returned, Emitted
  <2> QED
    BY <2>1, <2>2, <2>3, <1>6 DEF IInv, TypeOK
<1>10. Tables'
  BY <1>6 DEF IInv, Tables
<1>11. Cursor'
  <2>1. v' < widest'
    BY <1>2, <1>4, <1>5
  <2>2. widest' =< 2 * size0
    BY <1>2, <1>3, <1>5 DEF IInv, Cursor
  <2>3. dictIsRehashing => widest' =< 2 * size1
    BY <1>2, <1>3, <1>5 DEF IInv, Cursor
  <2> QED
    BY <2>1, <2>2, <2>3, <1>6 DEF Cursor
<1>12. seen' \/ (v' # 0 /\ rev(hash) >= rev(v'))
  <2>1. CASE seen
    BY <2>1, <1>7
  <2>2. CASE ~seen /\ hash % z = v % z
    <3>1. Returned
      BY <2>2, <1>8, ReturnedHere DEF z
    <3> QED
      BY <3>1, <1>7
  <2>3. CASE ~seen /\ hash % z # v % z
    <3>1. rev(hash) >= rev(Advance(v, Pow2[s])) /\ Advance(v, Pow2[s]) # 0
      BY <2>3, <1>1, <1>2, <1>8, StaysAhead
    <3> QED
      BY <3>1, <1>1, <1>4
  <2> QED
    BY <2>1, <2>2, <2>3
<1>13. Ahead' /\ NothingMissed'
  <2>1. rev(hash)' = rev(hash) /\ rev(v)' = rev(v')
    BY <1>6 DEF rev
  <2> QED
    BY <2>1, <1>7, <1>12 DEF Ahead, NothingMissed
<1> QED
  BY <1>9, <1>10, <1>11, <1>13 DEF IInv

LEMMA NextIInv == ASSUME MAX_SHRINK =< 2, IInv, [Next]_vars PROVE IInv'
<1>1. CASE \E size \in Sizes : Resize(size)
  BY <1>1, ResizeIInv
<1>2. CASE \E i \in 0 .. size0 - 1 : MoveBucket(i)
  BY <1>2, MoveBucketIInv
<1>3. CASE RehashDone
  BY <1>3, RehashDoneIInv
<1>4. CASE Readd
  BY <1>4, ReaddIInv
<1>5. CASE dictScan
  BY <1>5, ScanIInv
<1>6. CASE UNCHANGED vars
  BY <1>6 DEF vars, tables, scan, IInv, TypeOK, Tables, Cursor, Ahead, NothingMissed,
              dictIsRehashing, rev
<1> QED
  BY <1>1, <1>2, <1>3, <1>4, <1>5, <1>6 DEF Next

(* "The function guarantees all elements present in the dictionary get returned between
   the start and end of the iteration": a key that stays in the dictionary is returned,
   whatever resizes and bucket moves come between the calls of dictScan, if none of them
   makes the table less than half of one a cursor came from. *)
THEOREM NothingIsMissed == ASSUME MAX_SHRINK =< 2 PROVE Spec => []NothingMissed
<1>1. IInv /\ [Next]_vars => IInv'
  BY NextIInv
<1>2. IInv => NothingMissed
  BY DEF IInv
<1> QED
  BY InitIInv, <1>1, <1>2, PTL DEF Spec

(* The variables keep their types: the cursor and the place of the rehashing never leave
   the table. *)
THEOREM TypeCorrect == ASSUME MAX_SHRINK =< 2 PROVE Spec => []TypeOK
<1>1. IInv /\ [Next]_vars => IInv'
  BY NextIInv
<1>2. IInv => TypeOK
  BY DEF IInv
<1> QED
  BY InitIInv, <1>1, <1>2, PTL DEF Spec

=============================================================================
