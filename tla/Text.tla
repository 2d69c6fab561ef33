--------------------------------- MODULE Text ---------------------------------
(***************************************************************************)
(* What the operations of src/cache/sds.c and cobj.c mean to their user:   *)
(* functions from texts to texts, a text being a sequence of bytes of any  *)
(* value.  Room and memory are no part of it.  A byte is written as a      *)
(* string of one character, but for NUL, the space (SP), the double quote  *)
(* (DQ) and the control characters BEL, BS, HT, LF, VT, FF and CR.         *)
(***************************************************************************)
EXTENDS Integers, SequencesExt

CONSTANTS NUL,
          MaxInt64          \* the largest number an object can hold

Zeros(n) == [i \in 1 .. n |-> NUL]

(* The bytes up to the first NUL: what a C string function sees. *)
CString(t) ==
    SubSeq(t, 1, CHOOSE n \in 0 .. Len(t) : /\ \A i \in 1 .. n : t[i] # NUL
                                            /\ n < Len(t) => t[n + 1] = NUL)

Extended(t, n) == t \o Zeros(n - Len(t))

(* What is left begins and ends with no byte of C, or is empty. *)
Trimmed(t, C) ==
    CHOOSE u \in {SubSeq(t, i, j) : i \in 1 .. Len(t) + 1, j \in 0 .. Len(t)} :
        /\ u # <<>> => Head(u) \notin C /\ Last(u) \notin C
        /\ \E i \in 0 .. Len(t) - Len(u) :
               /\ \A n \in 1 .. Len(t) : n =< i \/ n > i + Len(u) => t[n] \in C
               /\ u = SubSeq(t, i + 1, i + Len(u))

(* The bytes whose number, from 0, is from a to b; a negative number counts from
   the end, and one before the beginning is 0. *)
Slice(t, a, b) ==
    LET Place(i) == IF i >= 0 THEN i ELSE IF Len(t) + i < 0 THEN 0 ELSE Len(t) + i
    IN  SubSeq(t, Place(a) + 1, IF Place(b) < Len(t) THEN Place(b) + 1 ELSE Len(t))

(* from[i] becomes to[i]; where from has a byte twice, the first counts. *)
Mapped(t, from, to) ==
    LET Place(c) == CHOOSE i \in DOMAIN from :
                        from[i] = c /\ \A j \in 1 .. i - 1 : from[j] # c
    IN  [n \in DOMAIN t |-> IF Contains(from, t[n]) THEN to[Place(t[n])] ELSE t[n]]

(* t is before u in the order of ascii, the shorter one first. *)
Before(t, u, ascii) ==
    \E n \in 0 .. Len(t) :
        /\ n =< Len(u) /\ SubSeq(t, 1, n) = SubSeq(u, 1, n)
        /\ \/ n = Len(t) /\ n < Len(u)
           \/ n < Len(t) /\ n < Len(u) /\ ascii[t[n + 1]] < ascii[u[n + 1]]

-----------------------------------------------------------------------------
(* Numbers. *)

Digit == <<"0", "1", "2", "3", "4", "5", "6", "7", "8", "9">>

(* The last digit stands for the rest of the division by ten. *)
Digits[n \in Nat] ==
    IF n < 10 THEN <<Digit[n + 1]>> ELSE Append(Digits[n \div 10], Digit[(n % 10) + 1])

(* The text of an integer. *)
Numeral(n) == IF n < 0 THEN <<"-">> \o Digits[-n] ELSE Digits[n]

Blank == {"SP", "LF", "HT", "CR", "FF", "VT"}

Int64 == -MaxInt64 - 1 .. MaxInt64

(* The number a text denotes, if it denotes one: blanks and a sign may precede the
   digits, nothing follows them. *)
Denoted(t) ==
    LET i      == CHOOSE i \in 0 .. Len(t) : /\ \A j \in 1 .. i : t[j] \in Blank
                                             /\ i < Len(t) => t[i + 1] \notin Blank
        sign   == SubSeq(t, i + 1, IF i < Len(t) /\ t[i + 1] \in {"+", "-"} THEN i + 1 ELSE i)
        digits == SubSeq(t, i + Len(sign) + 1, Len(t))
        n      == FoldLeft(LAMBDA a, c : 10 * a + (CHOOSE d \in 0 .. 9 : Digit[d + 1] = c),
                           0, digits)
    IN  IF digits = <<>> \/ ~ToSet(digits) \subseteq ToSet(Digit) THEN {}
        ELSE {IF sign = <<"-">> THEN -n ELSE n} \cap Int64

(* Add to the number the text denotes, if there is one and the sum is one, too. *)
Sum(t, n) ==
    IF {v + n : v \in Denoted(CString(t))} \cap Int64 = {} THEN t
    ELSE Numeral(n + CHOOSE v \in Denoted(CString(t)) : TRUE)

=============================================================================
