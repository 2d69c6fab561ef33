---------------------------------- MODULE Sds ----------------------------------
(***************************************************************************)
(* A dynamic string of src/cache/sds.c: a header with the length and the   *)
(* room left, the bytes and a NUL, in a block that zmalloc.c allocates and *)
(* accounts for; and the number a string object (cobj.c) keeps in one.     *)
(*                                                                         *)
(* A string s has s.len, s.free, s.buf, s.block (the size of its block, 0  *)
(* for NULL) and s.used (used_memory).  s.buf holds the bytes up to the    *)
(* one that ought to be the NUL; what lies behind is never read.  A failed *)
(* malloc ends the process (zmalloc_default_oom).                          *)
(***************************************************************************)
EXTENDS Text

CONSTANTS
    Byte,           \* the bytes there are
    Junk,           \* what a byte nobody has written reads as
    Arg,            \* the texts passed to the operations
    Charset,        \* the sets of bytes passed to sdstrim
    Format,         \* the pieces passed to sdscatfmt
    Mapping,        \* the pairs of texts passed to sdsmapchars
    Lower,          \* the letters of the upper-case ones, in the same order
    Capital,        \* those upper-case letters
    Ascii,          \* the code of a byte
    HDR,            \* sizeof(struct sdshdr)
    WORD,           \* sizeof(long), and PREFIX_SIZE
    SDS_MAX_PREALLOC,
    MaxInt32,       \* INT_MAX
    MaxLen,         \* bound: the length of the string
    MaxRoom         \* bound: the room asked for

ASSUME SdsAssumption ==
    /\ HDR \in Nat \ {0} /\ WORD \in Nat \ {0} /\ SDS_MAX_PREALLOC \in Nat
    /\ MaxInt64 \in Nat /\ MaxInt32 \in 0 .. MaxInt64
    /\ MaxLen \in Nat /\ MaxRoom \in Nat

(* What stands in a format: a byte that is copied, or a specifier and its argument. *)
Piece == [kind : {"byte"}, text : {<<c>> : c \in Byte}]
         \cup [kind : {"s", "S"}, text : Seq(Byte)]
         \cup [kind : {"i"}, num : Int64] \cup [kind : {"u"}, num : Nat]

ASSUME TextAssumption ==
    /\ NUL \in Byte /\ Junk \notin Byte /\ ToSet(Digit) \cup {"-"} \subseteq Byte
    /\ Arg \subseteq Seq(Byte) /\ Format \subseteq Seq(Piece) /\ Ascii \in [Byte -> Nat]
    /\ \A p \in Mapping \cup {<<Lower, Capital>>} :
           p[1] \in Seq(Byte) /\ p[2] \in Seq(Byte) /\ Len(p[1]) = Len(p[2])

VARIABLE m          \* the string

-----------------------------------------------------------------------------
(* zmalloc.c: the size of a block is in a word in front of it. *)

Padded(n) == IF n % WORD # 0 THEN n + (WORD - (n % WORD)) ELSE n

PREFIX_SIZE == WORD

NoString(used) == [len |-> 0, free |-> 0, buf |-> <<>>, block |-> 0, used |-> used]

zmalloc(used, n) ==
    [NoString(used) EXCEPT !.block = n, !.used = @ + Padded(n + PREFIX_SIZE)]

(* What was within the old size is kept, as far as the new one goes. *)
zrealloc(s, n) ==
    [s EXCEPT !.block = n,
              !.used = @ - Padded(s.block) + Padded(n),
              !.buf = SubSeq(@, 1, IF n - HDR < Len(@) THEN n - HDR ELSE Len(@))]

zmalloc_size(s) == Padded(s.block) + PREFIX_SIZE

zfree(s) == NoString(s.used - Padded(s.block + PREFIX_SIZE))

-----------------------------------------------------------------------------
(* Strings. *)

Content(s) == SubSeq(s.buf, 1, s.len)

(* The byte at place i, from 1. *)
ByteAt(s, i) == IF i \in DOMAIN s.buf THEN s.buf[i] ELSE Junk

(* The header with the length n, and the room that is then left of the total. *)
Resized(s, n) == [s EXCEPT !.len = n, !.free = s.free + s.len - n]

(* t and a NUL are written from place at on, and the string ends there. *)
Write(s, at, t) ==
    [Resized(s, at + Len(t)) EXCEPT
        !.buf = [i \in 1 .. at |-> ByteAt(s, i)] \o t \o <<NUL>>]

sdsnewlen(used, t) ==
    [zmalloc(used, HDR + Len(t) + 1) EXCEPT !.len = Len(t), !.buf = t \o <<NUL>>]

sdsnewzeros(used, n) == sdsnewlen(used, Zeros(n))

sdsnew(used, t) == sdsnewlen(used, CString(t))

(* new, made while s was there, takes its place; s is freed. *)
Replaced(s, new) == [new EXCEPT !.used = zfree([s EXCEPT !.used = new.used]).used]

sdsdup(s) == Replaced(s, sdsnewlen(s.used, Content(s)))

(* strlen sees the bytes up to the first NUL, wherever that is. *)
sdsupdatelen(s) ==
    LET reallen == Len(CString(s.buf))
    IN  [Resized(s, reallen) EXCEPT !.buf = SubSeq(@, 1, reallen + 1)]

sdsclear(s) == Write(s, 0, <<>>)

RoomLess1(s, addlen) ==        \* a mistake: no room for the NUL
    IF s.free >= addlen THEN s
    ELSE LET newlen == IF s.len + addlen < SDS_MAX_PREALLOC
                       THEN 2 * (s.len + addlen)
                       ELSE s.len + addlen + SDS_MAX_PREALLOC
         IN  [zrealloc(s, HDR + newlen) EXCEPT !.free = newlen - s.len]

sdsMakeRoomFor(s, addlen) ==
    IF s.free >= addlen THEN s
    ELSE LET newlen == IF s.len + addlen < SDS_MAX_PREALLOC
                       THEN 2 * (s.len + addlen)
                       ELSE s.len + addlen + SDS_MAX_PREALLOC
         IN  [zrealloc(s, HDR + newlen + 1) EXCEPT !.free = newlen - s.len]

sdsRemoveFreeSpace(s) == [zrealloc(s, HDR + s.len + 1) EXCEPT !.free = 0]

sdsAllocSize(s) == HDR + s.len + s.free + 1

(* The user makes room for t, writes it behind the string and adjusts the length
   (the assertion of sdsIncrLen holds by the room asked for). *)
sdsIncrLen(s, t) == Write(sdsMakeRoomFor(s, Len(t)), s.len, t)

sdsDecrLen(s, n) == Write(s, s.len - n, <<>>)

sdsgrowzero(s, n) ==
    IF n =< s.len THEN s
    ELSE Write(sdsMakeRoomFor(s, n - s.len), s.len, Zeros(n - s.len))

sdscatlen(s, t) == Write(sdsMakeRoomFor(s, Len(t)), s.len, t)

sdscat(s, t) == sdscatlen(s, CString(t))

(* t is what vsnprintf writes; the buffer it is tried in, doubled until t fits, is
   allocated and freed in between. *)
sdscatvprintf(s, t) == sdscat(s, t)

sdscpylen(s, t) ==
    Write(IF s.free + s.len < Len(t) THEN sdsMakeRoomFor(s, Len(t) - s.len) ELSE s,
          0, t)

-----------------------------------------------------------------------------
(* sdscatfmt: a piece of the format is a byte or what a %-specifier stands for. *)

sdsll2str(n) == Numeral(n)

sdsull2str(n) == Digits[n]

PieceText(p) == CASE p.kind \in {"byte", "S"} -> p.text
                  [] p.kind = "s" -> CString(p.text)
                  [] p.kind = "i" -> sdsll2str(p.num)
                  [] p.kind = "u" -> sdsull2str(p.num)

AddText(t, p) == t \o PieceText(p)

(* There is room for a byte first; a specifier asks for what it needs.  The length
   and the room are kept piece by piece, the NUL is written at the end. *)
AddPiece(s, p) ==
    LET t == PieceText(p)
        a == IF s.free = 0 THEN sdsMakeRoomFor(s, 1) ELSE s
        b == IF p.kind # "byte" /\ a.free < Len(t) THEN sdsMakeRoomFor(a, Len(t)) ELSE a
    IN  [Resized(b, b.len + Len(t)) EXCEPT
            !.buf = [i \in 1 .. b.len |-> ByteAt(b, i)] \o t]

sdscatfmt(s, format) ==
    LET r == FoldLeft(AddPiece, s, format)
    IN  [r EXCEPT !.buf = SubSeq(@, 1, r.len) \o <<NUL>>]

-----------------------------------------------------------------------------
(* Operations in place. *)

(* sp, the first byte not of the set, from the front (strchr finds the NUL in any
   set), and ep, the last, from the back but never before the front. *)
sdstrim(s, cset) ==
    LET C  == cset \cup {NUL}
        sp == CHOOSE i \in 1 .. s.len + 1 : /\ \A n \in 1 .. i - 1 : s.buf[n] \in C
                                            /\ i =< s.len => s.buf[i] \notin C
        ep == CHOOSE j \in 0 .. s.len : /\ \A n \in j + 1 .. s.len : s.buf[n] \in C
                                        /\ j > 1 => s.buf[j] \notin C
                                        /\ s.len > 0 => j >= 1
    IN  Write(s, 0, IF sp > ep THEN <<>> ELSE SubSeq(s.buf, sp, ep))

(* newlen from clipped places; the end is clipped again when it is behind the string. *)
sdsrange(s, start, end) ==
    LET Clip(i) == IF i >= 0 THEN i ELSE IF s.len + i < 0 THEN 0 ELSE s.len + i
        a == Clip(start)
        b == IF Clip(end) >= s.len THEN s.len - 1 ELSE Clip(end)
        newlen == IF a > Clip(end) \/ a >= s.len THEN 0 ELSE b - a + 1
    IN  IF s.len = 0 THEN s
        ELSE Write(s, 0, SubSeq(s.buf, a + 1, a + newlen))

(* The first i with from[i] decides. *)
sdsmapchars(s, from, to) ==
    [s EXCEPT !.buf = [j \in DOMAIN @ |->
        LET at == {i \in DOMAIN from : from[i] = @[j]}
        IN  IF j > s.len \/ at = {} THEN @[j] ELSE to[Min(at)]]]

sdstolower(s) == sdsmapchars(s, Capital, Lower)
sdstoupper(s) == sdsmapchars(s, Lower, Capital)

(* memcmp over the common length, then the lengths. *)
sdscmp(s, t) ==
    LET diff == {i \in 1 .. s.len : i =< Len(t) /\ s.buf[i] # t[i]}
    IN  IF diff = {} THEN s.len - Len(t)
        ELSE Ascii[s.buf[Min(diff)]] - Ascii[t[Min(diff)]]

dictSdsKeyCompare(s, t) ==
    s.len = Len(t) /\ \A i \in 1 .. s.len : s.buf[i] = t[i]

-----------------------------------------------------------------------------
(* cobj.c: the number in a string object. *)

(* strtoll over the bytes up to the first NUL; {} when it fails, when there is no
   digit and when a byte is left over. *)
sds_to_int64(s) == Denoted(CString(s.buf))

AddUnchecked(s, incr) ==       \* a mistake: only one side of the range is tested
    LET n == sds_to_int64(s)
    IN  IF n = {} THEN s
        ELSE LET num == CHOOSE v \in n : TRUE
             IN  IF incr > 0 /\ num > 0 /\ incr > MaxInt64 - num THEN s
                 ELSE Replaced(s, sdsnewlen(s.used, sdsll2str(num + incr)))

cobj_incrby(s, incr) ==
    LET n == sds_to_int64(s)
    IN  IF n = {} THEN s
        ELSE LET num == CHOOSE v \in n : TRUE
             IN  IF \/ incr < 0 /\ num < 0 /\ incr < -MaxInt64 - 1 - num
                    \/ incr > 0 /\ num > 0 /\ incr > MaxInt64 - num
                 THEN s
                 ELSE Replaced(s, sdsnewlen(s.used, sdsll2str(num + incr)))

cobj_sds_decrby(s, decr) == cobj_incrby(s, -decr)

(* An int, but for INT_MIN, whose negation is no int. *)
Amount == -MaxInt32 .. MaxInt32

-----------------------------------------------------------------------------
Init == m = NoString(0)

Fits(n) == n =< MaxLen

Make == /\ m.block = 0
        /\ \/ \E t \in Arg : m' \in {sdsnewlen(m.used, t), sdsnew(m.used, t)}
           \/ \E n \in 0 .. MaxLen : m' = sdsnewzeros(m.used, n)
           \/ \E v \in Int64 : m' = sdsnewlen(m.used, sdsll2str(v))

sdsfree == m' = zfree(m)

Reshape == \/ m' \in {sdsdup(m), sdsupdatelen(m), sdsclear(m), sdsRemoveFreeSpace(m)}
           \/ \E n \in 0 .. MaxRoom : m' = sdsMakeRoomFor(m, n)
           \/ \E n \in 0 .. m.len : m' = sdsDecrLen(m, n)
           \/ \E n \in 0 .. MaxLen : m' = sdsgrowzero(m, n)

Grow == \/ \E t \in Arg : /\ Fits(m.len + Len(t))
                          /\ m' \in {sdscatlen(m, t), sdscat(m, t), sdsIncrLen(m, t),
                                     sdscatvprintf(m, t)}
        \/ \E f \in Format : Fits(sdscatfmt(m, f).len) /\ m' = sdscatfmt(m, f)

Edit == \/ \E t \in Arg : Fits(Len(t)) /\ m' = sdscpylen(m, t)
        \/ \E C \in Charset : m' = sdstrim(m, C)
        \/ \E a, b \in -MaxLen - 1 .. MaxLen + 1 : m' = sdsrange(m, a, b)
        \/ \E p \in Mapping : m' = sdsmapchars(m, p[1], p[2])
        \/ m' \in {sdstolower(m), sdstoupper(m)}

Count == \E n \in Amount : m' \in {cobj_incrby(m, n), cobj_sds_decrby(m, n)}

Next == \/ Make
        \/ m.block # 0 /\ (sdsfree \/ Reshape \/ Grow \/ Edit \/ Count)

Spec == Init /\ [][Next]_m

-----------------------------------------------------------------------------
(* Properties. *)

(* The header tells the truth about the block on every path that makes, grows, trims,
   rewrites or appends to the string by hand: length, room and the NUL make up the
   block (sdsAllocSize), the NUL is where the length says, every byte before it has
   been written, and used_memory is what zmalloc_size would count for the block,
   although zrealloc counts sizes without the word in front. *)
BufferExact ==
    IF m.block = 0 THEN m.used = 0
    ELSE /\ m.len \in Nat /\ m.free \in Nat
         /\ Len(m.buf) = m.len + 1 /\ m.buf[m.len + 1] = NUL
         /\ \A i \in 1 .. m.len : m.buf[i] # Junk
         /\ sdsAllocSize(m) = m.block
         /\ zmalloc_size(m) = m.used

(* Other bytes than those of C are on either side of every NUL. *)
NulInside(t, C) ==
    \A n \in 1 .. Len(t) : t[n] = NUL =>
        /\ \E i \in 1 .. n - 1 : t[i] \notin C \cup {NUL}
        /\ \E i \in n + 1 .. Len(t) : t[i] \notin C \cup {NUL}

(* Whatever room the string has and however it came to it, each operation does to its
   bytes what its comment says: growing never loses or invents a byte, trimming takes
   all of the set and nothing else where it meets no NUL, ranges are clipped at both ends, a number is
   replaced by the sum or, when that is out of range, left alone. *)
MeansText ==
    LET t == Content(m)
    IN  m.block # 0 =>
        /\ \A s \in {sdsdup(m), sdsRemoveFreeSpace(m)} \cup
                     {sdsMakeRoomFor(m, n) : n \in 0 .. MaxRoom} : Content(s) = t
        /\ Content(sdsupdatelen(m)) = CString(t)
        /\ \A n \in 0 .. MaxLen : Content(sdsgrowzero(m, n)) = Extended(t, n)
        /\ \A u \in Arg : /\ Content(sdsIncrLen(m, u)) = t \o u
                           /\ Content(sdscat(m, u)) = t \o CString(u)
                           /\ Content(sdscpylen(m, u)) = u
                           /\ (sdscmp(m, u) < 0 <=> Before(t, u, Ascii))
                           /\ (sdscmp(m, u) > 0 <=> Before(u, t, Ascii))
                           /\ (dictSdsKeyCompare(m, u) <=> t = u)
        /\ \A f \in Format : Content(sdscatfmt(m, f)) =
                                 t \o FoldLeft(AddText, <<>>, f)
        /\ \A C \in Charset : NulInside(t, C) => Content(sdstrim(m, C)) = Trimmed(t, C)
        /\ \A a, b \in -MaxLen - 1 .. MaxLen + 1 :
               Content(sdsrange(m, a, b)) = Slice(t, a, b)
        /\ \A p \in Mapping : Content(sdsmapchars(m, p[1], p[2])) = Mapped(t, p[1], p[2])
        /\ \A n \in Amount : /\ Content(cobj_incrby(m, n)) = Sum(t, n)
                              /\ Content(cobj_sds_decrby(m, n)) = Sum(t, -n)

(* sdstrim removes the characters of the set, as its comment says, from the strings
   with a NUL at an end, too, which an sds may hold. *)
TrimsTheSet ==
    m.block # 0 => \A C \in Charset : Content(sdstrim(m, C)) = Trimmed(Content(m), C)

=============================================================================
