-------------------------------- MODULE SdsText --------------------------------
(***************************************************************************)
(* Texts taken apart and put together: sdssplitlen, sdsjoin, sdscatrepr    *)
(* and sdssplitargs of src/cache/sds.c.  The tokens are strings of Sds; of *)
(* each only the text counts here.                                         *)
(***************************************************************************)
EXTENDS Sds

CONSTANTS
    Separator,      \* the separators to split at
    SPLIT_SLOTS     \* the slots sdssplitlen starts with

HexDigit == <<"0", "1", "2", "3", "4", "5", "6", "7", "8", "9", "a", "b", "c", "d", "e", "f">>

(* The bytes this module has a name for. *)
Named == {"DQ", "'", "\\", "x", "n", "r", "t", "a", "b"} \cup ToSet(HexDigit) \cup Blank

ASSUME CharAssumption ==
    /\ Separator \subseteq Seq(Byte \ {NUL}) \ {<<>>} /\ SPLIT_SLOTS \in Nat \ {0}
    /\ Ascii[NUL] = 0 /\ NUL \notin Named
    /\ \A c, d \in Byte : Ascii[c] \in 0 .. 255 /\ (Ascii[c] = Ascii[d] => c = d)

NULL == [tokens |-> <<>>, slots |-> 0]

-----------------------------------------------------------------------------
(* sdssplitlen goes from place to place: r.at is where it is and r.start where the token
   began.  The array has room for the next token and the last one. *)

FirstPlace == [at |-> 1, start |-> 1, tokens |-> <<>>, slots |-> SPLIT_SLOTS]

NextPlace(s, sep, r) ==
    LET next  == r.at + Len(sep)
        slots == IF r.slots < Len(r.tokens) + 2 THEN 2 * r.slots ELSE r.slots
    IN  IF r.at > Len(s) - (Len(sep) - 1) THEN r
        ELSE IF SubSeq(s, r.at, next - 1) = sep
        THEN [at |-> next, start |-> next, slots |-> slots,
              tokens |-> Append(r.tokens, SubSeq(s, r.start, r.at - 1))]
        ELSE [r EXCEPT !.at = @ + 1, !.slots = slots]

Places(s, sep) ==
    LET r[k \in Nat] == IF k = 0 THEN FirstPlace ELSE NextPlace(s, sep, r[k - 1])
    IN  r

(* The empty text has no token. *)
sdssplitlen(s, sep) ==
    LET r == Places(s, sep)[Len(s)]
    IN  IF sep = <<>> THEN NULL
        ELSE [tokens |-> IF s = <<>> THEN <<>>
                         ELSE Append(r.tokens, SubSeq(s, r.start, Len(s))),
              slots  |-> r.slots]

sdsjoin(argv, sep) ==
    FlattenSeq([i \in DOMAIN argv |->
        CString(argv[i]) \o (IF i # Len(argv) THEN CString(sep) ELSE <<>>)])

-----------------------------------------------------------------------------
(* sdscatrepr: quotes and backslashes escaped, what is not printable in letters or hex. *)

Letter == [c \in {"LF", "CR", "HT", "BEL", "BS"} |->
               CASE c = "LF" -> "n" [] c = "CR" -> "r" [] c = "HT" -> "t"
                 [] c = "BEL" -> "a" [] c = "BS" -> "b"]

isprint(c) == Ascii[c] \in 32 .. 126

RawBackslash(c) ==             \* a mistake: only the quote is escaped
    CASE c = "DQ" -> <<"\\", c>>
      [] c \in DOMAIN Letter -> <<"\\", Letter[c]>>
      [] OTHER -> IF isprint(c) THEN <<c>>
                  ELSE <<"\\", "x", HexDigit[Ascii[c] \div 16 + 1],
                         HexDigit[(Ascii[c] % 16) + 1]>>

Escape(c) ==
    CASE c \in {"\\", "DQ"} -> <<"\\", c>>
      [] c \in DOMAIN Letter -> <<"\\", Letter[c]>>
      [] OTHER -> IF isprint(c) THEN <<c>>
                  ELSE <<"\\", "x", HexDigit[Ascii[c] \div 16 + 1],
                         HexDigit[(Ascii[c] % 16) + 1]>>

sdscatrepr(s, p) ==
    s \o <<"DQ">> \o FlattenSeq([i \in DOMAIN p |-> Escape(p[i])]) \o <<"DQ">>

-----------------------------------------------------------------------------
(* sdssplitargs reads a line: r.p is the place, r.mode where that is: between tokens
   ("blank"), in a token, in "double" or "single" quotes, or at the "end", with or without
   an "error". *)

At(s, p) == IF p \in DOMAIN s THEN s[p] ELSE NUL

is_hex_digit(c) == c \in ToSet(HexDigit) \cup {"A", "B", "C", "D", "E", "F"}

hex_digit_to_int(c) ==
    IF c \in {"A", "B", "C", "D", "E", "F"}
    THEN CHOOSE i \in 10 .. 15 : <<"A", "B", "C", "D", "E", "F">>[i - 9] = c
    ELSE CHOOSE i \in 0 .. 15 : HexDigit[i + 1] = c

ByteOf(n) == CHOOSE c \in DOMAIN Ascii : Ascii[c] = n

Unescape(c) == IF \E b \in DOMAIN Letter : Letter[b] = c
               THEN CHOOSE b \in DOMAIN Letter : Letter[b] = c ELSE c

isspace(c) == c \in Blank

Reading == [p |-> 1, mode |-> "blank", text |-> <<>>, argv |-> <<>>]

Put(r, n, c) == [r EXCEPT !.p = @ + n, !.text = Append(@, c)]

TokenEnd(r, p) ==
    [p |-> p, mode |-> "blank", text |-> <<>>, argv |-> Append(r.argv, r.text)]

(* One bad token and there is no answer. *)
BadQuote(r) == [r EXCEPT !.mode = "error"]

(* A closing quote is followed by a space or nothing at all. *)
Closed(s, r) ==
    LET d == At(s, r.p + 1)
    IN  IF d # NUL /\ ~isspace(d) THEN BadQuote(r) ELSE TokenEnd(r, r.p + 1)

Unquoted(s, r) ==
    LET c == At(s, r.p)
    IN  IF c = NUL THEN TokenEnd(r, r.p)
        ELSE IF c \in {"SP", "LF", "CR", "HT"} THEN TokenEnd(r, r.p + 1)
        ELSE IF c = "DQ" THEN [r EXCEPT !.p = @ + 1, !.mode = "double"]
        ELSE IF c = "'" THEN [r EXCEPT !.p = @ + 1, !.mode = "single"]
        ELSE [Put(r, 1, c) EXCEPT !.mode = "token"]

Between(s, r) ==
    IF At(s, r.p) = NUL THEN [r EXCEPT !.mode = "end"]
    ELSE IF isspace(At(s, r.p)) THEN [r EXCEPT !.p = @ + 1]
    ELSE Unquoted(s, r)

DoubleQuoted(s, r) ==
    LET c    == At(s, r.p)
        d    == At(s, r.p + 1)
        high == At(s, r.p + 2)
        low  == At(s, r.p + 3)
    IN  IF c = "\\" /\ d = "x" /\ is_hex_digit(high) /\ is_hex_digit(low)
        THEN Put(r, 4, ByteOf(16 * hex_digit_to_int(high) + hex_digit_to_int(low)))
        ELSE IF c = "\\" /\ d # NUL THEN Put(r, 2, Unescape(d))
        ELSE IF c = "DQ" THEN Closed(s, r)
        ELSE IF c = NUL THEN BadQuote(r)
        ELSE Put(r, 1, c)

SingleQuoted(s, r) ==
    LET c == At(s, r.p)
        d == At(s, r.p + 1)
    IN  IF c = "\\" /\ d = "'" THEN Put(r, 2, d)
        ELSE IF c = "'" THEN Closed(s, r)
        ELSE IF c = NUL THEN BadQuote(r)
        ELSE Put(r, 1, c)

NextByte(s, r) ==
    CASE r.mode = "blank"  -> Between(s, r)
      [] r.mode = "token"  -> Unquoted(s, r)
      [] r.mode = "double" -> DoubleQuoted(s, r)
      [] r.mode = "single" -> SingleQuoted(s, r)
      [] OTHER             -> r

Readings(s) ==
    LET r[k \in Nat] == IF k = 0 THEN Reading ELSE NextByte(s, r[k - 1])
    IN  r

(* A step is a byte at least, but for those that end the last token and the line. *)
sdssplitargs(line) ==
    LET s == CString(line)
        r == Readings(s)[Len(s) + 2]
    IN  IF r.mode = "end" THEN [ok |-> TRUE, argv |-> r.argv] ELSE [ok |-> FALSE, argv |-> <<>>]

-----------------------------------------------------------------------------
(* Properties. *)

Quote(t) == sdscatrepr(<<>>, t)

(* In single quotes a backslash escapes the quote only. *)
SingleQuote(t) ==
    <<"'">> \o FlattenSeq([i \in DOMAIN t |-> IF t[i] = "'" THEN <<"\\", "'">> ELSE <<t[i]>>])
        \o <<"'">>

(* The words of a text, between blanks; a form feed and a vertical tab are blanks only
   between two tokens and not counted here. *)
Words(t) ==
    LET spaced == Mapped(t, <<"LF", "CR", "HT">>, <<"SP", "SP", "SP">>)
        tokens == sdssplitlen(spaced, <<"SP">>).tokens
    IN  FlattenSeq([i \in DOMAIN tokens |-> IF tokens[i] = <<>> THEN <<>> ELSE <<tokens[i]>>])

HasPart(t, u) == \E i \in 1 .. Len(t) - Len(u) + 1 : SubSeq(t, i, i + Len(u) - 1) = u

(* What one function writes the other reads back, whatever bytes the texts have: a line
   of texts that sdscatrepr quoted is split into those texts by sdssplitargs (the comment
   of sdssplitargs says so), a text in single quotes is read back, and a line without
   quotes is split into its words; splitting at a separator and joining with it restores
   the text, no token contains the separator, and the array of tokens is never written
   behind its end. *)
RoundTrips ==
    LET t == Content(m)
    IN  /\ \A u \in Arg : sdssplitargs(sdsjoin(<<Quote(t), Quote(u)>>, <<"SP">>))
                              = [ok |-> TRUE, argv |-> <<t, u>>]
        /\ NUL \notin ToSet(t) =>
               /\ \A sep \in Separator :
                      LET r == sdssplitlen(t, sep)
                      IN  /\ Len(r.tokens) =< r.slots
                          /\ sdsjoin(r.tokens, sep) = t
                          /\ \A i \in DOMAIN r.tokens : ~HasPart(r.tokens[i], sep)
               /\ "\\" \notin ToSet(t) =>
                      sdssplitargs(SingleQuote(t)) = [ok |-> TRUE, argv |-> <<t>>]
               /\ ToSet(t) \cap {"DQ", "'", "FF", "VT"} = {} =>
                      sdssplitargs(t) = [ok |-> TRUE, argv |-> Words(t)]

=============================================================================
