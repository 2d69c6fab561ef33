--------------------------------- MODULE MCSds ---------------------------------
(* Instance of SdsText: texts of up to three bytes over letters, digits, a sign, blanks,
   quotes, a backslash and NUL. *)
EXTENDS SdsText

MCArg == {<<>>, <<"a">>, <<"SP">>, <<"LF">>, <<"DQ">>, <<"'">>, <<"\\">>, <<NUL>>,
          <<"-", "9">>, <<"B", NUL>>, <<"SP", "1">>, <<"\\", "x", "0">>}

MCCharset == {{}, {"SP"}, {"a", "-"}}

MCFormat ==
    {<<[kind |-> k, text |-> t], [kind |-> "byte", text |-> <<"a">>]>> :
         k \in {"s", "S"}, t \in {<<>>, <<"1">>, <<"x", NUL>>}}
    \cup {<<[kind |-> "byte", text |-> <<"a">>], [kind |-> "i", num |-> n]>> :
              n \in {0, -MaxInt64 - 1}}
    \cup {<<[kind |-> "u", num |-> 10], [kind |-> "u", num |-> 1]>>, <<>>}

MCMapping == {<< <<"a", "a", "1">>, <<"B", "x", "a">> >>, << <<NUL>>, <<"SP">> >>}

MCAscii == (NUL :> 0) @@ ("LF" :> 10) @@ ("SP" :> 32) @@ ("DQ" :> 34) @@ ("'" :> 39)
           @@ ("-" :> 45) @@ [c \in ToSet(Digit) |-> 48 + (CHOOSE i \in 0 .. 9 : Digit[i + 1] = c)]
           @@ ("A" :> 65) @@ ("B" :> 66) @@ ("X" :> 88) @@ ("\\" :> 92)
           @@ ("a" :> 97) @@ ("b" :> 98) @@ ("x" :> 120)

MCByte == DOMAIN MCAscii

MCLower == <<"a", "b", "x">>
MCCapital == <<"A", "B", "X">>

MCSeparator == {<<"SP">>, <<"-", "-">>, <<"a">>}

=============================================================================
