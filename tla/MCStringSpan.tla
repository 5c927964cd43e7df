---------------------------- MODULE MCStringSpan ----------------------------
(* Small UnicodeSets for StringSpan: three code points, and string lists   *)
(* whose strings overlap each other and the code-point span.               *)
EXTENDS StringSpan

MCChars == {"a", "b", "c"}

\* One-, two- and three-byte code points in UTF-8.
MCU8Len == [c \in MCChars |-> CASE c = "a" -> 1 [] c = "b" -> 2 [] OTHER -> 3]

MCCPSets == {{}, {"a"}, {"a", "b"}}

MCStringSets == {
    {<<"a", "b">>},
    {<<"a", "b">>, <<"b", "c">>},
    {<<"b", "c">>, <<"a", "b", "c">>},
    {<<"c", "a">>, <<"a", "b", "c">>, <<"c", "b">>},
    {<<"a", "b">>, <<"a", "b", "c">>, <<"c", "a">>}
}
====
