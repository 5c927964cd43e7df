---------------------------- MODULE MCCharNames ----------------------------
(***************************************************************************)
(* A scaled unames.dat for CharNames: code points 0..127 in four groups of *)
(* 32 lines, of which groups 0, 1 and 3 are stored and group 2 is a gap    *)
(* holding a hexadecimal range ID-48..ID-51 (its names carry '9'->'A' and  *)
(* 'F'->'0'); a factorized range "HS " + {G,GG} x {A,AE,O} x {"",N} over   *)
(* 100..111 inside stored group 3; control, unassigned and noncharacter    *)
(* code points for the extended names.  The stored lines use one- and      *)
(* two-byte tokens, 1.0 names and ISO comments.                            *)
(***************************************************************************)
EXTENDS CharNames

MCMaxValue == 127

MCAlgRanges == <<
    [type |-> 0, start |-> 72, end |-> 81, variant |-> 2, prefix |-> Str("ID-"),
     factors |-> <<>>, elems |-> <<>>],
    [type |-> 1, start |-> 100, end |-> 111, variant |-> 3, prefix |-> Str("HS "),
     factors |-> <<2, 3, 2>>,
     elems |-> <<Str("G"), Str("GG"), Str("A"), Str("AE"), Str("O"), <<>>, Str("N")>>] >>

\* Line bytes: letters are bytes below tokenCount whose tokens[] entry is
\* (uint16_t)(-1); T(k) is token byte k; D(k) the lead byte 4 and k.
B(s) == Str(s)
T(k) == <<k>>
D(k) == <<4, k>>
SP == Str(" ")

\* tokenCount is above the double-byte token numbers 4*256+1 and 4*256+2.
MCTokenCount == 1100

\* "QU" (first met in an ISO comment), "EN" (met twice in one line), and
\* the double-byte tokens "STAR" and "BAR" at their tokenStrings offsets.
MCTokens == [c \in 0..MCTokenCount - 1 |->
                CASE c = 1 -> 0 [] c = 2 -> 3 [] c = 4 -> LEAD
                  [] c = 1025 -> 6 [] c = 1026 -> 11 [] OTHER -> LETTER]

MCTokenStrings == (0 :> Str("QU")) @@ (3 :> Str("EN")) @@ (6 :> Str("STAR")) @@ (11 :> Str("BAR"))

\* Group 0: a control with only a 1.0 name, one with only an ISO comment,
\* a name with a comment, a name with a 1.0 name.  Group 1: the
\* double-byte tokens.  Group 3: a name longer than every extended name,
\* a repeated token, and the token first met in the comment of code 5.
MCGroups == <<
    [msb |-> 0, lines |-> (0 :> B(";NULL")) @@ (3 :> B(";;ALT"))
                          @@ (5 :> B("DOT;;") \o T(1) \o B("OTE")) @@ (7 :> B("DASH;HYPHEN"))],
    [msb |-> 1, lines |-> (8 :> D(1)) @@ (31 :> D(2))],
    [msb |-> 3, lines |-> (1 :> B("BELL"))
                          @@ (2 :> D(1) \o SP \o D(2) \o SP \o D(1) \o SP \o D(2) \o SP
                                  \o D(1) \o SP \o D(2) \o SP \o D(1) \o SP \o T(2) \o B("D"))
                          @@ (24 :> T(2) \o B("D;") \o T(2) \o B("DING"))
                          @@ (26 :> T(1) \o B("AD"))] >>

MCCharCat == [c \in 0..MCMaxValue |->
                CASE c < 32 -> 15              \* control
                  [] c >= 64 /\ c < 96 -> 0    \* unassigned
                  [] c >= 126 -> 30            \* noncharacter
                  [] OTHER -> 5]               \* other letter

MCCodes == 0..(MCMaxValue + 1)

MCBounds == {0, 1, 33, 72, 75, 100, 105, 112, 127, 128, 200}

\* Lax but harmless forms: a short number, no closing '>', an unknown
\* category, a code point of another category, a suffix not in the range.
MCExtraNames == {Str("<control-0>"), Str("<control-0001"), Str("<letter-0001>"),
                 Str("<control-0040>"), Str("ID-52"), Str("HS GAX"), Str("STARS")}

\* Extended names the parser takes although they name no code point, or
\* another one: no '-', a number wider than UChar32, a number past
\* UCHAR_MAX_VALUE, text after the '>' that ends the number.
MCLaxExtNames == {Str("<control>"), Str("<control-100000001>"), Str("<unassigned-80>"),
                  Str("<control-1>x>")}
====
