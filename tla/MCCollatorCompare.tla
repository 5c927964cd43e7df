-------------------------- MODULE MCCollatorCompare --------------------------
(***************************************************************************)
(* A small collation: e < h < c < "ch" on the primary level, with the     *)
(* contraction "ch" (so h is unsafe backward), acute and grave accents as *)
(* secondary differences, precomposed e-acute and e-grave that decompose  *)
(* canonically and share the UTF-8 lead byte C3, and U+FFFD for ill-formed *)
(* UTF-8.                                                                  *)
(***************************************************************************)
EXTENDS CollatorCompare

c == 99          \* U+0063
e == 101         \* U+0065
h == 104         \* U+0068
eGrave == 232    \* U+00E8, UTF-8 C3 A8
eAcute == 233    \* U+00E9, UTF-8 C3 A9
grave == 768     \* U+0300, UTF-8 CC 80
acute == 769     \* U+0301, UTF-8 CC 81

MCChars == {c, e, h, eGrave, eAcute, acute}

Common == 5
MCCE == (c :> <<[p |-> 34, s |-> Common]>>) @@ (e :> <<[p |-> 32, s |-> Common]>>)
     @@ (h :> <<[p |-> 33, s |-> Common]>>)
     @@ (eGrave :> <<[p |-> 32, s |-> Common], [p |-> 0, s |-> 6]>>)
     @@ (eAcute :> <<[p |-> 32, s |-> Common], [p |-> 0, s |-> 7]>>)
     @@ (grave :> <<[p |-> 0, s |-> 6]>>) @@ (acute :> <<[p |-> 0, s |-> 7]>>)
     @@ (FFFD :> <<[p |-> 48, s |-> Common]>>)
MCContractions == <<c, h>> :> <<[p |-> 35, s |-> Common]>>
MCUnsafe == {h, grave, acute}
MCDecomposition == (eGrave :> <<e, grave>>) @@ (eAcute :> <<e, acute>>)

MCTexts(n) == UNION {[1..k -> MCChars] : k \in 0..n}
(* The characters whose runs the back-up walks over: the contraction    *)
(* start, the unsafe h and acute, and a precomposed letter.              *)
MCBackUpChars == {c, h, eAcute, acute}

(* Every pair of texts of up to two code points, and every text of three *)
(* of MCBackUpChars against the texts that differ from it in one position. *)
MCPairs == (MCTexts(2) \X MCTexts(2))
           \cup {<<t, [t EXCEPT ![i] = x]>> : t \in [1..3 -> MCBackUpChars], i \in 1..3,
                                              x \in MCBackUpChars}

MCSettings == {[strength |-> Identical, french |-> FALSE, fastLatin |-> TRUE],
               [strength |-> Secondary, french |-> TRUE, fastLatin |-> TRUE],
               [strength |-> Primary, french |-> FALSE, fastLatin |-> FALSE]}
=============================================================================
