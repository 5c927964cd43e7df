------------------------- MODULE MCCollatorSettings -------------------------
(* Model values for CollatorSettings.  "root" has no default reordering;   *)
(* "el" stands for a tailoring whose defaults reorder Greek first.        *)
EXTENDS CollatorSettings, TLC

MCDefaultCodes == [t \in Tailorings |-> IF t = "root" THEN <<>> ELSE <<"Grek">>]
MCHasFastLatin == [t \in Tailorings |-> TRUE]
MCCodes == {"Grek", "digt"}
\* Inputs to setReorderCodes: DEFAULT, off, Greek first, digits first, both.
MCReorderAll == {<<DefaultCode>>, <<>>, <<"Grek">>, <<"digt">>, <<"Grek", "digt">>}
MCReorderNoOff == MCReorderAll \ {<<>>}
\* DEFAULT, one script first, two scripts first: one change of the list length each way.
MCReorderNoOffPair == {<<DefaultCode>>, <<"Grek">>, <<"Grek", "digt">>}
\* variableTop: 1 = spaces, 2 = punctuation, 3 = symbols (beyond the fast-Latin header).
MCVarTops == 1..3
\* The default and symbols: one change of variableTop, beyond the fast-Latin header.
MCVarTopsPair == {2, 3}
\* Collators are interchangeable: nothing in the specification orders them.
MCSymmetry == Permutations(Colls)
=============================================================================
