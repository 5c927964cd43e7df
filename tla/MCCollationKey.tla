---------------------------- MODULE MCCollationKey ----------------------------
(* Model values for CollationKey.  The byte strings are sort keys: each    *)
(* ends in the terminator 0 and has no other 0, and has an even length.   *)
EXTENDS CollationKey, TLC

\* Sort keys of odd length, for MCCollationKey_odd.cfg.
MCOddValues == {<<5, 6, 0>>, <<5, 6, 7, 8, 0>>}
MCValues == {<<>>, <<5, 0>>, <<6, 0>>, <<5, 7, 6, 0>>}
\* Keys are interchangeable: nothing in the specification orders them.
MCSymmetry == Permutations(Keys)
=============================================================================
