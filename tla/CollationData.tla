---------------------------- MODULE CollationData ----------------------------
(***************************************************************************)
(* The collaborators of RuleBasedCollator's comparison and sort-key code   *)
(* that are not in this source tree: the collation data (CEs, contractions,*)
(* the unsafe-backward set), the CollationIterator, CollationCompare::     *)
(* compareUpToQuaternary, the NFD decomposition, UTF-8 decoding and the    *)
(* SortKeyByteSink.  They are modelled from the spec, at the level of      *)
(* detail the comparison code depends on.                                  *)
(*                                                                         *)
(* A collation element (CE) is a record [p, s] of a primary and a          *)
(* secondary weight; 0 means ignorable at that level.  Tertiary, case and  *)
(* quaternary weights are abstracted away: every CE has the common         *)
(* tertiary weight, so those levels never decide a comparison.  Weights    *)
(* double as sort-key bytes, so all of them are above the level separator. *)
(***************************************************************************)
EXTENDS Integers, SequencesExt

CONSTANTS
    CE,             \* CE[c]: the CE sequence of code point c
    Contractions,   \* Contractions[<<c, d>>]: the CEs of the contraction c d
    UnsafeBackward, \* CollationData::unsafeBackwardSet (numeric off)
    Decomposition   \* Decomposition[c]: the canonical decomposition of c

FFFD == 65533                  \* U+FFFD, the result of decoding ill-formed UTF-8
Less == -1                     \* UCOL_LESS
Equal == 0                     \* UCOL_EQUAL
Greater == 1                   \* UCOL_GREATER
BailOut == -2                  \* CollationFastLatin::BAIL_OUT_RESULT
LatinMax == 383                \* CollationFastLatin::LATIN_MAX (U+017F)
LatinMaxUTF8Lead == 197        \* CollationFastLatin::LATIN_MAX_UTF8_LEAD (0xC5)
TerminatorByte == 0            \* Collation::TERMINATOR_BYTE
LevelSeparatorByte == 1        \* Collation::LEVEL_SEPARATOR_BYTE

\* UColAttributeValue strengths and Collation::Level.
Primary == 0
Secondary == 1
Identical == 15
NoLevel == 0
PrimaryLevel == 1
SecondaryLevel == 2
QuaternaryLevel == 5
IdenticalLevel == 6
ZeroLevel == 7

IsUnsafeBackward(c) == c \in UnsafeBackward

(* The canonical decomposition of c, <<>> when c does not decompose        *)
(* (Normalizer2Impl::getDecomposition returning NULL).                     *)
Decomp(c) == IF c \in DOMAIN Decomposition THEN Decomposition[c] ELSE <<>>

NFD(s) == FlattenSeq([i \in DOMAIN s |->
                        IF Decomp(s[i]) = <<>> THEN <<s[i]>> ELSE Decomp(s[i])])

(* The length of the longest prefix of s that passes the NFD quick check  *)
(* (Normalizer2Impl::decompose with a NULL buffer).                        *)
NFDQuickCheckYesLimit(s) ==
    LET bad == {i \in DOMAIN s : Decomp(s[i]) # <<>>}
    IN  IF bad = {} THEN Len(s) ELSE Min(bad) - 1

(***************************************************************************)
(* UTF-8: the encoding of the code points of the model (all below U+0800)  *)
(* and U8_NEXT_OR_FFFD, which turns every ill-formed byte into U+FFFD.      *)
(***************************************************************************)
IsTrail(b) == b \in 128..191                        \* U8_IS_TRAIL
Encode8(cp) == IF cp < 128 THEN <<cp>> ELSE <<192 + cp \div 64, 128 + (cp % 64)>>
ToUTF8(s) == FlattenSeq([i \in DOMAIN s |-> Encode8(s[i])])

(* The code point at byte index i (0-based) and the index after it.        *)
Next8(b, i) ==
    IF b[i + 1] \in 194..223 /\ i + 1 < Len(b) /\ IsTrail(b[i + 2])
    THEN [c |-> (b[i + 1] - 192) * 64 + b[i + 2] - 128, next |-> i + 2]
    ELSE IF b[i + 1] < 128 THEN [c |-> b[i + 1], next |-> i + 1]
    ELSE [c |-> FFFD, next |-> i + 1]

RECURSIVE DecodeFrom(_, _)
DecodeFrom(b, i) ==
    IF i >= Len(b) THEN <<>>
    ELSE <<Next8(b, i).c>> \o DecodeFrom(b, Next8(b, i).next)

(***************************************************************************)
(* The CollationIterator: the CEs of the text from code point index i on   *)
(* (1-based), matching the longest contraction first.                      *)
(***************************************************************************)
RECURSIVE CEsFrom(_, _)
CEsFrom(s, i) ==
    IF i > Len(s) THEN <<>>
    ELSE IF i < Len(s) /\ <<s[i], s[i + 1]>> \in DOMAIN Contractions
         THEN Contractions[<<s[i], s[i + 1]>>] \o CEsFrom(s, i + 2)
         ELSE CE[s[i]] \o CEsFrom(s, i + 1)

(* The nonzero weights of one level; the backward secondary level is read  *)
(* from the end.                                                           *)
Primaries(ces) ==
    SelectSeq([i \in DOMAIN ces |-> ces[i].p], LAMBDA w : w # 0)
Secondaries(ces, french) ==
    LET w == SelectSeq([i \in DOMAIN ces |-> ces[i].s], LAMBDA x : x # 0)
    IN  IF french THEN Reverse(w) ELSE w

(* Lexicographic comparison of weight sequences; an end sorts lowest.      *)
RECURSIVE SeqCompare(_, _)
SeqCompare(a, b) ==
    CASE a = <<>> /\ b = <<>> -> Equal
      [] a = <<>> -> Less
      [] b = <<>> -> Greater
      [] Head(a) < Head(b) -> Less
      [] Head(a) > Head(b) -> Greater
      [] OTHER -> SeqCompare(Tail(a), Tail(b))

(* CollationCompare::compareUpToQuaternary on two CE sequences.            *)
CompareUpToQuaternary(a, b, st) ==
    LET p == SeqCompare(Primaries(a), Primaries(b))
    IN  IF p # Equal \/ st.strength = Primary THEN p
        ELSE SeqCompare(Secondaries(a, st.french), Secondaries(b, st.french))

(* CollationFastLatin::compareUTF16/compareUTF8 on the suffixes from the   *)
(* equal prefix: either it bails out or it returns the full comparison of  *)
(* those suffixes up to the quaternary level.                              *)
FastLatinOutcomes(a, b, st) == {BailOut, CompareUpToQuaternary(a, b, st)}

(***************************************************************************)
(* The SortKeyByteSink with the FixedSortKeyByteSink overflow behaviour:    *)
(* the first `ignore' bytes are dropped, `appended' counts the others, and *)
(* only the first `cap' of those land in the buffer.                       *)
(***************************************************************************)
NewSink(cap, ignore) == [cap |-> cap, ignore |-> ignore, appended |-> 0, buf |-> <<>>]
Overflowed(k) == k.appended > k.cap
GetRemainingCapacity(k) == k.ignore + k.cap - k.appended
SinkAppend(k, bytes) ==
    LET skip == IF k.ignore < Len(bytes) THEN k.ignore ELSE Len(bytes)
        rest == SubSeq(bytes, skip + 1, Len(bytes))
        room == k.cap - k.appended
        fits == IF room <= 0 THEN 0 ELSE IF room < Len(rest) THEN room ELSE Len(rest)
    IN  [k EXCEPT !.ignore = @ - skip,
                  !.appended = @ + Len(rest),
                  !.buf = @ \o SubSeq(rest, 1, fits)]

(* u_writeIdenticalLevelRun: BOCSU writes each code point as an           *)
(* order-preserving, prefix-free run of bytes above the terminator.  A     *)
(* fixed two-byte big-endian form keeps those two properties, and lets a   *)
(* sort-key part end in the middle of a code point.                        *)
IdenticalLevelRun(cps) ==
    FlattenSeq([i \in DOMAIN cps |-> <<1 + cps[i] \div 256, cps[i] % 256>>])

(***************************************************************************)
(* The reference meaning of compare(): the whole strings compared up to    *)
(* the quaternary level, then, at IDENTICAL strength, their NFD forms in   *)
(* code point order.                                                       *)
(***************************************************************************)
RefCompare(l, r, st) ==
    LET q == CompareUpToQuaternary(CEsFrom(l, 1), CEsFrom(r, 1), st)
    IN  IF q # Equal \/ st.strength # Identical THEN q
        ELSE SeqCompare(NFD(l), NFD(r))
=============================================================================
