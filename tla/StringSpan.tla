----------------------------- MODULE StringSpan -----------------------------
(***************************************************************************)
(* UnicodeSetStringSpan (src/fastset/source/common/unisetspan.cpp): the    *)
(* span of a string over a UnicodeSet that contains strings as well as     *)
(* code points, in the UTF-16 variants span, spanBack, spanNot and          *)
(* spanNotBack and their UTF-8 twins spanUTF8 ... spanNotBackUTF8.         *)
(*                                                                         *)
(* A UnicodeSet is chosen at start (its code points and its strings); the  *)
(* constructor precomputes the per-string span lengths, the maximum string *)
(* length and the spanNotSet; each call spans one input text.  The         *)
(* algorithms are RECURSIVE operators that keep the loops, early returns   *)
(* and the OffsetList circular buffer of the code; their results are       *)
(* compared with reference definitions of the span conditions.             *)
(*                                                                         *)
(* Data abstraction: code units are model characters, none of them a       *)
(* surrogate, so every code point is one unit and the surrogate-pair       *)
(* guards of the code never fire.  The byte limits 0xfe (LONG_SPAN) and    *)
(* the 16-entry static offset list are constants so that small strings     *)
(* reach the branches that long strings reach in the code.                 *)
(***************************************************************************)
EXTENDS Integers, SequencesExt

CONSTANTS
    Chars,           \* code points (one UTF-16 unit each)
    U8Len,           \* the UTF-8 length of each code point, 1..4
    CPSets,          \* candidate sets of code points of the UnicodeSet
    StringSets,      \* candidate sets of strings (length >= 2) of the UnicodeSet
    MaxText,         \* longest text spanned
    LongSpan,        \* LONG_SPAN (0xfe): span lengths saturate here
    StaticListSize,  \* OffsetList::staticList entries (16)
    AllocMayFail     \* whether uprv_malloc in setMaxLength and the clone
                     \* in addToSpanNotSet may fail

AllCpContained == LongSpan + 1   \* ALL_CP_CONTAINED (0xff)

\* The constructor's "which" bits.  ALL builds every variant; UnicodeSet
\* builds one variant per call when the set is not frozen: one encoding,
\* one direction, one condition.
Variants == {[enc |-> e, dir |-> d, cont |-> c] :
                e \in {"utf16", "utf8"}, d \in {"fwd", "back"}, c \in {"contained", "not"}}
             \cup {[enc |-> "both", dir |-> "both", cont |-> "both"]}

VARIABLES
    cps,          \* the set's code points (spanSet)
    strs,         \* the set's strings, as the UVector orders them
    obj,          \* the UnicodeSetStringSpan: NULL-like "none" or its fields
    last          \* the last call: [op, cond, text, res, fault]

vars == <<cps, strs, obj, last>>

Texts == BoundedSeq(Chars, MaxText)

-----------------------------------------------------------------------------
(* Code-point spans of a UnicodeSet (UnicodeSet::span/spanBack with        *)
(* USET_SPAN_WHILE_CONTAINED or _NOT_CONTAINED) over s[p .. p+n-1].        *)

CpSpan(set, s, p, n, in) ==
    Max({k \in 0..n : \A j \in 1..k : (s[p + j] \in set) = in})

\* spanBack over s[0 .. limit-1]: the lowest position it stops at.
CpSpanBack(set, s, limit, in) ==
    Min({q \in 0..limit : \A j \in q + 1..limit : (s[j] \in set) = in})

\* A matches16 whose loop stops one unit early.
MatchesShort(s, p, str) == p >= 0 /\ p + Len(str) <= Len(s) /\ SubSeq(s, p + 1, p + Len(str) - 1) = SubSeq(str, 1, Len(str) - 1)

\* matches16(s+p, str, Len(str)), with the bounds check of the caller.
Matches(s, p, str) == p >= 0 /\ p + Len(str) <= Len(s) /\ SubSeq(s, p + 1, p + Len(str)) = str

\* spanOne / spanOneBack: the unit length, negative when not in the set.
SpanOne(set, s, p) == IF s[p + 1] \in set THEN 1 ELSE -1
SpanOneBack(set, s, p) == IF s[p] \in set THEN 1 ELSE -1

-----------------------------------------------------------------------------
(* UTF-8.  A byte is <<c, k>>, the k-th byte of the encoding of c: k = 1   *)
(* is a lead (or ASCII) byte and k > 1 a trail byte.  Texts and strings    *)
(* are well-formed, as appendUTF8 writes the strings.                      *)

\* The UTF-8 form of a text of code points (appendUTF8).
Encode8(t) == FlattenSeq([i \in DOMAIN t |-> [k \in 1..U8Len[t[i]] |-> <<t[i], k>>]])

IsTrail(b) == b[2] > 1                          \* U8_IS_TRAIL

\* q is a code point boundary of the bytes s.
Boundary8(s, q) == q = 0 \/ q = Len(s) \/ ~IsTrail(s[q + 1])

\* UnicodeSet::spanUTF8 / spanBackUTF8: whole code points only.
CpSpan8(set, s, p, n, in) ==
    Max({k \in 0..n : Boundary8(s, p + k) /\ \A j \in 1..k : (s[p + j][1] \in set) = in})

CpSpanBack8(set, s, limit, in) ==
    Min({q \in 0..limit : Boundary8(s, q) /\ \A j \in q + 1..limit : (s[j][1] \in set) = in})

\* spanOneUTF8 / spanOneBackUTF8: the byte length of the code point after
\* (before) p, negative when it is not in the set.
SpanOneUTF8(set, s, p) ==
    LET c == s[p + 1][1] IN IF c \in set THEN U8Len[c] ELSE -U8Len[c]
SpanOneBackUTF8(set, s, p) ==
    LET c == s[p][1] IN IF c \in set THEN U8Len[c] ELSE -U8Len[c]

-----------------------------------------------------------------------------
(* OffsetList: a circular buffer of booleans over offsets 1..maxLength     *)
(* relative to start.  "size" is the length of the array in memory (the    *)
(* static list or the malloc'd one), "cap" the capacity the code uses.     *)
(* An index outside the array is recorded as a fault.                      *)

OLEmptyStatic == [list |-> [i \in 0..StaticListSize - 1 |-> FALSE], cap |-> 0,
                  start |-> 0, length |-> 0, fault |-> FALSE]

\* setMaxLength(maxLength): the static list if it is large enough, else a
\* malloc'd list; when malloc fails capacity stays 0 with the static list.
OLSetMaxLength(o, maxLength, allocOK) ==
    IF maxLength <= StaticListSize THEN [o EXCEPT !.cap = StaticListSize]
    ELSE IF allocOK THEN [o EXCEPT !.list = [i \in 0..maxLength - 1 |-> FALSE], !.cap = maxLength]
    ELSE o

OLSlot(o, off) == IF o.start + off >= o.cap THEN o.start + off - o.cap ELSE o.start + off
\* With capacity 0 (failed malloc) the static list was never cleared: a read
\* of it is of uninitialized memory, and past its 16 entries out of bounds.
OLInBounds(o, off) == o.cap > 0 /\ OLSlot(o, off) \in DOMAIN o.list

OLIsEmpty(o) == o.length = 0

OLContains(o, off) == OLInBounds(o, off) /\ o.list[OLSlot(o, off)]

OLAddNoCount(o, off) ==
    IF OLInBounds(o, off) THEN [o EXCEPT !.list[OLSlot(o, off)] = TRUE] ELSE [o EXCEPT !.fault = TRUE]

OLAdd(o, off) ==
    IF OLInBounds(o, off)
    THEN [o EXCEPT !.list[OLSlot(o, off)] = TRUE, !.length = @ + 1]
    ELSE [o EXCEPT !.fault = TRUE]

OLShift(o, delta) ==
    LET i == OLSlot(o, delta) IN
    IF ~OLInBounds(o, delta) THEN [o EXCEPT !.fault = TRUE]
    ELSE IF o.list[i] THEN [o EXCEPT !.list[i] = FALSE, !.length = @ - 1, !.start = i]
    ELSE [o EXCEPT !.start = i]

\* popMinimum(): [val, ol].  Searches start+1..capacity-1, then wraps to 0..start.
OLPopMinimum(o) ==
    LET up == {i \in o.start + 1..o.cap - 1 : o.list[i]}
        i == IF up # {} THEN Min(up) ELSE Min({j \in 0..o.start : o.list[j]})
    IN [val |-> IF up # {} THEN i - o.start ELSE o.cap - o.start + i,
        ol |-> [o EXCEPT !.list[i] = FALSE, !.length = @ - 1, !.start = i]]

-----------------------------------------------------------------------------
(* The constructor.                                                        *)

MakeSpanLengthByte(n) == IF n < LongSpan THEN n ELSE LongSpan

Relevant(str) == CpSpan(cps, str, 0, Len(str), TRUE) < Len(str)

\* maxLength16 as a running total instead of a maximum.
SumLength16(rel) == MapThenSumSet(LAMBDA i : Len(strs[i]), rel)

\* maxLength16: the longest relevant string.
MaxLength16(rel) == Max({Len(strs[i]) : i \in rel} \cup {0})

\* addToSpanNotSet(c): the first code point outside spanSet makes the
\* spanNotSet a thawed clone of spanSet; when the clone fails the function
\* returns and the spanNotSet stays spanSet.  ns = [own, set].
AddToSpanNotSet(ns, c, cloneOK) ==
    CASE ns.own      -> [ns EXCEPT !.set = @ \cup {c}]
      [] c \in cps   -> ns
      [] cloneOK     -> [own |-> TRUE, set |-> cps \cup {c}]
      [] OTHER       -> ns

\* The code points the constructor passes to addToSpanNotSet, in order:
\* per relevant string its first (FWD) and its last (BACK) code point.
NotSetAdds(w) ==
    IF w.cont \notin {"not", "both"} THEN <<>>
    ELSE FlattenSeq([i \in DOMAIN strs |->
            IF ~Relevant(strs[i]) THEN <<>>
            ELSE (IF w.dir \in {"fwd", "both"} THEN <<strs[i][1]>> ELSE <<>>)
                 \o (IF w.dir \in {"back", "both"} THEN <<strs[i][Len(strs[i])]>> ELSE <<>>)])

RECURSIVE NotSetLoop(_, _, _)
NotSetLoop(adds, ok, ns) ==
    IF adds = <<>> THEN ns
    ELSE NotSetLoop(Tail(adds), Tail(ok), AddToSpanNotSet(ns, Head(adds), Head(ok)))

\* UnicodeSetStringSpan(set, setStrings, which); cloneOK[k] is the outcome
\* of the clone in the k-th addToSpanNotSet call.
Construct(w, cloneOK) ==
    LET n == Len(strs)
        rel == {i \in 1..n : Relevant(strs[i])}
        fwd == w.dir \in {"fwd", "both"}
        cont == w.cont \in {"contained", "both"}
        all == w.dir = "both"
        u16 == w.enc \in {"utf16", "both"}
        u8 == w.enc \in {"utf8", "both"}
        s8(i) == Encode8(strs[i])
        fwdLen(i) == MakeSpanLengthByte(CpSpan(cps, strs[i], 0, Len(strs[i]), TRUE))
        backLen(i) == MakeSpanLengthByte(Len(strs[i]) - CpSpanBack(cps, strs[i], Len(strs[i]), TRUE))
        fwdLen8(i) == MakeSpanLengthByte(CpSpan8(cps, s8(i), 0, Len(s8(i)), TRUE))
        backLen8(i) == MakeSpanLengthByte(Len(s8(i)) - CpSpanBack8(cps, s8(i), Len(s8(i)), TRUE))
        lengths(len(_)) == [i \in 1..n |-> IF i \notin rel THEN AllCpContained
                                            ELSE IF ~cont THEN 0 ELSE len(i)]
        \* Without ALL the four span-length pointers share one array, which
        \* holds the lengths of the one variant built.
        one == lengths(LAMBDA i : CASE u16 /\ fwd -> fwdLen(i) [] u16 -> backLen(i)
                                    [] fwd -> fwdLen8(i) [] OTHER -> backLen8(i))
        ns == NotSetLoop(NotSetAdds(w), cloneOK, [own |-> FALSE, set |-> cps])
    IN [which |-> w, all |-> all,
        maxLength16 |-> IF u16 THEN MaxLength16(rel) ELSE 0,
        maxLength8 |-> IF u8 THEN Max({Len(s8(i)) : i \in rel} \cup {0}) ELSE 0,
        utf8 |-> [i \in 1..n |-> IF u8 /\ i \in rel THEN s8(i) ELSE <<>>],
        spanLengths |-> IF all THEN lengths(fwdLen) ELSE one,
        spanBackLengths |-> IF all THEN lengths(backLen) ELSE one,
        spanUTF8Lengths |-> IF all THEN lengths(fwdLen8) ELSE one,
        spanBackUTF8Lengths |-> IF all THEN lengths(backLen8) ELSE one,
        spanNotSet |-> ns.set]

-----------------------------------------------------------------------------
(* span(s, length, CONTAINED | SIMPLE).  One pass of the inner loops over  *)
(* the strings at pos: acc = [hit, maxInc, ol]; hit means a string reached *)
(* the end of the text (the code returns length at once).                  *)

RECURSIVE TryOverlap(_, _, _, _, _, _, _)
TryOverlap(s, pos, rest, str, overlap, inc, acc) ==
    IF inc > rest THEN acc
    ELSE LET fresh == IF acc.maxInc >= 0 THEN inc > acc.maxInc ELSE ~OLContains(acc.ol, inc)
             ol == IF acc.maxInc < 0 /\ ~OLInBounds(acc.ol, inc)
                   THEN [acc.ol EXCEPT !.fault = TRUE] ELSE acc.ol
             hit == fresh /\ Matches(s, pos - overlap, str)
             acc2 == IF ~hit THEN [acc EXCEPT !.ol = ol]
                     ELSE IF inc = rest THEN [acc EXCEPT !.hit = TRUE]
                     ELSE IF acc.maxInc >= 0 THEN [acc EXCEPT !.maxInc = inc]
                     ELSE [acc EXCEPT !.ol = OLAdd(ol, inc)]
         IN IF acc2.hit \/ overlap = 0 THEN acc2
            ELSE TryOverlap(s, pos, rest, str, overlap - 1, inc + 1, acc2)

RECURSIVE TryStrings(_, _, _, _, _, _)
TryStrings(s, pos, rest, spanLength, i, acc) ==
    IF i > Len(strs) \/ acc.hit THEN acc
    ELSE IF obj.spanLengths[i] = AllCpContained THEN TryStrings(s, pos, rest, spanLength, i + 1, acc)
    ELSE LET str == strs[i]
             ov == IF obj.spanLengths[i] = LongSpan THEN Len(str) - 1 ELSE obj.spanLengths[i]
             overlap == Min({ov, spanLength})
         IN TryStrings(s, pos, rest, spanLength, i + 1,
                       TryOverlap(s, pos, rest, str, overlap, Len(str) - overlap, acc))

Result(r, f) == [res |-> r, fault |-> f]

RECURSIVE SpanLoop(_, _, _, _, _)
SpanLoop(s, pos, spanLength, ol, maxIncReset) ==
    LET len == Len(s)
        rest == len - pos
        r == TryStrings(s, pos, rest, spanLength, 1, [hit |-> FALSE, maxInc |-> maxIncReset, ol |-> ol])
        pop == OLPopMinimum(r.ol)
        popNext == SpanLoop(s, pos + pop.val, 0, pop.ol, maxIncReset)
    IN IF r.ol.fault THEN Result(-1, TRUE)
       ELSE IF r.hit THEN Result(len, FALSE)
       ELSE IF r.maxInc > 0 THEN SpanLoop(s, pos + r.maxInc, 0, r.ol, maxIncReset)
       ELSE IF spanLength # 0 \/ pos = 0
       THEN IF OLIsEmpty(r.ol) THEN Result(pos, FALSE) ELSE popNext
       ELSE IF OLIsEmpty(r.ol)
       THEN LET sl == CpSpan(cps, s, pos, rest, TRUE) IN
            IF pos + sl = len \/ sl = 0 THEN Result(pos + sl, FALSE)
            ELSE SpanLoop(s, pos + sl, sl, r.ol, maxIncReset)
       ELSE LET one == SpanOne(cps, s, pos) IN
            IF one > 0
            THEN IF one = rest THEN Result(len, FALSE)
                 ELSE LET sh == OLShift(r.ol, one) IN
                      IF sh.fault THEN Result(-1, TRUE)
                      ELSE SpanLoop(s, pos + one, 0, sh, maxIncReset)
            ELSE popNext

\* A span that takes the longest-match path for every condition.
SpanLongestOnly(s, cond, allocOK) ==
    LET sl == CpSpan(cps, s, 0, Len(s), TRUE) IN
    IF sl = Len(s) THEN Result(Len(s), FALSE) ELSE SpanLoop(s, sl, sl, OLEmptyStatic, 0)

Span(s, cond, allocOK) ==
    LET sl == CpSpan(cps, s, 0, Len(s), TRUE) IN
    IF sl = Len(s) THEN Result(Len(s), FALSE)
    ELSE IF cond = "contained"
    THEN SpanLoop(s, sl, sl, OLSetMaxLength(OLEmptyStatic, obj.maxLength16, allocOK), -1)
    ELSE SpanLoop(s, sl, sl, OLEmptyStatic, 0)

-----------------------------------------------------------------------------
(* spanBack(s, length, CONTAINED | SIMPLE): the mirror image, matching     *)
(* strings that end at pos + overlap, with spanBackLengths.                *)

RECURSIVE TryOverlapBack(_, _, _, _, _, _)
TryOverlapBack(s, pos, str, overlap, dec, acc) ==
    IF dec > pos THEN acc
    ELSE LET fresh == IF acc.maxInc >= 0 THEN dec > acc.maxInc ELSE ~OLContains(acc.ol, dec)
             ol == IF acc.maxInc < 0 /\ ~OLInBounds(acc.ol, dec)
                   THEN [acc.ol EXCEPT !.fault = TRUE] ELSE acc.ol
             hit == fresh /\ Matches(s, pos - dec, str)
             acc2 == IF ~hit THEN [acc EXCEPT !.ol = ol]
                     ELSE IF dec = pos THEN [acc EXCEPT !.hit = TRUE]
                     ELSE IF acc.maxInc >= 0 THEN [acc EXCEPT !.maxInc = dec]
                     ELSE [acc EXCEPT !.ol = OLAdd(ol, dec)]
         IN IF acc2.hit \/ overlap = 0 THEN acc2
            ELSE TryOverlapBack(s, pos, str, overlap - 1, dec + 1, acc2)

RECURSIVE TryStringsBack(_, _, _, _, _)
TryStringsBack(s, pos, spanLength, i, acc) ==
    IF i > Len(strs) \/ acc.hit THEN acc
    ELSE IF obj.spanBackLengths[i] = AllCpContained THEN TryStringsBack(s, pos, spanLength, i + 1, acc)
    ELSE LET str == strs[i]
             ov == IF obj.spanBackLengths[i] = LongSpan THEN Len(str) - 1 ELSE obj.spanBackLengths[i]
             overlap == Min({ov, spanLength})
         IN TryStringsBack(s, pos, spanLength, i + 1,
                           TryOverlapBack(s, pos, str, overlap, Len(str) - overlap, acc))

RECURSIVE SpanBackLoop(_, _, _, _, _)
SpanBackLoop(s, pos, spanLength, ol, maxDecReset) ==
    LET r == TryStringsBack(s, pos, spanLength, 1, [hit |-> FALSE, maxInc |-> maxDecReset, ol |-> ol])
        pop == OLPopMinimum(r.ol)
        popNext == SpanBackLoop(s, pos - pop.val, 0, pop.ol, maxDecReset)
    IN IF r.ol.fault THEN Result(-1, TRUE)
       ELSE IF r.hit THEN Result(0, FALSE)
       ELSE IF r.maxInc > 0 THEN SpanBackLoop(s, pos - r.maxInc, 0, r.ol, maxDecReset)
       ELSE IF spanLength # 0 \/ pos = Len(s)
       THEN IF OLIsEmpty(r.ol) THEN Result(pos, FALSE) ELSE popNext
       ELSE IF OLIsEmpty(r.ol)
       THEN LET p2 == CpSpanBack(cps, s, pos, TRUE) IN
            IF p2 = 0 \/ pos - p2 = 0 THEN Result(p2, FALSE)
            ELSE SpanBackLoop(s, p2, pos - p2, r.ol, maxDecReset)
       ELSE LET one == SpanOneBack(cps, s, pos) IN
            IF one > 0
            THEN IF one = pos THEN Result(0, FALSE)
                 ELSE LET sh == OLShift(r.ol, one) IN
                      IF sh.fault THEN Result(-1, TRUE)
                      ELSE SpanBackLoop(s, pos - one, 0, sh, maxDecReset)
            ELSE popNext

SpanBack(s, cond, allocOK) ==
    LET pos == CpSpanBack(cps, s, Len(s), TRUE) IN
    IF pos = 0 THEN Result(0, FALSE)
    ELSE IF cond = "contained"
    THEN SpanBackLoop(s, pos, Len(s) - pos, OLSetMaxLength(OLEmptyStatic, obj.maxLength16, allocOK), -1)
    ELSE SpanBackLoop(s, pos, Len(s) - pos, OLEmptyStatic, 0)

-----------------------------------------------------------------------------
(* spanUTF8 and spanBackUTF8: the same loops over bytes with the UTF-8     *)
(* strings and span lengths.  A string is tried only where the text has no *)
(* trail byte, and that test comes before the offset list is read.         *)

RECURSIVE TryOverlap8(_, _, _, _, _, _, _)
TryOverlap8(s, pos, rest, str, overlap, inc, acc) ==
    IF inc > rest THEN acc
    ELSE LET lead == ~IsTrail(s[pos - overlap + 1])
             fresh == IF acc.maxInc >= 0 THEN inc > acc.maxInc ELSE ~OLContains(acc.ol, inc)
             ol == IF lead /\ acc.maxInc < 0 /\ ~OLInBounds(acc.ol, inc)
                   THEN [acc.ol EXCEPT !.fault = TRUE] ELSE acc.ol
             hit == lead /\ fresh /\ Matches(s, pos - overlap, str)
             acc2 == IF ~hit THEN [acc EXCEPT !.ol = ol]
                     ELSE IF inc = rest THEN [acc EXCEPT !.hit = TRUE]
                     ELSE IF acc.maxInc >= 0 THEN [acc EXCEPT !.maxInc = inc]
                     ELSE [acc EXCEPT !.ol = OLAdd(ol, inc)]
         IN IF acc2.hit \/ overlap = 0 THEN acc2
            ELSE TryOverlap8(s, pos, rest, str, overlap - 1, inc + 1, acc2)

\* LONG_SPAN: the string minus its last code point (U8_BACK_1).
RECURSIVE TryStrings8(_, _, _, _, _, _)
TryStrings8(s, pos, rest, spanLength, i, acc) ==
    IF i > Len(strs) \/ acc.hit THEN acc
    ELSE IF obj.spanUTF8Lengths[i] = AllCpContained THEN TryStrings8(s, pos, rest, spanLength, i + 1, acc)
    ELSE LET str == obj.utf8[i]
             ov == IF obj.spanUTF8Lengths[i] = LongSpan
                   THEN Len(str) - U8Len[str[Len(str)][1]] ELSE obj.spanUTF8Lengths[i]
             overlap == Min({ov, spanLength})
         IN TryStrings8(s, pos, rest, spanLength, i + 1,
                        TryOverlap8(s, pos, rest, str, overlap, Len(str) - overlap, acc))

RECURSIVE SpanLoop8(_, _, _, _, _)
SpanLoop8(s, pos, spanLength, ol, maxIncReset) ==
    LET len == Len(s)
        rest == len - pos
        r == TryStrings8(s, pos, rest, spanLength, 1, [hit |-> FALSE, maxInc |-> maxIncReset, ol |-> ol])
        pop == OLPopMinimum(r.ol)
        popNext == SpanLoop8(s, pos + pop.val, 0, pop.ol, maxIncReset)
    IN IF r.ol.fault THEN Result(-1, TRUE)
       ELSE IF r.hit THEN Result(len, FALSE)
       ELSE IF r.maxInc > 0 THEN SpanLoop8(s, pos + r.maxInc, 0, r.ol, maxIncReset)
       ELSE IF spanLength # 0 \/ pos = 0
       THEN IF OLIsEmpty(r.ol) THEN Result(pos, FALSE) ELSE popNext
       ELSE IF OLIsEmpty(r.ol)
       THEN LET sl == CpSpan8(cps, s, pos, rest, TRUE) IN
            IF pos + sl = len \/ sl = 0 THEN Result(pos + sl, FALSE)
            ELSE SpanLoop8(s, pos + sl, sl, r.ol, maxIncReset)
       ELSE LET one == SpanOneUTF8(cps, s, pos) IN
            IF one > 0
            THEN IF one = rest THEN Result(len, FALSE)
                 ELSE LET sh == OLShift(r.ol, one) IN
                      IF sh.fault THEN Result(-1, TRUE)
                      ELSE SpanLoop8(s, pos + one, 0, sh, maxIncReset)
            ELSE popNext

\* spanUTF8 sizing its offset list by the UTF-16 maximum, as span does.
SpanUTF8MaxLength16(s, cond, allocOK) ==
    LET sl == CpSpan8(cps, s, 0, Len(s), TRUE) IN
    IF sl = Len(s) THEN Result(Len(s), FALSE)
    ELSE IF cond = "contained"
    THEN SpanLoop8(s, sl, sl, OLSetMaxLength(OLEmptyStatic, obj.maxLength16, allocOK), -1)
    ELSE SpanLoop8(s, sl, sl, OLEmptyStatic, 0)

SpanUTF8(s, cond, allocOK) ==
    LET sl == CpSpan8(cps, s, 0, Len(s), TRUE) IN
    IF sl = Len(s) THEN Result(Len(s), FALSE)
    ELSE IF cond = "contained"
    THEN SpanLoop8(s, sl, sl, OLSetMaxLength(OLEmptyStatic, obj.maxLength8, allocOK), -1)
    ELSE SpanLoop8(s, sl, sl, OLEmptyStatic, 0)

RECURSIVE TryOverlapBack8(_, _, _, _, _, _)
TryOverlapBack8(s, pos, str, overlap, dec, acc) ==
    IF dec > pos THEN acc
    ELSE LET lead == ~IsTrail(s[pos - dec + 1])
             fresh == IF acc.maxInc >= 0 THEN dec > acc.maxInc ELSE ~OLContains(acc.ol, dec)
             ol == IF lead /\ acc.maxInc < 0 /\ ~OLInBounds(acc.ol, dec)
                   THEN [acc.ol EXCEPT !.fault = TRUE] ELSE acc.ol
             hit == lead /\ fresh /\ Matches(s, pos - dec, str)
             acc2 == IF ~hit THEN [acc EXCEPT !.ol = ol]
                     ELSE IF dec = pos THEN [acc EXCEPT !.hit = TRUE]
                     ELSE IF acc.maxInc >= 0 THEN [acc EXCEPT !.maxInc = dec]
                     ELSE [acc EXCEPT !.ol = OLAdd(ol, dec)]
         IN IF acc2.hit \/ overlap = 0 THEN acc2
            ELSE TryOverlapBack8(s, pos, str, overlap - 1, dec + 1, acc2)

\* LONG_SPAN: the string minus its first code point (U8_FWD_1).
RECURSIVE TryStringsBack8(_, _, _, _, _)
TryStringsBack8(s, pos, spanLength, i, acc) ==
    IF i > Len(strs) \/ acc.hit THEN acc
    ELSE IF obj.spanBackUTF8Lengths[i] = AllCpContained THEN TryStringsBack8(s, pos, spanLength, i + 1, acc)
    ELSE LET str == obj.utf8[i]
             ov == IF obj.spanBackUTF8Lengths[i] = LongSpan
                   THEN Len(str) - U8Len[str[1][1]] ELSE obj.spanBackUTF8Lengths[i]
             overlap == Min({ov, spanLength})
         IN TryStringsBack8(s, pos, spanLength, i + 1,
                            TryOverlapBack8(s, pos, str, overlap, Len(str) - overlap, acc))

RECURSIVE SpanBackLoop8(_, _, _, _, _)
SpanBackLoop8(s, pos, spanLength, ol, maxDecReset) ==
    LET r == TryStringsBack8(s, pos, spanLength, 1, [hit |-> FALSE, maxInc |-> maxDecReset, ol |-> ol])
        pop == OLPopMinimum(r.ol)
        popNext == SpanBackLoop8(s, pos - pop.val, 0, pop.ol, maxDecReset)
    IN IF r.ol.fault THEN Result(-1, TRUE)
       ELSE IF r.hit THEN Result(0, FALSE)
       ELSE IF r.maxInc > 0 THEN SpanBackLoop8(s, pos - r.maxInc, 0, r.ol, maxDecReset)
       ELSE IF spanLength # 0 \/ pos = Len(s)
       THEN IF OLIsEmpty(r.ol) THEN Result(pos, FALSE) ELSE popNext
       ELSE IF OLIsEmpty(r.ol)
       THEN LET p2 == CpSpanBack8(cps, s, pos, TRUE) IN
            IF p2 = 0 \/ pos - p2 = 0 THEN Result(p2, FALSE)
            ELSE SpanBackLoop8(s, p2, pos - p2, r.ol, maxDecReset)
       ELSE LET one == SpanOneBackUTF8(cps, s, pos) IN
            IF one > 0
            THEN IF one = pos THEN Result(0, FALSE)
                 ELSE LET sh == OLShift(r.ol, one) IN
                      IF sh.fault THEN Result(-1, TRUE)
                      ELSE SpanBackLoop8(s, pos - one, 0, sh, maxDecReset)
            ELSE popNext

SpanBackUTF8(s, cond, allocOK) ==
    LET pos == CpSpanBack8(cps, s, Len(s), TRUE) IN
    IF pos = 0 THEN Result(0, FALSE)
    ELSE IF cond = "contained"
    THEN SpanBackLoop8(s, pos, Len(s) - pos, OLSetMaxLength(OLEmptyStatic, obj.maxLength8, allocOK), -1)
    ELSE SpanBackLoop8(s, pos, Len(s) - pos, OLEmptyStatic, 0)

-----------------------------------------------------------------------------
(* spanNot and spanNotBack: span over the spanNotSet, then stop where a    *)
(* relevant string matches or a code point of the set is found.           *)

\* Treats the 0 flag of a NOT_CONTAINED object as "irrelevant".
RelevantIdxNonZero == {i \in 1..Len(strs) : obj.spanLengths[i] \notin {0, AllCpContained}}

RelevantIdx == {i \in 1..Len(strs) : obj.spanLengths[i] # AllCpContained}

RECURSIVE SpanNotLoop(_, _)
SpanNotLoop(s, pos) ==
    LET rest == Len(s) - pos
        i == CpSpan(obj.spanNotSet, s, pos, rest, FALSE)
        p == pos + i
    IN IF i = rest THEN Len(s)
       ELSE IF \E k \in RelevantIdx : Len(strs[k]) <= Len(s) - p /\ Matches(s, p, strs[k]) THEN p
       ELSE IF SpanOne(cps, s, p) > 0 THEN p
       ELSE IF Len(s) - (p + 1) = 0 THEN Len(s)
       ELSE SpanNotLoop(s, p + 1)

SpanNot(s) == SpanNotLoop(s, 0)

RECURSIVE SpanNotBackLoop(_, _)
SpanNotBackLoop(s, limit) ==
    LET pos == CpSpanBack(obj.spanNotSet, s, limit, FALSE)
    IN IF pos = 0 THEN 0
       ELSE IF \E k \in RelevantIdx : Len(strs[k]) <= pos /\ Matches(s, pos - Len(strs[k]), strs[k]) THEN pos
       ELSE IF SpanOneBack(cps, s, pos) > 0 THEN pos
       ELSE IF pos - 1 = 0 THEN Len(s)     \* the loop ends: "return length"
       ELSE SpanNotBackLoop(s, pos - 1)

SpanNotBack(s) == SpanNotBackLoop(s, Len(s))

\* spanNotUTF8 and spanNotBackUTF8: relevance from the UTF-8 span lengths,
\* the UTF-8 strings, and a skip of a whole code point.
RelevantIdx8 == {i \in 1..Len(strs) : obj.spanUTF8Lengths[i] # AllCpContained}
RelevantBackIdx8 == {i \in 1..Len(strs) : obj.spanBackUTF8Lengths[i] # AllCpContained}

RECURSIVE SpanNotLoop8(_, _)
SpanNotLoop8(s, pos) ==
    LET rest == Len(s) - pos
        i == CpSpan8(obj.spanNotSet, s, pos, rest, FALSE)
        p == pos + i
        one == SpanOneUTF8(cps, s, p)
    IN IF i = rest THEN Len(s)
       ELSE IF \E k \in RelevantIdx8 : Len(obj.utf8[k]) <= Len(s) - p /\ Matches(s, p, obj.utf8[k]) THEN p
       ELSE IF one > 0 THEN p
       ELSE IF Len(s) - (p - one) = 0 THEN Len(s)
       ELSE SpanNotLoop8(s, p - one)

SpanNotUTF8(s) == SpanNotLoop8(s, 0)

RECURSIVE SpanNotBackLoop8(_, _)
SpanNotBackLoop8(s, limit) ==
    LET pos == CpSpanBack8(obj.spanNotSet, s, limit, FALSE)
        one == SpanOneBackUTF8(cps, s, pos)
    IN IF pos = 0 THEN 0
       ELSE IF \E k \in RelevantBackIdx8 : Len(obj.utf8[k]) <= pos
                                        /\ Matches(s, pos - Len(obj.utf8[k]), obj.utf8[k]) THEN pos
       ELSE IF one > 0 THEN pos
       ELSE IF pos + one = 0 THEN Len(s)     \* the loop ends: "return length"
       ELSE SpanNotBackLoop8(s, pos + one)

SpanNotBackUTF8(s) == SpanNotBackLoop8(s, Len(s))

-----------------------------------------------------------------------------
(* Reference definitions of the span conditions.  The set's elements are   *)
(* its code points (as one-unit strings) and its strings.                  *)

Elements == {<<c>> : c \in cps} \cup ToSet(strs)

\* s is a concatenation of set elements.
RECURSIVE IsConcat(_)
IsConcat(s) == s = <<>> \/ \E e \in Elements : IsPrefix(e, s) /\ IsConcat(SubSeq(s, Len(e) + 1, Len(s)))

\* USET_SPAN_CONTAINED: the longest prefix that is a concatenation.
RefSpan(s) == Max({k \in 0..Len(s) : IsConcat(SubSeq(s, 1, k))})

\* spanBack with USET_SPAN_CONTAINED: where the longest such suffix starts.
RefSpanBack(s) == Min({k \in 0..Len(s) : IsConcat(SubSeq(s, k + 1, Len(s)))})

\* An element of the set starts at offset p (ends at offset p for Back).
ElementAt(s, p) == \E e \in Elements : p + Len(e) <= Len(s) /\ SubSeq(s, p + 1, p + Len(e)) = e
ElementBefore(s, p) == \E e \in Elements : Len(e) <= p /\ SubSeq(s, p - Len(e) + 1, p) = e

\* USET_SPAN_NOT_CONTAINED: up to the first position where an element
\* starts; backward, from the last position where an element ends.
RefSpanNot(s) == Min({p \in 0..Len(s) - 1 : ElementAt(s, p)} \cup {Len(s)})
RefSpanNotBack(s) == Max({p \in 1..Len(s) : ElementBefore(s, p)} \cup {0})

-----------------------------------------------------------------------------
(* The state machine: a set is chosen, then span objects are built and     *)
(* called.  The object is immutable once built, so the calls only record   *)
(* their result.                                                           *)

NoObj == [which |-> [enc |-> "none", dir |-> "none", cont |-> "none"], all |-> FALSE,
          maxLength16 |-> 0, maxLength8 |-> 0, utf8 |-> <<>>,
          spanLengths |-> <<>>, spanBackLengths |-> <<>>,
          spanUTF8Lengths |-> <<>>, spanBackUTF8Lengths |-> <<>>, spanNotSet |-> {}]

NoCall == [op |-> "none", enc |-> "none", cond |-> "none", text |-> <<>>, res |-> 0, fault |-> FALSE]

Init ==
    /\ cps \in CPSets
    /\ strs \in {SetToSeq(S) : S \in StringSets}
    /\ obj = NoObj
    /\ last = NoCall

AllocOutcomes == IF AllocMayFail THEN {TRUE, FALSE} ELSE {TRUE}

\* new UnicodeSetStringSpan(set, strings, which), each clone in
\* addToSpanNotSet succeeding or not.
Build(w) ==
    /\ \E ok \in [1..Len(NotSetAdds(w)) -> AllocOutcomes] : obj' = Construct(w, ok)
    /\ last' = NoCall
    /\ UNCHANGED <<cps, strs>>

\* needsStringSpanUTF16() / needsStringSpanUTF8(): UnicodeSet only calls an
\* object whose maximum string length in that encoding is positive.
Built(enc, dirs, conts) ==
    /\ IF enc = "utf16" THEN obj.maxLength16 > 0 ELSE obj.maxLength8 > 0
    /\ obj.which.dir \in dirs /\ obj.which.cont \in conts

\* The span functions are const: a call leaves the object as it was, so the
\* model takes one call per built object, and every (object, call) pair is
\* still reached.
Record(op, enc, cond, t, r) ==
    /\ last = NoCall
    /\ last' = [op |-> op, enc |-> enc, cond |-> cond, text |-> t, res |-> r.res, fault |-> r.fault]
    /\ UNCHANGED <<cps, strs, obj>>

\* span(s, length, USET_SPAN_CONTAINED | USET_SPAN_SIMPLE)
CallSpan(t, cond) ==
    /\ Built("utf16", {"fwd", "both"}, {"contained", "both"})
    /\ \E ok \in AllocOutcomes : Record("span", "utf16", cond, t, Span(t, cond, ok))

\* spanBack(s, length, USET_SPAN_CONTAINED | USET_SPAN_SIMPLE)
CallSpanBack(t, cond) ==
    /\ Built("utf16", {"back", "both"}, {"contained", "both"})
    /\ \E ok \in AllocOutcomes : Record("spanBack", "utf16", cond, t, SpanBack(t, cond, ok))

\* span / spanBack with USET_SPAN_NOT_CONTAINED
CallSpanNot(t) ==
    /\ Built("utf16", {"fwd", "both"}, {"not", "both"})
    /\ Record("spanNot", "utf16", "not", t, Result(SpanNot(t), FALSE))

CallSpanNotBack(t) ==
    /\ Built("utf16", {"back", "both"}, {"not", "both"})
    /\ Record("spanNotBack", "utf16", "not", t, Result(SpanNotBack(t), FALSE))

\* spanUTF8 / spanBackUTF8 on the UTF-8 form of the text t.
CallSpanUTF8(t, cond) ==
    /\ Built("utf8", {"fwd", "both"}, {"contained", "both"})
    /\ \E ok \in AllocOutcomes : Record("span", "utf8", cond, t, SpanUTF8(Encode8(t), cond, ok))

CallSpanBackUTF8(t, cond) ==
    /\ Built("utf8", {"back", "both"}, {"contained", "both"})
    /\ \E ok \in AllocOutcomes : Record("spanBack", "utf8", cond, t, SpanBackUTF8(Encode8(t), cond, ok))

CallSpanNotUTF8(t) ==
    /\ Built("utf8", {"fwd", "both"}, {"not", "both"})
    /\ Record("spanNot", "utf8", "not", t, Result(SpanNotUTF8(Encode8(t)), FALSE))

CallSpanNotBackUTF8(t) ==
    /\ Built("utf8", {"back", "both"}, {"not", "both"})
    /\ Record("spanNotBack", "utf8", "not", t, Result(SpanNotBackUTF8(Encode8(t)), FALSE))

Conds == {"contained", "simple"}

Next ==
    \/ \E w \in Variants : Build(w)
    \/ \E t \in Texts, cond \in Conds : CallSpan(t, cond) \/ CallSpanBack(t, cond)
    \/ \E t \in Texts : CallSpanNot(t) \/ CallSpanNotBack(t)
    \/ \E t \in Texts, cond \in Conds : CallSpanUTF8(t, cond) \/ CallSpanBackUTF8(t, cond)
    \/ \E t \in Texts : CallSpanNotUTF8(t) \/ CallSpanNotBackUTF8(t)

Spec == Init /\ [][Next]_vars

-----------------------------------------------------------------------------
(* Properties.  A result is an offset in the call's encoding; Units turns  *)
(* an offset in code points of the text into one.                          *)

Units(k) == IF last.enc = "utf8" THEN Len(Encode8(SubSeq(last.text, 1, k))) ELSE k

TypeOK ==
    /\ cps \subseteq Chars
    /\ obj.maxLength16 \in {0} \cup {Len(strs[i]) : i \in DOMAIN strs}
    /\ obj.maxLength8 \in {0} \cup {Len(Encode8(strs[i])) : i \in DOMAIN strs}
    /\ last.op \in {"none", "span", "spanBack", "spanNot", "spanNotBack"}
    /\ last.enc \in {"none", "utf16", "utf8"}
    /\ last.res \in -1..Len(Encode8(last.text))
    /\ last.fault \in BOOLEAN

\* span(WHILE_CONTAINED) and spanUTF8(WHILE_CONTAINED), through the
\* OffsetList bookkeeping of the code (offsets in units or in bytes), return
\* the longest prefix that is a concatenation of set elements.
SpanContainedCorrect ==
    last.op = "span" /\ last.cond = "contained" /\ ~last.fault => last.res = Units(RefSpan(last.text))

\* span(SIMPLE) keeps only the longest string match (maxInc) at each
\* position, yet what it spans is still a concatenation of set elements:
\* no string match is taken that leaves a gap, and in UTF-8 it never stops
\* inside a code point.
SpanSimpleSound ==
    last.op = "span" /\ last.cond = "simple" =>
        \E k \in 0..Len(last.text) : Units(k) = last.res /\ IsConcat(SubSeq(last.text, 1, k))

\* spanBack(WHILE_CONTAINED) and spanBackUTF8 return where the longest
\* concatenation suffix starts.
SpanBackCorrect ==
    last.op = "spanBack" /\ last.cond = "contained" /\ ~last.fault => last.res = Units(RefSpanBack(last.text))

\* spanNot and spanNotUTF8 stop at the first position where a set element
\* starts, though they span over the spanNotSet that addToSpanNotSet built
\* from the strings' first code points.
SpanNotCorrect ==
    last.op = "spanNot" => last.res = Units(RefSpanNot(last.text))

\* spanNotBack and spanNotBackUTF8 stop after the last position where a set
\* element ends.
SpanNotBackCorrect ==
    last.op = "spanNotBack" => last.res = Units(RefSpanNotBack(last.text))

\* No span reads or writes the OffsetList outside the memory it set up.
NoOffsetFault == ~last.fault

====
