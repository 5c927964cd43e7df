--------------------------- MODULE CollatorCompare ---------------------------
(***************************************************************************)
(* RuleBasedCollator's comparison and sort-key entry points               *)
(* (rulebasedcollator.cpp): the identical-prefix optimisation of doCompare *)
(* for UTF-16 and UTF-8 and of compare(UCharIterator), with its back-up to *)
(* a safe boundary, the fast-Latin dispatch, the identical level through   *)
(* compareNFDIter, writeSortKey/writeIdenticalLevel, and the resumable     *)
(* nextSortKeyPart with its PartLevelCallback.                             *)
(*                                                                         *)
(* A text is a sequence of code points, each one UTF-16 unit; the UTF-8    *)
(* entry points get its encoding.  One pair of texts and one settings      *)
(* object are fixed per behaviour; a step is one API call on them.         *)
(***************************************************************************)
EXTENDS CollationData

CONSTANTS
    Pairs,          \* the <<left, right>> text pairs a caller compares
    Settings,       \* the settings objects: [strength, french, fastLatin]
    PrefixLength,   \* the length argument of compare(left, right, length)
    PartCounts,     \* the buffer sizes passed to nextSortKeyPart
    KeyCapacity     \* the getSortKey buffer capacity, large enough for any key

VARIABLES
    left, right,    \* the texts
    settings,       \* the collator's settings
    cmp,            \* the result of every compare entry point, or NoCompare
    keys,           \* getSortKey of both texts, or NoKeys
    partState,      \* the caller's uint32_t state[2] of nextSortKeyPart
    parts,          \* every byte nextSortKeyPart has written to dest, in order
    partSum,        \* the sum of the values nextSortKeyPart returned
    partsDone       \* a call returned less than its count: the caller stops

vars == <<left, right, settings, cmp, keys, partState, parts, partSum, partsDone>>

NoCompare == [none |-> TRUE]
NoKeys == [none |-> TRUE]
Sentinel == -1                       \* U_SENTINEL

Suffix(s, p) == SubSeq(s, p + 1, Len(s))
Zeros(n) == [i \in 1..n |-> 0]

(***************************************************************************)
(* The identical-prefix test.  At(s, p) is left[p], the terminating NUL at *)
(* the end; NotAtEnd(s, p, nul) is equalPrefixLength != leftLength, always *)
(* true for NUL-terminated input (length -1).  The texts hold no NUL, so  *)
(* both loops stop at the same index and return EQUAL for equal texts.     *)
(***************************************************************************)
At(s, p) == IF p < Len(s) THEN s[p + 1] ELSE 0
NotAtEnd(s, p, nul) == nul \/ p # Len(s)
EqualPrefixLength(l, r) ==
    Max({k \in 0..Min({Len(l), Len(r)}) : SubSeq(l, 1, k) = SubSeq(r, 1, k)})

(* while(--equalPrefixLength > 0 && isUnsafeBackward(left[equalPrefixLength])) *)
RECURSIVE BackUpUnsafe16(_, _)
BackUpUnsafe16(s, p) ==
    IF p - 1 > 0 /\ IsUnsafeBackward(s[p]) THEN BackUpUnsafe16(s, p - 1) ELSE p - 1

(* A back-up that forgets the contraction or reordering sequence.       *)
Prefix16NoBackUp(l, r, nul) == EqualPrefixLength(l, r)

Prefix16(l, r, nul) ==
    LET p == EqualPrefixLength(l, r)
    IN  IF p > 0 /\ \/ NotAtEnd(l, p, nul) /\ IsUnsafeBackward(At(l, p))
                    \/ NotAtEnd(r, p, nul) /\ IsUnsafeBackward(At(r, p))
        THEN BackUpUnsafe16(l, p) ELSE p

(* while(--equalPrefixLength > 0 && U8_IS_TRAIL(left[equalPrefixLength])) *)
RECURSIVE BackUpTrail(_, _)
BackUpTrail(b, p) ==
    IF p - 1 > 0 /\ IsTrail(b[p]) THEN BackUpTrail(b, p - 1) ELSE p - 1

(* U8_NEXT_OR_FFFD at p, reading the NUL at the end of the text.            *)
CodePointAt8(b, p) == IF p < Len(b) THEN Next8(b, p).c ELSE 0

(* do { U8_PREV_OR_FFFD(left, 0, p, c); } while(p > 0 && isUnsafeBackward(c)); *)
(* the prefix is well-formed, so U8_PREV steps to the previous lead byte.  *)
RECURSIVE BackUpUnsafe8(_, _)
BackUpUnsafe8(b, p) ==
    LET q == Max({k \in 0..(p - 1) : ~IsTrail(b[k + 1])})
    IN  IF q > 0 /\ IsUnsafeBackward(Next8(b, q).c) THEN BackUpUnsafe8(b, q) ELSE q

Prefix8(l, r, nul) ==
    LET p0 == EqualPrefixLength(l, r)
        p1 == IF p0 > 0 /\ \/ NotAtEnd(l, p0, nul) /\ IsTrail(At(l, p0))
                           \/ NotAtEnd(r, p0, nul) /\ IsTrail(At(r, p0))
              THEN BackUpTrail(l, p0) ELSE p0
        unsafe == /\ p1 > 0
                  /\ \/ NotAtEnd(l, p1, nul) /\ IsUnsafeBackward(CodePointAt8(l, p1))
                     \/ NotAtEnd(r, p1, nul) /\ IsUnsafeBackward(CodePointAt8(r, p1))
    IN  IF unsafe THEN BackUpUnsafe8(l, p1) ELSE p1

(***************************************************************************)
(* compareNFDIter over two NFDIterators.  An iterator reads raw code      *)
(* points of its text (UTF16NFDIterator or UTF8NFDIterator) and replays a *)
(* decomposition from decomp while index >= 0.                            *)
(***************************************************************************)
NewNFDIter(s, utf8) == [s |-> s, utf8 |-> utf8, pos |-> 0, decomp |-> <<>>, index |-> -1]

NextRawCodePoint(it) ==
    IF it.pos = Len(it.s) THEN [c |-> Sentinel, it |-> it]
    ELSE IF it.utf8
         THEN [c |-> Next8(it.s, it.pos).c, it |-> [it EXCEPT !.pos = Next8(it.s, it.pos).next]]
         ELSE [c |-> it.s[it.pos + 1], it |-> [it EXCEPT !.pos = @ + 1]]

NextCodePoint(it) ==
    IF it.index >= 0 /\ it.index # Len(it.decomp)
    THEN [c |-> it.decomp[it.index + 1], it |-> [it EXCEPT !.index = @ + 1]]
    ELSE NextRawCodePoint([it EXCEPT !.index = -1])

NextDecomposedCodePoint(it, c) ==
    IF it.index >= 0 \/ Decomp(c) = <<>> THEN [c |-> c, it |-> it]
    ELSE [c |-> Decomp(c)[1], it |-> [it EXCEPT !.decomp = Decomp(c), !.index = 1]]

(* A code point that differs: -2 at the end, -1 for U+FFFE, else the first *)
(* code point of its decomposition.                                        *)
Decomposed(n) ==
    CASE n.c < 0 -> [c |-> -2, it |-> n.it]
      [] n.c = 65534 -> [c |-> -1, it |-> n.it]
      [] OTHER -> NextDecomposedCodePoint(n.it, n.c)

RECURSIVE CompareNFDLoop(_, _)
CompareNFDLoop(li, ri) ==
    LET ln == NextCodePoint(li)
        rn == NextCodePoint(ri)
    IN  IF ln.c = rn.c
        THEN IF ln.c < 0 THEN Equal ELSE CompareNFDLoop(ln.it, rn.it)
        ELSE LET ld == Decomposed(ln)
                 rd == Decomposed(rn)
             IN  CASE ld.c < rd.c -> Less
                   [] ld.c > rd.c -> Greater
                   [] OTHER -> CompareNFDLoop(ld.it, rd.it)

CompareNFDIter(l, r, utf8) == CompareNFDLoop(NewNFDIter(l, utf8), NewNFDIter(r, utf8))
(***************************************************************************)
(* doCompare(const UChar *, ...) and doCompare(const uint8_t *, ...): the  *)
(* set of results, one per outcome of the fast-Latin comparison.           *)
(***************************************************************************)
FastLatin16(l, r, p, nul, st) ==
    /\ st.fastLatin
    /\ NotAtEnd(l, p, nul) /\ At(l, p) <= LatinMax
    /\ NotAtEnd(r, p, nul) /\ At(r, p) <= LatinMax

FinishCompareNoBailCheck(fast, lces, rces, lrest, rrest, utf8, st) ==
    IF fast # Equal \/ st.strength < Identical THEN fast
    ELSE CompareNFDIter(lrest, rrest, utf8)

(* The tail shared by both encodings: the full comparison after a fast-    *)
(* Latin bail-out, then the identical level when all levels are equal.    *)
FinishCompare(fast, lces, rces, lrest, rrest, utf8, st) ==
    LET result == IF fast = BailOut THEN CompareUpToQuaternary(lces, rces, st) ELSE fast
    IN  IF result # Equal \/ st.strength < Identical THEN result
        ELSE CompareNFDIter(lrest, rrest, utf8)

DoCompare16(l, r, nul, st) ==
    IF l = r THEN {Equal}
    ELSE LET p == Prefix16(l, r, nul)
             lces == CEsFrom(Suffix(l, p), 1)
             rces == CEsFrom(Suffix(r, p), 1)
             fast == IF FastLatin16(l, r, p, nul, st)
                     THEN FastLatinOutcomes(lces, rces, st) ELSE {BailOut}
         IN  {FinishCompare(f, lces, rces, Suffix(l, p), Suffix(r, p), FALSE, st) : f \in fast}

FastLatin8(l, r, p, nul, st) ==
    /\ st.fastLatin
    /\ NotAtEnd(l, p, nul) /\ At(l, p) <= LatinMaxUTF8Lead
    /\ NotAtEnd(r, p, nul) /\ At(r, p) <= LatinMaxUTF8Lead

DoCompare8(l, r, nul, st) ==
    IF l = r THEN {Equal}
    ELSE LET p == Prefix8(l, r, nul)
             lces == CEsFrom(DecodeFrom(l, p), 1)
             rces == CEsFrom(DecodeFrom(r, p), 1)
             fast == IF FastLatin8(l, r, p, nul, st)
                     THEN FastLatinOutcomes(lces, rces, st) ELSE {BailOut}
         IN  {FinishCompare(f, lces, rces, Suffix(l, p), Suffix(r, p), TRUE, st) : f \in fast}

(* compare(UCharIterator &, UCharIterator &): the same prefix test unit by *)
(* unit, the do-while back-up, no fast-Latin path.                        *)
CompareIter(l, r, st) ==
    IF l = r THEN Equal
    ELSE LET p0 == EqualPrefixLength(l, r)
             lu == IF p0 < Len(l) THEN l[p0 + 1] ELSE Sentinel
             ru == IF p0 < Len(r) THEN r[p0 + 1] ELSE Sentinel
             p == IF p0 > 0 /\ \/ lu >= 0 /\ IsUnsafeBackward(lu)
                               \/ ru >= 0 /\ IsUnsafeBackward(ru)
                  THEN BackUpUnsafe16(l, p0) ELSE p0
         IN  FinishCompare(BailOut, CEsFrom(Suffix(l, p), 1), CEsFrom(Suffix(r, p), 1),
                           Suffix(l, p), Suffix(r, p), FALSE, st)

(* compare(left, right, length): both texts cut to length units.           *)
CompareLength(l, r, length, st) ==
    IF length = 0 THEN {Equal}
    ELSE DoCompare16(SubSeq(l, 1, Min({Len(l), length})),
                     SubSeq(r, 1, Min({Len(r), length})), FALSE, st)

(* Every compare entry point on one pair: the UnicodeString overloads, the *)
(* NUL-terminated UChar * overload, compareUTF8 with a StringPiece and     *)
(* NUL-terminated, and the UCharIterator overload.                         *)
CompareOutcomes(l, r, st) ==
    [u16 : DoCompare16(l, r, FALSE, st), u16len : CompareLength(l, r, PrefixLength, st),
     u16nul : DoCompare16(l, r, TRUE, st), u8 : DoCompare8(ToUTF8(l), ToUTF8(r), FALSE, st),
     u8nul : DoCompare8(ToUTF8(l), ToUTF8(r), TRUE, st), uiter : {CompareIter(l, r, st)}]
(***************************************************************************)
(* Sort keys.  The level callback is the base LevelCallback of            *)
(* writeSortKey, which always agrees, or nextSortKeyPart's               *)
(* PartLevelCallback, which records the level it agrees to and the bytes  *)
(* that may still be written from there on.                               *)
(***************************************************************************)
PlainCallback == [part |-> FALSE, level |-> PrimaryLevel, levelCapacity |-> 0]
NewPartCallback(k) == [part |-> TRUE, level |-> PrimaryLevel,
                       levelCapacity |-> GetRemainingCapacity(k)]

NeedToWriteKeepCapacity(cb, k, l) ==
    IF ~cb.part \/ ~Overflowed(k) THEN [ok |-> TRUE, cb |-> [cb EXCEPT !.level = l]]
    ELSE [ok |-> FALSE, cb |-> cb]

NeedToWrite(cb, k, l) ==
    IF ~cb.part THEN [ok |-> TRUE, cb |-> cb]
    ELSE IF ~Overflowed(k)
         THEN [ok |-> TRUE, cb |-> [cb EXCEPT !.level = l, !.levelCapacity = GetRemainingCapacity(k)]]
         ELSE [ok |-> FALSE, cb |-> cb]

(* CollationKeys::writeSortKeyUpToQuaternary from minLevel on: the primary *)
(* weights, then, when the strength asks for it and the callback agrees,  *)
(* the level separator and the secondary weights.                         *)
WriteSortKeyUpToQuaternary(ces, st, k, minLevel, cb) ==
    LET kp == IF minLevel <= PrimaryLevel THEN SinkAppend(k, Primaries(ces)) ELSE k
        n == NeedToWrite(cb, kp, SecondaryLevel)
    IN  CASE st.strength = Primary \/ minLevel > SecondaryLevel -> [sink |-> kp, cb |-> cb]
          [] ~n.ok -> [sink |-> kp, cb |-> n.cb]
          [] OTHER -> [sink |-> SinkAppend(kp, <<LevelSeparatorByte>> \o Secondaries(ces, st.french)),
                       cb |-> n.cb]

WriteIdenticalLevelQCOnly(s, k) ==
    LET qc == NFDQuickCheckYesLimit(s)
    IN  SinkAppend(SinkAppend(k, <<LevelSeparatorByte>>), IdenticalLevelRun(SubSeq(s, 1, qc)))

WriteIdenticalLevel(s, k) ==
    LET qc == NFDQuickCheckYesLimit(s)
        k1 == SinkAppend(k, <<LevelSeparatorByte>>)
        k2 == IF qc # 0 THEN SinkAppend(k1, IdenticalLevelRun(SubSeq(s, 1, qc))) ELSE k1
    IN  IF qc = Len(s) THEN k2
        ELSE SinkAppend(k2, IdenticalLevelRun(NFD(SubSeq(s, qc + 1, Len(s)))))

WriteSortKey(s, st, k) ==
    LET kq == WriteSortKeyUpToQuaternary(CEsFrom(s, 1), st, k, PrimaryLevel, PlainCallback).sink
        ki == IF st.strength = Identical THEN WriteIdenticalLevel(s, kq) ELSE kq
    IN  SinkAppend(ki, <<TerminatorByte>>)

(* getSortKey(s, dest, capacity) with a FixedSortKeyByteSink.              *)
GetSortKey(s, st) == WriteSortKey(s, st, NewSink(KeyCapacity, 0)).buf

(***************************************************************************)
(* nextSortKeyPart(iter, state, dest, count): restart the key at level     *)
(* state[0], drop the state[1] bytes of it written before, and return the *)
(* new state, the dest bytes and the return value.                        *)
(***************************************************************************)
NextSortKeyPart(s, st, state, count) ==
    LET k0 == NewSink(count, state.skip)
        normal == state.level <= QuaternaryLevel
        w == WriteSortKeyUpToQuaternary(CEsFrom(s, 1), st, k0, state.level, NewPartCallback(k0))
        k1 == IF normal THEN w.sink ELSE k0
        level == IF normal /\ st.strength = Identical THEN IdenticalLevel ELSE state.level
        levelCapacity == GetRemainingCapacity(k1)
        k2 == IF level = IdenticalLevel THEN WriteIdenticalLevel(s, k1) ELSE k1
    IN  CASE normal /\ k1.appended > count ->
                [state |-> [level |-> w.cb.level, skip |-> w.cb.levelCapacity],
                 dest |-> k1.buf, ret |-> count]
          [] level = IdenticalLevel /\ k2.appended > count ->
                [state |-> [level |-> IdenticalLevel, skip |-> levelCapacity],
                 dest |-> k2.buf, ret |-> count]
          [] OTHER ->
                [state |-> [level |-> ZeroLevel, skip |-> 0],
                 dest |-> k2.buf \o Zeros(count - Len(k2.buf)), ret |-> k2.appended]

(***************************************************************************)
(* The state machine: one pair and one settings object; the caller calls   *)
(* the compare entry points, getSortKey, and nextSortKeyPart on the left   *)
(* text until a call returns less than its count.                          *)
(***************************************************************************)
Init ==
    /\ \E pr \in Pairs : left = pr[1] /\ right = pr[2]
    /\ settings \in Settings
    /\ cmp = NoCompare
    /\ keys = NoKeys
    /\ partState = [level |-> NoLevel, skip |-> 0]
    /\ parts = <<>>
    /\ partSum = 0
    /\ partsDone = FALSE

Compare ==
    /\ cmp' \in CompareOutcomes(left, right, settings)
    /\ UNCHANGED <<left, right, settings, keys, partState, parts, partSum, partsDone>>

GetSortKeys ==
    /\ keys' = [l |-> GetSortKey(left, settings), r |-> GetSortKey(right, settings)]
    /\ UNCHANGED <<left, right, settings, cmp, partState, parts, partSum, partsDone>>

CallNextSortKeyPart(count) ==
    /\ ~partsDone
    /\ LET res == NextSortKeyPart(left, settings, partState, count)
       IN  /\ partState' = res.state
           /\ parts' = parts \o res.dest
           /\ partSum' = partSum + res.ret
           /\ partsDone' = (res.ret < count)
    /\ UNCHANGED <<left, right, settings, cmp, keys>>

Next ==
    \/ Compare
    \/ GetSortKeys
    \/ \E count \in PartCounts : CallNextSortKeyPart(count)

Spec == Init /\ [][Next]_vars
(***************************************************************************)
(* Properties.                                                             *)
(***************************************************************************)
Results == {Less, Equal, Greater}

TypeOK ==
    /\ cmp = NoCompare \/ cmp \in [u16 : Results, u16len : Results, u16nul : Results,
                                   u8 : Results, u8nul : Results, uiter : Results]
    /\ keys = NoKeys \/ keys \in [l : Seq(Nat), r : Seq(Nat)]
    /\ partState \in [level : {NoLevel, PrimaryLevel, SecondaryLevel, IdenticalLevel, ZeroLevel},
                      skip : Nat]
    /\ parts \in Seq(Nat)
    /\ partSum \in Nat
    /\ partsDone \in BOOLEAN

(* Every compare entry point (doCompare for UTF-16 and UTF-8, explicit     *)
(* length or NUL-terminated, and the UCharIterator overload) returns the   *)
(* comparison of the whole texts, although it skips the identical prefix, *)
(* backs up over unsafe and UTF-8 trail units to where the CE iterators   *)
(* restart, and may take the fast-Latin path.                             *)
CompareCorrect ==
    cmp # NoCompare =>
        LET whole == RefCompare(left, right, settings)
            cut(s) == SubSeq(s, 1, Min({Len(s), PrefixLength}))
        IN  /\ cmp.u16 = whole /\ cmp.u16nul = whole /\ cmp.uiter = whole
            /\ cmp.u8 = whole /\ cmp.u8nul = whole
            /\ cmp.u16len = IF PrefixLength = 0 THEN Equal
                            ELSE RefCompare(cut(left), cut(right), settings)

(* The sort keys getSortKey writes order the texts as compare does: the    *)
(* level separators, the backward secondary level and the identical level *)
(* written from the NFD quick-check prefix and the decomposed rest keep   *)
(* the byte order of the keys equal to the collation order.               *)
SortKeyOrder ==
    keys # NoKeys => SeqCompare(keys.l, keys.r) = RefCompare(left, right, settings)

(* Concatenating what successive nextSortKeyPart calls write to dest gives *)
(* getSortKey's key followed by zero bytes, whatever buffer size each call *)
(* gets; when a call returns less than its count, the values returned add *)
(* up to the key length without its terminator byte.                      *)
PartsMatchSortKey ==
    LET key == GetSortKey(left, settings)
    IN  /\ IsPrefix(parts, key \o Zeros(Len(parts)))
        /\ partsDone => partSum = Len(key) - 1
=============================================================================
