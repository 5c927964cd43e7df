----------------------------- MODULE CharNames -----------------------------
(***************************************************************************)
(* Unicode character names, src/source/common/unames.c: u_charName,        *)
(* u_charFromName and u_enumCharNames over the three kinds of names the    *)
(* file knows: algorithmic ranges (hexadecimal or factorized suffixes),    *)
(* names stored in groups of 32 lines, and the extended names              *)
(* "<category-XXXX>" made up for code points without a name; the ISO     *)
(* comments (u_getISOComment); and the maximum name length and the sets of *)
(* characters names use (calcNameSetsLengths).  Characters are ASCII      *)
(* codes; a name is a sequence of them.  A group line is its bytes as      *)
(* unames.dat stores them: "modern;1.0;comment" with letters and token      *)
(* numbers; the nibble encoding of the line lengths (expandGroupLengths)   *)
(* is abstracted to the line's bytes.                                      *)
(***************************************************************************)
EXTENDS Integers, Sequences, SequencesExt, TLC

CONSTANTS
    MaxValue,      \* UCHAR_MAX_VALUE, scaled down
    AlgRanges,     \* the algorithmic ranges of unames.dat, in file order
    Groups,        \* the groups of unames.dat, by ascending groupMSB
    TokenCount,    \* tokenCount: byte values below it are looked up in tokens[]
    Tokens,        \* tokens[0..tokenCount-1]: a letter, a lead byte or a token word
    TokenStrings,  \* the zero-terminated word at each offset of tokenStrings
    CacheMayFail,  \* whether the malloc of tokenLengths may fail
    CharCat,       \* getCharCat on 0..MaxValue (u_charType and its splits)
    LoadMayFail,   \* whether udata_openChoice may fail
    Codes,         \* code arguments of u_charName
    Capacities,    \* bufferLength arguments of u_charName
    ExtraNames,    \* names for u_charFromName besides the ones u_charName returns
    Bounds         \* start and limit arguments of u_enumCharNames

VARIABLES
    data,   \* "none" (not loaded yet), "loaded", or "failed" (gLoadErrorCode set)
    sets,   \* gMaxNameLength, gMaxISOCommentLength, gNameSet, gISOCommentSet
    last    \* the most recent call and its result

vars == <<data, sets, last>>

\* The nameChoice argument: U_UNICODE_CHAR_NAME, U_UNICODE_10_CHAR_NAME,
\* U_EXTENDED_CHAR_NAME.
NameChoices == {"unicode", "v10", "extended"}

\* ... and U_ISO_COMMENT, the internal choice of u_getISOComment.
AllChoices == NameChoices \cup {"iso"}

-----------------------------------------------------------------------------
(* Characters.                                                             *)

Digits == "0123456789"
Uppers == "ABCDEFGHIJKLMNOPQRSTUVWXYZ"
Lowers == "abcdefghijklmnopqrstuvwxyz"

\* The ASCII code of a one-character string of the characters names use.
Ord(ch) ==
    CASE ch = " " -> 32 [] ch = "-" -> 45 [] ch = ";" -> 59 [] ch = "<" -> 60 [] ch = ">" -> 62
      [] \E i \in 1..10 : SubSeq(Digits, i, i) = ch -> 47 + (CHOOSE i \in 1..10 : SubSeq(Digits, i, i) = ch)
      [] \E i \in 1..26 : SubSeq(Uppers, i, i) = ch -> 64 + (CHOOSE i \in 1..26 : SubSeq(Uppers, i, i) = ch)
      [] \E i \in 1..26 : SubSeq(Lowers, i, i) = ch -> 96 + (CHOOSE i \in 1..26 : SubSeq(Lowers, i, i) = ch)

Str(s) == [i \in 1..Len(s) |-> Ord(SubSeq(s, i, i))]

\* The C character constants the code compares with, in ASCII.
CH0 == 48    \* '0'
CH9 == 57    \* '9'
CHA == 65    \* 'A'
CHF == 70    \* 'F'
CHZ == 90    \* 'Z'
CHa == 97    \* 'a'
CHf == 102   \* 'f'
CHz == 122   \* 'z'
LT == 60     \* '<'
GT == 62     \* '>'
DASH == 45   \* '-'
SEMI == 59   \* ';'

\* The tokens[] values that are not offsets: (uint16_t)(-1) for a letter,
\* (uint16_t)(-2) for the lead byte of a double-byte token.
LETTER == 65535
LEAD == 65534

\* uprv_toupper / uprv_tolower (cstring.h: toupper, tolower in the C locale)
ToUpper(c) == IF CHa <= c /\ c <= CHz THEN c - 32 ELSE c
ToLower(c) == IF CHA <= c /\ c <= CHZ THEN c + 32 ELSE c

MinOf(a, b) == IF a < b THEN a ELSE b
MaxOf(a, b) == IF a > b THEN a ELSE b

\* A buffer write: the positions written and the characters put there.
\* NUL terminators are left out; only the name's characters are tracked.
NoWrites == [p \in {} |-> 0]

\* Mutant: one character more than bufferLength allows.
WriteCharsOneMore(s, pos, room) == [p \in pos..(pos + MinOf(room + 1, Len(s)) - 1) |-> s[p - pos + 1]]

\* WRITE_CHAR for every character of s at pos, pos+1, ...: a character is
\* stored while bufferLength lasts, and bufferPos counts every one.
WriteChars(s, pos, room) == [p \in pos..(pos + MinOf(room, Len(s)) - 1) |-> s[p - pos + 1]]

\* The (uint16_t) casts of bufferLength in u_charName and getExtName.
U16(n) == n % 65536

GROUP_SHIFT == 5
LINES_PER_GROUP == 32
Error == 65535   \* 0xffff, the "no such name" result of u_charFromName

-----------------------------------------------------------------------------
(* Algorithmic names (getAlgName, writeFactorSuffix).                      *)

HexDigit(v) == IF v < 10 THEN CH0 + v ELSE CHA + v - 10

\* The count low-order hexadecimal digits of code, most significant first.
RECURSIVE Hex(_, _)
Hex(code, count) ==
    IF count = 0 THEN <<>> ELSE Hex(code \div 16, count - 1) \o <<HexDigit(code % 16)>>

\* indexes[] of writeFactorSuffix: code % factors[i] for i = count..2, the
\* quotient left over as indexes[1].
RECURSIVE FactorIndexes(_, _, _)
FactorIndexes(factors, code, i) ==
    IF i = 1 THEN <<code>>
    ELSE FactorIndexes(factors, code \div factors[i], i - 1) \o <<code % factors[i]>>

\* The element strings of a type-1 range follow each other in the data;
\* "skip indexes[i] strings" steps over the strings of the earlier factors.
ElementBase(r, i) == LET Add(a, b) == a + b IN FoldLeft(Add, 0, SubSeq(r.factors, 1, i - 1))

Suffix(r, idx) == FlattenSeq([i \in 1..Len(r.factors) |-> r.elems[ElementBase(r, i) + idx[i] + 1]])

getAlgName(r, code) ==
    CASE r.type = 0 -> r.prefix \o Hex(code, r.variant)
      [] r.type = 1 -> r.prefix \o Suffix(r, FactorIndexes(r.factors, code - r.start, Len(r.factors)))
      [] OTHER -> <<>>

\* The first range (1-based) that contains code, 0 when there is none.
AlgRangeOf(code) ==
    LET hits == {i \in 1..Len(AlgRanges) : AlgRanges[i].start <= code /\ code <= AlgRanges[i].end}
    IN IF hits = {} THEN 0 ELSE CHOOSE i \in hits : \A j \in hits : i <= j

-----------------------------------------------------------------------------
(* Stored names (getGroup, getName, expandName).                           *)

MSB(g) == Groups[g + 1].msb

\* getGroup: binary search for the last group whose groupMSB <= the
\* code's, or the first group when every group is after it.
RECURSIVE GroupSearch(_, _, _)
GroupSearch(msb, start, limit) ==
    IF start < limit - 1
    THEN LET number == (start + limit) \div 2
         IN IF msb < MSB(number) THEN GroupSearch(msb, start, number)
                                 ELSE GroupSearch(msb, number, limit)
    ELSE start

getGroup(code) == GroupSearch(code \div LINES_PER_GROUP, 0, Len(Groups))

\* ';' is a letter, not a token number, so the file stores 1.0 names and
\* ISO comments after the modern name.
SemiIsLetter == SEMI >= TokenCount \/ Tokens[SEMI] = LETTER

\* The byte after the first ';' from position i on, or the end.
RECURSIVE AfterSemi(_, _)
AfterSemi(b, i) == IF i > Len(b) THEN i ELSE IF b[i] = SEMI THEN i + 1 ELSE AfterSemi(b, i + 1)

\* Where expandName starts: the modern name; the 1.0 name or the ISO
\* comment after one or two ';' when ';' is a letter, else nothing.
ExpandStart(b, choice) ==
    IF choice \notin {"v10", "iso"} THEN 1
    ELSE IF ~SemiIsLetter THEN Len(b) + 1
    ELSE IF choice = "iso" THEN AfterSemi(b, AfterSemi(b, 1))
    ELSE AfterSemi(b, 1)

\* The write loop of expandName from byte i, out the characters so far: a
\* letter is written, a token (looked up with the next byte after a lead
\* byte) writes its word, and ';' ends the name, except that for extended
\* names a ';' before any character is passed over.
RECURSIVE ExpandFrom(_, _, _, _)
ExpandFrom(b, i, choice, out) ==
    IF i > Len(b) THEN out
    ELSE IF b[i] >= TokenCount
    THEN IF b[i] # SEMI THEN ExpandFrom(b, i + 1, choice, Append(out, b[i])) ELSE out
    ELSE LET lead == Tokens[b[i]] = LEAD
             token == IF lead THEN Tokens[b[i] * 256 + b[i + 1]] ELSE Tokens[b[i]]
             next == IF lead THEN i + 2 ELSE i + 1
         IN IF token # LETTER THEN ExpandFrom(b, next, choice, out \o TokenStrings[token])
            ELSE IF b[i] # SEMI THEN ExpandFrom(b, next, choice, Append(out, b[i]))
            ELSE IF out = <<>> /\ choice = "extended" /\ SemiIsLetter
            THEN ExpandFrom(b, next, choice, out)
            ELSE out

expandName(b, choice) == ExpandFrom(b, ExpandStart(b, choice), choice, <<>>)

\* The bytes of line code % 32 of group g; a line of length 0 is empty.
Line(g, code) ==
    LET lines == Groups[g + 1].lines
    IN IF code % LINES_PER_GROUP \in DOMAIN lines THEN lines[code % LINES_PER_GROUP] ELSE <<>>

\* expandName of every line and choice, evaluated once.
LineTable ==
    CHOOSE t \in {[g \in 0..Len(Groups) - 1, l \in 0..LINES_PER_GROUP - 1, ch \in AllChoices
                   |-> expandName(Line(g, l), ch)]} : TRUE

LineName(g, code, choice) == LineTable[g, code % LINES_PER_GROUP, choice]

getName(code, choice) ==
    LET g == getGroup(code)
    IN IF code \div LINES_PER_GROUP = MSB(g) THEN LineName(g, code, choice) ELSE <<>>

-----------------------------------------------------------------------------
(* Extended names (getCharCatName, getExtName).                            *)

charCatNames == <<
    Str("unassigned"), Str("uppercase letter"), Str("lowercase letter"),
    Str("titlecase letter"), Str("modifier letter"), Str("other letter"),
    Str("non spacing mark"), Str("enclosing mark"), Str("combining spacing mark"),
    Str("decimal digit number"), Str("letter number"), Str("other number"),
    Str("space separator"), Str("line separator"), Str("paragraph separator"),
    Str("control"), Str("format"), Str("private use area"), Str("surrogate"),
    Str("dash punctuation"), Str("start punctuation"), Str("end punctuation"),
    Str("connector punctuation"), Str("other punctuation"), Str("math symbol"),
    Str("currency symbol"), Str("modifier symbol"), Str("other symbol"),
    Str("initial punctuation"), Str("final punctuation"), Str("noncharacter"),
    Str("lead surrogate"), Str("trail surrogate") >>

\* Beyond the code space u_charType answers the trie's initial value,
\* unassigned.
getCharCat(cp) == IF cp \in DOMAIN CharCat THEN CharCat[cp] ELSE 0

getCharCatName(cp) ==
    IF getCharCat(cp) >= Len(charCatNames) THEN Str("unknown") ELSE charCatNames[getCharCat(cp) + 1]

RECURSIVE HexLen(_)
HexLen(cp) == IF cp = 0 THEN 0 ELSE 1 + HexLen(cp \div 16)

NDigits(code) == MaxOf(4, HexLen(code))

ExtHead(code) == <<LT>> \o getCharCatName(code) \o <<DASH>>

ExtName(code) == ExtHead(code) \o Hex(code, NDigits(code)) \o <<GT>>

\* getExtName's writes: the head through WRITE_CHAR; then one digit per
\* remaining byte of bufferLength, stored from buffer[ndigits-1] down, the
\* least significant first; then '>' if room is left.
ExtWrites(code, room) ==
    LET head == ExtHead(code)
        n == NDigits(code)
        digits == Hex(code, n)
        rest == MaxOf(0, room - Len(head))
        k == MinOf(rest, n)
    IN  WriteChars(head, 0, room)
        @@ [p \in {Len(head) + n - j : j \in 1..k} |-> digits[p - Len(head) + 1]]
        @@ (IF rest > n THEN (Len(head) + n :> GT) ELSE NoWrites)

-----------------------------------------------------------------------------
(* u_charName.                                                             *)

\* The name u_charName gives code: algorithmic names first (none for
\* Unicode 1.0 names), then the stored name, then for extended names the
\* made-up one.
NameOf(code, choice) ==
    LET a == AlgRangeOf(code)
    IN IF a # 0 THEN (IF choice = "v10" THEN <<>> ELSE getAlgName(AlgRanges[a], code))
       ELSE IF choice = "extended" /\ getName(code, choice) = <<>> THEN ExtName(code)
       ELSE getName(code, choice)

\* u_charName(code, choice, buffer, cap) once the data is loaded: the
\* length of the whole name and what the call stores in the buffer.  The
\* buffer length reaches getAlgName, getName and getExtName as uint16_t.
CharNameResult(code, choice, cap) ==
    LET room == U16(cap)
        a == AlgRangeOf(code)
        n == NameOf(code, choice)
    IN [len |-> Len(n),
        writes |-> IF a = 0 /\ choice = "extended" /\ getName(code, choice) = <<>>
                   THEN ExtWrites(code, room) ELSE WriteChars(n, 0, room)]

-----------------------------------------------------------------------------
(* u_charFromName.                                                         *)

\* The backward scan for '-' of an extended name, from index i (0-based)
\* down while the character is neither NUL nor '-'.  The index is
\* unsigned: past lower[0] it wraps, and -1 stands for that read.
RECURSIVE DashBefore(_, _)
DashBefore(lower, i) ==
    IF i < 0 THEN -1 ELSE IF lower[i + 1] = DASH THEN i ELSE DashBefore(lower, i - 1)

\* The hex digits after the '-' up to the first '>', as digit values.
RECURSIVE ParseHex(_, _, _)
ParseHex(lower, i, ds) ==
    CASE lower[i] = GT -> [ok |-> TRUE, ds |-> ds]
      [] CH0 <= lower[i] /\ lower[i] <= CH9 -> ParseHex(lower, i + 1, Append(ds, lower[i] - CH0))
      [] CHa <= lower[i] /\ lower[i] <= CHf -> ParseHex(lower, i + 1, Append(ds, lower[i] - CHa + 10))
      [] OTHER -> [ok |-> FALSE, ds |-> ds]

DigitsValue(ds) == LET Step(v, d) == v * 16 + d IN FoldLeft(Step, 0, ds)

\* cp = (cp << 4) + digit in a signed 32-bit UChar32, wrapping as the build
\* does: the last eight digits, the eighth from the end carrying the sign.
UChar32Of(ds) ==
    LET n == Len(ds)
        top == IF n >= 8 THEN ds[n - 7] ELSE 0
    IN (IF top >= 8 THEN top - 16 ELSE top) * 268435456 + DigitsValue(SubSeq(ds, MaxOf(1, n - 6), n))

Found(code) == [res |-> code, oob |-> FALSE]
NotFound == Found(Error)

\* "<category-hex>": the last '-', the value up to the next '>', and the
\* first category name equal to the text between; the code point is
\* returned when it has that category.
ExtFromName(choice, lower) ==
    IF choice # "extended" \/ lower[Len(lower)] # GT THEN NotFound
    ELSE LET d == DashBefore(lower, Len(lower) - 2)
             h == ParseHex(lower, d + 2, <<>>)
             cat == SubSeq(lower, 2, d)
             hits == {k \in 0..Len(charCatNames) - 1 : charCatNames[k + 1] = cat}
         IN IF d < 0 THEN [res |-> Error, oob |-> TRUE]
            ELSE IF ~h.ok \/ hits = {} THEN NotFound
            ELSE IF getCharCat(UChar32Of(h.ds)) = (CHOOSE k \in hits : \A j \in hits : k <= j) THEN Found(UChar32Of(h.ds))
            ELSE NotFound

HexValue(digits) == LET Step(v, c) == v * 16 + (IF c <= CH9 THEN c - CH0 ELSE c - CHA + 10)
                    IN FoldLeft(Step, 0, digits)

IsUpperHex(c) == (CH0 <= c /\ c <= CH9) \/ (CHA <= c /\ c <= CHF)

\* Mutant: the carry leaves the full index where it was.
RECURSIVE IncIndexesNoReset(_, _, _)
IncIndexesNoReset(idx, factors, i) ==
    IF i = 0 THEN idx
    ELSE IF idx[i] + 1 < factors[i] THEN [idx EXCEPT ![i] = idx[i] + 1]
    ELSE IncIndexesNoReset(idx, factors, i - 1)

\* The carry loop of enumAlgNames and findAlgName: bump indexes[i], and
\* reset it and carry into i-1 when it reaches factors[i].
RECURSIVE IncIndexes(_, _, _)
IncIndexes(idx, factors, i) ==
    IF i = 0 THEN idx
    ELSE IF idx[i] + 1 < factors[i] THEN [idx EXCEPT ![i] = idx[i] + 1]
    ELSE IncIndexes([idx EXCEPT ![i] = 0], factors, i - 1)

\* findAlgName, type 1: compare the suffix of each code of the range in
\* turn, the indexes stepped as the enumeration steps them.
RECURSIVE FindSuffix(_, _, _, _)
FindSuffix(r, rest, code, idx) ==
    IF Suffix(r, idx) = rest THEN code
    ELSE IF code + 1 > r.end THEN Error
    ELSE FindSuffix(r, rest, code + 1, IncIndexes(idx, r.factors, Len(r.factors)))

findAlgName(r, choice, upper) ==
    LET np == Len(r.prefix)
        rest == SubSeq(upper, np + 1, Len(upper))
    IN IF choice = "v10" \/ Len(upper) < np \/ SubSeq(upper, 1, np) # r.prefix THEN Error
       ELSE CASE r.type = 0 ->
              IF Len(rest) >= r.variant /\ \A i \in 1..r.variant : IsUpperHex(rest[i])
              THEN LET code == HexValue(SubSeq(rest, 1, r.variant))
                   IN IF Len(rest) = r.variant /\ r.start <= code /\ code <= r.end THEN code ELSE Error
              ELSE Error
              [] r.type = 1 -> FindSuffix(r, rest, r.start, [i \in 1..Len(r.factors) |-> 0])
              [] OTHER -> Error

RECURSIVE FindAlgLoop(_, _, _)
FindAlgLoop(i, choice, upper) ==
    IF i > Len(AlgRanges) THEN Error
    ELSE IF findAlgName(AlgRanges[i], choice, upper) # Error THEN findAlgName(AlgRanges[i], choice, upper)
    ELSE FindAlgLoop(i + 1, choice, upper)


-----------------------------------------------------------------------------
(* Enumeration (enumGroupNames, enumExtNames, enumNames, enumAlgNames).    *)
(* A run of names is a sequence of <<code, name>>.  find is the            *)
(* DO_FIND_NAME mode of u_charFromName: stored names are compared, and no  *)
(* extended name is made up.                                               *)

\* The name enumGroupNames reports for code c of group g: the stored name,
\* or for extended names without one the made-up name (not in find mode,
\* which only compares stored names).
GroupNameAt(g, c, choice, find) ==
    IF ~find /\ choice = "extended" /\ LineName(g, c, choice) = <<>>
    THEN ExtName(c) ELSE LineName(g, c, choice)

\* The while(start<=end) loop of enumGroupNames from code c: a code is
\* reported when its name is not empty.
RECURSIVE GroupRun(_, _, _, _, _)
GroupRun(g, c, e, choice, find) ==
    IF c > e THEN <<>>
    ELSE (IF GroupNameAt(g, c, choice, find) = <<>> THEN <<>> ELSE <<<<c, GroupNameAt(g, c, choice, find)>>>>)
         \o GroupRun(g, c + 1, e, choice, find)

\* Mutant: the loop runs while start<=end+1.
GroupNamesPastEnd(g, s, e, choice, find) == GroupRun(g, s, e + 1, choice, find)

\* enumGroupNames over the codes s..e of group g.
GroupNames(g, s, e, choice, find) == GroupRun(g, s, e, choice, find)

\* enumExtNames over s..e.
ExtNames(s, e, find) ==
    IF find THEN <<>> ELSE [i \in 1..MaxOf(0, e - s + 1) |-> <<s + i - 1, ExtName(s + i - 1)>>]

\* The group the while loop of enumNames stops at, starting from g.
RECURSIVE LoopEnd(_, _)
LoopEnd(g, eMSB) == IF g < Len(Groups) /\ MSB(g) < eMSB THEN LoopEnd(g + 1, eMSB) ELSE g

\* enumNames as the calls it makes, in order: enumGroupNames over s..e of
\* group g, or enumExtNames over s..e.
GroupCall(g, s, e) == [fn |-> "group", g |-> g, s |-> s, e |-> e]
ExtCall(s, e) == [fn |-> "ext", g |-> 0, s |-> s, e |-> e]

\* The while loop over the whole groups g..stop-1: each group, then the
\* extended names of the gap before the next group.
RECURSIVE LoopCalls(_, _, _, _)
LoopCalls(g, stop, limit, choice) ==
    IF g >= stop THEN <<>>
    ELSE <<GroupCall(g, MSB(g) * LINES_PER_GROUP, MSB(g) * LINES_PER_GROUP + LINES_PER_GROUP - 1)>>
         \o (IF g + 1 < Len(Groups) /\ MSB(g + 1) > MSB(g) + 1 /\ choice = "extended"
             THEN <<ExtCall((MSB(g) + 1) * LINES_PER_GROUP, MinOf(MSB(g + 1) * LINES_PER_GROUP, limit) - 1)>>
             ELSE <<>>)
         \o LoopCalls(g + 1, stop, limit, choice)

\* Before the loop: the partial start group, or the extended names up to
\* the first group after start (g is the group getGroup gives for start).
HeadCalls(start, limit, choice, g) ==
    IF start \div LINES_PER_GROUP = MSB(g)
    THEN IF start % LINES_PER_GROUP # 0
         THEN <<GroupCall(g, start, MSB(g) * LINES_PER_GROUP + LINES_PER_GROUP - 1)>>
         ELSE <<>>
    ELSE IF start \div LINES_PER_GROUP > MSB(g) /\ g + 1 < Len(Groups)
            /\ MSB(g + 1) > start \div LINES_PER_GROUP /\ choice = "extended"
    THEN <<ExtCall(start, MinOf(MSB(g + 1) * LINES_PER_GROUP, limit) - 1)>>
    ELSE <<>>

\* The group the while loop starts at.
HeadNext(start, g) ==
    IF start \div LINES_PER_GROUP = MSB(g)
    THEN IF start % LINES_PER_GROUP # 0 THEN g + 1 ELSE g
    ELSE IF start \div LINES_PER_GROUP > MSB(g) THEN g + 1 ELSE g

\* After the loop over the groups next..stop-1: the end group, or the
\* extended names after the last group.
TailCalls(start, limit, choice, next, stop) ==
    IF stop < Len(Groups) /\ MSB(stop) = (limit - 1) \div LINES_PER_GROUP
    THEN <<GroupCall(stop, (limit - 1) - ((limit - 1) % LINES_PER_GROUP), limit - 1)>>
    ELSE IF choice = "extended" /\ stop = Len(Groups)
    \* the loop leaves start at the first code of the last group it took
    THEN <<ExtCall(MaxOf((MSB(stop - 1) + 1) * LINES_PER_GROUP,
                         IF stop > next THEN MSB(stop - 1) * LINES_PER_GROUP ELSE start),
                   MinOf(limit, MaxValue + 1) - 1)>>
    ELSE <<>>

EnumNameCallsIn(start, limit, choice, g, next, stop) ==
    IF start \div LINES_PER_GROUP = (limit - 1) \div LINES_PER_GROUP
    THEN IF start \div LINES_PER_GROUP = MSB(g) THEN <<GroupCall(g, start, limit - 1)>>
         ELSE IF choice = "extended" THEN <<ExtCall(start, MinOf(limit, MaxValue + 1) - 1)>>
         ELSE <<>>
    ELSE HeadCalls(start, limit, choice, g) \o LoopCalls(next, stop, limit, choice)
         \o TailCalls(start, limit, choice, next, stop)

EnumNameCalls(start, limit, choice) ==
    EnumNameCallsIn(start, limit, choice, getGroup(start), HeadNext(start, getGroup(start)),
                    LoopEnd(HeadNext(start, getGroup(start)), (limit - 1) \div LINES_PER_GROUP))

\* enumNames: the names of those calls, in order.
RECURSIVE CallNames(_, _, _)
CallNames(calls, choice, find) ==
    IF calls = <<>> THEN <<>>
    ELSE (IF Head(calls).fn = "group"
          THEN GroupNames(Head(calls).g, Head(calls).s, Head(calls).e, choice, find)
          ELSE ExtNames(Head(calls).s, Head(calls).e, find))
         \o CallNames(Tail(calls), choice, find)

enumNames(start, limit, choice, find) == CallNames(EnumNameCalls(start, limit, choice), choice, find)

\* Mutant: '9' is stepped like the other digits.
RECURSIVE IncHexNine(_, _)
IncHexNine(name, p) ==
    LET c == name[p]
    IN IF (CH0 <= c /\ c <= CH9) \/ (CHA <= c /\ c < CHF) THEN [name EXCEPT ![p] = c + 1]
       ELSE IF p = 1 THEN name
       ELSE IF c = CHF THEN IncHexNine([name EXCEPT ![p] = CH0], p - 1)
       ELSE IncHexNine(name, p - 1)

\* The increment of enumAlgNames on the characters of a hexadecimal name,
\* from position p leftwards: '0'..'8' and 'A'..'E' step, '9' becomes
\* 'A', 'F' becomes '0' and carries, anything else is passed over.
RECURSIVE IncHex(_, _)
IncHex(name, p) ==
    LET c == name[p]
    IN IF (CH0 <= c /\ c < CH9) \/ (CHA <= c /\ c < CHF) THEN [name EXCEPT ![p] = c + 1]
       ELSE IF c = CH9 THEN [name EXCEPT ![p] = CHA]
       ELSE IF p = 1 THEN name
       ELSE IF c = CHF THEN IncHex([name EXCEPT ![p] = CH0], p - 1)
       ELSE IncHex(name, p - 1)

RECURSIVE HexRun(_, _, _)
HexRun(code, limit, name) ==
    IF code >= limit THEN <<>>
    ELSE <<<<code, name>>>> \o HexRun(code + 1, limit, IncHex(name, Len(name)))

RECURSIVE FactorRun(_, _, _, _)
FactorRun(r, code, limit, idx) ==
    IF code >= limit THEN <<>>
    ELSE <<<<code, r.prefix \o Suffix(r, idx)>>>>
         \o FactorRun(r, code + 1, limit, IncIndexes(idx, r.factors, Len(r.factors)))

\* enumAlgNames: the first name in full, the others by incrementing it.
enumAlgNames(r, start, limit, choice) ==
    IF choice = "v10" THEN <<>>
    ELSE CASE r.type = 0 -> HexRun(start, limit, getAlgName(r, start))
           [] r.type = 1 -> FactorRun(r, start, limit, FactorIndexes(r.factors, start - r.start, Len(r.factors)))
           [] OTHER -> <<>>

\* The while loop of u_enumCharNames as the calls it makes, in order:
\* enumNames before each algorithmic range (r = 0), enumAlgNames inside
\* range r, and enumNames after the last one, each over s..e-1.
Call(r, s, e) == [r |-> r, s |-> s, e |-> e]

RECURSIVE EnumSegments(_, _, _)
EnumSegments(i, start, limit) ==
    IF i > Len(AlgRanges) THEN <<Call(0, start, limit)>>
    ELSE IF start < AlgRanges[i].start /\ limit <= AlgRanges[i].start THEN <<Call(0, start, limit)>>
    ELSE (IF start < AlgRanges[i].start THEN <<Call(0, start, AlgRanges[i].start)>> ELSE <<>>)
         \o (IF MaxOf(start, AlgRanges[i].start) > AlgRanges[i].end
             THEN EnumSegments(i + 1, MaxOf(start, AlgRanges[i].start), limit)
             ELSE IF limit <= AlgRanges[i].end + 1
             THEN <<Call(i, MaxOf(start, AlgRanges[i].start), limit)>>
             ELSE <<Call(i, MaxOf(start, AlgRanges[i].start), AlgRanges[i].end + 1)>>
                  \o EnumSegments(i + 1, AlgRanges[i].end + 1, limit))

\* u_enumCharNames: the names of each of those calls, in order.
RECURSIVE SegmentNames(_, _)
SegmentNames(calls, choice) ==
    IF calls = <<>> THEN <<>>
    ELSE (IF Head(calls).r = 0 THEN enumNames(Head(calls).s, Head(calls).e, choice, FALSE)
          ELSE enumAlgNames(AlgRanges[Head(calls).r], Head(calls).s, Head(calls).e, choice))
         \o SegmentNames(Tail(calls), choice)

EnumLoop(start, limit, choice) == SegmentNames(EnumSegments(1, start, limit), choice)

ClampLimit(limit) == IF limit > MaxValue + 1 THEN MaxValue + 1 ELSE limit

-----------------------------------------------------------------------------
(* u_charFromName once the data is loaded.                                 *)

\* The stored names in enumeration order, compared by compareName.
RECURSIVE FirstCode(_, _)
FirstCode(run, upper) ==
    IF run = <<>> THEN Error
    ELSE IF Head(run)[2] = upper THEN Head(run)[1]
    ELSE FirstCode(Tail(run), upper)

FindStored(choice, upper) == FirstCode(enumNames(0, MaxValue + 1, choice, TRUE), upper)

\* upper[] and lower[] hold 120 characters: a longer name is no name.
NameBufferSize == 120

FromNameResult(choice, name) ==
    LET upper == [i \in DOMAIN name |-> ToUpper(name[i])]
        lower == [i \in DOMAIN name |-> ToLower(name[i])]
    IN IF Len(name) >= NameBufferSize THEN NotFound
       ELSE IF lower[1] = LT THEN ExtFromName(choice, lower)
       ELSE IF FindAlgLoop(1, choice, upper) # Error THEN Found(FindAlgLoop(1, choice, upper))
       ELSE Found(FindStored(choice, upper))


-----------------------------------------------------------------------------
(* Name lengths and name characters (calcNameSetsLengths).  A set of       *)
(* characters (uint32_t[8], SET_ADD) is the set of their codes.            *)

NoSets == [max |-> 0, maxISO |-> 0, names |-> {}, iso |-> {}]

\* extChars: the hexadecimal digits and "<>-" of extended names.
ExtChars == Range(Str("0123456789ABCDEF<>-"))

\* calcStringSetLength: the characters of s join the set; its length.
StringSet(set, s) == set \cup Range(s)

\* The per-token length cache of calcGroupNameSetsLengths, tokenLengths[]:
\* zero-filled, 0 meaning not yet computed.  acc.cached is FALSE when its
\* malloc failed and tokenLengths is NULL.
NoCache == [c \in {} |-> 0]
CachedLength(cache, c) == IF c \in DOMAIN cache THEN cache[c] ELSE 0

\* The element of a singleton.  The loops below compute each intermediate
\* result once, as the bound variable of {F(x) : x \in {e}}, and pass it on
\* as a value, not as an expression evaluated again at each use.
The(S) == CHOOSE x \in S : TRUE

\* Mutant of NameSetStep: a cached token length is not added.
NameSetStepCachedZero(b, acc) ==
    IF b[acc.pos] >= TokenCount
    THEN [acc EXCEPT !.pos = @ + 1, !.len = @ + 1, !.set = @ \cup {b[acc.pos]}]
    ELSE LET lead == Tokens[b[acc.pos]] = LEAD
             c == IF lead THEN b[acc.pos] * 256 + b[acc.pos + 1] ELSE b[acc.pos]
             next == IF lead THEN acc.pos + 2 ELSE acc.pos + 1
             word == TokenStrings[Tokens[c]]
         IN IF Tokens[c] = LETTER
            THEN [acc EXCEPT !.pos = next, !.len = @ + 1, !.set = @ \cup {c % 256}]
            ELSE IF acc.cached /\ CachedLength(acc.cache, c) # 0
            THEN [acc EXCEPT !.pos = next]
            ELSE [acc EXCEPT !.pos = next, !.len = @ + Len(word), !.set = StringSet(@, word),
                             !.cache = IF acc.cached THEN (c :> Len(word)) @@ @ ELSE @]

\* One step of the calcNameSetLength loop at the byte acc.pos (not ';').
NameSetStep(b, acc) ==
    IF b[acc.pos] >= TokenCount
    THEN [acc EXCEPT !.pos = @ + 1, !.len = @ + 1, !.set = @ \cup {b[acc.pos]}]
    ELSE LET lead == Tokens[b[acc.pos]] = LEAD
             c == IF lead THEN b[acc.pos] * 256 + b[acc.pos + 1] ELSE b[acc.pos]
             next == IF lead THEN acc.pos + 2 ELSE acc.pos + 1
             word == TokenStrings[Tokens[c]]
         IN IF Tokens[c] = LETTER
            THEN [acc EXCEPT !.pos = next, !.len = @ + 1, !.set = @ \cup {c % 256}]
            ELSE IF acc.cached /\ CachedLength(acc.cache, c) # 0
            THEN [acc EXCEPT !.pos = next, !.len = @ + CachedLength(acc.cache, c)]
            ELSE [acc EXCEPT !.pos = next, !.len = @ + Len(word), !.set = StringSet(@, word),
                             !.cache = IF acc.cached THEN (c :> Len(word)) @@ @ ELSE @]

\* calcNameSetLength over line bytes b from acc.pos to the next ';': each
\* letter joins acc.set and counts one, each token counts its word's
\* length, and only a token whose length is not cached yet adds its
\* word's characters to acc.set.
RECURSIVE NameSetLength(_, _)
NameSetLength(b, acc) ==
    IF acc.pos > Len(b) THEN acc
    ELSE IF b[acc.pos] = SEMI THEN [acc EXCEPT !.pos = @ + 1]
    ELSE The({NameSetLength(b, next) : next \in {NameSetStep(b, acc)}})

\* One field of a line from pos into set, with the cache.
Field(b, pos, set, acc) ==
    NameSetLength(b, [pos |-> pos, len |-> 0, set |-> set, cached |-> acc.cached, cache |-> acc.cache])

\* calcAlgNameSetsLengths for one range: the prefix and the hex digits, or
\* the prefix and the longest element of each factor.
RECURSIVE FactorMax(_, _, _)
FactorMax(elems, from, n) == IF n = 0 THEN 0 ELSE MaxOf(Len(elems[from]), FactorMax(elems, from + 1, n - 1))

AlgLength(r) ==
    IF r.type = 0 THEN Len(r.prefix) + r.variant
    ELSE Len(r.prefix) + LET Add(a, b) == a + b
                         IN FoldLeft(Add, 0, [i \in DOMAIN r.factors |-> FactorMax(r.elems, ElementBase(r, i) + 1, r.factors[i])])

AlgChars(r) == Range(r.prefix) \cup UNION {Range(r.elems[k]) : k \in DOMAIN r.elems}

RECURSIVE AlgSets(_, _, _)
AlgSets(i, set, max) ==
    IF i > Len(AlgRanges) THEN [set |-> set, max |-> max]
    ELSE IF AlgRanges[i].type \notin {0, 1} THEN AlgSets(i + 1, set, max)
    ELSE AlgSets(i + 1, set \cup AlgChars(AlgRanges[i]), MaxOf(max, AlgLength(AlgRanges[i])))

\* calcExtNameSetsLengths: 9 for "<", "-", six hex digits and ">" around
\* each category name.
RECURSIVE ExtMax(_, _)
ExtMax(i, max) == IF i > Len(charCatNames) THEN max ELSE ExtMax(i + 1, MaxOf(max, 9 + Len(charCatNames[i])))

ExtSets(set, max) ==
    [set |-> set \cup UNION {Range(charCatNames[i]) : i \in DOMAIN charCatNames},
     max |-> ExtMax(1, max)]

\* One line of calcGroupNameSetsLengths: the regular name, then the 1.0
\* name, into the name set; then the ISO comment into its own set; each
\* only when the line has not ended.
ISOSets(b, acc, r1, r2, r3) ==
    [acc EXCEPT !.names = r2.set, !.iso = r3.set, !.cache = r3.cache,
                !.max = MaxOf(MaxOf(@, r1.len), r2.len), !.maxISO = MaxOf(@, r3.len)]

OldNameSets(b, acc, r1, r2) ==
    IF r2.pos > Len(b)
    THEN [acc EXCEPT !.names = r2.set, !.cache = r2.cache, !.max = MaxOf(MaxOf(@, r1.len), r2.len)]
    ELSE The({ISOSets(b, acc, r1, r2, r3) : r3 \in {Field(b, r2.pos, acc.iso, r2)}})

NameSets(b, acc, r1) ==
    IF r1.pos > Len(b) THEN [acc EXCEPT !.names = r1.set, !.cache = r1.cache, !.max = MaxOf(@, r1.len)]
    ELSE The({OldNameSets(b, acc, r1, r2) : r2 \in {Field(b, r1.pos, r1.set, r1)}})

LineSets(b, acc) ==
    IF b = <<>> THEN acc
    ELSE The({NameSets(b, acc, r1) : r1 \in {Field(b, 1, acc.names, acc)}})

\* The loops over all groups and their 32 lines; lines of length 0 are
\* passed over, so only the stored ones, in ascending order, are visited.
RECURSIVE LinesSets(_, _, _)
LinesSets(g, ls, acc) ==
    IF ls = <<>> THEN acc
    ELSE The({LinesSets(g, Tail(ls), a) : a \in {LineSets(Line(g, Head(ls)), acc)}})

RECURSIVE GroupSets(_, _)
GroupSets(g, acc) ==
    IF g >= Len(Groups) THEN acc
    ELSE The({GroupSets(g + 1, a) : a \in {LinesSets(g, SetToSortSeq(DOMAIN Groups[g + 1].lines, <), acc)}})

\* calcNameSetsLengths once the data is loaded: the sets only grow, the
\* maximum ISO comment length is computed afresh, and the name length
\* is stored last.
GroupsFrom(cur, cached, ext) ==
    The({[max |-> grp.max, maxISO |-> grp.maxISO, names |-> grp.names, iso |-> grp.iso] :
         grp \in {GroupSets(0, [names |-> ext.set, iso |-> cur.iso, cached |-> cached, cache |-> NoCache,
                                max |-> ext.max, maxISO |-> 0])}})

CalcSets(cur, cached) ==
    The({GroupsFrom(cur, cached, ext) :
         ext \in {ExtSets(alg.set, alg.max) : alg \in {AlgSets(1, cur.names \cup ExtChars, 0)}}})

\* SET_ADD only ORs bits into gNameSet and gISOCommentSet, and the maxima
\* do not depend on them, so calcNameSetsLengths from any state adds the
\* characters it adds from empty sets: CalcSets from NoSets, for both
\* outcomes of the malloc, evaluated once.
FreshSets == CHOOSE t \in {[cached \in BOOLEAN |-> CalcSets(NoSets, cached)]} : TRUE

SetsAfter(cur, cached) ==
    [max |-> FreshSets[cached].max, maxISO |-> FreshSets[cached].maxISO,
     names |-> cur.names \cup FreshSets[cached].names, iso |-> cur.iso \cup FreshSets[cached].iso]

-----------------------------------------------------------------------------
(* The API calls.  The functions keep no state of their own but the        *)
(* loaded data; the model takes one call at a time and Return hands its    *)
(* result back before the next.                                            *)


NoCall == [op |-> "none", choice |-> "unicode", code |-> 0, cap |-> 0, name |-> <<>>,
           start |-> 0, limit |-> 0, ok |-> FALSE, len |-> 0, writes |-> NoWrites,
           res |-> Error, oob |-> FALSE, names |-> <<>>, chars |-> {}]

Init ==
    /\ data = "none"
    /\ sets = NoSets
    /\ last = NoCall

\* isDataLoaded: unames.dat is opened on first use; a failure is kept in
\* gLoadErrorCode and returned by every later call without a retry.
Load ==
    data' \in IF data = "none"
              THEN IF LoadMayFail THEN {"loaded", "failed"} ELSE {"loaded"}
              ELSE {data}

\* u_charName: a code beyond UCHAR_MAX_VALUE gets the empty name before
\* the data is looked at.
CallCharName(code, choice, cap) ==
    /\ last = NoCall
    /\ UNCHANGED sets
    /\ IF code > MaxValue THEN data' = data ELSE Load
    /\ LET ok == code <= MaxValue /\ data' = "loaded"
           r == CharNameResult(code, choice, cap)
       IN last' = [NoCall EXCEPT !.op = "charName", !.code = code, !.choice = choice, !.cap = cap,
                                 !.ok = ok, !.len = IF ok THEN r.len ELSE 0,
                                 !.writes = IF ok THEN r.writes ELSE NoWrites]

\* u_charFromName
CallCharFromName(choice, name) ==
    /\ last = NoCall
    /\ UNCHANGED sets
    /\ Load
    /\ LET ok == data' = "loaded"
           r == FromNameResult(choice, name)
       IN last' = [NoCall EXCEPT !.op = "charFromName", !.choice = choice, !.name = name, !.ok = ok,
                                 !.res = IF ok THEN r.res ELSE Error, !.oob = ok /\ r.oob]

\* u_enumCharNames with a callback that takes every name: limit is
\* clamped to UCHAR_MAX_VALUE+1, and an empty range returns before the
\* data is loaded.
CallEnumCharNames(start, limit, choice) ==
    /\ last = NoCall
    /\ UNCHANGED sets
    /\ IF start >= ClampLimit(limit) THEN data' = data ELSE Load
    /\ LET ok == start < ClampLimit(limit) /\ data' = "loaded"
       IN last' = [NoCall EXCEPT !.op = "enumCharNames", !.choice = choice, !.start = start,
                                 !.limit = limit, !.ok = ok,
                                 !.names = IF ok THEN EnumLoop(start, ClampLimit(limit), choice) ELSE <<>>]

\* u_getISOComment: the comment of a stored line (algorithmic ranges have
\* none), written like a name.
CallISOComment(code, cap) ==
    /\ last = NoCall
    /\ UNCHANGED sets
    /\ IF code > MaxValue THEN data' = data ELSE Load
    /\ LET ok == code <= MaxValue /\ data' = "loaded"
           n == getName(code, "iso")
       IN last' = [NoCall EXCEPT !.op = "isoComment", !.code = code, !.choice = "iso", !.cap = cap,
                                 !.ok = ok, !.len = IF ok THEN Len(n) ELSE 0,
                                 !.writes = IF ok THEN WriteChars(n, 0, U16(cap)) ELSE NoWrites]

\* calcNameSetsLengths: nothing to do once gMaxNameLength is set; else
\* the data is loaded and the sets and maxima are computed, with or
\* without the token length cache.
CalcNameSetsLengths ==
    IF sets.max # 0 THEN UNCHANGED <<data, sets>>
    ELSE /\ Load
         /\ IF data' = "loaded"
            THEN \E cached \in IF CacheMayFail THEN BOOLEAN ELSE {TRUE} : sets' = SetsAfter(sets, cached)
            ELSE UNCHANGED sets

\* Whether calcNameSetsLengths returns TRUE.
CalcOK == sets.max # 0 \/ data' = "loaded"

\* uprv_getMaxCharNameLength: gMaxNameLength, or 0 without data.
CallGetMaxCharNameLength ==
    /\ last = NoCall
    /\ CalcNameSetsLengths
    /\ last' = [NoCall EXCEPT !.op = "maxNameLength", !.ok = CalcOK, !.len = IF CalcOK THEN sets'.max ELSE 0]

\* The invariant characters names use (u_charsToUChars maps variant ones
\* to 0, and charSetToUSet leaves those out).
Invariant == Range(Str("0123456789 -<>" \o Uppers \o Lowers))

\* uprv_getCharNameCharacters: charSetToUSet(gNameSet), each character of
\* the set after calcNameSetsLengths has filled it.
CallGetCharNameCharacters ==
    /\ last = NoCall
    /\ CalcNameSetsLengths
    /\ last' = [NoCall EXCEPT !.op = "nameChars", !.ok = CalcOK,
                              !.chars = IF CalcOK THEN sets'.names \cap Invariant ELSE {}]

\* unames_cleanup: the data is closed and opened again on next use, and
\* gMaxNameLength is reset; the load error code and the character sets
\* are left as they were.
Cleanup ==
    /\ last = NoCall
    /\ data' = IF data = "loaded" THEN "none" ELSE data
    /\ sets' = [sets EXCEPT !.max = 0]
    /\ UNCHANGED last

Return ==
    /\ last # NoCall
    /\ last' = NoCall
    /\ UNCHANGED <<data, sets>>

\* NameOf for every code point and choice, evaluated once (the one
\* element of a set is a finished value, not a definition to evaluate at
\* each application).
NameTable ==
    CHOOSE t \in {[c \in 0..MaxValue, ch \in AllChoices |->
                      IF ch = "iso" THEN getName(c, ch) ELSE NameOf(c, ch)]} : TRUE

TableName(c, ch) == NameTable[c, ch]

Lower(n) == [i \in DOMAIN n |-> ToLower(n[i])]
Upper(n) == [i \in DOMAIN n |-> ToUpper(n[i])]

\* The names given to u_charFromName: every name u_charName returns, as
\* it is and in lower case, and the extra ones.
FromNames ==
    LET named == {TableName(c, ch) : c \in 0..MaxValue, ch \in NameChoices} \ {<<>>}
    IN named \cup {Lower(n) : n \in named} \cup ExtraNames

Next ==
    \/ \E code \in Codes, choice \in NameChoices, cap \in Capacities : CallCharName(code, choice, cap)
    \/ \E choice \in NameChoices, name \in FromNames : CallCharFromName(choice, name)
    \/ \E start, limit \in Bounds, choice \in NameChoices : CallEnumCharNames(start, limit, choice)
    \/ \E code \in Codes, cap \in Capacities : CallISOComment(code, cap)
    \/ CallGetMaxCharNameLength
    \/ CallGetCharNameCharacters
    \/ Cleanup
    \/ Return

Spec == Init /\ [][Next]_vars

-----------------------------------------------------------------------------
(* Properties.                                                             *)

TypeOK ==
    /\ data \in {"none", "loaded", "failed"}
    /\ sets.max \in Nat /\ sets.maxISO \in Nat
    /\ sets.names \subseteq 0..255 /\ sets.iso \subseteq 0..255
    /\ last.op \in {"none", "charName", "charFromName", "enumCharNames", "isoComment",
                    "maxNameLength", "nameChars"}
    /\ last.choice \in AllChoices
    /\ last.len \in Nat
    /\ \A p \in DOMAIN last.writes : p \in Nat /\ last.writes[p] \in 32..126
    /\ last.res \in (-2147483647 - 1)..2147483647
    /\ \A i \in DOMAIN last.names : last.names[i][1] \in 0..MaxValue

\* u_charName and u_getISOComment store exactly the first
\* min(bufferLength, length) characters of the name or comment, nothing at
\* or after buffer[bufferLength], and return the whole length (the
\* preflighting contract callers rely on).
BufferContract ==
    last.op \in {"charName", "isoComment"} /\ last.ok =>
        LET n == TableName(last.code, last.choice)
        IN /\ last.len = Len(n)
           /\ DOMAIN last.writes = 0..(MinOf(last.cap, Len(n)) - 1)
           /\ \A p \in DOMAIN last.writes : last.writes[p] = n[p + 1]

\* u_charFromName inverts u_charName: a name u_charName returns, in any
\* letter case, is found, and gives the first code point with that name
\* (algorithmic names through findAlgName's own suffix enumeration,
\* stored names through enumNames in find mode, extended names through the
\* "<category-hex>" parser).
FromNameComplete ==
    last.op = "charFromName" /\ last.ok =>
        LET hits == {c \in 0..MaxValue : TableName(c, last.choice) # <<>>
                                         /\ Upper(TableName(c, last.choice)) = Upper(last.name)}
        IN hits # {} => last.res = (CHOOSE c \in hits : \A d \in hits : c <= d)

\* u_charFromName accepts nothing else: a name it maps to a code point is
\* that code point's name, or an extended name whose category is the code
\* point's and whose hexadecimal number is the code point; and it reads
\* no byte outside the name.
FromNameSound ==
    last.op = "charFromName" /\ last.ok =>
        /\ ~last.oob
        /\ last.res # Error =>
             /\ last.res \in 0..MaxValue
             /\ \/ Upper(TableName(last.res, last.choice)) = Upper(last.name)
                \/ /\ last.choice = "extended"
                   /\ \E k \in HexLen(last.res)..Len(last.name) :
                         Lower(last.name) = Lower(<<LT>> \o getCharCatName(last.res) \o <<DASH>>
                                                  \o Hex(last.res, k) \o <<GT>>)

\* u_enumCharNames gives only names u_charName gives, each for a code
\* point in [start, limit), in ascending order of code point; the names
\* of an algorithmic range are made by incrementing the previous one.
EnumSound ==
    last.op = "enumCharNames" /\ last.ok =>
        \A i \in DOMAIN last.names :
            /\ last.names[i][1] \in last.start..(ClampLimit(last.limit) - 1)
            /\ last.names[i][2] # <<>>
            /\ last.names[i][2] = TableName(last.names[i][1], last.choice)
            /\ i > 1 => last.names[i - 1][1] < last.names[i][1]

\* u_enumCharNames gives a name for every code point of [start, limit)
\* that u_charName names.
EnumComplete ==
    last.op = "enumCharNames" /\ last.ok =>
        {last.names[i][1] : i \in DOMAIN last.names}
            = {c \in last.start..(ClampLimit(last.limit) - 1) : TableName(c, last.choice) # <<>>}

\* Once calcNameSetsLengths has run (and until unames_cleanup resets it),
\* uprv_getMaxCharNameLength bounds every name u_charName gives, of every
\* choice, and gMaxISOCommentLength every ISO comment: the lengths it sums
\* from letters, cached token lengths, double-byte tokens, algorithmic
\* factors and category names cover what expandName and getExtName write.
MaxLengthsBound ==
    sets.max # 0 =>
        /\ \A c \in 0..MaxValue, ch \in NameChoices : Len(TableName(c, ch)) <= sets.max
        /\ \A c \in 0..MaxValue : Len(TableName(c, "iso")) <= sets.maxISO

\* Once calcNameSetsLengths has run, every character of every name is in
\* gNameSet, the set uprv_getCharNameCharacters returns, and every
\* character of every ISO comment in gISOCommentSet.
NameSetsComplete ==
    sets.max # 0 =>
        /\ \A c \in 0..MaxValue, ch \in NameChoices : Range(TableName(c, ch)) \subseteq sets.names
        /\ \A c \in 0..MaxValue : Range(TableName(c, "iso")) \subseteq sets.iso

\* The extended name of a code point outside the algorithmic ranges is its
\* modern name, else its Unicode 1.0 name, else "<category-hex>", as the
\* comment of expandName on skipping the ';' says.
ExtendedNameForm ==
    last.op = "charName" /\ last.ok /\ last.choice = "extended" /\ AlgRangeOf(last.code) = 0 =>
        last.len = Len(IF TableName(last.code, "unicode") # <<>> THEN TableName(last.code, "unicode")
                       ELSE IF TableName(last.code, "v10") # <<>> THEN TableName(last.code, "v10")
                       ELSE ExtName(last.code))

=============================================================================
