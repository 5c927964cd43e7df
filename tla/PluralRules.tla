----------------------------- MODULE PluralRules -----------------------------
(***************************************************************************)
(* PluralRules of plurrule.cpp: a rule description such as                *)
(* "one: n is 1; few: n mod 10 in 2..4" is split into tokens by            *)
(* RuleParser::getNextToken, each token is checked against the one before  *)
(* it by RuleParser::checkSyntax, and parseDescription builds from them a  *)
(* RuleChain: one chain per keyword, each holding a list of OrConstraints, *)
(* each a list of AndConstraints.  select() returns the keyword of the     *)
(* first chain one of whose or-terms has all its and-terms fulfilled.      *)
(*                                                                         *)
(* A description is a TLA+ string, scanned character by character as the  *)
(* code does.  Numbers given to select() have at most one fraction digit   *)
(* and are represented times 10 (15 stands for 1.5), so every comparison   *)
(* the code makes on doubles is exact here.  A PluralRules object is a     *)
(* slot of Objects; mRules is its rule chain, a sequence of chains         *)
(* [keyword, ors], where ors = <<>> is a NULL ruleHeader.                  *)
(***************************************************************************)
EXTENDS Integers, Sequences, FiniteSetsExt

CONSTANTS
    Objects,        \* PluralRules objects
    Descriptions,   \* descriptions passed to createRules
    LocaleRules,    \* what getRuleFromResource returns: [rule, status]
    Numbers,        \* numbers passed to select, times 10
    Reference,      \* Reference[d]: the rules description d was written for
    NULL

VARIABLES
    live,           \* the objects that exist
    mRules,         \* mRules[p]: NULL or the rule chain of object p
    origin          \* origin[p]: how p got its rules (for the properties)

vars == <<live, mRules, origin>>

OK == "U_ZERO_ERROR"

(***************************************************************************)
(* Characters and tokens (RuleParser::inRange, getKeyType, getNextToken). *)
(***************************************************************************)
Letters == {"a","b","c","d","e","f","g","h","i","j","k","l","m","n","o","p",
            "q","r","s","t","u","v","w","x","y","z"}
DigitChars == <<"0","1","2","3","4","5","6","7","8","9">>

CharAt(s, i) == SubSeq(s, i + 1, i + 1)       \* s.charAt(i), 0-based

\* RuleParser::inRange: the class of a character, "none" when illegal.
\* Upper-case letters are illegal; parseDescription lower-cases first.
InRange(ch) ==
    CASE ch \in Letters                          -> "tLetter"
      [] \E d \in 1..10 : DigitChars[d] = ch     -> "tNumber"
      [] ch = ":" -> "tColon"
      [] ch = " " -> "tSpace"
      [] ch = ";" -> "tSemiColon"
      [] ch = "." -> "tDot"
      [] ch = "," -> "tComma"
      [] ch = "!" -> "tNot"
      [] ch = "=" -> "tIn"
      [] ch = "%" -> "tMod"
      [] OTHER    -> "none"

Variables == {"tVariableN", "tVariableI", "tVariableF", "tVariableT",
              "tVariableV", "tVariableJ"}

\* The words getKeyType compares a whole token with (PK_VAR_N ... PK_OR).
ReservedWords ==
    {<<"n", "tVariableN">>, <<"i", "tVariableI">>, <<"f", "tVariableF">>,
     <<"t", "tVariableT">>, <<"v", "tVariableV">>, <<"j", "tVariableJ">>,
     <<"is", "tIs">>, <<"and", "tAnd">>, <<"in", "tIn">>,
     <<"within", "tWithin">>, <<"not", "tNot">>, <<"mod", "tMod">>,
     <<"or", "tOr">>}

\* isValidKeyword: PatternProps::isIdentifier.  A token reaching it is made
\* of letters, digits and dots, and only the dot is pattern syntax.
IsValidKeyword(token) ==
    token # "" /\ \A i \in 0..(Len(token) - 1) : CharAt(token, i) # "."

GetKeyType(token, keyType) ==
    IF keyType = "tNumber"
    THEN [type |-> keyType, status |-> OK]
    ELSE IF \E w \in ReservedWords : w[1] = token
    THEN [type |-> (CHOOSE w \in ReservedWords : w[1] = token)[2], status |-> OK]
    ELSE IF IsValidKeyword(token)
    THEN [type |-> "tKeyword", status |-> OK]
    ELSE [type |-> keyType, status |-> "U_UNEXPECTED_TOKEN"]

TokenResult(ri, token, type, status) ==
    [ruleIndex |-> ri, token |-> token, type |-> type, status |-> status]

\* A letter or number run ends at cur: return it, classified, and leave
\* ruleIndex on the character that ended it.
EndRun(data, ri, cur, prev) ==
    LET w == SubSeq(data, ri + 1, cur)
        k == GetKeyType(w, prev)
    IN  TokenResult(cur, w, k.type, k.status)

\* The scanning loop of getNextToken.  ri is *ruleIndex, cur is curIndex,
\* prev is the local prevType, type the caller's type (set from inRange on
\* every character) and token the caller's token, which a number that
\* follows a letter or a dot is returned with unchanged.
RECURSIVE Scan(_, _, _, _, _, _)
Scan(data, ri, cur, prev, type, token) ==
    IF cur >= Len(data)
    THEN IF type \in {"tLetter", "tNumber"}
         THEN LET w == SubSeq(data, ri + 1, cur)
                  k == GetKeyType(w, type)
              IN  TokenResult(IF k.status = OK THEN Len(data) ELSE ri,
                              w, k.type, k.status)
         ELSE TokenResult(Len(data), token, type, OK)
    ELSE
    LET t == InRange(CharAt(data, cur)) IN
    CASE t = "none" ->
            TokenResult(ri, token, t, "U_ILLEGAL_CHARACTER")
      [] t = "tSpace" ->
            IF ri # cur THEN EndRun(data, ri, cur, prev)
            ELSE Scan(data, ri + 1, cur + 1, prev,
                      IF ri + 1 >= Len(data) THEN "tEOF" ELSE t, token)
      [] t \in {"tColon", "tSemiColon", "tComma", "tIn", "tNot", "tMod"} ->
            IF ri # cur THEN EndRun(data, ri, cur, prev)
            ELSE TokenResult(cur + 1, token, t, OK)
      [] t = "tLetter" ->
            Scan(data, ri, cur + 1, IF prev \in {t, "none"} THEN t ELSE prev,
                 t, token)
      [] t = "tNumber" ->
            IF prev \in {t, "none"} THEN Scan(data, ri, cur + 1, t, t, token)
            ELSE TokenResult(cur + 1, token, t, OK)
      [] t = "tDot" ->
            CASE prev = "none" -> Scan(data, ri, cur + 1, t, t, token)
              [] prev = "tDot" -> TokenResult(cur + 1, token, t, OK)
              [] OTHER         -> EndRun(data, ri, cur, prev)

GetNextToken(data, ri, token) == Scan(data, ri, ri, "none", "none", token)

(***************************************************************************)
(* RuleParser::checkSyntax: the token types that may follow each type.    *)
(***************************************************************************)
Allowed(prev) ==
    CASE prev \in {"none", "tSemiColon"} -> {"tKeyword", "tEOF"}
      [] prev \in Variables -> {"tIs", "tMod", "tIn", "tNot", "tWithin"}
      [] prev = "tKeyword"  -> {"tColon"}
      [] prev = "tColon"    -> Variables
      [] prev = "tIs"       -> {"tNumber", "tNot"}
      [] prev = "tNot"      -> {"tNumber", "tIn", "tWithin"}
      [] prev \in {"tMod", "tDot", "tIn", "tWithin", "tComma"} -> {"tNumber"}
      [] prev \in {"tAnd", "tOr"} -> Variables
      [] prev = "tNumber"   -> {"tDot", "tSemiColon", "tIs", "tNot", "tIn",
                                "tWithin", "tAnd", "tOr", "tComma", "tEOF"}
      [] OTHER -> {}

CheckSyntax(prev, cur) == cur \in Allowed(prev)

(***************************************************************************)
(* The rule structure and parseDescription.                                *)
(***************************************************************************)
\* PLURAL_RANGE_HIGH (plurrule_impl.h), stored in value by 'in' and
\* 'within'; isFulfilled never reads value once a range list exists.
RangeHigh == 2147483647

\* AndConstraint(): ranges = NULL is a NULL rangeList, else the UVector32
\* of low, high pairs.
NewAnd == [op |-> "NONE", opNum |-> -1, value |-> -1, ranges |-> NULL,
           negated |-> FALSE, integerOnly |-> FALSE, digitsType |-> "none"]

NoChain == [keyword |-> "", ors |-> <<>>]     \* RuleChain(): NULL ruleHeader

\* getNumberValue: atoi of the token, the value of its leading digits.
RECURSIVE Atoi(_, _)
Atoi(s, acc) ==
    IF s # "" /\ \E d \in 1..10 : DigitChars[d] = Head(s)
    THEN Atoi(Tail(s), 10 * acc + (CHOOSE d \in 1..10 : DigitChars[d] = Head(s)) - 1)
    ELSE acc
GetNumberValue(token) == Atoi(token, 0)

\* The locals of parseDescription.  chain is the local ruleChain (0 for
\* NULL), cur the position <<chain, or, and>> of curAndConstraint, lo and
\* hi are rangeLowIdx and rangeHiIdx (0-based, as in the code).
ParseInit(rules) ==
    [rules |-> rules, chain |-> 0, cur |-> <<0, 0, 0>>, lo |-> -1, hi |-> -1,
     prev |-> "none", token |-> "", ruleIndex |-> 0, status |-> OK]

CurAnd(ps) == ps.rules[ps.cur[1]].ors[ps.cur[2]][ps.cur[3]]
SetCur(ps, a) == [ps EXCEPT !.rules[ps.cur[1]].ors[ps.cur[2]][ps.cur[3]] = a]

\* tAnd: curAndConstraint->add() sets its next to a new AndConstraint.
AddAnd(ps) ==
    LET c == ps.cur[1]  o == ps.cur[2]  k == ps.cur[3]
    IN  [ps EXCEPT !.rules[c].ors[o] = Append(SubSeq(@, 1, k), NewAnd),
                   !.cur = <<c, o, k + 1>>]

\* tOr: a new OrConstraint at the end of the last chain of rules.
AddOr(ps) ==
    LET c == Len(ps.rules)
    IN  [ps EXCEPT !.rules[c].ors = Append(@, <<NewAnd>>),
                   !.cur = <<c, Len(ps.rules[c].ors) + 1, 1>>]

\* tKeyword: the first keyword of this parse takes over rules itself,
\* deleting its ruleHeader; a later one appends a chain after ruleChain.
AddKeyword(ps, token) ==
    LET c  == IF ps.chain = 0 THEN 1 ELSE Len(ps.rules) + 1
        rs == IF ps.chain = 0 THEN ps.rules ELSE Append(ps.rules, NoChain)
    IN  [ps EXCEPT !.rules = [rs EXCEPT ![c] = [keyword |-> token,
                                                ors |-> <<<<NewAnd>>>>]],
                   !.chain = c, !.cur = <<c, 1, 1>>]

\* tIn, tWithin: a range list holding one unset pair.
StartRange(ps, type) ==
    [SetCur(ps, [CurAnd(ps) EXCEPT !.ranges = <<-1, -1>>, !.value = RangeHigh,
                                   !.integerOnly = (type = "tIn")])
        EXCEPT !.lo = 0, !.hi = 1]

\* tNumber: the modulus after 'mod', the value of an 'is' rule, else the
\* low and high end of the current pair, then its high end.
AddNumber(ps, v) ==
    LET a == CurAnd(ps) IN
    CASE a.op = "MOD" /\ a.opNum = -1 -> SetCur(ps, [a EXCEPT !.opNum = v])
      [] a.ranges = NULL -> SetCur(ps, [a EXCEPT !.value = v])
      [] a.ranges[ps.lo + 1] = -1 ->
            SetCur(ps, [a EXCEPT !.ranges[ps.lo + 1] = v, !.ranges[ps.hi + 1] = v])
      [] OTHER ->
            [SetCur(ps, [a EXCEPT !.ranges[ps.hi + 1] = v])
                EXCEPT !.status = IF a.ranges[ps.lo + 1] > v
                                  THEN "U_UNEXPECTED_TOKEN" ELSE @]

\* A comma that leaves rangeLowIdx on the previous pair.
AddPairKeepLow(ps) ==
    LET a == CurAnd(ps) IN
    IF ps.chain = 0 \/ a.ranges = NULL
    THEN [ps EXCEPT !.status = "U_UNEXPECTED_TOKEN"]
    ELSE [SetCur(ps, [a EXCEPT !.ranges = @ \o <<-1, -1>>])
            EXCEPT !.hi = Len(a.ranges) + 1]

\* tComma: a new unset pair, or an error outside a range list.
AddPair(ps) ==
    LET a == CurAnd(ps) IN
    IF ps.chain = 0 \/ a.ranges = NULL
    THEN [ps EXCEPT !.status = "U_UNEXPECTED_TOKEN"]
    ELSE [SetCur(ps, [a EXCEPT !.ranges = @ \o <<-1, -1>>])
            EXCEPT !.lo = Len(a.ranges), !.hi = Len(a.ranges) + 1]

\* The switch of parseDescription on the type of one token.
ApplyToken(ps, type, token) ==
    CASE type = "tAnd"     -> AddAnd(ps)
      [] type = "tOr"      -> AddOr(ps)
      [] type = "tNot"     -> SetCur(ps, [CurAnd(ps) EXCEPT !.negated = TRUE])
      [] type \in {"tIn", "tWithin"} -> StartRange(ps, type)
      [] type = "tNumber"  -> AddNumber(ps, GetNumberValue(token))
      [] type = "tComma"   -> AddPair(ps)
      [] type = "tMod"     -> SetCur(ps, [CurAnd(ps) EXCEPT !.op = "MOD"])
      [] type \in Variables -> SetCur(ps, [CurAnd(ps) EXCEPT !.digitsType = type])
      [] type = "tKeyword" -> AddKeyword(ps, token)
      [] OTHER             -> ps

\* The loop of parseDescription: one token per iteration until ruleIndex
\* reaches the end of the data or the status is a failure.
RECURSIVE ParseLoop(_, _)
ParseLoop(data, ps) ==
    IF ps.ruleIndex >= Len(data) THEN ps
    ELSE
    LET t   == GetNextToken(data, ps.ruleIndex, ps.token)
        ps1 == [ps EXCEPT !.ruleIndex = t.ruleIndex, !.token = t.token,
                          !.status = t.status]
        ps2 == [ApplyToken(ps1, t.type, t.token) EXCEPT !.prev = t.type]
    IN  CASE t.status # OK -> ps1
          [] ~CheckSyntax(ps.prev, t.type) -> [ps1 EXCEPT !.status = "U_UNEXPECTED_TOKEN"]
          [] ps2.status # OK -> ps2
          [] OTHER -> ParseLoop(data, ps2)

\* parseDescription(data, rules, status), from a successful status.
ParseDescription(data, rules) == ParseLoop(data, ParseInit(rules))

(***************************************************************************)
(* NumberInfo and select.                                                  *)
(***************************************************************************)
\* NumberInfo(double n) of x / 10: decimals() ends on its fast path (one
\* fraction digit at most), getFractionalDigits(n, 1) is the digit, and
\* init() strips the trailing zeros of that digit for t.
NumberInfo(x) ==
    LET v == IF x % 10 = 0 THEN 0 ELSE 1
        f == IF v = 0 THEN 0 ELSE x % 10
    IN  [source |-> x, intValue |-> x \div 10, v |-> v, f |-> f, t |-> f]

\* NumberInfo::get, times 10.
Operand(ni, type) ==
    CASE type = "tVariableI" -> 10 * ni.intValue
      [] type = "tVariableF" -> 10 * ni.f
      [] type = "tVariableT" -> 10 * ni.t
      [] type = "tVariableV" -> 10 * ni.v
      [] OTHER               -> ni.source

\* AndConstraint::isFulfilled.  fmod(n, 0) is NaN, which no comparison
\* accepts.
AndFulfilled(a, ni) ==
    LET n   == Operand(ni, a.digitsType)
        nan == a.op = "MOD" /\ a.opNum = 0
        m   == IF a.op = "MOD" /\ ~nan THEN n % (10 * a.opNum) ELSE n
        r   == CASE (a.integerOnly /\ n % 10 # 0)
                      \/ (a.digitsType = "tVariableJ" /\ ni.v # 0) -> FALSE
                 [] a.ranges = NULL -> a.value = -1 \/ (~nan /\ m = 10 * a.value)
                 [] OTHER -> \E k \in 1..(Len(a.ranges) \div 2) :
                                ~nan /\ 10 * a.ranges[2 * k - 1] <= m
                                     /\ m <= 10 * a.ranges[2 * k]
    IN  IF a.negated THEN ~r ELSE r

\* OrConstraint::isFulfilled.  A NULL ruleHeader (a chain of a description
\* without keyword) is called as a NULL this and reports FALSE.
OrFulfilled(ors, ni) ==
    \E o \in DOMAIN ors : \A k \in DOMAIN ors[o] : AndFulfilled(ors[o][k], ni)

\* RuleChain::select: the keyword of the first fulfilled chain, or "other".
ChainSelect(chains, x) ==
    LET hits == {c \in DOMAIN chains : OrFulfilled(chains[c].ors, NumberInfo(x))}
    IN  IF hits = {} THEN "other" ELSE chains[Min(hits)].keyword

DefaultRule == "other: n"       \* PLURAL_DEFAULT_RULE

\* PluralRules::select: without rules it returns PLURAL_DEFAULT_RULE.
Select(p, x) ==
    IF mRules[p] = NULL THEN DefaultRule ELSE ChainSelect(mRules[p], x)

\* PluralKeywordEnumeration: the chain keywords, then "other" unless one of
\* them is "other".
Keywords(chains) ==
    LET ks == [c \in DOMAIN chains |-> chains[c].keyword]
    IN  IF \E c \in DOMAIN ks : ks[c] = "other" THEN ks ELSE Append(ks, "other")

\* PluralRules::isKeyword and RuleChain::isKeyword.
IsKeyword(p, w) ==
    w = "other" \/ (mRules[p] # NULL /\ \E c \in DOMAIN mRules[p] : mRules[p][c].keyword = w)

(***************************************************************************)
(* Operations on PluralRules objects.                                      *)
(***************************************************************************)
Init ==
    /\ live = {}
    /\ mRules = [p \in Objects |-> NULL]
    /\ origin = [p \in Objects |-> NULL]

Make(p, rules, from) ==
    /\ live' = live \cup {p}
    /\ mRules' = [mRules EXCEPT ![p] = rules]
    /\ origin' = [origin EXCEPT ![p] = from]

\* PluralRules(UErrorCode&): an object without rules.
Construct(p) ==
    /\ p \notin live
    /\ Make(p, NULL, [kind |-> "ctor"])

\* createRules: parse into a local RuleChain; on success addRules copies
\* it into a new object, on failure the object is deleted and NULL returned.
CreateRules(p, d) ==
    /\ p \notin live
    /\ LET ps == ParseDescription(d, <<NoChain>>)
       IN  IF ps.status = OK
           THEN Make(p, ps.rules, [kind |-> "rules", text |-> d])
           ELSE /\ origin' = [origin EXCEPT ![p] = [kind |-> "rejected", text |-> d]]
                /\ UNCHANGED <<live, mRules>>

\* A fallback that parses the default rule without resetting the status:
\* parseDescription then returns at once.
ForLocaleKeepStatus(p, lr) ==
    /\ p \notin live
    /\ LET tried == lr.rule # "" /\ lr.status = OK
           ps    == ParseDescription(lr.rule, <<NoChain>>)
           rChain == IF tried THEN ps.rules ELSE <<NoChain>>
           failed == IF tried THEN ps.status # OK ELSE lr.status # OK
           dflt  == IF failed THEN [rules |-> rChain]
                    ELSE ParseDescription(DefaultRule, rChain)
       IN  IF tried /\ ps.status = OK
           THEN Make(p, ps.rules, [kind |-> "locale", rule |-> lr])
           ELSE Make(p, dflt.rules, [kind |-> "locale", rule |-> lr])

\* forLocale: parse the locale's rule into rChain; when that fails or there
\* is none, reset the status and parse the default rule into the same
\* rChain, then addRules.
ForLocale(p, lr) ==
    /\ p \notin live
    /\ LET tried == lr.rule # "" /\ lr.status = OK
           ps    == ParseDescription(lr.rule, <<NoChain>>)
           rChain == IF tried THEN ps.rules ELSE <<NoChain>>
           dflt  == ParseDescription(DefaultRule, rChain)
       IN  IF tried /\ ps.status = OK
           THEN Make(p, ps.rules, [kind |-> "locale", rule |-> lr])
           ELSE Make(p, dflt.rules, [kind |-> "locale", rule |-> lr])

\* clone() and the copy constructor, which assigns with operator=.
Clone(p, q) ==
    /\ p \in live /\ q \notin live
    /\ Make(q, mRules[p], origin[p])

\* operator=: a deep copy of the other's rules (RuleChain copy constructor).
Assign(p, q) ==
    /\ p \in live /\ q \in live /\ p # q
    /\ Make(p, mRules[q], origin[q])

\* A destructor that leaves the rules of the slot behind.
DeleteKeepRules(p) ==
    /\ p \in live
    /\ live' = live \ {p}
    /\ UNCHANGED <<mRules>>
    /\ origin' = [origin EXCEPT ![p] = NULL]

\* ~PluralRules: the object and its rules are gone.
Delete(p) ==
    /\ p \in live
    /\ live' = live \ {p}
    /\ mRules' = [mRules EXCEPT ![p] = NULL]
    /\ origin' = [origin EXCEPT ![p] = NULL]

Next ==
    \E p \in Objects :
        \/ Construct(p)
        \/ \E d \in Descriptions : CreateRules(p, d)
        \/ \E lr \in LocaleRules : ForLocale(p, lr)
        \/ \E q \in Objects : Clone(p, q) \/ Assign(p, q)
        \/ Delete(p)

Spec == Init /\ [][Next]_vars

(***************************************************************************)
(* What a description means, and the properties.                           *)
(***************************************************************************)
\* A description written for a rule r: a sequence of chains [keyword, ors],
\* each or-term a sequence of relations [var, mod, neg, kind, vals], where
\* var is "n", "i", "f", "t", "v" or "j", mod is 0 for none, kind is "is",
\* "in" or "within" and vals the low, high pairs (one value for "is").
RefOperand(ni, var) ==
    CASE var = "i" -> 10 * ni.intValue
      [] var = "f" -> 10 * ni.f
      [] var = "t" -> 10 * ni.t
      [] var = "v" -> 10 * ni.v
      [] OTHER     -> ni.source

\* A relation holds of x: 'in' only for an integer operand, 'j' only for a
\* number without visible fraction digits, and 'not' negates the result.
RefRelation(rel, ni) ==
    LET w  == RefOperand(ni, rel.var)
        e  == IF rel.mod = 0 THEN w ELSE w % (10 * rel.mod)
        within == \E k \in DOMAIN rel.vals :
                     10 * rel.vals[k][1] <= e /\ e <= 10 * rel.vals[k][2]
        holds == CASE rel.var = "j" /\ ni.v # 0 -> FALSE
                   [] rel.kind = "is" -> e = 10 * rel.vals[1][1]
                   [] rel.kind = "in" -> w % 10 = 0 /\ within
                   [] OTHER           -> within
    IN  holds # rel.neg

RefSelect(r, x) ==
    LET ni   == NumberInfo(x)
        hits == {c \in DOMAIN r : \E o \in DOMAIN r[c].ors :
                    \A k \in DOMAIN r[c].ors[o] : RefRelation(r[c].ors[o][k], ni)}
    IN  IF hits = {} THEN "other" ELSE r[Min(hits)].keyword

TypeOK ==
    /\ live \subseteq Objects
    /\ \A p \in Objects : p \notin live => mRules[p] = NULL
    /\ \A p \in live : origin[p] # NULL
    /\ \A p \in live : mRules[p] # NULL =>
          \A c \in DOMAIN mRules[p] : \A o \in DOMAIN mRules[p][c].ors :
              mRules[p][c].ors[o] # <<>>

\* createRules accepts every description written for a rule, and the object
\* it returns, and every copy of it, selects for every number the keyword
\* that rule gives: the tokenizer, the syntax check and the constraint
\* structure parseDescription builds (curAndConstraint, rangeLowIdx and
\* rangeHiIdx, the opNum sentinel) together mean what the text says.
DescriptionMeaning ==
    \A p \in Objects :
        /\ origin[p] # NULL /\ origin[p].kind = "rejected" =>
              Reference[origin[p].text] = NULL
        /\ p \in live /\ origin[p].kind = "rules"
           /\ Reference[origin[p].text] # NULL =>
              \A x \in Numbers : Select(p, x) = RefSelect(Reference[origin[p].text], x)

\* An object forLocale made from missing or unusable locale data has the
\* default rules: one keyword, "other", selected for every number.  The
\* fallback reuses the rChain the failed parse filled.
FallbackIsDefault ==
    \A p \in live :
        origin[p].kind = "locale"
        /\ ~(origin[p].rule.rule # "" /\ origin[p].rule.status = OK
             /\ ParseDescription(origin[p].rule.rule, <<NoChain>>).status = OK)
        => /\ Keywords(mRules[p]) = <<"other">>
           /\ \A x \in Numbers : Select(p, x) = "other"

\* createRules accepts a description only where checkSyntax lets it end:
\* its last token is one the tEOF row of checkSyntax admits.
AcceptedDescriptionsComplete ==
    \A p \in live :
        origin[p].kind = "rules" =>
            CheckSyntax(ParseDescription(origin[p].text, <<NoChain>>).prev, "tEOF")

\* select() returns a keyword of the rules: isKeyword holds of its result.
SelectIsKeyword ==
    \A p \in live : \A x \in Numbers : IsKeyword(p, Select(p, x))
====
