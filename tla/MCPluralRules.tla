---------------------------- MODULE MCPluralRules ----------------------------
(***************************************************************************)
(* Model values for PluralRules: descriptions written from rules of one or *)
(* two chains over every operand, with and without mod, for each of 'is',  *)
(* 'is not', 'in', 'not in', 'within' and 'not within'; and/or/; compounds *)
(* of three relations; the locale data forLocale can meet.                 *)
(***************************************************************************)
EXTENDS PluralRules, TLC

RECURSIVE Join(_, _)
Join(ss, sep) ==
    IF ss = <<>> THEN ""
    ELSE IF Len(ss) = 1 THEN Head(ss) ELSE Head(ss) \o sep \o Join(Tail(ss), sep)

NumText(k) ==
    IF k < 10 THEN DigitChars[k + 1]
    ELSE DigitChars[k \div 10 + 1] \o DigitChars[(k % 10) + 1]

PairText(pr) ==
    IF pr[1] = pr[2] THEN NumText(pr[1]) ELSE NumText(pr[1]) \o ".." \o NumText(pr[2])

RelText(rel) ==
    rel.var \o (IF rel.mod = 0 THEN "" ELSE " mod " \o NumText(rel.mod))
    \o (IF rel.kind = "is"
        THEN " is " \o (IF rel.neg THEN "not " ELSE "") \o NumText(rel.vals[1][1])
        ELSE (IF rel.neg THEN " not " ELSE " ") \o rel.kind \o " "
             \o Join([k \in DOMAIN rel.vals |-> PairText(rel.vals[k])], ", "))

ChainText(ch) ==
    ch.keyword \o ": "
    \o Join([o \in DOMAIN ch.ors |->
                Join([k \in DOMAIN ch.ors[o] |-> RelText(ch.ors[o][k])], " and ")],
            " or ")

RuleText(r) == Join([c \in DOMAIN r |-> ChainText(r[c])], "; ")

Rel(var, mod, kind, neg, vals) ==
    [var |-> var, mod |-> mod, kind |-> kind, neg |-> neg, vals |-> vals]

Tests == {<<"is", FALSE, <<<<1, 1>>>>>>, <<"is", TRUE, <<<<2, 2>>>>>>,
          <<"in", FALSE, <<<<1, 2>>>>>>, <<"in", TRUE, <<<<0, 0>>, <<2, 3>>>>>>,
          <<"within", FALSE, <<<<1, 2>>>>>>, <<"within", TRUE, <<<<1, 1>>>>>>}

Singles == {Rel(v, m, t[1], t[2], t[3]) :
                v \in {"n", "i", "f", "v", "j"}, m \in {0, 10}, t \in Tests}
            \cup {Rel("t", 0, "is", FALSE, <<<<5, 5>>>>)}

RelA == Rel("n", 0, "is", FALSE, <<<<1, 1>>>>)
RelB == Rel("i", 0, "in", FALSE, <<<<2, 4>>>>)
RelC == Rel("n", 10, "in", TRUE, <<<<1, 2>>>>)

Chain(kw, ors) == [keyword |-> kw, ors |-> ors]

Compounds ==
    LET three == {RelA, RelB, RelC}
    IN  {<<Chain("one", <<<<a, b>>>>)>> : a, b \in three}
        \cup {<<Chain("one", <<<<a>>, <<b>>>>)>> : a, b \in three}
        \cup {<<Chain("one", <<<<a>>>>), Chain("two", <<<<b>>>>)>> : a, b \in three}
        \cup {<<Chain("one", <<<<a, b>>, <<c>>>>)>> : a, b, c \in three}
        \cup {<<Chain("few", <<<<a>>>>), Chain("few", <<<<RelB>>>>)>> : a \in three}

MCRules == {<<Chain("one", <<<<s>>>>)>> : s \in Singles} \cup Compounds

MCDescriptions == {RuleText(r) : r \in MCRules}

\* Descriptions cut after a word, with and without a trailing space.
MCTruncated == {"one: n is 1 or", "one: n is 1 or ", "one: n is 1 and",
                "one: n is", "one: n is ", "one:"}

MCReference(ds) ==
    [d \in ds |-> IF \E r \in MCRules : RuleText(r) = d
                  THEN CHOOSE r \in MCRules : RuleText(r) = d ELSE NULL]

\* Descriptions createRules rejects: a range whose low end is above its
\* high end, a keyword without colon, a dangling 'or', a comma after 'is'.
MCMalformed == {"one: n in 2..1", "one n is 1", "one: n is 1 or ", "one: n is 1, 2"}

MCPassDescriptions == MCDescriptions \cup MCMalformed
MCPassReference == MCReference(MCPassDescriptions)
MCAllDescriptions == MCDescriptions \cup MCTruncated
MCAllReference == MCReference(MCAllDescriptions)

\* What getRuleFromResource returns: nothing (missing data or an error),
\* or a rule set in the form it builds: "key:rule;" per keyword.
MCLocaleRules ==
    {[rule |-> "", status |-> "U_MISSING_RESOURCE_ERROR"],
     [rule |-> "", status |-> OK],
     [rule |-> "one:n is 1;few:n mod 10 in 2..4;", status |-> OK]}

\* A rule set whose second rule does not parse.
MCBadLocaleRules ==
    MCLocaleRules \cup {[rule |-> "one:n is 1;two:n is x;", status |-> OK]}

MCNumbers == {0, 5, 10, 15, 20, 30, 110, 120, 210}

MCSymmetry == Permutations(Objects)
=============================================================================
