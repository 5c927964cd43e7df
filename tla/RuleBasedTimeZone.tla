-------------------------- MODULE RuleBasedTimeZone --------------------------
(***************************************************************************)
(* RuleBasedTimeZone of rbtz.cpp: a zone built from an initial rule and    *)
(* transition rules added one by one; complete() resolves them into the    *)
(* list of transitions fHistoricTransitions that getOffset() and the       *)
(* transition searches read, and fUpToDate says whether the list is        *)
(* current.                                                                *)
(*                                                                         *)
(* A zone object is a slot of Zones.  A rule is a record: its name, raw    *)
(* offset and DST savings, whether it is final (an AnnualTimeZoneRule      *)
(* ending at MAX_YEAR), and its start times in UTC, which stand for what   *)
(* getNextStart and getPreviousStart return (TimeZoneRule is not in this   *)
(* source tree).  The rules of one zone are objects that zone owns, so a   *)
(* rule pointer of one zone never equals one of another zone.              *)
(***************************************************************************)
EXTENDS Integers, Sequences, FiniteSetsExt

CONSTANTS
    Zones,          \* the zone objects
    InitialRules,   \* InitialTimeZoneRule values for the constructor
    TransitionRules,\* rules passed to addTransitionRule
    MaxHistoric,    \* bound on the historic rules added to one zone
    MinMillis,      \* MIN_MILLIS, below every start time
    AllocMayFail,   \* whether uprv_malloc / new may return NULL in complete()
    Dates,          \* the dates the properties query
    NULL

VARIABLE zone   \* zone[z]: [initial, hist, fin, trans, upToDate]

AllocResults == IF AllocMayFail THEN BOOLEAN ELSE {TRUE}

(* TimeZoneRule::getNextStart / getPreviousStart: the first start after    *)
(* (the last before) base, or at base when inclusive.                      *)
NextStart(r, base, incl) ==
    LET s == {t \in r.starts : t > base \/ (incl /\ t = base)}
    IN  [avail |-> s # {}, time |-> IF s = {} THEN 0 ELSE Min(s)]
PrevStart(r, base, incl) ==
    LET s == {t \in r.starts : t < base \/ (incl /\ t = base)}
    IN  [avail |-> s # {}, time |-> IF s = {} THEN 0 ELSE Max(s)]

SameOffsets(a, b) == a.raw = b.raw /\ a.dst = b.dst

Elems(v) == IF v = NULL THEN {} ELSE {v[i] : i \in DOMAIN v}
\* UVector::size() of a vector that may not exist yet.
Size(v) == IF v = NULL THEN 0 ELSE Len(v)

\* A Transition {time, from, to}.
Trans(t, from, to) == [time |-> t, from |-> from, to |-> to]

(***************************************************************************)
(* complete(): the historic loop.  Each round marks done the historic      *)
(* rules with no start after lastTransitionTime, takes the earliest next   *)
(* start of a historic rule that is not the current rule (nor has its name *)
(* and offsets), stops when there is none and all are done, else lets a    *)
(* final rule other than the current one win with a strictly earlier      *)
(* start, and appends the transition.  Candidates are listed in the        *)
(* order the code visits them; of equal times the first one wins.          *)
(***************************************************************************)
Earliest(c) ==
    c[CHOOSE i \in DOMAIN c :
         \A j \in DOMAIN c : c[i].time < c[j].time \/ (c[i].time = c[j].time /\ i <= j)]

Candidate(r, last, skip) ==
    [rule |-> r, time |-> NextStart(r, last, FALSE).time,
     ok |-> NextStart(r, last, FALSE).avail /\ ~skip]

RECURSIVE HistoricLoop(_, _, _, _, _)
HistoricLoop(zr, cur, last, done, acc) ==
    LET hs == zr.hist
        open == (DOMAIN hs) \ done
        done2 == done \cup {i \in open : ~NextStart(hs[i], last, FALSE).avail}
        hc == SelectSeq([i \in DOMAIN hs |->
                  Candidate(hs[i], last,
                            i \in done \/ hs[i] = cur
                            \/ (hs[i].name = cur.name /\ SameOffsets(hs[i], cur)))],
                        LAMBDA x : x.ok)
        fc == IF zr.fin = NULL THEN <<>>
              ELSE SelectSeq([i \in 1..2 |-> Candidate(zr.fin[i], last, zr.fin[i] = cur)],
                             LAMBDA x : x.ok)
    IN  IF (hc = <<>> /\ done2 = DOMAIN hs) \/ hc \o fc = <<>>
        THEN [cur |-> cur, last |-> last, acc |-> acc]
        ELSE LET n == Earliest(hc \o fc)
             IN  HistoricLoop(zr, n.rule, n.time, done2, Append(acc, Trans(n.time, cur, n.rule)))

(* The transitions complete() appends, and ok = FALSE when a final rule    *)
(* has no next start (the U_INVALID_STATE_ERROR path).  The final section  *)
(* appends the first start of each final rule after the last transition.   *)
Build(zr) ==
    LET h == IF zr.hist = NULL THEN [cur |-> zr.initial, last |-> MinMillis, acc |-> <<>>]
             ELSE HistoricLoop(zr, zr.initial, MinMillis, {}, <<>>)
    IN  IF zr.fin = NULL THEN [ok |-> TRUE, new |-> h.acc]
        ELSE LET r0 == zr.fin[1]
                 r1 == zr.fin[2]
                 s0 == NextStart(r0, h.last, FALSE)
                 s1 == NextStart(r1, h.last, FALSE)
             IN  IF ~s0.avail \/ ~s1.avail THEN [ok |-> FALSE, new |-> h.acc]
                 ELSE IF s0.time < s1.time
                 THEN [ok |-> TRUE, new |-> h.acc \o <<Trans(s0.time, h.cur, r0),
                                         Trans(NextStart(r1, s0.time, FALSE).time, r0, r1)>>]
                 ELSE [ok |-> TRUE, new |-> h.acc \o <<Trans(s1.time, h.cur, r1),
                                         Trans(NextStart(r0, s1.time, FALSE).time, r1, r0)>>]

\* The vector is created on the first append and appended to otherwise.
Appended(tr, new) == IF new = <<>> THEN tr ELSE (IF tr = NULL THEN <<>> ELSE tr) \o new

\* RuleBasedTimeZone(id, initialRule)
NewZone(r) == [initial |-> r, hist |-> NULL, fin |-> NULL, trans |-> NULL, upToDate |-> FALSE]

(* operator==: the rule vectors are compared by pointer, element by        *)
(* element; two zones never share a rule object, so only two NULL vectors  *)
(* compare equal.                                                          *)
CompareRules(v1, v2) ==
    \/ v1 = NULL /\ v2 = NULL
    \/ v1 # NULL /\ v2 # NULL /\ Len(v1) = Len(v2) /\ \A i \in DOMAIN v1 : FALSE
ZoneEquals(a, b) == a.initial = b.initial /\ CompareRules(a.hist, b.hist) /\ CompareRules(a.fin, b.fin)

\* A copyRules that returns the emptied vector instead of NULL on failure.
CopyRulesEmpty(v, ok) == IF v = NULL THEN NULL ELSE IF ~ok THEN <<>> ELSE v

\* copyRules(source): NULL for a NULL source or when an allocation fails.
CopyRules(v, ok) == IF v = NULL \/ ~ok THEN NULL ELSE v

-----------------------------------------------------------------------------
Init == zone = [z \in Zones |-> NewZone(CHOOSE r \in InitialRules : TRUE)]

Update(z, r) == zone' = [zone EXCEPT ![z] = r]

\* The constructor (the old object in the slot is destroyed first).
Construct(z, r) == Update(z, NewZone(r))

\* The copy constructor, as clone() uses it: it copies the initial rule only.
Clone(z, o) == Update(z, NewZone(zone[o].initial))

\* operator=(right), unless the zones compare equal.
Assign(z, o) ==
    /\ ~ZoneEquals(zone[z], zone[o])
    /\ \E okH, okF \in AllocResults :
          Update(z, [initial |-> zone[o].initial, hist |-> CopyRules(zone[o].hist, okH),
                     fin |-> CopyRules(zone[o].fin, okF), trans |-> NULL, upToDate |-> FALSE])

(* addTransitionRule(rule): a final rule goes to fFinalRules unless two    *)
(* are there already (U_INVALID_STATE_ERROR, nothing changes), any other   *)
(* rule to fHistoricRules; both mark the zone dirty.                       *)
AddTransitionRule(z, r) ==
    LET zr == zone[z]
    IN  IF r.final
        THEN /\ Size(zr.fin) < 2
             /\ Update(z, [zr EXCEPT !.fin = (IF @ = NULL THEN <<>> ELSE @) \o <<r>>,
                                     !.upToDate = FALSE])
        ELSE /\ Size(zr.hist) < MaxHistoric
             /\ Update(z, [zr EXCEPT !.hist = (IF @ = NULL THEN <<>> ELSE @) \o <<r>>,
                                     !.upToDate = FALSE])

(* complete(), called directly or by getNextTransition and                 *)
(* getPreviousTransition.  It returns at once when up to date or when the  *)
(* final rules are not a pair.  Every path that builds transitions         *)
(* allocates; a failed allocation or a final rule with no next start goes  *)
(* to cleanup, which deletes all transitions.                              *)
Complete(z) ==
    LET zr == zone[z]
        b == Build(zr)
    IN  /\ ~zr.upToDate
        /\ Size(zr.fin) \in {0, 2}
        /\ IF zr.hist = NULL /\ zr.fin = NULL
           THEN Update(z, [zr EXCEPT !.upToDate = TRUE])
           ELSE \/ b.ok /\ Update(z, [zr EXCEPT !.trans = Appended(@, b.new), !.upToDate = TRUE])
                \/ (~b.ok \/ AllocMayFail) /\ Update(z, [zr EXCEPT !.trans = NULL, !.upToDate = FALSE])

(* The caller adds a final rule to a zone at most once: the final rules    *)
(* of a zone differ in their offsets (see FindNext).                       *)
Next ==
    \E z \in Zones :
        \/ \E r \in InitialRules : Construct(z, r)
        \/ \E o \in Zones \ {z} : Clone(z, o) \/ Assign(z, o)
        \/ \E r \in TransitionRules \ Elems(zone[z].fin) : AddTransitionRule(z, r)
        \/ Complete(z)

Spec == Init /\ [][Next]_zone

-----------------------------------------------------------------------------
(* The const queries.  getTransitionTime(transition, local)                *)
TT(t, local) == IF local THEN t.time + t.from.raw + t.from.dst ELSE t.time

(* A findRuleInFinal that takes the final rule with the earlier start.     *)
FindRuleInFinalEarlier(zr, date, local) ==
    LET fr0 == zr.fin[1]
        fr1 == zr.fin[2]
        s0 == PrevStart(fr0, IF local THEN date - fr1.raw - fr1.dst ELSE date, TRUE)
        s1 == PrevStart(fr1, IF local THEN date - fr0.raw - fr0.dst ELSE date, TRUE)
    IN  CASE s0.avail /\ (~s1.avail \/ s0.time < s1.time) -> fr0
          [] s1.avail -> fr1
          [] OTHER -> NULL

(* findRuleInFinal(date, local): of the two final rules, the one whose     *)
(* last start at or before date is later.                                  *)
FindRuleInFinal(zr, date, local) ==
    LET fr0 == zr.fin[1]
        fr1 == zr.fin[2]
        s0 == PrevStart(fr0, IF local THEN date - fr1.raw - fr1.dst ELSE date, TRUE)
        s1 == PrevStart(fr1, IF local THEN date - fr0.raw - fr0.dst ELSE date, TRUE)
    IN  CASE s0.avail /\ (~s1.avail \/ s0.time > s1.time) -> fr0
          [] s1.avail -> fr1
          [] OTHER -> NULL

(* The rule getOffset(date, local, ...) uses: the initial rule before the  *)
(* first transition, the final rules (or the last rule) after the last,    *)
(* and otherwise the target of the last transition, scanning from the end, *)
(* whose time is at or before date.                                        *)
RuleAt(zr, date, local) ==
    LET tr == zr.trans
        n == Len(tr)
    IN  CASE tr = NULL -> zr.initial
          [] date < TT(tr[1], local) -> zr.initial
          [] date > TT(tr[n], local) -> IF zr.fin # NULL THEN FindRuleInFinal(zr, date, local)
                                        ELSE tr[n].to
          [] OTHER -> tr[Max({i \in 1..n : date >= TT(tr[i], local)})].to

\* getOffset: U_INVALID_STATE_ERROR (ok = FALSE) until complete() succeeded.
GetOffset(zr, date, local) ==
    LET r == RuleAt(zr, date, local)
    IN  CASE ~zr.upToDate -> [ok |-> FALSE, raw |-> 0, dst |-> 0]
          [] r = NULL -> [ok |-> TRUE, raw |-> 0, dst |-> 0]
          [] OTHER -> [ok |-> TRUE, raw |-> r.raw, dst |-> r.dst]

NotFound == [found |-> FALSE, time |-> 0, from |-> NULL, to |-> NULL]
Found(t) == [found |-> TRUE, time |-> t.time, from |-> t.from, to |-> t.to]

(* A final-rule search that ignores the inclusive flag.                   *)
FinalNextExclusive(zr, base, incl) ==
    LET s0 == NextStart(zr.fin[1], base, FALSE)
        s1 == NextStart(zr.fin[2], base, FALSE)
    IN  IF s0.time < s1.time THEN Found(Trans(s0.time, zr.fin[2], zr.fin[1]))
        ELSE Found(Trans(s1.time, zr.fin[1], zr.fin[2]))

(* Past the last transition findNext takes the earlier next start of the   *)
(* two final rules, from the other one; findPrev the later previous start. *)
FinalNext(zr, base, incl) ==
    LET s0 == NextStart(zr.fin[1], base, incl)
        s1 == NextStart(zr.fin[2], base, incl)
    IN  IF s0.time < s1.time THEN Found(Trans(s0.time, zr.fin[2], zr.fin[1]))
        ELSE Found(Trans(s1.time, zr.fin[1], zr.fin[2]))
FinalPrev(zr, base, incl) ==
    LET s0 == PrevStart(zr.fin[1], base, incl)
        s1 == PrevStart(zr.fin[2], base, incl)
    IN  IF s0.time > s1.time THEN Found(Trans(s0.time, zr.fin[2], zr.fin[1]))
        ELSE Found(Trans(s1.time, zr.fin[1], zr.fin[2]))

(* findNext(base, inclusive): the first transition after base (at base if  *)
(* inclusive), from the list or, past its end, from the final rules; one   *)
(* that changes no offset is skipped by searching again after it.          *)
RECURSIVE FindNext(_, _, _)
FindNext(zr, base, incl) ==
    IF zr.trans = NULL THEN NotFound
    ELSE LET tr == zr.trans
             n == Len(tr)
             stop == {k \in 2..n - 1 : tr[k].time < base \/ (~incl /\ tr[k].time = base)}
             res == CASE tr[1].time > base \/ (incl /\ tr[1].time = base) -> Found(tr[1])
                      [] incl /\ tr[n].time = base -> Found(tr[n])
                      [] tr[n].time <= base /\ zr.fin = NULL -> NotFound
                      [] tr[n].time <= base -> FinalNext(zr, base, incl)
                      [] OTHER -> Found(tr[IF stop = {} THEN 2 ELSE Max(stop) + 1])
         IN  IF res.found /\ SameOffsets(res.from, res.to)
             THEN FindNext(zr, res.time, FALSE) ELSE res

(* findPrev(base, inclusive): the last transition before base (at base if  *)
(* inclusive), symmetrically.                                              *)
RECURSIVE FindPrev(_, _, _)
FindPrev(zr, base, incl) ==
    IF zr.trans = NULL THEN NotFound
    ELSE LET tr == zr.trans
             n == Len(tr)
             stop == {k \in 1..n - 1 : tr[k].time < base \/ (incl /\ tr[k].time = base)}
             res == CASE incl /\ tr[1].time = base -> Found(tr[1])
                      [] tr[1].time >= base -> NotFound
                      [] incl /\ tr[n].time = base -> Found(tr[n])
                      [] tr[n].time < base /\ zr.fin = NULL -> Found(tr[n])
                      [] tr[n].time < base -> FinalPrev(zr, base, incl)
                      [] OTHER -> Found(tr[IF stop = {} THEN 1 ELSE Max(stop)])
         IN  IF res.found /\ SameOffsets(res.from, res.to)
             THEN FindPrev(zr, res.time, FALSE) ELSE res
-----------------------------------------------------------------------------
(* The meaning of a zone's rules, which the properties compare with: at a  *)
(* date the rule in effect is the transition rule with the latest start at *)
(* or before it, or the initial rule before every start.                   *)
RuleInEffect(zr, d) ==
    LET started == {r \in Elems(zr.hist) \cup Elems(zr.fin) : PrevStart(r, d, TRUE).avail}
    IN  IF started = {} THEN zr.initial
        ELSE CHOOSE r \in started :
                 \A q \in started : PrevStart(q, d, TRUE).time <= PrevStart(r, d, TRUE).time

ChangesAt(zr, t) == ~SameOffsets(RuleInEffect(zr, t), RuleInEffect(zr, t - 1))

\* The transition list is one chain from the initial rule in increasing time.
Chained(zr) ==
    \/ zr.trans = NULL
    \/ /\ zr.trans[1].from = zr.initial
       /\ \A i \in 1..Len(zr.trans) - 1 :
             zr.trans[i].time < zr.trans[i + 1].time /\ zr.trans[i].to = zr.trans[i + 1].from

TransitionType == [time : Int, from : InitialRules \cup TransitionRules, to : TransitionRules]

TypeOK ==
    \A z \in Zones :
        LET zr == zone[z]
        IN  /\ zr.initial \in InitialRules /\ zr.upToDate \in BOOLEAN
            /\ zr.hist = NULL \/ (zr.hist \in Seq({r \in TransitionRules : ~r.final})
                                  /\ Len(zr.hist) \in 1..MaxHistoric)
            /\ zr.fin = NULL \/ (zr.fin \in Seq({r \in TransitionRules : r.final})
                                 /\ Len(zr.fin) \in 1..2)
            /\ zr.trans = NULL \/ zr.trans \in Seq(TransitionType)

\* The comment in addTransitionRule: a zone marked dirty has its transitions
\* recalculated at the next complete(), so an up-to-date zone's list is the
\* one chain its rules give, whatever rules were added since an earlier one.
TransitionsChained == \A z \in Zones : zone[z].upToDate => Chained(zone[z])

\* Once complete() has built one chain, getOffset(date, FALSE) returns the
\* offsets of the rule in effect at every date: the historic scan from the
\* end, the initial rule before the first transition and findRuleInFinal
\* after the last agree with the rules.
GetOffsetCorrect ==
    \A z \in Zones :
        LET zr == zone[z]
        IN  zr.upToDate /\ Chained(zr) =>
                \A d \in Dates :
                    GetOffset(zr, d, FALSE) =
                        [ok |-> TRUE, raw |-> RuleInEffect(zr, d).raw, dst |-> RuleInEffect(zr, d).dst]

\* getNextTransition and getPreviousTransition (findNext and findPrev on a
\* completed zone) return the nearest date after (before) the base at which
\* the offsets change, and the rule in effect from then on, skipping
\* transitions that change only the name.
TransitionSearchCorrect ==
    \A z \in Zones :
        LET zr == zone[z]
            changes == {t \in Dates : ChangesAt(zr, t)}
        IN  zr.upToDate /\ Chained(zr) =>
                \A b \in Dates, incl \in BOOLEAN :
                    LET nx == FindNext(zr, b, incl)
                        pv == FindPrev(zr, b, incl)
                        after == {t \in changes : t > b \/ (incl /\ t = b)}
                        before == {t \in changes : t < b \/ (incl /\ t = b)}
                    IN  /\ IF after = {} THEN ~nx.found \/ nx.time > Max(Dates)
                           ELSE nx.found /\ nx.time = Min(after)
                                /\ SameOffsets(nx.to, RuleInEffect(zr, nx.time))
                        /\ IF before = {} THEN ~pv.found
                           ELSE pv.found /\ pv.time = Max(before)
                                /\ SameOffsets(pv.to, RuleInEffect(zr, pv.time))
=============================================================================
