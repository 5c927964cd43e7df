------------------------ MODULE MCRuleBasedTimeZone ------------------------
(* Rules for RuleBasedTimeZone.  Offsets are in hours and times in units;  *)
(* no two rules start at the same time.                                    *)
EXTENDS RuleBasedTimeZone, TLC

MCRule(name, raw, dst, final, starts) ==
    [name |-> name, raw |-> raw, dst |-> dst, final |-> final, starts |-> starts]

\* Two initial rules with the same offsets and different names.
MCStd == MCRule("std", 0, 0, FALSE, {})
MCAlt == MCRule("alt", 0, 0, FALSE, {})
MCInitialRules == {MCStd, MCAlt}

\* Summer time twice; a return to standard time named like MCStd, which
\* complete() skips while MCStd is in effect and which changes only the
\* name after MCAlt; two final rules (annual, period 4) whose first starts
\* fall between the historic ones.
MCSummer == MCRule("sum", 0, 1, FALSE, {2, 6})
MCBack == MCRule("std", 0, 0, FALSE, {1, 4})
MCFinalWinter == MCRule("fw", 1, 0, TRUE, {5 + 4 * k : k \in 0..6})
MCFinalSummer == MCRule("fs", 1, 1, TRUE, {7 + 4 * k : k \in 0..6})
MCTransitionRules == {MCSummer, MCBack, MCFinalWinter, MCFinalSummer}

\* Below every start time.
MCMinMillis == -1
MCDates == 0..16
\* Zone objects are interchangeable.
MCSymmetry == Permutations(Zones)
=============================================================================
