---------------------------- MODULE MCSingletons ----------------------------
EXTENDS Singletons

MCSimple == [s \in Singletons |-> "simple"]
MCTriState == [s \in Singletons |-> "tristate"]
\* One singleton of each kind.
MCMixed == LET simple == CHOOSE s \in Singletons : TRUE
           IN  [s \in Singletons |-> IF s = simple THEN "simple" ELSE "tristate"]
=============================================================================
