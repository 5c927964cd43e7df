\* Two zones, two historic and two final rules, no allocation failure.
CONSTANTS
    Zones = {z1, z2}
    InitialRules <- MCInitialRules
    TransitionRules <- MCTransitionRules
    MaxHistoric = 2
    MinMillis <- MCMinMillis
    AllocMayFail = FALSE
    Dates <- MCDates
    NULL = NULL
SPECIFICATION Spec
SYMMETRY MCSymmetry
INVARIANT TransitionsChained
