\* Two zones, two historic and two final rules, allocations in complete() and operator= may fail.
CONSTANTS
    Zones = {z1, z2}
    InitialRules <- MCInitialRules
    TransitionRules <- MCTransitionRules
    MaxHistoric = 2
    MinMillis <- MCMinMillis
    AllocMayFail = TRUE
    Dates <- MCDates
    NULL = NULL
SPECIFICATION Spec
SYMMETRY MCSymmetry
INVARIANT TypeOK
INVARIANT GetOffsetCorrect
INVARIANT TransitionSearchCorrect
