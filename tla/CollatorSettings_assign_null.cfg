\* operator= between two collators of one tailoring, the target owning its settings.
CONSTANTS
    Colls = {c1, c2}
    Tailorings = {"root"}
    DefaultCodes <- MCDefaultCodes
    HasFastLatinTable <- MCHasFastLatin
    Codes <- MCCodes
    DefaultCode = DefaultCode
    ReorderInputs <- MCReorderNoOff
    VarTops <- MCVarTops
    DefaultVarTop = 2
    FastLatinMaxVarTop = 2
    Addr = {a1, a2, a3}
    AllocMayFail = FALSE
    NULL = NULL
SPECIFICATION Spec
INVARIANT SettingsNonNull
