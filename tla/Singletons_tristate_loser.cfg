\* Two threads racing into TriStateSingleton::getInstance while the
\* instantiator fails.
CONSTANTS
    Threads = {t1, t2}
    Singletons = {s1}
    Kind <- MCTriState
    MaxCalls = 1
    MaxResets = 0
    NULL = NULL
SPECIFICATION Spec
INVARIANT SuccessHasInstance
CHECK_DEADLOCK FALSE
