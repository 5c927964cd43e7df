\* Two threads calling SimpleSingleton::getInstance while the first
\* instantiator fails and the second caller retries.
CONSTANTS
    Threads = {t1, t2}
    Singletons = {s1}
    Kind <- MCSimple
    MaxCalls = 1
    MaxResets = 0
    NULL = NULL
SPECIFICATION Spec
INVARIANT NoInstanceRace
CHECK_DEADLOCK FALSE
