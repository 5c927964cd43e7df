\* Three threads, each calling getInstance once on a SimpleSingleton or on a
\* TriStateSingleton, whose instantiators may fail; one reset() of the
\* tri-state singleton at cleanup.
CONSTANTS
    Threads = {t1, t2, t3}
    Singletons = {s1, s2}
    Kind <- MCMixed
    MaxCalls = 1
    MaxResets = 1
    NULL = NULL
SPECIFICATION Spec
INVARIANT TypeOK
INVARIANT SimpleSuccessHasInstance
INVARIANT SameInstance
INVARIANT InstantiateOnce
PROPERTY InstanceStable
PROPERTY CallsReturn
CHECK_DEADLOCK FALSE
