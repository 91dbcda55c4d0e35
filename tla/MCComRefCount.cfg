CONSTANTS
    t1 = t1  t2 = t2
    dt = dt  fdt = fdt  host = host
    Threads <- MC_Threads
    Objects <- MC_Objects
    ClassOf <- MC_ClassOf
    IIDs <- MC_IIDs
    MaxRefs = 2
SPECIFICATION FairSpec
\* Every object ends deleted or unreachable; the model then has no step.
CHECK_DEADLOCK FALSE
\* No symmetry: it is unsound with the liveness property.
INVARIANT TypeOK
INVARIANT RefCountMatchesHolders
INVARIANT DestroyedOnce
PROPERTY LifecycleSpec
PROPERTY UnreachableObjectsDeleted
