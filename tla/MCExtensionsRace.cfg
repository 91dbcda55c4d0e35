CONSTANTS
    Null = Null
    DS = DS
    OS = DS
    HS = HS
    EH = EH
    h1 = h1  h2 = h2  ft1 = ft1  ft2 = ft2
    t1 = t1  t2 = t2
    Threads <- MC_Threads
    et1 = et1  et2 = et2  et3 = et3  sym1 = sym1  sym2 = sym2  sym3 = sym3
    FallbackHosts <- MC_FallbackHosts
    FallbackTargets <- MC_FallbackTargets
    ExtTargets <- MC_ExtTargets
    SymOf <- MC_SymOf
    RepeatInitByHost = FALSE
SPECIFICATION RaceSpec
\* A thread that faults ends the process; with identities spent, the rest stop too.
CHECK_DEADLOCK FALSE
SYMMETRY ThreadSymmetry
INVARIANT NoDanglingPointers
