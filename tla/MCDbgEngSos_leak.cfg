CONSTANTS
    Null = Null
    DS = DS
    OS = DS
    HS = HS
    EH = EH
    h1 = h1  ft1 = ft1
    et1 = et1  et2 = et2  et3 = et3  sym1 = sym1  sym2 = sym2  sym3 = sym3
    FallbackHosts <- MC_FallbackHosts
    FallbackTargets <- MC_FallbackTargets
    ExtTargets <- MC_ExtTargets
    SymOf <- MC_SymOf
    RepeatInitByHost = FALSE
    DbgEngInitialRef = 0
    InitMayFail = TRUE
SPECIFICATION DbgSpec
CHECK_DEADLOCK FALSE
INVARIANT AllLiveHeld
