------------------------------ MODULE DbgEngSos ------------------------------
(***************************************************************************)
(* SOS under dbgeng (Windows): Strike/sosextensions.cpp without            *)
(* FEATURE_PAL.  The singleton is an SOSExtensions that creates its own    *)
(* debugger services: SOSExtensions::Initialize(IDebugClient) allocates a  *)
(* DbgEngServices (the DS of Extensions, here not alive before), runs its  *)
(* Initialize and passes it as both debugger and output service.          *)
(* ~SOSExtensions uninitializes and releases it before ~Extensions runs.   *)
(* GetRuntime resolves the target, lets the debugger services check for a  *)
(* flush, then asks the target for its runtime.                            *)
(*                                                                         *)
(* DbgEngServices (dbgengservices.cpp) is outside the sources: its initial *)
(* count is the constant DbgEngInitialRef, its Initialize may fail, and    *)
(* its FlushCheck may let the hosting bridge change its current target     *)
(* (spec 3: the target is invalidated on flush).                           *)
(***************************************************************************)
EXTENDS Extensions

CONSTANTS
    DbgEngInitialRef,   \* m_ref of a new DbgEngServices
    InitMayFail         \* may DbgEngServices::Initialize fail?

ASSUME DbgEngInitialRef \in {0, 1} /\ InitMayFail \in BOOLEAN

VARIABLES
    deState,       \* DbgEngServices: "none", "initialized", "failed", "uninitialized"
    statusDeref    \* Host::DisplayStatus or SwitchRuntime followed a null m_target

dbgVars == <<deState, statusDeref>>
allVars == <<vars, dbgVars>>

-----------------------------------------------------------------------------
(* SOSExtensions::Initialize(IDebugClient): when no singleton exists,      *)
(* `new DbgEngServices(client)` and its Initialize; on failure return hr   *)
(* (the new object is never released); otherwise s_extensions = new        *)
(* SOSExtensions(debuggerServices, debuggerServices, nullptr).  One        *)
(* DbgEngServices identity exists, so SOS is initialized at most once.     *)
InitializeByClient ==
    /\ ~exists /\ DS \notin live \cup freed
    /\ LET s1 == Construct(Cur, DS, DbgEngInitialRef) IN
       \/ /\ InitMayFail
          /\ Set(s1) /\ deState' = "failed"
       \/ /\ Set(Constructed(s1, Null)) /\ deState' = "initialized"
    /\ UNCHANGED statusDeref

(* ~SOSExtensions that releases the debugger services without clearing     *)
(* m_pDebuggerServices, so that ~Extensions releases them once more.        *)
SosDtorKeepsField(s) == ReleaseAll(s, <<s.ds>>)

(* ~SOSExtensions that clears m_pDebuggerServices without releasing it.     *)
SosDtorNoRelease(s) == [s EXCEPT !.ds = Null]

(* ~SOSExtensions: DbgEngServices::Uninitialize, Release, and clear        *)
(* m_pDebuggerServices, when it is set.                                    *)
SosDtor(s) == [ReleaseAll(s, <<s.ds>>) EXCEPT !.ds = Null]

(* SOSUninitializeByHost (OnUnloadTask) and the dbgeng unload: delete the  *)
(* SOSExtensions: ~SOSExtensions, then ~Extensions (TornDown).             *)
SosUninitialize ==
    /\ exists
    /\ Set(TornDown(SosDtor(Cur)))
    /\ deState' = "uninitialized"
    /\ UNCHANGED statusDeref

(* DbgEngServices::FlushCheck, reached through Extensions::FlushCheck     *)
(* (m_pDebuggerServices is set while the singleton lives): nothing, or,   *)
(* when hosted, the bridge updates its current target.                     *)
FlushCheckR(s) ==
    {s} \cup (IF s.hostServices # Null THEN BridgeUpdateOutcomes(s) ELSE {})

(* GetRuntime: GetTarget(); E_FAIL without a target; otherwise FlushCheck, *)
(* then target->GetRuntime on the pointer read before the flush.           *)
GetRuntime ==
    /\ exists
    /\ \E s \in GetTargetR(Cur) :
          IF s.target = Null
          THEN Set(s)
          ELSE \E f \in FlushCheckR(s) : Set(f)
    /\ UNCHANGED <<deState, statusDeref>>

(* The static Host::DisplayStatus and Host::SwitchRuntime, called by SOS   *)
(* commands: when s_host is set, call s_host->m_target, which is null      *)
(* until the Host's first GetCurrentTarget.  The Target's own status and   *)
(* runtime switching (targetimpl.cpp) are outside the sources.             *)
HostStatus ==
    /\ exists
    /\ statusDeref' = (sHost # Null /\ hostTarget[sHost] = Null)
    /\ UNCHANGED vars /\ UNCHANGED deState

(* The singleton's other entry points, called by the SOS commands.         *)
SosCommand ==
    /\ \/ GetHost \/ GetHostServices \/ GetTarget \/ GetSymbolService
       \/ ReleaseTarget \/ DestroyTarget \/ CreateTarget \/ UpdateTarget
    /\ UNCHANGED dbgVars

DbgInit ==
    /\ ref = [o \in Objs |-> IF o \in EnvObjects \ {DS} THEN 1 ELSE 0]
    /\ live = EnvObjects \ {DS}
    /\ freed = {}
    /\ hostTarget = [h \in FallbackHosts |-> Null]
    /\ sHost = Null
    /\ exists = FALSE
    /\ host = Null /\ target = Null /\ ds = Null /\ os = Null
    /\ hostServices = Null /\ symbolService = Null
    /\ bridgeTarget = Null
    /\ deState = "none"
    /\ statusDeref = FALSE

DbgNext ==
    \/ InitializeByClient
    \/ SosUninitialize
    \/ GetRuntime
    \/ HostStatus
    \/ SosCommand

DbgSpec == DbgInit /\ [][DbgNext]_allVars

-----------------------------------------------------------------------------
DbgTypeOK ==
    /\ TypeOK
    /\ deState \in {"none", "initialized", "failed", "uninitialized"}
    /\ statusDeref \in BOOLEAN

(* The references held to o, as in Extensions, except that nobody keeps   *)
(* the pointer `new DbgEngServices` returned: its creator passes it on.    *)
DbgHolders(o) == Holders(o) - (IF o = DS THEN 1 ELSE 0)

(* Counts balance on the dbgeng path: the two references the constructor  *)
(* of Extensions adds to the DbgEngServices (as debugger and as output     *)
(* service) are given back, one by ~SOSExtensions, which clears the field  *)
(* so that ~Extensions does not release it again, one by ~Extensions; the  *)
(* fallback Host and Target release theirs when they go.                   *)
DbgRefCountsBalance ==
    \A o \in Objs : ref[o] = IF o \in live THEN DbgHolders(o) ELSE 0

(* Every live object is owned by somebody: no object is left allocated     *)
(* with no pointer to it.                                                  *)
AllLiveHeld == \A o \in live : DbgHolders(o) > 0

(* Host::DisplayStatus and SwitchRuntime never call through a null         *)
(* m_target: whenever s_host is set, that Host has its Target.             *)
NoNullTargetStatus == ~statusDeref
=============================================================================
