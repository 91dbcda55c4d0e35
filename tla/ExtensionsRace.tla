--------------------------- MODULE ExtensionsRace ---------------------------
(***************************************************************************)
(* The lazy accessors of the Extensions singleton called from several      *)
(* threads (spec 5: host callbacks and background symbol resolution may   *)
(* run beside the command thread; spec 9: the check-then-create in the     *)
(* accessors is unguarded).  Each accessor is split where the C++ reads a  *)
(* field and later acts on what it read; pc[t] names the point thread t    *)
(* has reached.  Calls an accessor makes to another accessor              *)
(* (GetTarget's GetHost, GetSymbolService's GetTarget) are one step, and   *)
(* the singleton lives throughout (Extensions::Initialize has run).        *)
(***************************************************************************)
EXTENDS Extensions

CONSTANT Threads

VARIABLES
    pc,      \* thread -> where it is inside an accessor
    fault    \* a thread called through a null m_pTarget

raceVars == <<pc, fault>>
allVars == <<vars, raceVars>>

Steps == {"idle", "hosting", "newHost", "getTarget", "getSymbol", "release", "clear"}

(* The state record after Extensions::Initialize (lldb PluginInitialize). *)
Initialized ==
    Constructed([ref |-> [o \in Objs |-> IF o \in EnvObjects THEN 1 ELSE 0],
                 live |-> EnvObjects, freed |-> {},
                 hostTarget |-> [h \in FallbackHosts |-> Null], sHost |-> Null,
                 exists |-> FALSE, host |-> Null, target |-> Null, ds |-> Null,
                 os |-> Null, hostServices |-> Null, symbolService |-> Null,
                 bridgeTarget |-> Null], Null)

(* Thread t moves from step a to step b, leaving the rest as it is.        *)
Goes(t, a, b) == pc[t] = a /\ pc' = [pc EXCEPT ![t] = b]

-----------------------------------------------------------------------------
(* GetHost: `if (m_pHost == nullptr)`.                                     *)
GetHostCheck(t) ==
    /\ Goes(t, "idle", "hosting") /\ host = Null
    /\ UNCHANGED vars /\ UNCHANGED fault

(* InitializeHosting(), whose callback may store m_pHost and               *)
(* m_pHostServices over what another thread stored, then the second        *)
(* `if (m_pHost == nullptr)`.                                              *)
GetHostHosting(t) ==
    /\ pc[t] = "hosting"
    /\ \E s \in InitializeHosting(Cur) :
          /\ Set(s)
          /\ pc' = [pc EXCEPT ![t] = IF s.host = Null THEN "newHost" ELSE "idle"]
    /\ UNCHANGED fault

(* `m_pHost = new Host(GetDebuggerServices())`, over whatever m_pHost now  *)
(* holds.                                                                  *)
GetHostNew(t) ==
    /\ Goes(t, "newHost", "idle") /\ Unused(Cur, FallbackHosts) # {}
    /\ LET h == NextId(Cur, FallbackHosts) IN
       Set([NewHost(Cur, h, ds) EXCEPT !.host = h])
    /\ UNCHANGED fault

(* GetTarget: `if (m_pTarget == nullptr)`, then                            *)
(* GetHost()->GetCurrentTarget(&m_pTarget), which stores an added          *)
(* reference over whatever m_pTarget holds by then.                         *)
GetTargetCheck(t) ==
    /\ Goes(t, "idle", "getTarget") /\ target = Null
    /\ UNCHANGED vars /\ UNCHANGED fault

GetTargetCall(t) ==
    /\ Goes(t, "getTarget", "idle")
    /\ \E y \in GetHostR(Cur) :
          /\ y.host \in FallbackHosts => CanGetCurrentTarget(y, y.host)
          /\ Set(CurrentTargetOf(y))
    /\ UNCHANGED fault

(* GetSymbolService: `if (m_pSymbolService == nullptr)`, then GetTarget()  *)
(* and target->GetService(..., &m_pSymbolService).                         *)
GetSymbolServiceCheck(t) ==
    /\ Goes(t, "idle", "getSymbol") /\ symbolService = Null
    /\ UNCHANGED vars /\ UNCHANGED fault

GetSymbolServiceCall(t) ==
    /\ Goes(t, "getSymbol", "idle")
    /\ \E s \in GetTargetR(Cur) : Set(SymbolServiceOf(s))
    /\ UNCHANGED fault

(* ReleaseTarget: `if (m_pTarget != nullptr)`, `m_pTarget->Release()` on   *)
(* the pointer read at that moment, then `m_pTarget = nullptr`.            *)
ReleaseTargetCheck(t) ==
    /\ Goes(t, "idle", "release") /\ target # Null
    /\ UNCHANGED vars /\ UNCHANGED fault

ReleaseTargetRelease(t) ==
    /\ Goes(t, "release", "clear")
    /\ IF target = Null
       THEN fault' = TRUE /\ UNCHANGED vars
       ELSE Set(ReleaseAll(Cur, <<target>>)) /\ UNCHANGED fault

ReleaseTargetClear(t) ==
    /\ Goes(t, "clear", "idle")
    /\ Set([Cur EXCEPT !.target = Null])
    /\ UNCHANGED fault

RaceInit ==
    /\ ref = Initialized.ref /\ live = Initialized.live /\ freed = {}
    /\ hostTarget = Initialized.hostTarget /\ sHost = Null /\ exists = TRUE
    /\ host = Null /\ target = Null /\ ds = DS /\ os = OS
    /\ hostServices = Null /\ symbolService = Null /\ bridgeTarget = Null
    /\ pc = [t \in Threads |-> "idle"] /\ fault = FALSE

(* A thread that faulted ends the process.                                 *)
RaceNext ==
    /\ ~fault
    /\ \E t \in Threads :
          \/ GetHostCheck(t) \/ GetHostHosting(t) \/ GetHostNew(t)
          \/ GetTargetCheck(t) \/ GetTargetCall(t)
          \/ GetSymbolServiceCheck(t) \/ GetSymbolServiceCall(t)
          \/ ReleaseTargetCheck(t) \/ ReleaseTargetRelease(t)
          \/ ReleaseTargetClear(t)

RaceSpec == RaceInit /\ [][RaceNext]_allVars

-----------------------------------------------------------------------------
RaceTypeOK ==
    /\ TypeOK /\ pc \in [Threads -> Steps] /\ fault \in BOOLEAN
=============================================================================
