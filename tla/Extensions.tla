----------------------------- MODULE Extensions -----------------------------
(***************************************************************************)
(* The process-wide Extensions singleton (extensions/extensions.cpp) and   *)
(* the SOSExtensions entry points (Strike/sosextensions.cpp): lazy         *)
(* resolution of the host (hosting callback first, local fallback Host     *)
(* otherwise), of the current target and of the symbol service, the        *)
(* target create/update/destroy forwarding to the IHostServices bridge,    *)
(* and the teardown in ~Extensions.  Every C++ call is one action: the     *)
(* calls it makes into Host, Target and the bridge are composed into it as *)
(* functions on the state record (see ComObjects).                         *)
(*                                                                         *)
(* The managed side (hosting runtime, IHostServices bridge, external IHost *)
(* and ITarget) is outside the sources; it is modelled from its interface  *)
(* contract: every object is reference counted, the bridge owns one        *)
(* reference on its current target, and each call may fail.                *)
(***************************************************************************)
EXTENDS HostImpl, Functions

CONSTANTS
    OS,               \* the IOutputService instance (may be DS itself)
    HS,               \* the managed IHostServices bridge
    EH,               \* the managed (external) IHost
    ExtTargets,       \* identities of the targets the bridge creates
    SymOf,            \* ExtTargets -> the ISymbolService of that target
    RepeatInitByHost  \* may SOSInitializeByHost run while initialized?

ASSUME /\ {OS, HS, EH} \cap ({Null} \cup FallbackHosts \cup FallbackTargets) = {}
       /\ DOMAIN SymOf = ExtTargets
       /\ RepeatInitByHost \in BOOLEAN

VARIABLES
    ref, live, freed,        \* reference counts and object lifetimes
    hostTarget, sHost,       \* Host::m_target, Host::s_host
    exists,                  \* s_extensions != nullptr
    host,                    \* m_pHost
    target,                  \* m_pTarget
    ds,                      \* m_pDebuggerServices
    os,                      \* m_pOutputService
    hostServices,            \* m_pHostServices
    symbolService,           \* m_pSymbolService
    bridgeTarget             \* the bridge's current target (managed side)

vars == <<ref, live, freed, hostTarget, sHost, exists, host, target, ds, os,
          hostServices, symbolService, bridgeTarget>>

SymbolServices == Range(SymOf)
EnvObjects == {DS, OS, HS, EH} \cup SymbolServices
Objs == EnvObjects \cup FallbackHosts \cup FallbackTargets \cup ExtTargets

(* The whole state as one record, and the step that installs a new one.   *)
Cur == [ref |-> ref, live |-> live, freed |-> freed, hostTarget |-> hostTarget,
        sHost |-> sHost, exists |-> exists, host |-> host, target |-> target,
        ds |-> ds, os |-> os, hostServices |-> hostServices,
        symbolService |-> symbolService, bridgeTarget |-> bridgeTarget]

Set(s) ==
    /\ ref' = s.ref /\ live' = s.live /\ freed' = s.freed
    /\ hostTarget' = s.hostTarget /\ sHost' = s.sHost /\ exists' = s.exists
    /\ host' = s.host /\ target' = s.target /\ ds' = s.ds /\ os' = s.os
    /\ hostServices' = s.hostServices /\ symbolService' = s.symbolService
    /\ bridgeTarget' = s.bridgeTarget

-----------------------------------------------------------------------------
(* The managed IHostServices bridge and external IHost/ITarget.  They are  *)
(* not in the sources: their behaviour is the interface contract.          *)

(* IHostServices::DestroyTarget: drop the bridge's current target.         *)
BridgeDestroyTarget(s) ==
    [ReleaseAll(s, <<s.bridgeTarget>>) EXCEPT !.bridgeTarget = Null]

(* IHostServices::CreateTarget: replace the current target by a new one.   *)
BridgeCreateTarget(s) ==
    LET s1 == BridgeDestroyTarget(s)
        t  == NextId(s1, ExtTargets)
    IN [Construct(s1, t, 1) EXCEPT !.bridgeTarget = t]

(* IHostServices::UpdateTarget(processId): process id 0 destroys the       *)
(* target, the current process keeps it, another process replaces it.      *)
BridgeUpdateOutcomes(s) ==
    {BridgeDestroyTarget(s)}
    \cup (IF s.bridgeTarget # Null THEN {s} ELSE {})
    \cup (IF Unused(s, ExtTargets) # {} THEN {BridgeCreateTarget(s)} ELSE {})

-----------------------------------------------------------------------------
(* Extensions::InitializeHostServices, called back by the hosting runtime  *)
(* during InitializeHosting.  Each of its calls may fail, and it returns   *)
(* at the first failure with what it has stored so far.                    *)
InitializeHostServices(s) ==
    IF s.ds = Null THEN {s}
    ELSE LET s1 == [AddRef(s, HS) EXCEPT !.hostServices = HS]   \* QueryInterface
             s2 == [AddRef(s1, EH) EXCEPT !.host = EH]          \* GetHost(&m_pHost)
         IN {s,                                  \* QueryInterface failed
             s1,                                 \* GetHost failed
             s2,                                 \* RegisterDebuggerServices failed
             BridgeDestroyTarget(s2)}            \* no current process id
            \cup BridgeUpdateOutcomes(s2)        \* UpdateTarget(processId)

(* InitializeHosting (hostcoreclr, not in the sources) either fails before *)
(* reaching managed code or calls back InitializeHostServices.             *)
InitializeHosting(s) == {s} \cup InitializeHostServices(s)

(* The rest of GetHost once the hosting attempt returned: fall back to a   *)
(* local Host when the callback did not store one.                         *)
FallBackToLocalHost(s) ==
    IF s.host # Null THEN s
    ELSE LET h == NextId(s, FallbackHosts) IN
         [NewHost(s, h, s.ds) EXCEPT !.host = h]

(* The possible results of Extensions::GetHost.                            *)
GetHostNoCheckR(s) ==
    {FallBackToLocalHost(x) :
        x \in {y \in InitializeHosting([s EXCEPT !.host = Null]) :
                  y.host # Null \/ Unused(y, FallbackHosts) # {}}}

GetHostR(s) ==
    IF s.host # Null THEN {s}
    ELSE {FallBackToLocalHost(x) :
            x \in {y \in InitializeHosting(s) :
                      y.host # Null \/ Unused(y, FallbackHosts) # {}}}

(* IHost::GetCurrentTarget of whichever host GetHost returned, stored in   *)
(* m_pTarget.  The external host returns the bridge's target (or null)     *)
(* with a reference added.                                                 *)
CurrentTargetOf(s) ==
    IF s.host \in FallbackHosts
    THEN LET s1 == HostGetCurrentTarget(s, s.host) IN
         [s1 EXCEPT !.target = s1.hostTarget[s.host]]
    ELSE [AddRef(s, s.bridgeTarget) EXCEPT !.target = s.bridgeTarget]

(* Extensions::GetTarget.                                                  *)
GetTargetR(s) ==
    IF s.target # Null THEN {s}
    ELSE {CurrentTargetOf(x) :
            x \in {y \in GetHostR(s) :
                     y.host \in FallbackHosts => CanGetCurrentTarget(y, y.host)}}

(* ITarget::GetService(ISymbolService): a bridge target returns its symbol *)
(* service with a reference added; the fallback Target has none.           *)
SymbolServiceOf(s) ==
    IF s.target \in ExtTargets
    THEN [AddRef(s, SymOf[s.target]) EXCEPT !.symbolService = SymOf[s.target]]
    ELSE s

(* GetHostServices without the re-check after GetHost.                    *)
HostServicesOfNoRecheck(s) ==
    IF s.host = EH
    THEN [AddRef(s, HS) EXCEPT !.hostServices = HS]
    ELSE s

(* Extensions::GetHostServices: the host's IHostServices service.  The     *)
(* fallback Host::GetService returns E_NOINTERFACE.                        *)
HostServicesOf(s) ==
    IF s.hostServices = Null /\ s.host = EH
    THEN [AddRef(s, HS) EXCEPT !.hostServices = HS]
    ELSE s

(* ReleaseTarget that releases without clearing m_pTarget.                *)
ReleaseTargetNoClearR(s) ==
    ReleaseAll(s, <<s.target>>)

(* Extensions::ReleaseTarget.                                              *)
ReleaseTargetR(s) ==
    [ReleaseAll(s, <<s.target>>) EXCEPT !.target = Null]

(* Extensions::DestroyTarget.                                              *)
DestroyTargetR(s) ==
    LET s1 == ReleaseTargetR(s) IN
    IF s1.hostServices # Null THEN BridgeDestroyTarget(s1) ELSE s1

(* A freshly constructed Extensions(debuggerServices, outputService) with  *)
(* m_pHost preset to host (SOSExtensions) or nullptr (Extensions).         *)
Constructed(s, h) ==
    [AddRef(AddRef(s, DS), OS) EXCEPT
        !.exists = TRUE, !.host = h, !.target = Null, !.ds = DS, !.os = OS,
        !.hostServices = Null, !.symbolService = Null]

(* ~Extensions: DestroyTarget, then release m_pHost, m_pOutputService,     *)
(* m_pDebuggerServices, m_pSymbolService and (after Uninitialize) the      *)
(* bridge, in this order, and clear s_extensions.                          *)
TornDownNoSymRelease(s) ==
    LET s1 == DestroyTargetR(s) IN
    [ReleaseAll(s1, <<s1.host, s1.os, s1.ds, s1.hostServices>>) EXCEPT
        !.exists = FALSE, !.host = Null, !.os = Null, !.ds = Null,
        !.symbolService = Null, !.hostServices = Null]

TornDown(s) ==
    LET s1 == DestroyTargetR(s) IN
    [ReleaseAll(s1, <<s1.host, s1.os, s1.ds, s1.symbolService, s1.hostServices>>)
        EXCEPT !.exists = FALSE, !.host = Null, !.os = Null, !.ds = Null,
               !.symbolService = Null, !.hostServices = Null]

-----------------------------------------------------------------------------
(* Actions: one per entry point of the singleton.                          *)

(* Extensions::Initialize (lldb PluginInitialize passes g_services as both *)
(* debugger and output service).  No effect when already initialized.      *)
Initialize ==
    /\ ~exists
    /\ Set(Constructed(Cur, Null))

(* SOSInitializeByHost(punk, ...): QueryInterface(IHost) on punk adds a    *)
(* reference, then SOSExtensions::Initialize constructs the singleton with *)
(* that host, or does nothing if it already exists.                        *)
InitializeByHost(punk) ==
    /\ ~exists \/ RepeatInitByHost
    /\ LET s1 == AddRef(Cur, punk) IN
       Set(IF exists THEN s1 ELSE Constructed(s1, punk))

(* Extensions::Uninitialize (lldb "quit" override, SOSUninitializeByHost). *)
Uninitialize ==
    /\ exists
    /\ Set(TornDown(Cur))

GetHost ==
    /\ exists /\ host = Null
    /\ \E s \in GetHostR(Cur) : Set(s)

GetHostServices ==
    /\ exists /\ hostServices = Null
    /\ \E s \in GetHostR(Cur) : Set(HostServicesOf(s))

GetTarget ==
    /\ exists /\ target = Null
    /\ \E s \in GetTargetR(Cur) : Set(s)

GetSymbolService ==
    /\ exists /\ symbolService = Null
    /\ \E s \in GetTargetR(Cur) : Set(SymbolServiceOf(s))

ReleaseTarget ==
    /\ exists /\ target # Null
    /\ Set(ReleaseTargetR(Cur))

DestroyTarget ==
    /\ exists
    /\ target # Null \/ (hostServices # Null /\ bridgeTarget # Null)
    /\ Set(DestroyTargetR(Cur))

(* Extensions::CreateTarget / UpdateTarget: forwarded to the bridge when   *)
(* there is one, S_OK without effect otherwise.                            *)
CreateTarget ==
    /\ exists /\ hostServices # Null
    /\ Unused(Cur, ExtTargets) # {}
    /\ Set(BridgeCreateTarget(Cur))

UpdateTarget ==
    /\ exists /\ hostServices # Null
    /\ \E s \in BridgeUpdateOutcomes(Cur) : Set(s)

Init ==
    /\ ref = [o \in Objs |-> IF o \in EnvObjects THEN 1 ELSE 0]
    /\ live = EnvObjects
    /\ freed = {}
    /\ hostTarget = [h \in FallbackHosts |-> Null]
    /\ sHost = Null
    /\ exists = FALSE
    /\ host = Null /\ target = Null /\ ds = Null /\ os = Null
    /\ hostServices = Null /\ symbolService = Null
    /\ bridgeTarget = Null

Next ==
    \/ Initialize
    \/ \E punk \in {Null, EH} : InitializeByHost(punk)
    \/ Uninitialize
    \/ GetHost
    \/ GetHostServices
    \/ GetTarget
    \/ GetSymbolService
    \/ ReleaseTarget
    \/ DestroyTarget
    \/ CreateTarget
    \/ UpdateTarget

Spec == Init /\ [][Next]_vars

-----------------------------------------------------------------------------
(* Properties.                                                             *)

TypeOK ==
    /\ ref \in [Objs -> Nat]
    /\ live \subseteq Objs /\ freed \subseteq Objs /\ live \cap freed = {}
    /\ hostTarget \in [FallbackHosts -> FallbackTargets \cup {Null}]
    /\ sHost \in FallbackHosts \cup {Null}
    /\ exists \in BOOLEAN
    /\ host \in {Null, EH} \cup FallbackHosts
    /\ target \in {Null} \cup FallbackTargets \cup ExtTargets
    /\ ds \in {Null, DS} /\ os \in {Null, OS}
    /\ hostServices \in {Null, HS}
    /\ symbolService \in {Null} \cup SymbolServices
    /\ bridgeTarget \in {Null} \cup ExtTargets

(* Number of times o occurs in the sequence sq.                            *)
Occurrences(sq, o) == Cardinality({i \in DOMAIN sq : sq[i] = o})

(* The references the environment owns: the creator of the debugger and   *)
(* output services, the managed host of its bridge, host and symbol        *)
(* services, and the bridge of its current target.                         *)
EnvRefs(o) ==
    (IF o \in EnvObjects THEN 1 ELSE 0) + (IF o = bridgeTarget THEN 1 ELSE 0)

(* Every reference held to o: the singleton's fields, the fallback Hosts'  *)
(* m_target, the debugger services bound by every live fallback Host and  *)
(* Target, and the environment's own.                                      *)
Holders(o) ==
    Occurrences(<<ds, os, host, target, hostServices, symbolService>>, o)
    + Cardinality({h \in live \cap FallbackHosts : hostTarget[h] = o})
    + (IF o = DS THEN Cardinality(live \cap (FallbackHosts \cup FallbackTargets))
       ELSE 0)
    + EnvRefs(o)

(* Reference counts balance: after any sequence of entry points (lazy     *)
(* resolution through the hosting callback or the fallback Host, target    *)
(* changes on the bridge, teardown in ~Extensions) every live object's     *)
(* m_ref equals the number of pointers that own a reference to it, and a   *)
(* deleted object is never released again.  A missing Release is a leak,   *)
(* an extra one a premature delete.                                        *)
RefCountsMatchHolders ==
    \A o \in Objs : ref[o] = IF o \in live THEN Holders(o) ELSE 0

(* No pointer kept by the singleton, by a fallback Host (m_target,        *)
(* s_host) or by the bridge refers to an object that a Release has         *)
(* deleted: GetCurrentTarget's AddRef, ReleaseTarget and the order of the  *)
(* releases in ~Extensions and ~Host keep every cached pointer valid.      *)
NoDanglingPointers ==
    ({ds, os, host, target, hostServices, symbolService, sHost, bridgeTarget}
      \cup {hostTarget[h] : h \in live \cap FallbackHosts}) \ {Null}
    \subseteq live

(* The singleton implements the extension context of the spec: read as   *)
(* "exists, which host, is a target cached, is a symbol service cached",   *)
(* every entry point (the hosting callback, the fallback, GetTarget's      *)
(* nested GetHost, ReleaseTarget, DestroyTarget, ~Extensions) is a step of *)
(* ExtensionContext or leaves that view unchanged.  In particular a host,  *)
(* once stored, is never replaced while the singleton lives, and teardown  *)
(* forgets host, target and symbol service together.                       *)
Context == INSTANCE ExtensionContext
    WITH loaded <- exists, chosen <- host,
         targetCached <- target # Null, symbolCached <- symbolService # Null,
         ExternalHost <- EH, LocalHosts <- FallbackHosts

ContextRefinement == Context!Spec

(* The bridge that CreateTarget, UpdateTarget and DestroyTarget forward to *)
(* belongs to the host in use: m_pHostServices is set only together with   *)
(* the external host, never beside the local fallback Host (spec 4.2:      *)
(* forwarding happens when hosted, the fallback creates its own target).   *)
BridgeServesHost ==
    hostServices # Null /\ host # Null => host \notin FallbackHosts
=============================================================================
