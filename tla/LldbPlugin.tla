----------------------------- MODULE LldbPlugin -----------------------------
(***************************************************************************)
(* The lldb plug-in (lldbplugin/sosplugin.cpp, soscommand.cpp) composed    *)
(* with libsos.  Each library links its own copy of the extensions code,   *)
(* so there are two Extensions singletons: the plug-in's (the variables of *)
(* Extensions) and libsos's SOSExtensions (the sos* variables).  They      *)
(* share the objects: the first SOS command loads libsos and passes it the *)
(* host the plug-in resolved, with the plug-in's debugger and output       *)
(* services.  Hosts and their Targets are objects of the plug-in's code,   *)
(* so their destructors clear the plug-in's Host::s_host.                  *)
(*                                                                         *)
(* SOS commands reach libsos's singleton through the inline wrappers of   *)
(* extensions.h; each wrapper call is one step (commands are serialized by *)
(* lldb's command interpreter, and a command may make any number of such   *)
(* calls, none included).                                                  *)
(***************************************************************************)
EXTENDS Extensions

VARIABLES
    pluginLoaded,     \* PluginInitialize has run
    sosHandle,        \* g_sosHandle: "none" or "loaded"
    exited,           \* lldb went on with "quit" and exited
    nullDeref,        \* a wrapper dereferenced a null s_extensions
    sosExists, sosHost, sosTarget, sosDs, sosOs, sosHostServices,
    sosSymbolService  \* libsos's s_extensions and its fields

sosVars == <<sosExists, sosHost, sosTarget, sosDs, sosOs, sosHostServices,
             sosSymbolService>>
pluginVars == <<pluginLoaded, sosHandle, exited, nullDeref>>
allVars == <<vars, sosVars, pluginVars>>

(* The inline wrappers of extensions.h (GetHost(), GetOutputService(),    *)
(* ...) are Extensions::GetInstance()->..., so called in the plug-in's     *)
(* code they dereference the plug-in's s_extensions.                       *)
PluginWrapperDerefsNull == ~exists

(* A state record with libsos's singleton in place of the plug-in's.      *)
AsSos(s) ==
    [s EXCEPT !.exists = sosExists, !.host = sosHost, !.target = sosTarget,
              !.ds = sosDs, !.os = sosOs, !.hostServices = sosHostServices,
              !.symbolService = sosSymbolService]

SosCur == AsSos(Cur)

(* Installing the parts of a state record: the shared objects, the        *)
(* plug-in's singleton, libsos's singleton.                                *)
SetShared(s) ==
    /\ ref' = s.ref /\ live' = s.live /\ freed' = s.freed
    /\ hostTarget' = s.hostTarget /\ sHost' = s.sHost
    /\ bridgeTarget' = s.bridgeTarget

SetPluginFields(s) ==
    /\ exists' = s.exists /\ host' = s.host /\ target' = s.target
    /\ ds' = s.ds /\ os' = s.os /\ hostServices' = s.hostServices
    /\ symbolService' = s.symbolService

SetSosFields(s) ==
    /\ sosExists' = s.exists /\ sosHost' = s.host /\ sosTarget' = s.target
    /\ sosDs' = s.ds /\ sosOs' = s.os /\ sosHostServices' = s.hostServices
    /\ sosSymbolService' = s.symbolService

SetSos(s) ==
    /\ SetShared(s) /\ SetSosFields(s)
    /\ UNCHANGED <<exists, host, target, ds, os, hostServices, symbolService>>

Running == pluginLoaded /\ ~exited /\ ~nullDeref

-----------------------------------------------------------------------------
(* lldb::PluginInitialize: Extensions::Initialize(g_services, g_services), *)
(* then the "quit" override and the commands are registered.               *)
PluginInitialize ==
    /\ ~pluginLoaded
    /\ Initialize
    /\ pluginLoaded' = TRUE
    /\ UNCHANGED <<sosHandle, exited, nullDeref>> /\ UNCHANGED sosVars

(* The plug-in's own calls into its singleton (LLDBServices and the       *)
(* plug-in's commands).                                                    *)
PluginCall ==
    /\ Running
    /\ \/ GetHost \/ GetHostServices \/ GetTarget \/ GetSymbolService
       \/ ReleaseTarget \/ DestroyTarget \/ CreateTarget \/ UpdateTarget
    /\ UNCHANGED pluginVars /\ UNCHANGED sosVars

(* The "quit" override: Extensions::Uninitialize(), then false, so lldb   *)
(* goes on with its quit command, which exits or, when the user declines  *)
(* to kill the debuggee, returns to the prompt.                            *)
Quit ==
    /\ Running
    /\ Set(IF exists THEN TornDown(Cur) ELSE Cur)
    /\ \E declined \in BOOLEAN : exited' = ~declined
    /\ UNCHANGED <<pluginLoaded, sosHandle, nullDeref>> /\ UNCHANGED sosVars

(* SOSInitializeByHost that stores the host without QueryInterface.      *)
SosInitializeByHostNoQI(s, punk) ==
    IF s.exists THEN s ELSE Constructed(s, punk)

(* SOSInitializeByHost in libsos with the host the plug-in passes: its    *)
(* QueryInterface(IHost) adds a reference, then SOSExtensions::Initialize  *)
(* constructs libsos's singleton with it unless one exists.               *)
SosInitializeByHost(s, punk) ==
    LET s1 == AddRef(s, punk) IN
    IF s1.exists THEN s1 ELSE Constructed(s1, punk)

(* sosCommand::LoadSos, run by DoExecute before every SOS command: when    *)
(* libsos is not loaded yet and dlopen succeeds, GetHost() (the plug-in's  *)
(* wrapper), GetDebuggerServices() and GetOutputService() are passed to    *)
(* its SOSInitializeByHost.  The wrapper dereferences s_extensions, null   *)
(* after the quit override ran.  A failed dlopen leaves g_sosHandle null   *)
(* and changes nothing.                                                    *)
LoadSos ==
    /\ Running /\ sosHandle = "none"
    /\ sosHandle' = "loaded"
    /\ IF PluginWrapperDerefsNull
       THEN nullDeref' = TRUE /\ UNCHANGED vars /\ UNCHANGED sosVars
       ELSE /\ \E s \in GetHostR(Cur) :
                 LET s2 == SosInitializeByHost(AsSos(s), s.host) IN
                 SetShared(s2) /\ SetPluginFields(s) /\ SetSosFields(s2)
            /\ UNCHANGED nullDeref
    /\ UNCHANGED <<pluginLoaded, exited>>

(* A command running in libsos calls one of the wrappers of extensions.h  *)
(* on libsos's singleton.                                                  *)
SosGetTarget ==
    /\ sosTarget = Null
    /\ \E s \in GetTargetR(SosCur) : SetSos(s)

SosGetHostServices ==
    /\ sosHostServices = Null
    /\ \E s \in GetHostR(SosCur) : SetSos(HostServicesOf(s))

SosGetSymbolService ==
    /\ sosSymbolService = Null
    /\ \E s \in GetTargetR(SosCur) : SetSos(SymbolServiceOf(s))

SosReleaseTarget ==
    /\ sosTarget # Null
    /\ SetSos(ReleaseTargetR(SosCur))

SosCall ==
    /\ Running /\ sosHandle = "loaded" /\ sosExists
    /\ \/ SosGetTarget \/ SosGetHostServices \/ SosGetSymbolService
       \/ SosReleaseTarget
    /\ UNCHANGED pluginVars

(* Host::WriteTrace: GetOutputService()->OutputString(...).  The fallback  *)
(* Host is code of the plug-in, so the wrapper it calls reads the          *)
(* plug-in's s_extensions, whatever library called the Host.               *)
HostWriteTraceDerefsNull(h) == h \in FallbackHosts /\ PluginWrapperDerefsNull

(* InternalWriteTrace in libsos (the target of its TraceError and         *)
(* TraceInformation logging): GetHost() on libsos's singleton, then        *)
(* host->WriteTrace.  The bridge's host writes through managed code and    *)
(* changes nothing here; a fallback Host dereferences the plug-in's        *)
(* singleton, null once the quit override has run.                         *)
SosTrace ==
    /\ Running /\ sosHandle = "loaded" /\ sosExists
    /\ \E s \in GetHostR(SosCur) :
          IF HostWriteTraceDerefsNull(s.host)
          THEN nullDeref' = TRUE /\ UNCHANGED vars /\ UNCHANGED sosVars
          ELSE SetSos(s) /\ UNCHANGED nullDeref
    /\ UNCHANGED <<pluginLoaded, sosHandle, exited>>

CompInit ==
    /\ Init
    /\ pluginLoaded = FALSE /\ sosHandle = "none" /\ exited = FALSE
    /\ nullDeref = FALSE
    /\ sosExists = FALSE /\ sosHost = Null /\ sosTarget = Null
    /\ sosDs = Null /\ sosOs = Null /\ sosHostServices = Null
    /\ sosSymbolService = Null

CompNext ==
    \/ PluginInitialize
    \/ PluginCall
    \/ Quit
    \/ LoadSos
    \/ SosCall
    \/ SosTrace

CompSpec == CompInit /\ [][CompNext]_allVars

-----------------------------------------------------------------------------
(* Every reference held to o, by either library's singleton, by a Host or *)
(* Target, or by the environment.                                          *)
AllHolders(o) ==
    Holders(o)
    + Occurrences(<<sosDs, sosOs, sosHost, sosTarget, sosHostServices,
                    sosSymbolService>>, o)

(* Across both libraries, every live object's count is the number of      *)
(* references held to it: the plug-in's teardown on "quit" releases only   *)
(* its own, and what libsos holds (the host it was given, a target it      *)
(* resolved through that host) stays counted.                              *)
RefCountsBalance ==
    \A o \in Objs : ref[o] = IF o \in live THEN AllHolders(o) ELSE 0

(* No pointer either singleton holds refers to a deleted object: libsos's *)
(* host and target survive the plug-in's teardown because libsos owns      *)
(* references to them.                                                     *)
NoDanglingAcrossLibraries ==
    {sosDs, sosOs, sosHost, sosTarget, sosHostServices, sosSymbolService} \ {Null}
    \subseteq live

(* No SOS command dereferences a null s_extensions through the wrappers,  *)
(* neither LoadSos's GetHost() nor the fallback Host's WriteTrace that    *)
(* libsos's tracing reaches.                                               *)
NoNullSingletonUse == ~nullDeref
=============================================================================
