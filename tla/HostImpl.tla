------------------------------ MODULE HostImpl ------------------------------
(***************************************************************************)
(* The local fallback IHost and ITarget (extensions/fallback/hostimpl.*,   *)
(* targetimpl.h) that Extensions::GetHost builds when no hosting runtime   *)
(* supplied a host.  Operators act on the state record of ComObjects,      *)
(* extended with                                                           *)
(*   hostTarget : fallback host -> its Target (Host::m_target) or Null     *)
(*   sHost      : the static Host::s_host                                  *)
(***************************************************************************)
EXTENDS ComObjects

CONSTANTS
    DS,               \* the IDebuggerServices instance every Host/Target binds
    FallbackHosts,    \* identities available to `new Host(...)`
    FallbackTargets   \* identities available to `new Target(...)`

ASSUME DS # Null /\ FallbackHosts \cap FallbackTargets = {}

(* Host::Host: m_ref(1), m_target(nullptr), debuggerServices->AddRef(),    *)
(* s_host = this.                                                          *)
NewHost(s, h, debuggerServices) ==
    [AddRef(Construct(s, h, 1), debuggerServices)
        EXCEPT !.hostTarget[h] = Null, !.sHost = h]

(* The references an object's destructor releases, in order.               *)
(* Host::~Host releases m_target then m_debuggerServices; the fallback     *)
(* Target releases the debugger services it was bound to (its constructor  *)
(* and destructor are in targetimpl.cpp, outside the sources here).        *)
DtorReleases(s, o) ==
    IF o \in FallbackHosts THEN <<s.hostTarget[o], DS>>
    ELSE IF o \in FallbackTargets THEN <<DS>>
    ELSE <<>>

(* Fields the destructor clears: Host::~Host nulls m_target and sets the   *)
(* static s_host to nullptr, whichever host it pointed to.                 *)
DtorClears(s, o) ==
    IF o \in FallbackHosts
    THEN [s EXCEPT !.hostTarget[o] = Null, !.sHost = Null]
    ELSE s

(* Release each object of the sequence in turn.  Release is              *)
(* InterlockedDecrement followed by `delete this` when the result is 0;   *)
(* the destructor runs inside that Release, so its own releases come      *)
(* before the rest of the sequence.                                        *)
RECURSIVE ReleaseAll(_, _)
ReleaseAll(s, objs) ==
    IF objs = <<>> THEN s
    ELSE LET o == Head(objs) IN
         IF o = Null THEN ReleaseAll(s, Tail(objs))
         ELSE LET s1 == [s EXCEPT !.ref[o] = @ - 1] IN
              IF s1.ref[o] = 0
              THEN ReleaseAll(DtorClears(Delete(s1, o), o),
                              DtorReleases(s1, o) \o Tail(objs))
              ELSE ReleaseAll(s1, Tail(objs))

(* GetCurrentTarget without the AddRef for the caller.                     *)
HostGetCurrentTargetNoAddRef(s, h) ==
    IF s.hostTarget[h] = Null
    THEN LET t == NextId(s, FallbackTargets) IN
         [AddRef(Construct(s, t, 1), DS) EXCEPT !.hostTarget[h] = t]
    ELSE s

(* Host::GetCurrentTarget with a non-null out pointer: the first call      *)
(* creates the one Target of this host (`new Target(m_debuggerServices)`,  *)
(* m_ref(1), binding the debugger services); every call adds a reference  *)
(* for the caller.  The caller's pointer is s1.hostTarget[h].              *)
HostGetCurrentTarget(s, h) ==
    LET s1 == IF s.hostTarget[h] = Null
              THEN LET t == NextId(s, FallbackTargets) IN
                   [AddRef(Construct(s, t, 1), DS) EXCEPT !.hostTarget[h] = t]
              ELSE s
    IN AddRef(s1, s1.hostTarget[h])

(* GetCurrentTarget needs a fresh Target identity only on its first call.  *)
CanGetCurrentTarget(s, h) ==
    s.hostTarget[h] = Null => Unused(s, FallbackTargets) # {}
=============================================================================
