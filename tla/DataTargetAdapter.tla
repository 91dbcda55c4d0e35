-------------------------- MODULE DataTargetAdapter --------------------------
(***************************************************************************)
(* The data-target adapters through which the runtime-inspection component *)
(* (the DAC) reaches the debuggee: DataTarget (fallback/datatarget.cpp,    *)
(* ICLRDataTarget) and CorDebugDataTarget (fallback/cordebugdatatarget.h,  *)
(* ICorDebugDataTarget).  Both delegate to IDebuggerServices.              *)
(*                                                                         *)
(* The DAC issues one request at a time; the backend answers from the      *)
(* debuggee's memory.  Addresses are the DAC's CLRDATA_ADDRESS values: a   *)
(* 32-bit target's pointers reach the adapter sign-extended to 64 bits.    *)
(* TLC integers are 32-bit, so widths are scaled: NarrowBits stands for    *)
(* the target's 32-bit pointers, WideBits for the 64-bit CLRDATA_ADDRESS,  *)
(* and HostPtrBits for the width of ULONG_PTR in the SOS build.            *)
(***************************************************************************)
EXTENDS Integers, FiniteSets

CONSTANTS
    NarrowBits,     \* width of the target's pointers (stands for 32)
    WideBits,       \* width of CLRDATA_ADDRESS (stands for 64)
    HostPtrBits,    \* width of ULONG_PTR in this build: NarrowBits or WideBits
    TargetAddrs,    \* mapped addresses of the 32-bit debuggee
    Vals,           \* memory contents
    Machines,       \* IMAGE_FILE_MACHINE_* values GetProcessorType may report
    OSes,           \* IDebuggerServices::OperatingSystem values
    Regions         \* addresses IRemoteMemoryService::AllocVirtual may return

ASSUME /\ NarrowBits \in Nat /\ WideBits = 2 * NarrowBits
       /\ HostPtrBits \in {NarrowBits, WideBits}
       /\ TargetAddrs \subseteq 0 .. (2^NarrowBits - 1)

VARIABLES
    machine,   \* what the backend's GetProcessorType reports
    osys,      \* what the backend's GetOperatingSystem reports
    mem,       \* the debuggee's memory as the backend sees it
    reply,     \* the last request the DAC made and the answer it got
    remote,    \* the backend implements IRemoteMemoryService
    allocs,    \* regions the remote memory service has allocated
    dsRefs     \* references the adapter took on m_debuggerServices and holds

remoteVars == <<remote, allocs, dsRefs>>
vars == <<machine, osys, mem, reply, remote, allocs, dsRefs>>

(* A 32-bit target pointer as the DAC passes it: sign-extended.            *)
SignExtend(a) ==
    IF a >= 2^(NarrowBits - 1) THEN a + 2^WideBits - 2^NarrowBits ELSE a

(* The CLRDATA_ADDRESS values the DAC may pass for this target.            *)
DacAddrs == TargetAddrs \cup {SignExtend(a) : a \in TargetAddrs}

(* The target address a CLRDATA_ADDRESS denotes.                           *)
Denoted(a) == a % 2^NarrowBits

(* CONVERT_FROM_SIGN_EXTENDED(offset) is ((ULONG_PTR)(offset)): a         *)
(* truncation to the build's pointer width (extensions.h).                 *)
ConvertFromSignExtended(a) == a % 2^HostPtrBits

(* The backend's memory access: an address outside the 32-bit debuggee's  *)
(* mapped memory fails, and the failure is returned unchanged.             *)
BackendRead(a) ==
    IF a \in TargetAddrs THEN [hr |-> "S_OK", val |-> mem[a]]
    ELSE [hr |-> "E_FAIL", val |-> 0]

(* The values an unwritten ULONG32 out parameter may hold when the caller *)
(* reads it: whatever was there before (the caller's stack).               *)
Uninitialized == {0, 4, 8, 12}

-----------------------------------------------------------------------------
(* CorDebugDataTarget::GetPlatform: the (processor, OS) classification.    *)
WindowsPlatform ==
    [I386 |-> "WINDOWS_X86", AMD64 |-> "WINDOWS_AMD64",
     ARMNT |-> "WINDOWS_ARM", ARM64 |-> "WINDOWS_ARM64"]

PosixPlatform ==
    [I386 |-> "POSIX_X86", AMD64 |-> "POSIX_AMD64", ARMNT |-> "POSIX_ARM",
     ARM64 |-> "POSIX_ARM64", RISCV64 |-> "POSIX_RISCV64",
     LOONGARCH64 |-> "POSIX_LOONGARCH64"]

GetPlatformNotImpl(m, os) == [hr |-> "E_NOTIMPL", val |-> "none"]

GetPlatformNoLoongArch(m, os) ==
    LET table == IF os = "Windows" THEN WindowsPlatform
                 ELSE [x \in DOMAIN PosixPlatform \ {"LOONGARCH64"} |-> PosixPlatform[x]]
    IN IF m \in DOMAIN table THEN [hr |-> "S_OK", val |-> table[m]]
       ELSE [hr |-> "E_FAIL", val |-> "none"]

GetPlatform(m, os) ==
    LET table == IF os = "Windows" THEN WindowsPlatform ELSE PosixPlatform IN
    IF m \in DOMAIN table THEN [hr |-> "S_OK", val |-> table[m]]
    ELSE [hr |-> "E_FAIL", val |-> "none"]

(* DataTarget::GetPointerSize: the possible answers.  A machine outside    *)
(* the switch leaves *size unwritten and still returns S_OK.               *)
GetPointerSizeArm64As4(m) ==
    IF m \in {"AMD64", "RISCV64", "LOONGARCH64"} THEN {[hr |-> "S_OK", val |-> 8]}
    ELSE IF m \in {"ARM", "THUMB", "ARMNT", "I386", "ARM64"} THEN {[hr |-> "S_OK", val |-> 4]}
    ELSE {[hr |-> "S_OK", val |-> v] : v \in Uninitialized}

GetPointerSize(m) ==
    IF m \in {"AMD64", "ARM64", "RISCV64", "LOONGARCH64"} THEN {[hr |-> "S_OK", val |-> 8]}
    ELSE IF m \in {"ARM", "THUMB", "ARMNT", "I386"} THEN {[hr |-> "S_OK", val |-> 4]}
    ELSE {[hr |-> "S_OK", val |-> v] : v \in Uninitialized}

(* ReadVirtual (DataTarget and CorDebugDataTarget alike): convert, then   *)
(* delegate; a backend failure is returned unchanged.                      *)
ReadVirtualNoConvert(a) == BackendRead(a)

ReadVirtual(a) == BackendRead(ConvertFromSignExtended(a))

(* WriteVirtual (DataTarget and CorDebugDataTarget alike): delegate the    *)
(* address as given.                                                       *)
WriteVirtual(a, v) ==
    IF a \in TargetAddrs
    THEN [hr |-> "S_OK", mem |-> [mem EXCEPT ![a] = v]]
    ELSE [hr |-> "E_FAIL", mem |-> mem]

-----------------------------------------------------------------------------
(* Actions: one per request of the DAC, and the debuggee running.          *)

(* What the DAC observes of a request: its address, the value it wrote,   *)
(* the HRESULT and the value it got back.                                  *)
Reply(op, a, w, r) == [op |-> op, addr |-> a, wrote |-> w, hr |-> r.hr, val |-> r.val]

RequestPlatform ==
    /\ reply' = Reply("platform", 0, 0, GetPlatform(machine, osys))
    /\ UNCHANGED <<machine, osys, mem>> /\ UNCHANGED remoteVars

RequestPointerSize ==
    /\ \E r \in GetPointerSize(machine) :
          reply' = Reply("ptrsize", 0, 0, r)
    /\ UNCHANGED <<machine, osys, mem>> /\ UNCHANGED remoteVars

RequestRead(a) ==
    /\ reply' = Reply("read", a, 0, ReadVirtual(a))
    /\ UNCHANGED <<machine, osys, mem>> /\ UNCHANGED remoteVars

RequestWrite(a, v) ==
    LET w == WriteVirtual(a, v) IN
    /\ mem' = w.mem
    /\ reply' = Reply("write", a, v, [hr |-> w.hr, val |-> 0])
    /\ UNCHANGED <<machine, osys>> /\ UNCHANGED remoteVars

(* The debuggee runs and changes its own memory.                           *)
DebuggeeWrites(a, v) ==
    /\ mem[a] # v
    /\ mem' = [mem EXCEPT ![a] = v]
    /\ reply' = [op |-> "none", addr |-> 0, wrote |-> 0, hr |-> "S_OK", val |-> 0]
    /\ UNCHANGED <<machine, osys>> /\ UNCHANGED remoteVars

(* DataTarget::AllocVirtual and FreeVirtual: QueryInterface of the       *)
(* debugger services for IRemoteMemoryService into a ReleaseHolder, whose  *)
(* destructor releases it on every return; a failed QueryInterface        *)
(* returns its HRESULT (E_NOINTERFACE).  The address is passed as given.   *)
(* The remote service allocates a free region or fails, and frees only a  *)
(* region it allocated.  Each yields the reply and the remote state.       *)
RemoteAlloc ==
    {[hr |-> "S_OK", val |-> r, allocs |-> allocs \cup {r}] : r \in Regions \ allocs}
    \cup {[hr |-> "E_OUTOFMEMORY", val |-> 0, allocs |-> allocs]}

RemoteFree(a) ==
    IF a \in allocs THEN [hr |-> "S_OK", val |-> 0, allocs |-> allocs \ {a}]
    ELSE [hr |-> "E_FAIL", val |-> 0, allocs |-> allocs]

NoInterface == [hr |-> "E_NOINTERFACE", val |-> 0]

(* A remote-memory call that also releases the holder's pointer by hand.  *)
RemoteCallDoubleRelease(op, a, r) ==
    /\ reply' = Reply(op, a, 0, r)
    /\ allocs' = r.allocs
    /\ dsRefs' = dsRefs - 1

RemoteCall(op, a, r) ==
    /\ reply' = Reply(op, a, 0, r)
    /\ allocs' = r.allocs
    /\ dsRefs' = dsRefs

RequestAllocVirtual(a) ==
    /\ IF remote THEN \E r \in RemoteAlloc : RemoteCall("alloc", a, r)
       ELSE reply' = Reply("alloc", a, 0, NoInterface) /\ UNCHANGED <<allocs, dsRefs>>
    /\ UNCHANGED <<machine, osys, mem, remote>>

RequestFreeVirtual(a) ==
    /\ IF remote THEN RemoteCall("free", a, RemoteFree(a))
       ELSE reply' = Reply("free", a, 0, NoInterface) /\ UNCHANGED <<allocs, dsRefs>>
    /\ UNCHANGED <<machine, osys, mem, remote>>

(* The entry points with nothing of their own to model: GetTLSValue,      *)
(* SetTLSValue, SetThreadContext, Request and ContinueStatusChanged        *)
(* return E_NOTIMPL; GetImageBase, GetCurrentThreadID, GetThreadContext    *)
(* and, in the PAL build, VirtualUnwind return the backend's answer        *)
(* (a failed name conversion in GetImageBase is E_FAIL);                   *)
(* GetRuntimeBase returns m_baseAddress with S_OK.                         *)
NotImplementedOps == {"tls", "settls", "setcontext", "request", "continue"}
DelegatedOps == {"imagebase", "threadid", "context", "unwind"}

RequestOther(op) ==
    /\ \/ op \in NotImplementedOps /\ reply' = Reply(op, 0, 0, [hr |-> "E_NOTIMPL", val |-> 0])
       \/ op \in DelegatedOps /\ \E hr \in {"S_OK", "E_FAIL"} :
             reply' = Reply(op, 0, 0, [hr |-> hr, val |-> 0])
       \/ op = "runtimebase" /\ reply' = Reply(op, 0, 0, [hr |-> "S_OK", val |-> 0])
    /\ UNCHANGED <<machine, osys, mem>> /\ UNCHANGED remoteVars

Init ==
    /\ remote \in BOOLEAN /\ allocs = {} /\ dsRefs = 0
    /\ machine \in Machines
    /\ osys \in OSes
    /\ mem \in [TargetAddrs -> Vals]
    /\ reply = [op |-> "none", addr |-> 0, wrote |-> 0, hr |-> "S_OK", val |-> 0]

Next ==
    \/ RequestPlatform
    \/ RequestPointerSize
    \/ \E a \in DacAddrs : RequestRead(a)
    \/ \E a \in DacAddrs, v \in Vals : RequestWrite(a, v)
    \/ \E a \in TargetAddrs, v \in Vals : DebuggeeWrites(a, v)
    \/ \E a \in Regions : RequestAllocVirtual(a) \/ RequestFreeVirtual(a)
    \/ \E op \in NotImplementedOps \cup DelegatedOps \cup {"runtimebase"} : RequestOther(op)

Spec == Init /\ [][Next]_vars

-----------------------------------------------------------------------------
(* Reference definitions (spec 4.4) and properties.                        *)

TypeOK ==
    /\ machine \in Machines /\ osys \in OSes
    /\ mem \in [TargetAddrs -> Vals]
    /\ reply.op \in {"none", "platform", "ptrsize", "read", "write", "alloc",
                     "free", "runtimebase"} \cup NotImplementedOps \cup DelegatedOps
    /\ reply.hr \in {"S_OK", "E_FAIL", "E_NOTIMPL", "E_NOINTERFACE", "E_OUTOFMEMORY"}
    /\ remote \in BOOLEAN /\ allocs \subseteq Regions /\ dsRefs \in Nat

(* The architecture classes of the spec's table, by the machine values the *)
(* backends report for them; any other machine is outside the table.       *)
Arch == [I386 |-> "x86", AMD64 |-> "amd64", ARMNT |-> "arm32",
         ARM64 |-> "arm64", RISCV64 |-> "riscv64", LOONGARCH64 |-> "loongarch64"]
WindowsArchs == {"x86", "amd64", "arm32", "arm64"}
ArchWidth == [x86 |-> 4, arm32 |-> 4, amd64 |-> 8, arm64 |-> 8,
              riscv64 |-> 8, loongarch64 |-> 8]
SpecPlatform(m, os) ==
    IF m \in DOMAIN Arch /\ (os = "Windows" => Arch[m] \in WindowsArchs)
    THEN [hr |-> "S_OK", tag |-> <<IF os = "Windows" THEN "windows" ELSE "posix", Arch[m]>>]
    ELSE [hr |-> "E_FAIL", tag |-> <<>>]

(* The CORDB_PLATFORM value names the (OS family, architecture) pair.      *)
TagOf(p) ==
    LET n == [WINDOWS_X86 |-> <<"windows", "x86">>, WINDOWS_AMD64 |-> <<"windows", "amd64">>,
              WINDOWS_ARM |-> <<"windows", "arm32">>, WINDOWS_ARM64 |-> <<"windows", "arm64">>,
              POSIX_X86 |-> <<"posix", "x86">>, POSIX_AMD64 |-> <<"posix", "amd64">>,
              POSIX_ARM |-> <<"posix", "arm32">>, POSIX_ARM64 |-> <<"posix", "arm64">>,
              POSIX_RISCV64 |-> <<"posix", "riscv64">>,
              POSIX_LOONGARCH64 |-> <<"posix", "loongarch64">>]
    IN n[p]

(* GetPlatform answers by the spec's classification table for whatever    *)
(* processor and OS the backend reports: the documented tag for every      *)
(* pair in the table, failure (UnsupportedPlatform) for every other pair,  *)
(* riscv64 and loongarch64 on Windows included.                            *)
PlatformMatchesTable ==
    reply.op = "platform" =>
        LET ref == SpecPlatform(machine, osys) IN
        /\ reply.hr = ref.hr
        /\ reply.hr = "S_OK" => TagOf(reply.val) = ref.tag

(* The two adapters agree on the target's word size: whenever GetPlatform *)
(* classifies the target, DataTarget::GetPointerSize answers the pointer   *)
(* width of that platform's architecture.                                  *)
PointerSizeAgreesWithPlatform ==
    reply.op = "ptrsize" /\ GetPlatform(machine, osys).hr = "S_OK" =>
        /\ reply.hr = "S_OK"
        /\ reply.val = ArchWidth[TagOf(GetPlatform(machine, osys).val)[2]]

(* A read of any CLRDATA_ADDRESS the DAC may form for a mapped target      *)
(* address, sign-extended or not, reaches that target address and returns  *)
(* its contents.                                                           *)
ReadsReachTarget ==
    reply.op = "read" =>
        /\ reply.hr = "S_OK"
        /\ reply.val = mem[Denoted(reply.addr)]

(* Every entry point that takes an address normalizes it the same way: a  *)
(* write through the adapter reaches the target address the DAC meant,     *)
(* as a read of the same address does.                                     *)
WritesReachTarget ==
    reply.op = "write" =>
        /\ reply.hr = "S_OK"
        /\ mem[Denoted(reply.addr)] = reply.wrote

=============================================================================
