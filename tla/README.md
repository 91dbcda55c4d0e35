# SOS extension layer: TLA+ models

This directory holds TLA+ models of the SOS extension layer in
`src/src/SOS`. This is the part of SOS that sits between a debugger (lldb or
dbgeng) and the managed hosting runtime, together with the data-target adapters
through which the runtime-inspection component (the DAC) reads the debuggee. The
models are checked with TLC. Each module is translated from the C++ sources and
cites the lines it models. `PROJECT.json` lists that mapping, the runs, the
mutants, the findings and the hazards.

## The system

| Part | Source | What it holds and does |
|---|---|---|
| Extensions singleton | `extensions/extensions.cpp`, `extensions.h` | The static `s_extensions` owns references to the debugger and output services. It lazily resolves the host (`GetHost`): first `InitializeHosting`, whose callback `InitializeHostServices` may store the managed `IHostServices` bridge and the managed `IHost`; otherwise it falls back to a local `Host`. It also lazily resolves the current target (`GetTarget`) and the symbol service. It forwards `CreateTarget`/`UpdateTarget`/`DestroyTarget` to the bridge, and its destructor releases everything in a fixed order. |
| SOSExtensions entry points | `Strike/sosextensions.cpp` | `SOSInitializeByHost` (called by the lldb plug-in or by dotnet-dump) runs `QueryInterface(IHost)` on the caller's object and constructs the singleton with that host, unless the singleton already exists. `SOSUninitializeByHost` tears it down. The dbgeng-only path builds the debugger services itself. |
| Fallback Host and Target | `extensions/fallback/hostimpl.*`, `targetimpl.h` | Reference-counted local `IHost`. Its `GetCurrentTarget` creates its single `Target` on first use and hands out references to it. The Host keeps the static `s_host`. |
| Data-target adapters | `fallback/datatarget.cpp`, `fallback/cordebugdatatarget.h` | `ICLRDataTarget` and `ICorDebugDataTarget` over `IDebuggerServices`: platform classification, pointer size, memory reads and writes, with normalization of sign-extended addresses (`CONVERT_FROM_SIGN_EXTENDED`). |
| FileDataTarget | `shared/dbgutil/filedatatarget.h` | A data target reading a module file. |
| lldb plug-in | `lldbplugin/*` | `PluginInitialize` calls `Extensions::Initialize`, and the `quit` override calls `Uninitialize`. `LoadSos` passes the plug-in's host to libsos's `SOSInitializeByHost`. Commands dispatch into libsos. |
| runcommand, dbgeng shim | `runcommand/`, `Strike/xplat/dbgeng.h` | A test plug-in and declaration-only delegation. |

How the parts interact:
- A debugger command reaches SOS through the plug-in or dbgeng.
- The first use of the host runs the hosting runtime. That runtime calls back into the singleton. After the callback the singleton holds either the managed host and its bridge, or nothing; in the second case it builds the fallback Host.
- Every object is COM reference counted. `AddRef` and `Release` are interlocked, and `Release` deletes at zero. Objects hold references to one another: the singleton holds the host, the target, the services and the bridge; a fallback Host holds its Target; both Host and Target hold the debugger services; the bridge holds its current target.
- Calls are serialized by the debugger's command loop, so each entry point is one atomic step of most models. The spec (sections 5 and 9) allows host callbacks and background symbol resolution on other threads, and calls the accessors' unguarded check-then-create a known race. `ExtensionsRace` models that case.

## Modules

| Module | Models | State | Actions |
|---|---|---|---|
| `ComObjects` | The reference counting shared by all classes (`AddRef`, `new`, `delete this`). | A record `s` with `ref`, `live`, `freed`. | Pure operators on `s`. |
| `HostImpl` | `Host::Host`, `~Host`, `Release`, `GetCurrentTarget`. | `s.hostTarget` (`m_target`), `s.sHost` (`s_host`). | Operators composed into the Extensions actions. `ReleaseAll` is recursive: a `Release` that reaches zero runs the destructor, whose own releases come before the rest. |
| `Extensions` | The singleton and the SOSExtensions entry points. The managed bridge is modelled from its interface contract, since it is not in the sources. | One variable per field (`host` = `m_pHost`, `target` = `m_pTarget`, and so on), `exists` = `s_extensions != nullptr`, and `bridgeTarget`, the bridge's current target. | `Initialize`, `InitializeByHost(punk)`, `Uninitialize`, `GetHost`, `GetHostServices`, `GetTarget`, `GetSymbolService`, `ReleaseTarget`, `DestroyTarget`, `CreateTarget`, `UpdateTarget`. Each action is the whole C++ call with every call it makes: `Set(F(Cur))`, where `F` composes the operators of the callees. |
| `ExtensionContext` | What the extension context promises (spec 4.2, and the states Unresolved, ExternallyResolved and FallbackResolved that spec 9 proposes), with no objects or counts. | `loaded`, `chosen` (the resolved host or `Null`), `targetCached`, `symbolCached`. | `Load(h)`, `ResolveHost`, `ResolveTarget`, `ResolveSymbolService`, `InvalidateTarget`, `Unload`. |
| `MCExtensions` | Model values for the object identities. | | |
| `ExtensionsRace` | The lazy accessors and `ReleaseTarget` called by several threads, `EXTENDS Extensions`. Each accessor is split where the C++ reads a field and later acts on what it read. | The Extensions state, `pc` (thread to the point it has reached) and `fault` (a call through a null `m_pTarget`). | `GetHostCheck`, `GetHostHosting` (the hosting callback, then the second check), `GetHostNew`; `GetTargetCheck`, `GetTargetCall`; `GetSymbolServiceCheck`, `GetSymbolServiceCall`; `ReleaseTargetCheck`, `ReleaseTargetRelease`, `ReleaseTargetClear`. A nested accessor call (`GetTarget`'s `GetHost`) is one step. |
| `MCExtensionsRace` | Two threads, the identities of `MCExtensions`, and thread symmetry. | | |
| `DataTargetAdapter` | `GetPlatform`, `GetPointerSize`, `ReadVirtual`, `WriteVirtual` of both adapters, against a backend holding a 32-bit debuggee. | `machine`, `osys` (what the backend reports), `mem`, `reply` (the DAC's last request and answer). | One action per DAC request, plus `DebuggeeWrites`. |
| `MCDataTargetAdapter` | The machine and OS sets, the mapped addresses and one remote-memory region. | | |
| `FileDataTarget` | `FileDataTarget`'s constructor (`_wfopen` succeeds or gives NULL), `ReadVirtual` (seek, then `fread`) and its `E_NOTIMPL` entry points. | `image` (the file's bytes), `m_file`, `reply`. | `RequestRead(a, n, counted)`, `RequestNotImplemented(op)`. `Fread` is a recursive operator reading byte by byte up to end of file. It is checked against the reference `ImageSlice`, a `SubSeq`. |
| `MCFileDataTarget` | Offsets and request sizes. | | |
| `ObjectLifecycle` | What the reference-counting protocol promises (spec 4.1), with no counts: threads own references, take, hand on and drop them, and an object is destroyed once, when nobody owns one. | `status`, `owners`. | `Create`, `Acquire`, `Drop`, `Transfer`, `Destroy`. |
| `ComRefCount` | `new`, `QueryInterface`, `AddRef` and `Release` of `DataTarget`, `CorDebugDataTarget`, `FileDataTarget` and `Host`, called by concurrent threads. | `m_ref`, `status`, `deletes`, `held` (references each thread owns), `raw` (pointers a thread holds without a reference), `pc` (a `Release` between its decrement and its test), `file` (`m_file`). | `New`, `QueryInterface`, `AddRef`, `ReleaseDecrement`, `ReleaseTest`, `Handoff`. `Release` is two steps: `InterlockedDecrement`, then the test of the returned value and `delete this`. `Lifecycle` instantiates `ObjectLifecycle` with `owners <- held` per object. `FairSpec` adds weak fairness on `ReleaseTest`. |
| `MCComRefCount` | Two threads; one object each of `DataTarget`, `FileDataTarget` and `Host`. | | |
| `LldbPlugin` | The lldb plug-in composed with libsos. It `EXTENDS Extensions` for the plug-in's singleton and adds libsos's singleton (`sos*` variables). | `pluginLoaded`, `sosHandle` (`g_sosHandle`), `exited`, `nullDeref`, and the `sos*` copy of the singleton's fields. | `PluginInitialize`, `PluginCall` (the plug-in's own calls into its singleton), `Quit` (the `quit` override: `Uninitialize`, then lldb exits, or stays when the user declines), `LoadSos` (with `SosInitializeByHost`), `SosCall` (the `extensions.h` wrappers on libsos's singleton), and `SosTrace` (libsos's `InternalWriteTrace`: `GetHost()`, then `host->WriteTrace`; the fallback Host's `WriteTrace` is plug-in code and calls the plug-in's `GetOutputService()` wrapper). |
| `MCLldbPlugin` | The same identities as `MCExtensions`. | | |
| `DbgEngSos` | SOS under dbgeng (`sosextensions.cpp` without `FEATURE_PAL`), `EXTENDS Extensions`. Here `DS` is the `DbgEngServices` that SOS allocates itself. | The Extensions state, plus `deState` (the `DbgEngServices`' lifecycle) and `statusDeref` (`Host::DisplayStatus` followed a null `m_target`). | `InitializeByClient` (`Initialize(IDebugClient)`; `DbgEngServices::Initialize` may fail), `SosUninitialize` (`~SOSExtensions` via `SosDtor`, then `~Extensions`), `GetRuntime` (`GetTarget`, `FlushCheck`, which lets a hosted bridge update its current target, then `target->GetRuntime`; the flush itself never releases `m_pTarget`), `HostStatus` (the static `DisplayStatus`/`SwitchRuntime`), and `SosCommand` (the singleton's other entry points). |
| `MCDbgEngSos` | The identities of `MCLldbPlugin`. | | |

Outcomes of calls into code outside the sources are nondeterministic choices over what that code may return:
- the hosting runtime, each step of `InitializeHostServices` failing or succeeding, and the bridge's `UpdateTarget` (destroy, keep or replace the target);
- an out parameter left unwritten, which is any value from a small set.

Integer widths are scaled, because TLC integers are 32-bit:
- `NarrowBits = 8` stands for a 32-bit target pointer;
- `WideBits = 16` stands for the 64-bit `CLRDATA_ADDRESS`;
- `HostPtrBits` is the width of `ULONG_PTR` in the SOS build (8 = a 32-bit build, 16 = a 64-bit build).

A 32-bit address with its top bit set reaches the adapter sign-extended. This is the case the properties are about.

## Runs

| Run | Config | Expect | What it shows |
|---|---|---|---|
| extensions | `MCExtensions.cfg` | pass | See the list below. |
| bridge | `MCExtensions_bridge.cfg` | violation | `QueryInterface(IHostServices)` succeeds and the bridge's `GetHost` fails. `GetHost` then builds a fallback Host while `m_pHostServices` is set, so target operations go to a bridge that does not serve the host in use (`BridgeServesHost`). |
| race | `MCExtensionsRace.cfg` | violation | Two threads both pass `ReleaseTarget`'s `m_pTarget != nullptr` check and both call `Release` on it. The second `Release` frees a target that the bridge (or the fallback Host) still points to (`NoDanglingPointers`). The spec names only duplicate construction or a leaked reference as outcomes of the race. |
| adapters | `MCDataTargetAdapter.cfg` | pass | For every reported processor and OS, `GetPlatform` gives the spec's tag or fails, `GetPointerSize` agrees with the platform, and on a build as wide as the target every sign-extended read reaches its target address. |
| write | `MCDataTargetAdapter_write.cfg` | violation | `WriteVirtual` never normalizes the address. |
| fileread | `MCFileDataTarget.cfg` | pass | For every image of up to 3 bytes, every read inside, at or past the end reports, with `S_OK`, the count of image bytes there. The buffer's front holds exactly those bytes (`ReadAnswersImage`). |
| refcount | `MCComRefCount.cfg` | pass | Two threads interleave `QueryInterface`, `AddRef`, hand-offs and the two steps of `Release`. Across all three classes and their different initial counts, `m_ref` equals the references owned (`RefCountMatchesHolders`). No object is deleted twice (`DestroyedOnce`). The counting refines `ObjectLifecycle` (`LifecycleSpec`). Under weak fairness of `Release`'s second step, every object no thread can reach any more is eventually deleted (`UnreachableObjectsDeleted`): nothing leaks, whatever the two threads interleave. |
| lldb | `MCLldbPlugin.cfg` | pass | Both singletons hold references to one host. Counts stay equal to the holders across both libraries (`RefCountsBalance`). The plug-in's teardown on `quit` leaves nothing libsos points to deleted (`NoDanglingAcrossLibraries`). |
| dbgeng | `MCDbgEngSos.cfg` | pass | On the dbgeng path, counts balance through `Initialize(IDebugClient)`, the commands, flushes and teardown (`DbgRefCountsBalance`). The two references the `Extensions` constructor adds to `DbgEngServices` are returned once by `~SOSExtensions` and once by `~Extensions`. |
| dbgengleak | `MCDbgEngSos_leak.cfg` | violation | A failed `DbgEngServices::Initialize` returns without releasing the new object (`AllLiveHeld`, with `InitMayFail = TRUE`). |
| hoststatus | `MCDbgEngSos_status.cfg` | violation | `Initialize(IDebugClient)`, then a command whose `GetHost` builds the fallback Host, then `Host::DisplayStatus` before any `GetTarget`: `s_host->m_target` is null (`NoNullTargetStatus`). |
| quit | `MCLldbPlugin_quit.cfg` | violation | Run `quit` and decline the confirmation, then run any SOS command: `LoadSos` calls the plug-in's `GetHost()` wrapper on a null `s_extensions` (`NoNullSingletonUse`). If libsos was loaded before the `quit`, its tracing reaches the same null pointer through the fallback Host's `WriteTrace`. |

The extensions run checks, over every sequence of entry points, hosting outcomes and bridge target changes:
- reference counts equal the number of holders (`RefCountsMatchHolders`);
- no cached pointer, `m_target` or `s_host` refers to a deleted object (`NoDanglingPointers`);
- the singleton refines `ExtensionContext` (`ContextRefinement`). `Context` instantiates it with `loaded <- exists`, `chosen <- host`, `targetCached <- target # Null` and `symbolCached <- symbolService # Null`. Every entry point is then one step of the abstract context or leaves that view unchanged:
  - a host, once stored by the callback, the fallback or `SOSInitializeByHost`, is never replaced while the singleton lives;
  - a target is cached only together with a resolved host;
  - a symbol service is cached only from a resolved target;
  - teardown forgets all three at once.

  The same refinement also holds on the dbgeng path (`MCDbgEngSos`). It is not asserted there, because the mutant that breaks it is the same one.

Some questions are answered by the models but asserted by no run:
- **Repeated `SOSInitializeByHost`.** A second `SOSInitializeByHost` while the singleton exists adds a host reference that nobody releases. With `RepeatInitByHost = TRUE` in `MCExtensions.cfg`, TLC finds `RefCountsMatchHolders` violated after five states. Every run keeps it `FALSE`.
  - In lldb, the only caller is `LoadSos`. Its `g_sosHandle` check makes the call once per session, and the lldb run's `RefCountsBalance` fails when that check is removed.
  - Under dbgeng, SOS initializes itself through `Initialize(IDebugClient)`.
  - dotnet-dump's caller is outside the sources.
- **`LoadSos` without `SOSInitializeByHost`.** `LoadSos` keeps `g_sosHandle` even when `dlsym` finds no `SOSInitializeByHost`. libsos's singleton then never exists, and `LoadSos` does not retry. This needs a libsos lacking the export, so the lldb model always finds it.
- **Stale symbol service.** `ReleaseTarget` and `DestroyTarget` clear `m_pTarget` but not `m_pSymbolService`, so after a new bridge target `GetSymbolService` returns the old target's service. The extensions model reaches this state. The spec leaves open whether the cache should follow the target.
- **Unknown processor.** For a processor outside its switch (IA64), `GetPointerSize` returns `S_OK` with `*size` unwritten. `GetPlatform` already fails for that processor.
- **64-bit build.** On a 64-bit build (`HostPtrBits = 16`), `CONVERT_FROM_SIGN_EXTENDED` is the identity, and `ReadsReachTarget` fails for sign-extended addresses.
- **Teardown order under dbgeng.** `~SOSExtensions` uninitializes `DbgEngServices` before `~Extensions` tears down the bridge. Whether the bridge's managed teardown calls back into it is outside the sources.

Every property of a passing run has a mutant in `PROJECT.json`. The mutant is a plausible bug in the modelled code that TLC catches:
- a missing `AddRef` in `GetCurrentTarget`;
- a symbol service not released in `~Extensions` (lldb run);
- `GetHostServices` without its second check of `m_pHostServices` after `GetHost`, whose hosting callback may already have stored it (extensions run);
- `GetHost` that re-resolves an already chosen host (breaks `ContextRefinement`);
- `ReleaseTarget` that does not clear `m_pTarget`;
- a platform table missing LoongArch;
- ARM64 reported as 4 bytes;
- a read without conversion;
- a remote-memory call that releases by hand as well as through its `ReleaseHolder` (`TypeOK`);
- `fread` with size and count swapped;
- in `ComRefCount`: `Release` re-reading `m_ref` instead of its own decrement's result; `QueryInterface` that misses or adds an `AddRef`; a `DataTarget` created owned;
- in `DbgEngSos`: `~SOSExtensions` that releases the debugger services but keeps the field, or clears it without releasing;
- a `Release` that tests the count read before the decrement, so the last `Release` never deletes (`UnreachableObjectsDeleted`);
- in `LldbPlugin`: `SOSInitializeByHost` without its `QueryInterface`.

## Bounds and why they suffice

`MCExtensions` has two fallback Host identities, two fallback Target identities and three bridge targets, each with its own symbol service.
- Two Hosts let an `Uninitialize` followed by a new `GetHost` build a second Host. This is the case where the `s_host` clearing and the `DS` references of several Hosts matter.
- Three bridge targets let a target be replaced twice. Identities are never reused, so a dangling pointer to a deleted object stays visible.
- `OS = DS` is the lldb configuration, where `PluginInitialize` passes `g_services` as both services. Both references then land on one count, which is where a miscount would show.
- The pools bound the run. The guards of `GetHost`, `GetTarget` and `CreateTarget` require a free identity. The state space is exhausted at depth 14.

`MCDataTargetAdapter` covers:
- the nine processor values the code distinguishes, including the unlisted `IA64`;
- the four OS values;
- two mapped addresses, one below and one above the sign bit, in both their unsigned and sign-extended forms;
- two memory values.

`MCFileDataTarget` takes every image of 0 to 3 bytes over `{0, 1}`, offsets 0 to 4 and requests of 0 to 3 bytes. So reads end inside the image, at its end and past it, and some start past it.

`MCComRefCount` has two threads, three objects and `MaxRefs = 2` references per thread and object.
- Two threads are enough for every interleaving of one `Release`'s two steps with another thread's calls.
- Objects never interact: no class holds a reference to another in this module. One object per class is therefore enough.
- The three objects cover the three initial counts and both `m_file` outcomes.
- No symmetry is declared: the run checks a liveness property, and symmetry is unsound for liveness.

`MCLldbPlugin` uses the identities of `MCExtensions`, with one fallback Host and one fallback Target. The plug-in resolves its host once before `LoadSos` hands it to libsos, so a second Host adds nothing to the cross-library question.

`MCDbgEngSos` uses the same identities. There is one `DbgEngServices` identity, so SOS is loaded once per behaviour. Loading it again would allocate a new `DbgEngServices` and start the same protocol over. The runs therefore do not check deadlock: after the unload, nothing can happen.
- `DbgEngInitialRef = 0`. `DbgEngServices`' constructor is not in the sources. The pointer returned by `new` is handed straight to `SOSExtensions`, which takes its own two references, and the destructors give back exactly those two. With an initial count of 1, that creation reference would never be released.
- The bridge (hosted by the managed runtime) exists only when `InitializeHostServices` succeeds. Its `UpdateTarget` outcomes are the flushes `FlushCheck` may cause.

`MCExtensionsRace` has two threads, the smallest number that can race. Thread identities are interchangeable, so `SYMMETRY ThreadSymmetry` is declared; the run checks an invariant only. The singleton is initialized and stays so: `Uninitialize` is left out of the race model. The run stops at the first violation, which TLC finds at depth 7. No deadlock check is made: the accessors have no blocking step, and a state in which every thread is idle and nothing is left to create is a normal end.

## Fairness

Only the refcount run assumes fairness: `FairSpec` of `ComRefCount` adds `WF_vars(ReleaseTest(t))` for each thread. The second step of `Release` is straight-line code after `InterlockedDecrement`, with no lock and no wait. A thread that has started a `Release` therefore completes it. Nothing obliges a caller to call anything else, so no other step is fair.

Every other run checks safety, action or refinement (safety) properties under `Spec`.

## Not modelled

- Output and path helpers (`extensions.cpp` 282-316 and 366-416). `GetAbsolutePath` calls `realpath`. `GetFileName` is a substring after the last separator, and all its callers are outside the sources. `InternalOutputVaList` and `TraceHostingError` format a message and write it. `InternalWriteTrace` (318-329) is modelled in `LldbPlugin`.
- `FlushCheck`, `FlushTarget`: they only forward to the debugger or bridge.
- runcommand, the dbgeng shim and the interface headers.
- `DbgEngServices` and the Target's `GetRuntime`, `DisplayStatus` and `SwitchRuntime` (`dbgengservices.cpp`, `targetimpl.cpp`): not in the sources. Their outcomes are choices in `DbgEngSos`.
- `GetImageBase`'s name conversion (`WideCharToMultiByte`, the extension stripped on dbgeng). It is string handling, and only its answer is modelled.
- The width of `PAL_fseek`'s offset: the PAL's declaration is not in the sources. `FileDataTarget`'s reads use offsets that fit any width.
- Concurrency in the singleton beyond `ExtensionsRace`. That model leaves out `Uninitialize`, `DestroyTarget`, `GetHostServices` and the bridge's callbacks as racing actions. It also leaves out the race inside `Host::GetCurrentTarget` (`m_target` checked and created without a lock). Nested accessor calls are one step. The reference counting itself is checked under concurrency (`ComRefCount`), since `AddRef` and `Release` are interlocked for callers on several threads.
- `InternalWriteTraceVaList` (`extensions.cpp` 334-365): formatting into a buffer. It calls `InternalWriteTrace` once, twice on a format error, or not at all when `malloc` fails. `SosTrace` models the call.
- The `extern "C"` `InitializeHostServices` (`extensions.cpp` 22-27) sets `g_hostingInitialized`, which only the hosting runtime (not in the sources) reads.
- The plug-in's command registration and argument formatting (`sosCommandInitialize`, the `DoExecute` string handling). They have no state the properties tell apart.
