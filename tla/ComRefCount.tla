---------------------------- MODULE ComRefCount ----------------------------
(***************************************************************************)
(* The reference counting and QueryInterface of the SOS COM objects, with  *)
(* several threads (spec 5: counts on shared adapter objects are changed   *)
(* from the command thread and from host callbacks or background work on   *)
(* other threads).  Classes:                                               *)
(*   DataTarget          fallback/datatarget.cpp      m_ref(0)             *)
(*   CorDebugDataTarget  fallback/cordebugdatatarget.h m_ref(1)            *)
(*   FileDataTarget      shared/dbgutil/filedatatarget.h m_ref(1), a FILE* *)
(*   Host                fallback/hostimpl.cpp        m_ref(1)             *)
(* AddRef and the decrement in Release are InterlockedIncrement and        *)
(* InterlockedDecrement, atomic steps.  Release then tests the value the   *)
(* decrement returned and runs `delete this` on zero: that test is a       *)
(* second step, and other threads may run in between.                      *)
(*                                                                         *)
(* The threads' use of the objects is the callers' discipline (outside    *)
(* these files): a thread calls an object through a reference it owns, or  *)
(* through the uncounted pointer `new` returned for a class that starts at *)
(* m_ref(0), which it must AddRef or QueryInterface first.                 *)
(***************************************************************************)
EXTENDS Naturals, Functions

CONSTANTS
    Threads,     \* threads calling into the objects
    Objects,     \* object identities
    ClassOf,     \* Objects -> class name
    IIDs,        \* interface ids callers ask for
    MaxRefs      \* bound on the references one thread owns to one object

ASSUME MaxRefs \in Nat \ {0}

VARIABLES
    m_ref,      \* the objects' m_ref
    status,     \* "unborn", "live" (constructed), "deleted"
    deletes,    \* how many times `delete this` ran on the object
    held,       \* held[t][o]: references thread t owns to o
    raw,        \* raw[t]: objects t has an uncounted pointer to (from new)
    pc,         \* pc[t]: Idle, or inside Release after the decrement
    file        \* FileDataTarget::m_file: "none" (NULL), "open", "closed"

vars == <<m_ref, status, deletes, held, raw, pc, file>>

Idle == [obj |-> "none", ref |-> 0]

-----------------------------------------------------------------------------
(* Constructors: the initial m_ref of each class.                          *)
DataTargetInitialRef == 0
CorDebugDataTargetInitialRef == 1
FileDataTargetInitialRef == 1
HostInitialRef == 1

(* The interfaces each class's QueryInterface accepts.                     *)
DataTargetIIDs ==
    {"IUnknown", "ICLRDataTarget", "ICLRDataTarget2", "ICorDebugDataTarget4",
     "ICLRRuntimeLocator"}
CorDebugDataTargetIIDs ==
    {"IUnknown", "ICorDebugDataTarget", "ICorDebugMutableDataTarget",
     "ICorDebugDataTarget4"}
FileDataTargetIIDs == {"IUnknown", "ICorDebugDataTarget"}
HostIIDs == {"IUnknown", "IHost"}

InitialRef(cls) ==
    [DataTarget |-> DataTargetInitialRef,
     CorDebugDataTarget |-> CorDebugDataTargetInitialRef,
     FileDataTarget |-> FileDataTargetInitialRef,
     Host |-> HostInitialRef][cls]

Interfaces(cls) ==
    [DataTarget |-> DataTargetIIDs, CorDebugDataTarget |-> CorDebugDataTargetIIDs,
     FileDataTarget |-> FileDataTargetIIDs, Host |-> HostIIDs][cls]

(* FileDataTarget's constructor: _wfopen succeeds or returns NULL.         *)
FileAfterCtor(o) ==
    IF ClassOf[o] = "FileDataTarget" THEN {"open", "none"} ELSE {"none"}

(* The destructor: ~FileDataTarget closes m_file when it is not NULL; the  *)
(* other destructors hold no resource modelled here.                       *)
FileAfterDtor(o) == IF file[o] = "open" THEN "closed" ELSE file[o]

(* Thread t may call o: it owns a reference or has new's pointer.          *)
Reachable(t, o) == held[t][o] > 0 \/ o \in raw[t]

-----------------------------------------------------------------------------
(* `new` whose creator takes the object as owned whatever its m_ref.      *)
NewOwnsAlways(t, o) ==
    /\ pc[t] = Idle /\ status[o] = "unborn"
    /\ status' = [status EXCEPT ![o] = "live"]
    /\ m_ref' = [m_ref EXCEPT ![o] = InitialRef(ClassOf[o])]
    /\ held' = [held EXCEPT ![t][o] = 1]
    /\ \E f \in FileAfterCtor(o) : file' = [file EXCEPT ![o] = f]
    /\ UNCHANGED <<deletes, pc, raw>>

(* `new C(...)` by thread t.                                               *)
New(t, o) ==
    /\ pc[t] = Idle /\ status[o] = "unborn"
    /\ status' = [status EXCEPT ![o] = "live"]
    /\ m_ref' = [m_ref EXCEPT ![o] = InitialRef(ClassOf[o])]
    /\ IF InitialRef(ClassOf[o]) = 1
       THEN held' = [held EXCEPT ![t][o] = 1] /\ UNCHANGED raw
       ELSE raw' = [raw EXCEPT ![t] = @ \cup {o}] /\ UNCHANGED held
    /\ \E f \in FileAfterCtor(o) : file' = [file EXCEPT ![o] = f]
    /\ UNCHANGED <<deletes, pc>>

(* QueryInterface that adds the reference before testing the interface.   *)
QueryInterfaceAddRefAlways(t, o, iid) ==
    /\ pc[t] = Idle /\ Reachable(t, o) /\ held[t][o] < MaxRefs
    /\ m_ref' = [m_ref EXCEPT ![o] = @ + 1]
    /\ IF iid \in Interfaces(ClassOf[o])
       THEN held' = [held EXCEPT ![t][o] = @ + 1] /\ raw' = [raw EXCEPT ![t] = @ \ {o}]
       ELSE UNCHANGED <<held, raw>>
    /\ UNCHANGED <<status, deletes, pc, file>>

(* QueryInterface with one branch of DataTarget's if-chain missing its   *)
(* AddRef.                                                                 *)
QueryInterfaceBranchNoAddRef(t, o, iid) ==
    /\ pc[t] = Idle /\ Reachable(t, o) /\ held[t][o] < MaxRefs
    /\ IF iid \in Interfaces(ClassOf[o])
       THEN /\ m_ref' = [m_ref EXCEPT ![o] =
                 IF ClassOf[o] = "DataTarget" /\ iid = "ICLRDataTarget" THEN @ ELSE @ + 1]
            /\ held' = [held EXCEPT ![t][o] = @ + 1]
            /\ raw' = [raw EXCEPT ![t] = @ \ {o}]
       ELSE UNCHANGED <<m_ref, held, raw>>
    /\ UNCHANGED <<status, deletes, pc, file>>

(* QueryInterface: an accepted interface adds a reference for the caller; *)
(* any other returns E_NOINTERFACE and changes nothing.                    *)
QueryInterface(t, o, iid) ==
    /\ pc[t] = Idle /\ Reachable(t, o) /\ held[t][o] < MaxRefs
    /\ IF iid \in Interfaces(ClassOf[o])
       THEN /\ m_ref' = [m_ref EXCEPT ![o] = @ + 1]
            /\ held' = [held EXCEPT ![t][o] = @ + 1]
            /\ raw' = [raw EXCEPT ![t] = @ \ {o}]
       ELSE UNCHANGED <<m_ref, held, raw>>
    /\ UNCHANGED <<status, deletes, pc, file>>

(* AddRef: InterlockedIncrement(&m_ref).                                   *)
AddRef(t, o) ==
    /\ pc[t] = Idle /\ Reachable(t, o) /\ held[t][o] < MaxRefs
    /\ m_ref' = [m_ref EXCEPT ![o] = @ + 1]
    /\ held' = [held EXCEPT ![t][o] = @ + 1]
    /\ raw' = [raw EXCEPT ![t] = @ \ {o}]
    /\ UNCHANGED <<status, deletes, pc, file>>

(* Release whose first step keeps the count read before the decrement.    *)
ReleaseDecrementOldValue(t, o) ==
    /\ pc[t] = Idle /\ held[t][o] > 0
    /\ m_ref' = [m_ref EXCEPT ![o] = @ - 1]
    /\ held' = [held EXCEPT ![t][o] = @ - 1]
    /\ pc' = [pc EXCEPT ![t] = [obj |-> o, ref |-> m_ref[o]]]
    /\ UNCHANGED <<status, deletes, raw, file>>

(* Release, first step: LONG ref = InterlockedDecrement(&m_ref).  The     *)
(* caller gives up its reference here.                                     *)
ReleaseDecrement(t, o) ==
    /\ pc[t] = Idle /\ held[t][o] > 0
    /\ m_ref' = [m_ref EXCEPT ![o] = @ - 1]
    /\ held' = [held EXCEPT ![t][o] = @ - 1]
    /\ pc' = [pc EXCEPT ![t] = [obj |-> o, ref |-> m_ref[o] - 1]]
    /\ UNCHANGED <<status, deletes, raw, file>>

(* Release, second step, testing m_ref itself instead of the value the    *)
(* decrement returned.                                                     *)
ReleaseTestRereadsCount(t) ==
    /\ pc[t] # Idle
    /\ LET o == pc[t].obj IN
       IF m_ref[o] = 0
       THEN /\ status' = [status EXCEPT ![o] = "deleted"]
            /\ deletes' = [deletes EXCEPT ![o] = @ + 1]
            /\ file' = [file EXCEPT ![o] = FileAfterDtor(o)]
       ELSE UNCHANGED <<status, deletes, file>>
    /\ pc' = [pc EXCEPT ![t] = Idle]
    /\ UNCHANGED <<m_ref, held, raw>>

(* Release, second step: if (ref == 0) delete this; return ref.           *)
ReleaseTest(t) ==
    /\ pc[t] # Idle
    /\ LET o == pc[t].obj IN
       IF pc[t].ref = 0
       THEN /\ status' = [status EXCEPT ![o] = "deleted"]
            /\ deletes' = [deletes EXCEPT ![o] = @ + 1]
            /\ file' = [file EXCEPT ![o] = FileAfterDtor(o)]
       ELSE UNCHANGED <<status, deletes, file>>
    /\ pc' = [pc EXCEPT ![t] = Idle]
    /\ UNCHANGED <<m_ref, held, raw>>

(* A thread passes one of its references to another thread (an interface  *)
(* pointer handed to a callback or a worker); the count does not change.   *)
Handoff(t, u, o) ==
    /\ t # u /\ pc[t] = Idle /\ held[t][o] > 0 /\ held[u][o] < MaxRefs
    /\ held' = [held EXCEPT ![t][o] = @ - 1, ![u][o] = @ + 1]
    /\ UNCHANGED <<m_ref, status, deletes, raw, pc, file>>

Init ==
    /\ m_ref = [o \in Objects |-> 0]
    /\ status = [o \in Objects |-> "unborn"]
    /\ deletes = [o \in Objects |-> 0]
    /\ held = [t \in Threads |-> [o \in Objects |-> 0]]
    /\ raw = [t \in Threads |-> {}]
    /\ pc = [t \in Threads |-> Idle]
    /\ file = [o \in Objects |-> "none"]

Next ==
    \/ \E t \in Threads, o \in Objects : New(t, o)
    \/ \E t \in Threads, o \in Objects, iid \in IIDs : QueryInterface(t, o, iid)
    \/ \E t \in Threads, o \in Objects : AddRef(t, o) \/ ReleaseDecrement(t, o)
    \/ \E t \in Threads : ReleaseTest(t)
    \/ \E t, u \in Threads, o \in Objects : Handoff(t, u, o)

Spec == Init /\ [][Next]_vars

(* A thread that has decremented a count goes on to test it: the rest of  *)
(* Release is straight-line code with no wait, so a thread scheduled by   *)
(* the system completes it.  Nothing obliges a caller to make any other   *)
(* call, so no other step is fair.                                         *)
Fairness == \A t \in Threads : WF_vars(ReleaseTest(t))

FairSpec == Spec /\ Fairness

-----------------------------------------------------------------------------
TypeOK ==
    /\ m_ref \in [Objects -> Nat]
    /\ status \in [Objects -> {"unborn", "live", "deleted"}]
    /\ deletes \in [Objects -> Nat]
    /\ held \in [Threads -> [Objects -> 0 .. MaxRefs]]
    /\ raw \in [Threads -> SUBSET Objects]
    /\ pc \in [Threads -> {Idle} \cup [obj : Objects, ref : Int]]
    /\ file \in [Objects -> {"none", "open", "closed"}]

(* The references to o that threads own.                                   *)
Owned(o) == SumFunction([t \in Threads |-> held[t][o]])

(* Whatever the interleaving of AddRef, QueryInterface (accepted or        *)
(* refused) and the two steps of Release on several threads, a live        *)
(* object's m_ref is the number of references the threads own.            *)
RefCountMatchesHolders ==
    \A o \in Objects : status[o] = "live" => m_ref[o] = Owned(o)

(* Whichever thread's Release observes zero, and however the two steps   *)
(* of concurrent Releases interleave, `delete this` runs at most once on   *)
(* an object.                                                              *)
DestroyedOnce == \A o \in Objects : deletes[o] <= 1

(* The counting implements the abstract lifecycle: with the owners being  *)
(* the references each thread holds, every step is a creation, an         *)
(* acquisition, a drop, a hand-off or the one destruction of an object    *)
(* nobody owns.                                                            *)
Lifecycle == INSTANCE ObjectLifecycle
    WITH owners <- [o \in Objects |-> [t \in Threads |-> held[t][o]]]

LifecycleSpec == Lifecycle!Spec

(* An object no thread can reach any more (no owned reference, no pointer *)
(* from new) is eventually deleted: the Release that gave up the last      *)
(* reference, whichever thread made it and whatever ran between its two    *)
(* steps, observes zero and runs `delete this`.  Nothing leaks.             *)
UnreachableObjectsDeleted ==
    \A o \in Objects :
        (status[o] = "live" /\ \A t \in Threads : ~Reachable(t, o))
            ~> status[o] = "deleted"
=============================================================================
