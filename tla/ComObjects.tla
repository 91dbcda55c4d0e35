----------------------------- MODULE ComObjects -----------------------------
(***************************************************************************)
(* The COM-style reference counting shared by every object of the SOS      *)
(* extension layer (Host, Target, DataTarget, CorDebugDataTarget,          *)
(* FileDataTarget).  An object is a model value; its state lives in a      *)
(* record s with fields                                                    *)
(*   ref   : object -> reference count (m_ref)                             *)
(*   live  : objects constructed and not yet deleted                       *)
(*   freed : objects deleted by a Release that observed zero               *)
(* Operators here are pure functions from such a record to the next one,   *)
(* so that a whole C++ call, with the calls it makes, is one TLA+ action.  *)
(***************************************************************************)
EXTENDS Integers, Sequences, FiniteSets

CONSTANT Null    \* nullptr

(* AddRef: InterlockedIncrement(&m_ref).  A call through a null pointer    *)
(* is not made by the code (every call site tests for nullptr first).      *)
AddRef(s, o) ==
    IF o = Null THEN s ELSE [s EXCEPT !.ref[o] = @ + 1]

(* `new C(...)` of a class whose constructor sets m_ref to init.           *)
Construct(s, o, init) ==
    [s EXCEPT !.live = @ \cup {o}, !.ref[o] = init]

(* Identities not yet used for an object of the pool P.                    *)
Unused(s, P) == P \ (s.live \cup s.freed)

(* The identity the next `new` of pool P gets (all identities of a pool    *)
(* are interchangeable, so the choice is immaterial).                      *)
NextId(s, P) == CHOOSE o \in Unused(s, P) : TRUE

(* `delete this`: the object leaves the live set for good.                 *)
Delete(s, o) ==
    [s EXCEPT !.live = @ \ {o}, !.freed = @ \cup {o}]
=============================================================================
