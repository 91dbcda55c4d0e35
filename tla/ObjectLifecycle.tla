-------------------------- MODULE ObjectLifecycle --------------------------
(***************************************************************************)
(* What the reference-counted interface-query protocol promises (spec     *)
(* 4.1), stated without reference counts: each thread owns some number of *)
(* references to an object; an owner may take more, hand one to another   *)
(* thread or drop one; an object is destroyed once, and only when nobody   *)
(* owns a reference to it.  A newly created object is owned once by its    *)
(* creator, or not at all for a class whose creator hands it on (n = 0).   *)
(***************************************************************************)
EXTENDS Naturals, Functions

CONSTANTS Threads, Objects

VARIABLES status, owners

(* The number of references all threads together own to o.                *)
Owned(o) == SumFunction(owners[o])

Create(t, o, n) ==
    /\ status[o] = "unborn"
    /\ status' = [status EXCEPT ![o] = "live"]
    /\ owners' = [owners EXCEPT ![o][t] = n]

Acquire(t, o) ==
    /\ status[o] = "live"
    /\ owners' = [owners EXCEPT ![o][t] = @ + 1]
    /\ UNCHANGED status

Drop(t, o) ==
    /\ owners[o][t] > 0
    /\ owners' = [owners EXCEPT ![o][t] = @ - 1]
    /\ UNCHANGED status

Transfer(t, u, o) ==
    /\ owners[o][t] > 0
    /\ owners' = [owners EXCEPT ![o][t] = @ - 1, ![o][u] = @ + 1]
    /\ UNCHANGED status

Destroy(o) ==
    /\ status[o] = "live"
    /\ Owned(o) = 0
    /\ status' = [status EXCEPT ![o] = "deleted"]
    /\ UNCHANGED owners

Init ==
    /\ status = [o \in Objects |-> "unborn"]
    /\ owners = [o \in Objects |-> [t \in Threads |-> 0]]

Next ==
    \/ \E t \in Threads, o \in Objects, n \in {0, 1} : Create(t, o, n)
    \/ \E t \in Threads, o \in Objects : Acquire(t, o) \/ Drop(t, o)
    \/ \E t, u \in Threads, o \in Objects : Transfer(t, u, o)
    \/ \E o \in Objects : Destroy(o)

Spec == Init /\ [][Next]_<<status, owners>>
=============================================================================
