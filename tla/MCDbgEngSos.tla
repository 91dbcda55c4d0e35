----------------------------- MODULE MCDbgEngSos -----------------------------
(* Model-checking instance of DbgEngSos: the DbgEngServices is both the    *)
(* debugger and the output service (OS = DS); one fallback Host and Target *)
(* and three bridge targets.                                               *)
EXTENDS DbgEngSos, TLC

CONSTANTS h1, ft1, et1, et2, et3, sym1, sym2, sym3

MC_FallbackHosts == {h1}
MC_FallbackTargets == {ft1}
MC_ExtTargets == {et1, et2, et3}
MC_SymOf == (et1 :> sym1) @@ (et2 :> sym2) @@ (et3 :> sym3)
=============================================================================
