---------------------------- MODULE MCExtensions ----------------------------
(* Model-checking instance of Extensions: the lldb plug-in configuration,  *)
(* where g_services is both the debugger and the output service.           *)
EXTENDS Extensions, TLC

CONSTANTS h1, h2, ft1, ft2, et1, et2, et3, sym1, sym2, sym3

MC_FallbackHosts == {h1, h2}
MC_FallbackTargets == {ft1, ft2}
MC_ExtTargets == {et1, et2, et3}
MC_SymOf == (et1 :> sym1) @@ (et2 :> sym2) @@ (et3 :> sym3)
=============================================================================
