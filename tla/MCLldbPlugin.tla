---------------------------- MODULE MCLldbPlugin ----------------------------
(* The plug-in and libsos over one fallback Host (the plug-in resolves its *)
(* host once), its one Target, and three bridge targets.                   *)
EXTENDS LldbPlugin, TLC

CONSTANTS h1, ft1, et1, et2, et3, sym1, sym2, sym3

MC_FallbackHosts == {h1}
MC_FallbackTargets == {ft1}
MC_ExtTargets == {et1, et2, et3}
MC_SymOf == (et1 :> sym1) @@ (et2 :> sym2) @@ (et3 :> sym3)
=============================================================================
