-------------------------- MODULE MCExtensionsRace --------------------------
(* Two threads on the singleton of MCExtensions.                           *)
EXTENDS ExtensionsRace, TLC

CONSTANTS h1, h2, ft1, ft2, et1, et2, et3, sym1, sym2, sym3, t1, t2

MC_FallbackHosts == {h1, h2}
MC_FallbackTargets == {ft1, ft2}
MC_ExtTargets == {et1, et2, et3}
MC_SymOf == (et1 :> sym1) @@ (et2 :> sym2) @@ (et3 :> sym3)
MC_Threads == {t1, t2}

(* Nothing tells the two threads apart.                                    *)
ThreadSymmetry == Permutations(MC_Threads)
=============================================================================
