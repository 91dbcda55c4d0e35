-------------------------- MODULE ExtensionContext --------------------------
(***************************************************************************)
(* What the extension context promises (spec 4.2 and the state machine    *)
(* {Unresolved, ExternallyResolved, FallbackResolved} of spec 9), with no  *)
(* references or objects: the context is loaded and unloaded; while it is  *)
(* loaded its host is resolved once, to the external host or to a local    *)
(* one, and never changed; the target is resolved lazily (resolving the    *)
(* host first if need be) and invalidated; the symbol service is created   *)
(* from a resolved target.  Unloading forgets everything, so a later load  *)
(* starts unresolved again.                                                *)
(***************************************************************************)
CONSTANTS
    Null,           \* no host
    ExternalHost,   \* the host the hosting service supplies
    LocalHosts      \* local fallback hosts

VARIABLES
    loaded,         \* the context exists
    chosen,         \* the resolved host, or Null while unresolved
    targetCached,   \* a target is resolved
    symbolCached    \* a symbol service is resolved

vars == <<loaded, chosen, targetCached, symbolCached>>

Hosts == {ExternalHost} \cup LocalHosts

(* The state machine of spec 9, read off the chosen host.                  *)
Phase ==
    IF ~loaded THEN "Absent"
    ELSE IF chosen = Null THEN "Unresolved"
    ELSE IF chosen = ExternalHost THEN "ExternallyResolved"
    ELSE "FallbackResolved"

(* The host after a step that needs one: the chosen one if there is one,  *)
(* otherwise any host (the hosting attempt, then the fallback).            *)
HostResolved ==
    IF chosen = Null THEN chosen' \in Hosts ELSE chosen' = chosen

(* Loading, with the host the loader hands over or none.                   *)
Load(h) ==
    /\ ~loaded
    /\ loaded' = TRUE /\ chosen' = h
    /\ UNCHANGED <<targetCached, symbolCached>>

ResolveHost ==
    /\ loaded /\ chosen = Null
    /\ chosen' \in Hosts
    /\ UNCHANGED <<loaded, targetCached, symbolCached>>

ResolveTarget ==
    /\ loaded /\ ~targetCached
    /\ HostResolved /\ targetCached' = TRUE
    /\ UNCHANGED <<loaded, symbolCached>>

ResolveSymbolService ==
    /\ loaded /\ ~symbolCached
    /\ HostResolved /\ targetCached' = TRUE /\ symbolCached' = TRUE
    /\ UNCHANGED loaded

InvalidateTarget ==
    /\ loaded /\ targetCached
    /\ targetCached' = FALSE
    /\ UNCHANGED <<loaded, chosen, symbolCached>>

Unload ==
    /\ loaded
    /\ loaded' = FALSE /\ chosen' = Null
    /\ targetCached' = FALSE /\ symbolCached' = FALSE

Init ==
    /\ loaded = FALSE /\ chosen = Null
    /\ targetCached = FALSE /\ symbolCached = FALSE

Next ==
    \/ \E h \in {Null} \cup Hosts : Load(h)
    \/ ResolveHost
    \/ ResolveTarget
    \/ ResolveSymbolService
    \/ InvalidateTarget
    \/ Unload

Spec == Init /\ [][Next]_vars
=============================================================================
