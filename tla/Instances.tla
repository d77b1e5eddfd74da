------------------------------- MODULE Instances -------------------------------
(***************************************************************************)
(* What several instances of one database keep in memory, in a shared      *)
(* store or in its tables: the flows they run, the metadata they cache,    *)
(* the sessions of their callers and the administrators among them.  The   *)
(* four have no state in common.                                           *)
(***************************************************************************)
EXTENDS FlowReload, SystemCaches, Sessions, Administration

vars == <<flowVars, cacheVars, sessionVars, adminVars>>

Init == FlowsInit /\ CachesInit /\ SessionsInit /\ AdminInit

FlowStep == FlowsNext /\ UNCHANGED <<cacheVars, sessionVars, adminVars>>
CacheStep == CachesNext /\ UNCHANGED <<flowVars, sessionVars, adminVars>>
SessionStep == SessionsNext /\ UNCHANGED <<flowVars, cacheVars, adminVars>>
RequestStep == AdminNext /\ UNCHANGED <<flowVars, cacheVars, sessionVars>>

Next == FlowStep \/ CacheStep \/ SessionStep \/ RequestStep

Spec == Init /\ [][Next]_vars

\* Types of the flow managers, the caches, the sessions and the administrators.
TypeOK == FlowsTypeOK /\ CachesTypeOK /\ SessionsTypeOK /\ AdminTypeOK
=============================================================================
