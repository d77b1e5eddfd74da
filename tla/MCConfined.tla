------------------------------ MODULE MCConfined ------------------------------
(***************************************************************************)
(* The supervisor for TLC, its gate and one of its sessions.  Four calls,  *)
(* one of them impatient, compete for two slots, so that queueing,         *)
(* hand-over and giving up happen.  The session's child writes one frame   *)
(* more than the budget of host calls and two more than may be in flight.  *)
(***************************************************************************)
EXTENDS ConfinedSlots, ConfinedSession

\* Neither reads what the other keeps: they meet in a session's settlement, which
\* each has.  So the calls come when the session is over, in one of its ways to end.
TimedOut == /\ kind = "run" /\ child = "exited" /\ outcome = "timeout"
            /\ written = [calls |-> 0, done |-> FALSE] /\ pipe = <<>>

MCInit == Init /\ SlotsInit

MCNext == \/ Next /\ SlotsInit /\ UNCHANGED slotVars
          \/ SlotsNext /\ TimedOut /\ UNCHANGED vars

MCSpec == MCInit /\ [][MCNext]_<<vars, slotVars>> /\ Fairness /\ SlotsFairness
=============================================================================
