---------------------------- MODULE MCRealtimeClient ----------------------------
(***************************************************************************)
(* Instances of RealtimeClient for TLC.                                    *)
(***************************************************************************)
EXTENDS RealtimeClient

CONSTANTS s1, s2

\* Re-authentication and subscriptions meet only where both are given up, which every
\* way to end subscriptions does: a behaviour has one or the other.  Nothing is claimed
\* once a close has overwritten a younger attempt; and subscriptions are alike, so s1
\* comes first.
OneConcern ==
  /\ ~clobbered
  /\ calls[s2].at # "none" => calls[s1].at # "none"
  /\ \/ token = 1 /\ reauth = {} /\ resent = Never /\ retried = 0
     \/ \A s \in Subs : calls[s].at = "none"
=============================================================================
