------------------------ MODULE MCSubscriptionDispatch ------------------------
(***************************************************************************)
(* Instances of SubscriptionDispatch for TLC.                              *)
(***************************************************************************)
EXTENDS SubscriptionDispatch, TLC
=============================================================================
