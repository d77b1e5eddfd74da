-------------------------- MODULE MCGraphQLOperations --------------------------
(***************************************************************************)
(* Instances of GraphQLOperations for TLC.                                 *)
(***************************************************************************)
EXTENDS GraphQLOperations, TLC
=============================================================================
