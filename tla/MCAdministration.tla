--------------------------- MODULE MCAdministration ---------------------------
(***************************************************************************)
(* Instances of Administration for TLC.                                    *)
(***************************************************************************)
EXTENDS Administration, TLC

\* Roles and requests are interchangeable.  (Users are not: Init picks one.)
Symmetry == Permutations(Roles) \cup Permutations(Requests)
=============================================================================
