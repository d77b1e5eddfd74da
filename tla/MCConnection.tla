------------------------------ MODULE MCConnection ------------------------------
(***************************************************************************)
(* Instances of Connection for TLC: every connection comes from one IP.    *)
(***************************************************************************)
EXTENDS Connection, TLC

MCIpOf == [c \in Conns |-> CHOOSE i \in Ips : TRUE]

Symmetry == Permutations(Conns)
=============================================================================
