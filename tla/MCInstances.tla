------------------------------ MODULE MCInstances ------------------------------
(***************************************************************************)
(* Instances of Instances for TLC.                                         *)
(***************************************************************************)
EXTENDS Instances, TLC

Symmetry == {p @@ q : p \in Permutations(Nodes), q \in Permutations(Requests)}

\* Reads of the schema do not touch what reads of permissions or a property of theirs
\* see, nor the reverse: each behaviour reads one kind.  Writers meet at the lock,
\* which is for permissions; where schemas are read they write one after the other.
OneKind == /\ \A m, n \in Nodes : reader[m].kind = reader[n].kind
           /\ (\E n \in Nodes : reader[n].kind = "schema")
                => \A m, n \in Nodes : writer[m].at # "idle" /\ writer[n].at # "idle" => m = n

\* Sessions of two owners meet only where expired ones are purged, as those of one
\* owner do: a user or a share is enough; and one lapse can strike any step.
Owner == CHOOSE u \in Users : TRUE
OneOwner == /\ \A o, p \in Owners : owners[o] # "gone" /\ owners[p] # "gone" => o = p
            /\ \A u \in Users : owners[u] # "gone" => u = Owner
            /\ Cardinality(lapsed) <= 1

\* The parts share no variable and no property speaks of two, so it is enough to
\* explore each while the others have not begun.
NoReads == CachesInit /\ \A n \in Nodes : reader[n].kind = "schema"
NoSessions == SessionsInit /\ \A o \in Owners : owners[o] = "gone"
NoAdmins == /\ roles = [k \in Roles |-> "admin"]
            /\ users = [u \in Users |-> [role |-> NoRole, status |-> "active"]]
            /\ \A r \in Requests : stage[r] = "idle"
MCInit == /\ Init /\ OneKind /\ OneOwner
          /\ \/ NoReads /\ (NoSessions \/ NoAdmins)
             \/ NoSessions /\ NoAdmins

FlowPart == NoReads /\ NoSessions /\ NoAdmins /\ FlowStep
CachePart == FlowsInit /\ NoSessions /\ NoAdmins /\ CacheStep /\ OneKind'
SessionPart == FlowsInit /\ NoReads /\ NoAdmins /\ SessionStep /\ OneOwner'
RequestPart == FlowsInit /\ NoReads /\ NoSessions /\ RequestStep

MCSpec == MCInit /\ [][FlowPart \/ CachePart \/ SessionPart \/ RequestPart]_vars
=============================================================================
