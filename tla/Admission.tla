-------------------------------- MODULE Admission --------------------------------
(***************************************************************************)
(* api/src/websocket/admission.ts: how many WebSocket connections one      *)
(* process lets in, in total, per transport, per IP and per user.  A       *)
(* connection's lease counts for its IP while it is anonymous and for its  *)
(* user once it is authenticated; work holds keep a closed lease counted   *)
(* until the last of the work is over.                                     *)
(*                                                                         *)
(* Everything here is synchronous in the code, so this module has no       *)
(* state of its own: an operation is an operator on the books, a record of *)
(* the counters and the leases, and the caller's step is the action.       *)
(* A definition X_Variant is a faulty X, used to see a property fail.      *)
(***************************************************************************)
EXTENDS Integers

CONSTANTS Conns, Ips, Users,
          Anonymous,   \* no user
          IpOf,        \* the IP of each connection
          TransportLimit, ProcessLimit, IpLimit, UserLimit

ASSUME AdmissionAssumption ==
  /\ Anonymous \notin Users
  /\ IpOf \in [Conns -> Ips]
  /\ {TransportLimit, ProcessLimit, IpLimit, UserLimit} \subseteq Nat \ {0}

\* held: reserved and not yet released.
Lease == [held : BOOLEAN, closed : BOOLEAN, work : Nat, user : Users \cup {Anonymous}]
NoLease == [held |-> FALSE, closed |-> FALSE, work |-> 0, user |-> Anonymous]

Books == [transport : Nat, process : Int, ip : [Ips -> Nat], user : [Users -> Nat],
          lease : [Conns -> Lease]]
EmptyBooks == [transport |-> 0, process |-> 0, ip |-> [i \in Ips |-> 0],
               user |-> [u \in Users |-> 0], lease |-> [c \in Conns |-> NoLease]]

\* decrement never goes below zero: an empty entry is deleted.
Less(n) == IF n <= 1 THEN 0 ELSE n - 1

\* A refusal by any dimension undoes the increments made before it.
Admits(b, c) == /\ b.transport < TransportLimit
                /\ b.process < ProcessLimit
                /\ b.ip[IpOf[c]] < IpLimit

Reserve(b, c) == [b EXCEPT !.transport = @ + 1, !.process = @ + 1, !.ip[IpOf[c]] = @ + 1,
                           !.lease[c] = [NoLease EXCEPT !.held = TRUE]]

Release_ByIp(b, c) ==
  IF b.lease[c].held
  THEN [b EXCEPT !.transport = Less(@), !.process = @ - 1, !.lease[c].held = FALSE,
                 !.ip[IpOf[c]] = Less(@)]
  ELSE b

Release(b, c) ==
  IF b.lease[c].held
  THEN LET common == [b EXCEPT !.transport = Less(@), !.process = @ - 1, !.lease[c].held = FALSE]
           u == b.lease[c].user
       IN IF u # Anonymous
          THEN [common EXCEPT !.user[u] = Less(@)]
          ELSE [common EXCEPT !.ip[IpOf[c]] = Less(@)]
  ELSE b

\* beginWorkHold on a lease that is not closed, and the hold's clear.
Hold(b, c) == [b EXCEPT !.lease[c].work = @ + 1]

Clear(b, c) ==
  LET less == [b EXCEPT !.lease[c].work = @ - 1]
  IN IF less.lease[c].closed /\ less.lease[c].work = 0 THEN Release(less, c) ELSE less

Close_AtOnce(b, c) == Release([b EXCEPT !.lease[c].closed = TRUE], c)
Close(b, c) ==
  IF ~b.lease[c].held THEN b
  ELSE LET closed == [b EXCEPT !.lease[c].closed = TRUE]
       IN IF closed.lease[c].work > 0 THEN closed ELSE Release(closed, c)

\* transitionToUser
CanBeUser_Unlimited(b, c, u) == ~b.lease[c].closed /\ b.lease[c].user \in {u, Anonymous}
CanBeUser(b, c, u) ==
  /\ ~b.lease[c].closed
  /\ \/ b.lease[c].user = u
     \/ b.lease[c].user = Anonymous /\ b.user[u] < UserLimit

ToUser(b, c, u) ==
  IF b.lease[c].user = u THEN b
  ELSE [b EXCEPT !.user[u] = @ + 1, !.ip[IpOf[c]] = Less(@), !.lease[c].user = u]

\* transitionToAnonymous
CanBeAnonymous(b, c) ==
  /\ ~b.lease[c].closed
  /\ b.lease[c].user = Anonymous \/ b.ip[IpOf[c]] < IpLimit

ToAnonymous(b, c) ==
  IF b.lease[c].user = Anonymous THEN b
  ELSE [b EXCEPT !.ip[IpOf[c]] = @ + 1, !.user[b.lease[c].user] = Less(@),
                 !.lease[c].user = Anonymous]
=============================================================================
