----------------------------- MODULE ConnectionProofs -----------------------------
(***************************************************************************)
(* Theorems about Connection, for any connections, users, IPs and limits:  *)
(* types, exact admission that lasts as long as the work and keeps to the  *)
(* documented limits, a quiet end, and the rules of identity.              *)
(*                                                                         *)
(* A turn's operators take and return s = [x |-> connection, b |-> books], *)
(* so each has a lemma: what a turn had built up before it (Mid), it still *)
(* has after it, or the turn may end there (Settled).                      *)
(***************************************************************************)
EXTENDS Connection, FiniteSetTheorems, TLAPS

-----------------------------------------------------------------------------
\* The inductive invariant.

\* A reading that is under way holds the connection's place; a granted one does not.
Reads(r) == r.at \in {"reval", "perms"}

\* The work holds of a connection but for those of its current frame, and these.
OtherHolds(x) == (IF x.lookup = "none" THEN 0 ELSE 1) + (IF Reads(x.refresh) THEN 1 ELSE 0)
                 + (IF Reads(x.snap) THEN 1 ELSE 0) + (IF x.finalHold THEN 1 ELSE 0)
FrameHolds(x) == IF x.drain = "idle" THEN 0 ELSE IF x.drain = "greet" THEN 2 ELSE 1

\* A lease that was reserved is held until it is closed and its work is over.
Reserved(l) == l.held <=> ~l.closed \/ l.work > 0

\* A connection that has no socket yet.
Socketless(x) == /\ ~x.started /\ ~x.stopping /\ ~x.finalHold
                 /\ x.drain = "idle" /\ x.refresh = NoReading /\ x.snap = NoReading

\* A reading that is not stale is one of the identity in use.
Current(r, x, l) == Reads(r) /\ ~r.stale => /\ r.as = x.user /\ ~l.closed
                                            /\ r.at = "reval" => x.static
                                            /\ r.at = "perms" => r.ok

\* A connection and its lease, in a turn that has k holds for its frame.
HoldsMatch(x, l, k) == l.work = k + OtherHolds(x) /\ l.user = x.user

PhaseInv(x, l) ==
  /\ x.phase \in {"new", "limits"} => l = NoLease /\ [x EXCEPT !.phase = "new"] = NewConnection
  /\ x.phase \in {"lookup", "schema"} => Reserved(l) /\ ~l.closed /\ Socketless(x)
  /\ x.phase = "schema" => x.lookup = "none"
  /\ x.phase = "client" => Reserved(l) /\ (l.closed <=> x.stopping) /\ (x.finalHold <=> x.stopping)
  /\ x.phase = "gone" => ~x.finalHold /\ (l = NoLease \/ (Reserved(l) /\ l.closed))
  /\ x.open \/ x.expiryTimer \/ x.handshakeTimer => x.phase = "client" /\ ~x.stopping

IdentityInv(x, l) ==
  /\ l.closed => x.lookup # "live"
  /\ Current(x.refresh, x, l) /\ Current(x.snap, x, l)
  /\ x.static => x.exp = "never"
  /\ x.user \in {Anonymous, x.pin}
  /\ mode # "public" /\ (x.started \/ x.phase = "schema") => x.user # Anonymous

Core(x, l, k) == HoldsMatch(x, l, k) /\ PhaseInv(x, l) /\ IdentityInv(x, l)

\* What the current frame awaits.
FrameInv(x) ==
  /\ x.lookup = "live" => x.phase = "lookup" \/ x.drain = "auth"
  /\ Reads(x.refresh) => x.drain = "refresh"
  /\ x.drain \in {"prepare", "refresh", "handler"} => x.started
  /\ x.drain = "greet" => ~x.started /\ (mode # "public" => x.user # Anonymous)
  /\ x.drain # "idle" => x.phase = "client" \/ (x.phase = "gone" /\ x.stopping)

TimerInv(x) == x.phase = "client" /\ x.started /\ x.open => (x.expiryTimer <=> x.exp # "never")

\* The books, with the limits they keep to.
HeldIn(b) == {c \in Conns : b.lease[c].held}
HeldBy(b, u) == {c \in HeldIn(b) : b.lease[c].user = u}
HeldAt(b, i) == {c \in HeldBy(b, Anonymous) : IpOf[c] = i}

BooksInv(b) ==
  /\ b \in Books /\ IsFiniteSet(HeldIn(b))
  /\ b.process = Cardinality(HeldIn(b)) /\ b.transport = b.process /\ b.process <= ProcessLimit
  /\ \A i \in Ips : b.ip[i] = Cardinality(HeldAt(b, i)) /\ b.ip[i] <= IpLimit
  /\ \A u \in Users : b.user[u] = Cardinality(HeldBy(b, u)) /\ b.user[u] <= UserLimit

ShutdownInv ==
  /\ shutdown = "upgrades" => InUpgrade \subseteq awaited
  /\ shutdown \in {"clients", "drains", "lookups", "closed"} => InUpgrade = {}
  /\ shutdown \in {"drains", "lookups", "closed"} => Clients = {}
  /\ shutdown = "drains" => InDrain \subseteq awaited
  /\ shutdown \in {"lookups", "closed"} => InDrain = {}
  /\ shutdown = "lookups" => InLookup \subseteq awaited
  /\ shutdown = "closed" => InLookup = {}

Local(x, l) == Core(x, l, FrameHolds(x)) /\ FrameInv(x) /\ TimerInv(x)

ConnectionInv == /\ TypeOK /\ BooksInv(books) /\ ShutdownInv
                 /\ \A c \in Conns : Local(conn[c], books.lease[c])

-----------------------------------------------------------------------------
\* The books: what each operation of module Admission does to one lease, and
\* that the counters stay exact.

LEMMA Limits == /\ ProcessLimit \in Nat /\ IpLimit \in Nat /\ UserLimit \in Nat /\ TransportLimit \in Nat
                /\ Anonymous \notin Users
BY AdmissionAssumption

LEMMA BooksTypes ==
  ASSUME NEW b, BooksInv(b), NEW c \in Conns
  PROVE  /\ b.lease[c] \in Lease /\ b.lease \in [Conns -> Lease]
         /\ b.transport \in Nat /\ b.process \in Int
         /\ b.ip \in [Ips -> Nat] /\ b.user \in [Users -> Nat] /\ IpOf[c] \in Ips
         /\ b = [transport |-> b.transport, process |-> b.process, ip |-> b.ip, user |-> b.user, lease |-> b.lease]
BY AdmissionAssumption DEF BooksInv, Books

\* Two leases that differ at most in being held.
Alike(m, l) == m \in Lease /\ m.user = l.user /\ m.work = l.work /\ (m.closed <=> l.closed)

\* What an operation on the lease of c leaves alone.
SameElsewhere(b, d, c) == \A e \in Conns \ {c} : d.lease[e] = b.lease[e]

\* A change of the lease that keeps what the counters are about.
LEMMA TouchBooks ==
  ASSUME NEW b, BooksInv(b), NEW c \in Conns, NEW l \in Lease,
         l.held <=> b.lease[c].held, l.user = b.lease[c].user,
         NEW d \in Books, d.transport = b.transport, d.process = b.process, d.ip = b.ip, d.user = b.user,
         SameElsewhere(b, d, c), d.lease[c] = l
  PROVE  BooksInv(d)
<1>3. HeldIn(d) = HeldIn(b) /\ \A e \in Conns : d.lease[e].user = b.lease[e].user
  BY DEF HeldIn, SameElsewhere
<1>4. \A u : HeldBy(d, u) = HeldBy(b, u)
  BY <1>3 DEF HeldBy, HeldIn
<1>5. \A i : HeldAt(d, i) = HeldAt(b, i)
  BY <1>4 DEF HeldAt
<1> QED BY <1>3, <1>4, <1>5 DEF BooksInv

\* The books with another lease for c.
WithLease(b, c, l) == [b EXCEPT !.lease[c] = l]

LEMMA OtherLease ==
  ASSUME NEW b, BooksInv(b), NEW c \in Conns, NEW l \in Lease, l.held <=> b.lease[c].held, l.user = b.lease[c].user
  PROVE  BooksInv(WithLease(b, c, l)) /\ SameElsewhere(b, WithLease(b, c, l), c) /\ WithLease(b, c, l).lease[c] = l
<1>1. PICK d : d = WithLease(b, c, l)
  OBVIOUS
<1>2. /\ d.transport = b.transport /\ d.process = b.process /\ d.ip = b.ip /\ d.user = b.user
      /\ d.lease = [b.lease EXCEPT ![c] = l] /\ d \in Books
  BY <1>1, BooksTypes DEF WithLease, Books
<1>3. SameElsewhere(b, d, c) /\ d.lease[c] = l
  BY <1>2, BooksTypes DEF SameElsewhere
<1>4. BooksInv(d)
  BY <1>2, <1>3, TouchBooks
<1> QED BY <1>1, <1>3, <1>4

\* One counter of a family moves with the set it counts.
LEMMA CountMore ==
  ASSUME NEW S, IsFiniteSet(S), NEW e, e \notin S
  PROVE  IsFiniteSet(S \cup {e}) /\ Cardinality(S \cup {e}) = Cardinality(S) + 1 /\ Cardinality(S) \in Nat
BY FS_AddElement, FS_CardinalityType

LEMMA CountLess ==
  ASSUME NEW S, IsFiniteSet(S), NEW e \in S
  PROVE  /\ IsFiniteSet(S \ {e}) /\ Cardinality(S \ {e}) = Cardinality(S) - 1
         /\ Less(Cardinality(S)) = Cardinality(S) - 1 /\ Cardinality(S) \in Nat /\ Cardinality(S) >= 1
<1>1. IsFiniteSet(S \ {e}) /\ Cardinality(S \ {e}) = Cardinality(S) - 1 /\ Cardinality(S) \in Nat
  BY FS_RemoveElement, FS_CardinalityType
<1>2. Cardinality(S \ {e}) \in Nat
  BY <1>1, FS_CardinalityType
<1>3. Cardinality(S) >= 1
  BY <1>1, <1>2
<1> QED BY <1>1, <1>3 DEF Less

LEMMA HeldFinite ==
  ASSUME NEW b, BooksInv(b), NEW u, NEW i
  PROVE  IsFiniteSet(HeldIn(b)) /\ IsFiniteSet(HeldBy(b, u)) /\ IsFiniteSet(HeldAt(b, i))
<1>1. HeldBy(b, u) \subseteq HeldIn(b) /\ HeldAt(b, i) \subseteq HeldIn(b)
  BY DEF HeldBy, HeldAt
<1> QED BY <1>1, FS_Subset DEF BooksInv

LEMMA ReserveBooks ==
  ASSUME NEW b, BooksInv(b), NEW c \in Conns, Admits(b, c), b.lease[c] = NoLease
  PROVE  /\ BooksInv(Reserve(b, c)) /\ SameElsewhere(b, Reserve(b, c), c)
         /\ Reserve(b, c).lease[c].held /\ ~Reserve(b, c).lease[c].closed
         /\ Reserve(b, c).lease[c].work = 0 /\ Reserve(b, c).lease[c].user = Anonymous
<1>a. /\ b.lease[c] \in Lease /\ b.lease \in [Conns -> Lease]
      /\ b.transport \in Nat /\ b.process \in Int
      /\ b.ip \in [Ips -> Nat] /\ b.user \in [Users -> Nat] /\ IpOf[c] \in Ips
      /\ b = [transport |-> b.transport, process |-> b.process, ip |-> b.ip, user |-> b.user, lease |-> b.lease]
  BY BooksTypes
<1>1. PICK d : d = Reserve(b, c)
  OBVIOUS
<1>2. /\ d.transport = b.transport + 1 /\ d.process = b.process + 1 /\ d.user = b.user
      /\ d.ip = [b.ip EXCEPT ![IpOf[c]] = @ + 1]
      /\ d.lease = [b.lease EXCEPT ![c] = [NoLease EXCEPT !.held = TRUE]]
      /\ d = [transport |-> d.transport, process |-> d.process, ip |-> d.ip, user |-> d.user, lease |-> d.lease]
  BY <1>1, <1>a DEF Reserve
<1>b. [NoLease EXCEPT !.held = TRUE] \in Lease
  BY DEF NoLease, Lease
<1>c. d \in Books
  <2>1. d.transport \in Nat /\ d.process \in Int /\ d.user \in [Users -> Nat] /\ d.lease \in [Conns -> Lease]
    BY <1>2, <1>a, <1>b
  <2>2. d.ip \in [Ips -> Nat]
    BY <1>2, <1>a
  <2> QED BY <1>2, <2>1, <2>2 DEF Books
<1>3. /\ \A e \in Conns \ {c} : d.lease[e] = b.lease[e]
      /\ ~b.lease[c].held /\ d.lease[c].held /\ d.lease[c].user = Anonymous
  BY <1>2, <1>a DEF NoLease
<1>4. /\ HeldIn(d) = HeldIn(b) \cup {c} /\ c \notin HeldIn(b)
      /\ \A u \in Users : HeldBy(d, u) = HeldBy(b, u)
      /\ HeldBy(d, Anonymous) = HeldBy(b, Anonymous) \cup {c}
  BY <1>3, Limits DEF HeldIn, HeldBy
<1>5. /\ \A i \in Ips \ {IpOf[c]} : HeldAt(d, i) = HeldAt(b, i)
      /\ HeldAt(d, IpOf[c]) = HeldAt(b, IpOf[c]) \cup {c} /\ c \notin HeldAt(b, IpOf[c])
  BY <1>4 DEF HeldAt, HeldBy
<1>6. /\ IsFiniteSet(HeldIn(d)) /\ Cardinality(HeldIn(d)) = Cardinality(HeldIn(b)) + 1
      /\ Cardinality(HeldAt(d, IpOf[c])) = Cardinality(HeldAt(b, IpOf[c])) + 1
  BY <1>4, <1>5, HeldFinite, CountMore
<1>7. /\ d.process = Cardinality(HeldIn(d)) /\ d.transport = d.process /\ d.process <= ProcessLimit
  BY <1>2, <1>6, <1>a, Limits DEF BooksInv, Admits
<1>8. ASSUME NEW i \in Ips PROVE d.ip[i] = Cardinality(HeldAt(d, i)) /\ d.ip[i] <= IpLimit
  <2>1. b.ip[i] = Cardinality(HeldAt(b, i)) /\ b.ip[i] <= IpLimit /\ b.ip[i] \in Nat
    BY <1>a DEF BooksInv
  <2>2. i = IpOf[c] => d.ip[i] = b.ip[i] + 1 /\ b.ip[i] < IpLimit
    BY <1>2, <1>a DEF Admits
  <2>3. i # IpOf[c] => d.ip[i] = b.ip[i]
    BY <1>2, <1>a
  <2>4. CASE i = IpOf[c]
    BY <1>6, <2>1, <2>2, <2>4, Limits
  <2>5. CASE i # IpOf[c]
    BY <1>5, <2>1, <2>3, <2>5
  <2> QED BY <2>4, <2>5
<1>9. \A u \in Users : d.user[u] = Cardinality(HeldBy(d, u)) /\ d.user[u] <= UserLimit
  BY <1>2, <1>4 DEF BooksInv
<1>10. BooksInv(d)
  BY <1>c, <1>6, <1>7, <1>8, <1>9 DEF BooksInv
<1>11. d.lease[c].held /\ ~d.lease[c].closed /\ d.lease[c].work = 0 /\ d.lease[c].user = Anonymous
  <2>1. d.lease[c] = [NoLease EXCEPT !.held = TRUE]
    BY <1>2, <1>a
  <2> QED BY <2>1 DEF NoLease
<1> QED BY <1>1, <1>3, <1>10, <1>11 DEF SameElsewhere

LEMMA ReleaseBooks ==
  ASSUME NEW b, BooksInv(b), NEW c \in Conns, b.lease[c].held
  PROVE  /\ BooksInv(Release(b, c)) /\ SameElsewhere(b, Release(b, c), c)
         /\ Alike(Release(b, c).lease[c], b.lease[c]) /\ ~Release(b, c).lease[c].held
<1>a. /\ b.lease[c] \in Lease /\ b.lease \in [Conns -> Lease]
      /\ b.transport \in Nat /\ b.process \in Int
      /\ b.ip \in [Ips -> Nat] /\ b.user \in [Users -> Nat] /\ IpOf[c] \in Ips
      /\ b = [transport |-> b.transport, process |-> b.process, ip |-> b.ip, user |-> b.user, lease |-> b.lease]
  BY BooksTypes
<1>1. PICK d : d = Release(b, c)
  OBVIOUS
<1>2. PICK u : u = b.lease[c].user
  OBVIOUS
<1>3. u \in Users \cup {Anonymous} /\ b.lease[c] \in Lease
  BY <1>2, <1>a DEF Lease
<1>4. /\ d.transport = Less(b.transport) /\ d.process = b.process - 1
      /\ d.lease = [b.lease EXCEPT ![c].held = FALSE]
      /\ u # Anonymous => d.user = [b.user EXCEPT ![u] = Less(@)] /\ d.ip = b.ip
      /\ u = Anonymous => d.ip = [b.ip EXCEPT ![IpOf[c]] = Less(@)] /\ d.user = b.user
      /\ d = [transport |-> d.transport, process |-> d.process, ip |-> d.ip, user |-> d.user, lease |-> d.lease]
  <2>1. CASE u = Anonymous
    BY <1>1, <1>2, <2>1, <1>a DEF Release
  <2>2. CASE u # Anonymous
    BY <1>1, <1>2, <2>2, <1>a DEF Release
  <2> QED BY <2>1, <2>2
<1>5. /\ \A e \in Conns \ {c} : d.lease[e] = b.lease[e]
      /\ ~d.lease[c].held /\ d.lease[c].user = u /\ d.lease \in [Conns -> Lease]
  <2>1. [b.lease[c] EXCEPT !.held = FALSE] \in Lease /\ ~[b.lease[c] EXCEPT !.held = FALSE].held
        /\ [b.lease[c] EXCEPT !.held = FALSE].user = u
    BY <1>2, <1>3 DEF Lease
  <2> QED BY <1>4, <1>a, <2>1
<1>6. HeldIn(d) = HeldIn(b) \ {c} /\ c \in HeldIn(b) /\ \A v : HeldBy(d, v) = HeldBy(b, v) \ {c}
  BY <1>5 DEF HeldIn, HeldBy
<1>7. /\ \A v : c \in HeldBy(b, v) <=> v = u
      /\ \A i : HeldAt(d, i) = HeldAt(b, i) \ {c} /\ (c \in HeldAt(b, i) <=> u = Anonymous /\ i = IpOf[c])
  BY <1>2, <1>6 DEF HeldAt, HeldBy
<1>8. /\ IsFiniteSet(HeldIn(d)) /\ Cardinality(HeldIn(d)) = Cardinality(HeldIn(b)) - 1
      /\ Less(Cardinality(HeldIn(b))) = Cardinality(HeldIn(b)) - 1
      /\ Cardinality(HeldIn(b)) \in Nat /\ Cardinality(HeldIn(b)) >= 1
  BY <1>6, HeldFinite, CountLess
<1>9. /\ d.process = Cardinality(HeldIn(d)) /\ d.transport = d.process /\ d.process <= ProcessLimit
      /\ d.transport \in Nat /\ d.process \in Int
  BY <1>4, <1>8, <1>a, Limits DEF BooksInv
<1>10. ASSUME NEW i \in Ips PROVE d.ip[i] = Cardinality(HeldAt(d, i)) /\ d.ip[i] <= IpLimit /\ d.ip[i] \in Nat
  <2>1. b.ip[i] = Cardinality(HeldAt(b, i)) /\ b.ip[i] <= IpLimit /\ b.ip[i] \in Nat
    BY <1>a DEF BooksInv
  <2>2. CASE u = Anonymous /\ i = IpOf[c]
    <3>1. d.ip[i] = Less(b.ip[i])
      BY <1>4, <2>2, <1>a
    <3>2. /\ Cardinality(HeldAt(d, i)) = Cardinality(HeldAt(b, i)) - 1
          /\ Less(Cardinality(HeldAt(b, i))) = Cardinality(HeldAt(b, i)) - 1
          /\ Cardinality(HeldAt(b, i)) >= 1
      BY <1>7, <2>2, HeldFinite, CountLess
    <3> QED BY <2>1, <3>1, <3>2, Limits
  <2>3. CASE ~(u = Anonymous /\ i = IpOf[c])
    <3>1. d.ip[i] = b.ip[i]
      BY <1>3, <1>4, <2>3, <1>a
    <3>2. HeldAt(d, i) = HeldAt(b, i)
      BY <1>7, <2>3
    <3> QED BY <2>1, <3>1, <3>2
  <2> QED BY <2>2, <2>3
<1>11. ASSUME NEW v \in Users PROVE d.user[v] = Cardinality(HeldBy(d, v)) /\ d.user[v] <= UserLimit /\ d.user[v] \in Nat
  <2>1. b.user[v] = Cardinality(HeldBy(b, v)) /\ b.user[v] <= UserLimit /\ b.user[v] \in Nat
    BY <1>a DEF BooksInv
  <2>2. CASE u = v
    <3>1. d.user[v] = Less(b.user[v])
      BY <1>4, <2>2, <1>a, Limits
    <3>2. /\ Cardinality(HeldBy(d, v)) = Cardinality(HeldBy(b, v)) - 1
          /\ Less(Cardinality(HeldBy(b, v))) = Cardinality(HeldBy(b, v)) - 1
          /\ Cardinality(HeldBy(b, v)) >= 1
      BY <1>6, <1>7, <2>2, HeldFinite, CountLess
    <3> QED BY <2>1, <3>1, <3>2, Limits
  <2>3. CASE u # v
    <3>1. d.user[v] = b.user[v]
      BY <1>3, <1>4, <2>3, <1>a
    <3>2. HeldBy(d, v) = HeldBy(b, v)
      BY <1>6, <1>7, <2>3
    <3> QED BY <2>1, <3>1, <3>2
  <2> QED BY <2>2, <2>3
<1>12. d.ip \in [Ips -> Nat] /\ d.user \in [Users -> Nat]
  <2>1. d.ip = [i \in Ips |-> d.ip[i]] /\ d.user = [v \in Users |-> d.user[v]]
    BY <1>3, <1>4, <1>a
  <2> QED BY <1>10, <1>11, <2>1
<1>13. BooksInv(d)
  BY <1>4, <1>5, <1>8, <1>9, <1>10, <1>11, <1>12 DEF BooksInv, Books
<1>14. Alike(d.lease[c], b.lease[c]) /\ ~d.lease[c].held
  <2>1. d.lease = [b.lease EXCEPT ![c].held = FALSE] /\ b.lease \in [Conns -> Lease]
    BY <1>4, <1>a
  <2>2. d.lease[c] = [b.lease[c] EXCEPT !.held = FALSE]
    BY <2>1
  <2> QED BY <1>3, <2>2 DEF Alike, Lease
<1>15. SameElsewhere(b, d, c)
  BY <1>5 DEF SameElsewhere
<1> QED BY <1>1, <1>13, <1>14, <1>15

LEMMA HoldBooks ==
  ASSUME NEW b, BooksInv(b), NEW c \in Conns
  PROVE  /\ BooksInv(Hold(b, c)) /\ SameElsewhere(b, Hold(b, c), c)
         /\ Hold(b, c).lease[c] \in Lease /\ Hold(b, c).lease[c].user = b.lease[c].user
         /\ Hold(b, c).lease[c].work = b.lease[c].work + 1
         /\ Hold(b, c).lease[c].held <=> b.lease[c].held
         /\ Hold(b, c).lease[c].closed <=> b.lease[c].closed
<1>1. PICK l : l = [b.lease[c] EXCEPT !.work = @ + 1]
  OBVIOUS
<1>2. b.lease[c] \in Lease
  BY BooksTypes
<1>3. /\ l \in Lease /\ (l.held <=> b.lease[c].held) /\ l.user = b.lease[c].user
      /\ l.work = b.lease[c].work + 1 /\ (l.closed <=> b.lease[c].closed)
  BY <1>1, <1>2 DEF Lease
<1>4. Hold(b, c) = WithLease(b, c, l)
  BY <1>1, BooksTypes DEF Hold, WithLease
<1> QED BY <1>3, <1>4, OtherLease

\* The work hold of a held lease is cleared: the lease is held on unless it was
\* closed and this was the last.
LEMMA ClearBooks ==
  ASSUME NEW b, BooksInv(b), NEW c \in Conns, b.lease[c].held, b.lease[c].work >= 1
  PROVE  LET l == b.lease[c]
             m == Clear(b, c).lease[c]
         IN /\ BooksInv(Clear(b, c)) /\ SameElsewhere(b, Clear(b, c), c)
            /\ m \in Lease /\ m.user = l.user /\ (m.closed <=> l.closed) /\ m.work = l.work - 1
            /\ m.held <=> ~l.closed \/ l.work > 1
<1>1. PICK l : l = [b.lease[c] EXCEPT !.work = @ - 1]
  OBVIOUS
<1>2. PICK d : d = WithLease(b, c, l)
  OBVIOUS
<1>3. b.lease[c] \in Lease /\ b.lease \in [Conns -> Lease]
  BY BooksTypes
<1>4. /\ l \in Lease /\ (l.held <=> b.lease[c].held) /\ l.user = b.lease[c].user
      /\ (l.closed <=> b.lease[c].closed) /\ l.work = b.lease[c].work - 1
  BY <1>1, <1>3 DEF Lease
<1>5. BooksInv(d) /\ SameElsewhere(b, d, c) /\ d.lease[c] = l
  BY <1>2, <1>4, OtherLease
<1>6. Clear(b, c) = IF l.closed /\ l.work = 0 THEN Release(d, c) ELSE d
  <2>1. d = [b EXCEPT !.lease[c].work = @ - 1]
    BY <1>1, <1>2, BooksTypes DEF WithLease
  <2> QED BY <1>5, <2>1 DEF Clear
<1>7. CASE l.closed /\ l.work = 0
  <2>1. PICK m : m = Clear(b, c)
    OBVIOUS
  <2>2. d.lease[c].held
    BY <1>4, <1>5
  <2>3. BooksInv(m) /\ SameElsewhere(d, m, c) /\ Alike(m.lease[c], l) /\ ~m.lease[c].held
    BY <1>5, <1>6, <1>7, <2>1, <2>2, ReleaseBooks
  <2>4. /\ m.lease[c] \in Lease /\ ~m.lease[c].held /\ (m.lease[c].closed <=> l.closed)
        /\ m.lease[c].work = l.work /\ m.lease[c].user = l.user
    BY <1>4, <2>3 DEF Alike
  <2>5. b.lease[c].closed /\ ~(b.lease[c].work > 1)
    BY <1>3, <1>4, <1>7 DEF Lease
  <2> QED BY <1>4, <1>5, <2>1, <2>3, <2>4, <2>5 DEF SameElsewhere
<1>8. CASE ~(l.closed /\ l.work = 0)
  <2>1. l.held /\ (~b.lease[c].closed \/ b.lease[c].work > 1)
    BY <1>3, <1>4, <1>8 DEF Lease
  <2> QED BY <1>4, <1>5, <1>6, <1>8, <2>1
<1> QED BY <1>7, <1>8

LEMMA CloseBooks ==
  ASSUME NEW b, BooksInv(b), NEW c \in Conns
  PROVE  LET l == b.lease[c]
             m == Close(b, c).lease[c]
         IN /\ BooksInv(Close(b, c)) /\ SameElsewhere(b, Close(b, c), c)
            /\ m \in Lease /\ m.user = l.user /\ m.work = l.work
            /\ ~l.held => m = l
            /\ l.held => m.closed /\ (m.held <=> l.work > 0)
<1>1. PICK l : l = [b.lease[c] EXCEPT !.closed = TRUE]
  OBVIOUS
<1>2. PICK d : d = WithLease(b, c, l)
  OBVIOUS
<1>3. b.lease[c] \in Lease /\ b.lease \in [Conns -> Lease]
  BY BooksTypes
<1>4. /\ l \in Lease /\ (l.held <=> b.lease[c].held) /\ l.user = b.lease[c].user
      /\ l.closed /\ l.work = b.lease[c].work
  BY <1>1, <1>3 DEF Lease
<1>5. BooksInv(d) /\ SameElsewhere(b, d, c) /\ d.lease[c] = l
  BY <1>2, <1>4, OtherLease
<1>6. Close(b, c) = IF ~b.lease[c].held THEN b ELSE IF l.work > 0 THEN d ELSE Release(d, c)
  <2>1. d = [b EXCEPT !.lease[c].closed = TRUE]
    BY <1>1, <1>2, BooksTypes DEF WithLease
  <2> QED BY <1>5, <2>1 DEF Close
<1>7. CASE ~b.lease[c].held
  BY <1>3, <1>6, <1>7 DEF SameElsewhere
<1>8. CASE b.lease[c].held /\ l.work > 0
  BY <1>4, <1>5, <1>6, <1>8
<1>9. CASE b.lease[c].held /\ ~(l.work > 0)
  <2>1. PICK m : m = Close(b, c)
    OBVIOUS
  <2>2. d.lease[c].held
    BY <1>4, <1>5, <1>9
  <2>3. BooksInv(m) /\ SameElsewhere(d, m, c) /\ Alike(m.lease[c], l) /\ ~m.lease[c].held
    BY <1>5, <1>6, <1>9, <2>1, <2>2, ReleaseBooks
  <2>4. /\ m.lease[c] \in Lease /\ ~m.lease[c].held /\ m.lease[c].closed
        /\ m.lease[c].work = l.work /\ m.lease[c].user = l.user
    BY <1>4, <2>3 DEF Alike
  <2> QED BY <1>4, <1>5, <1>9, <2>1, <2>3, <2>4 DEF SameElsewhere
<1> QED BY <1>7, <1>8, <1>9

LEMMA ToUserBooks ==
  ASSUME NEW b, BooksInv(b), NEW c \in Conns, b.lease[c].held, NEW u \in Users, CanBeUser(b, c, u)
  PROVE  /\ BooksInv(ToUser(b, c, u)) /\ SameElsewhere(b, ToUser(b, c, u), c)
         /\ ToUser(b, c, u).lease[c] \in Lease /\ ToUser(b, c, u).lease[c].user = u
         /\ ToUser(b, c, u).lease[c].work = b.lease[c].work
         /\ ToUser(b, c, u).lease[c].held
         /\ ToUser(b, c, u).lease[c].closed <=> b.lease[c].closed
<1>a. /\ b.lease[c] \in Lease /\ b.lease \in [Conns -> Lease]
      /\ b.transport \in Nat /\ b.process \in Int
      /\ b.ip \in [Ips -> Nat] /\ b.user \in [Users -> Nat] /\ IpOf[c] \in Ips
      /\ b = [transport |-> b.transport, process |-> b.process, ip |-> b.ip, user |-> b.user, lease |-> b.lease]
  BY BooksTypes
<1>1. CASE b.lease[c].user = u
  BY <1>a, <1>1 DEF ToUser, SameElsewhere
<1>2. CASE b.lease[c].user # u
  <2>1. PICK d : d = ToUser(b, c, u)
    OBVIOUS
  <2>2. b.lease[c].user = Anonymous /\ b.user[u] < UserLimit
    BY <1>2 DEF CanBeUser
  <2>3. /\ d.transport = b.transport /\ d.process = b.process
        /\ d.user = [b.user EXCEPT ![u] = @ + 1] /\ d.ip = [b.ip EXCEPT ![IpOf[c]] = Less(@)]
        /\ d.lease = [b.lease EXCEPT ![c] = [b.lease[c] EXCEPT !.user = u]]
        /\ d = [transport |-> d.transport, process |-> d.process, ip |-> d.ip, user |-> d.user, lease |-> d.lease]
    BY <1>a, <1>2, <2>1 DEF ToUser
  <2>4. [b.lease[c] EXCEPT !.user = u] \in Lease /\ [b.lease[c] EXCEPT !.user = u].held /\ [b.lease[c] EXCEPT !.user = u].user = u
    BY <1>a DEF Lease
  <2>5. /\ \A e \in Conns \ {c} : d.lease[e] = b.lease[e]
        /\ d.lease[c].held /\ d.lease[c].user = u /\ d.lease \in [Conns -> Lease]
    BY <1>a, <2>3, <2>4
  <2>6. /\ HeldIn(d) = HeldIn(b)
        /\ \A v \in Users \ {u} : HeldBy(d, v) = HeldBy(b, v)
        /\ HeldBy(d, u) = HeldBy(b, u) \cup {c} /\ c \notin HeldBy(b, u)
        /\ HeldBy(d, Anonymous) = HeldBy(b, Anonymous) \ {c} /\ c \in HeldBy(b, Anonymous)
    BY <2>2, <2>5, Limits DEF HeldIn, HeldBy
  <2>7. /\ \A i \in Ips \ {IpOf[c]} : HeldAt(d, i) = HeldAt(b, i)
        /\ HeldAt(d, IpOf[c]) = HeldAt(b, IpOf[c]) \ {c} /\ c \in HeldAt(b, IpOf[c])
    BY <2>6 DEF HeldAt, HeldBy
  <2>8. Cardinality(HeldBy(d, u)) = Cardinality(HeldBy(b, u)) + 1
    BY <2>6, HeldFinite, CountMore
  <2>9. /\ Cardinality(HeldAt(d, IpOf[c])) = Cardinality(HeldAt(b, IpOf[c])) - 1
        /\ Less(Cardinality(HeldAt(b, IpOf[c]))) = Cardinality(HeldAt(b, IpOf[c])) - 1
        /\ Cardinality(HeldAt(b, IpOf[c])) >= 1
    BY <2>7, HeldFinite, CountLess
  <2>10. ASSUME NEW i \in Ips PROVE d.ip[i] = Cardinality(HeldAt(d, i)) /\ d.ip[i] <= IpLimit /\ d.ip[i] \in Nat
    <3>1. b.ip[i] = Cardinality(HeldAt(b, i)) /\ b.ip[i] <= IpLimit /\ b.ip[i] \in Nat
      BY <1>a DEF BooksInv
    <3>2. d.ip[i] = IF i = IpOf[c] THEN Less(b.ip[i]) ELSE b.ip[i]
      BY <1>a, <2>3
    <3>3. CASE i = IpOf[c]
      BY <2>9, <3>1, <3>2, <3>3, Limits
    <3>4. CASE i # IpOf[c]
      BY <2>7, <3>1, <3>2, <3>4
    <3> QED BY <3>3, <3>4
  <2>11. ASSUME NEW v \in Users PROVE d.user[v] = Cardinality(HeldBy(d, v)) /\ d.user[v] <= UserLimit /\ d.user[v] \in Nat
    <3>1. b.user[v] = Cardinality(HeldBy(b, v)) /\ b.user[v] <= UserLimit /\ b.user[v] \in Nat
      BY <1>a DEF BooksInv
    <3>2. d.user[v] = IF v = u THEN b.user[v] + 1 ELSE b.user[v]
      BY <1>a, <2>3
    <3>3. UserLimit \in Nat
      BY Limits
    <3>4. CASE v = u
      BY <2>2, <2>8, <3>1, <3>2, <3>3, <3>4
    <3>5. CASE v # u
      BY <2>6, <3>1, <3>2, <3>5
    <3> QED BY <3>4, <3>5
  <2>12. d.ip \in [Ips -> Nat] /\ d.user \in [Users -> Nat]
    <3>1. d.ip = [i \in Ips |-> d.ip[i]] /\ d.user = [v \in Users |-> d.user[v]]
      BY <1>a, <2>3
    <3> QED BY <2>10, <2>11, <3>1
  <2>13. BooksInv(d)
    BY <1>a, <2>3, <2>5, <2>6, <2>10, <2>11, <2>12 DEF BooksInv, Books
  <2>14. /\ d.lease[c] \in Lease /\ d.lease[c].user = u /\ d.lease[c].work = b.lease[c].work
         /\ d.lease[c].held /\ (d.lease[c].closed <=> b.lease[c].closed)
    <3>1. d.lease[c] = [b.lease[c] EXCEPT !.user = u]
      BY <1>a, <2>3
    <3> QED BY <1>a, <3>1 DEF Lease
  <2> QED BY <2>1, <2>5, <2>13, <2>14 DEF SameElsewhere
<1> QED BY <1>1, <1>2

LEMMA ToAnonymousBooks ==
  ASSUME NEW b, BooksInv(b), NEW c \in Conns, b.lease[c].held, CanBeAnonymous(b, c)
  PROVE  /\ BooksInv(ToAnonymous(b, c)) /\ SameElsewhere(b, ToAnonymous(b, c), c)
         /\ ToAnonymous(b, c).lease[c] \in Lease /\ ToAnonymous(b, c).lease[c].user = Anonymous
         /\ ToAnonymous(b, c).lease[c].work = b.lease[c].work
         /\ ToAnonymous(b, c).lease[c].held
         /\ ToAnonymous(b, c).lease[c].closed <=> b.lease[c].closed
<1>a. /\ b.lease[c] \in Lease /\ b.lease \in [Conns -> Lease]
      /\ b.transport \in Nat /\ b.process \in Int
      /\ b.ip \in [Ips -> Nat] /\ b.user \in [Users -> Nat] /\ IpOf[c] \in Ips
      /\ b = [transport |-> b.transport, process |-> b.process, ip |-> b.ip, user |-> b.user, lease |-> b.lease]
  BY BooksTypes
<1>1. CASE b.lease[c].user = Anonymous
  BY <1>a, <1>1 DEF ToAnonymous, SameElsewhere
<1>2. CASE b.lease[c].user # Anonymous
  <2>1. PICK d : d = ToAnonymous(b, c)
    OBVIOUS
  <2>2. PICK u \in Users : u = b.lease[c].user
    BY <1>a, <1>2 DEF Lease
  <2>3. b.ip[IpOf[c]] < IpLimit
    BY <1>2 DEF CanBeAnonymous
  <2>4. /\ d.transport = b.transport /\ d.process = b.process
        /\ d.user = [b.user EXCEPT ![u] = Less(@)] /\ d.ip = [b.ip EXCEPT ![IpOf[c]] = @ + 1]
        /\ d.lease = [b.lease EXCEPT ![c] = [b.lease[c] EXCEPT !.user = Anonymous]]
        /\ d = [transport |-> d.transport, process |-> d.process, ip |-> d.ip, user |-> d.user, lease |-> d.lease]
    BY <1>a, <1>2, <2>1, <2>2 DEF ToAnonymous
  <2>5. /\ [b.lease[c] EXCEPT !.user = Anonymous] \in Lease /\ [b.lease[c] EXCEPT !.user = Anonymous].held
        /\ [b.lease[c] EXCEPT !.user = Anonymous].user = Anonymous
    BY <1>a DEF Lease
  <2>6. /\ \A e \in Conns \ {c} : d.lease[e] = b.lease[e]
        /\ d.lease[c].held /\ d.lease[c].user = Anonymous /\ d.lease \in [Conns -> Lease]
    BY <1>a, <2>4, <2>5
  <2>7. /\ HeldIn(d) = HeldIn(b)
        /\ \A v \in Users \ {u} : HeldBy(d, v) = HeldBy(b, v)
        /\ HeldBy(d, u) = HeldBy(b, u) \ {c} /\ c \in HeldBy(b, u)
        /\ HeldBy(d, Anonymous) = HeldBy(b, Anonymous) \cup {c} /\ c \notin HeldBy(b, Anonymous)
    BY <2>2, <2>6, Limits DEF HeldIn, HeldBy
  <2>8. /\ \A i \in Ips \ {IpOf[c]} : HeldAt(d, i) = HeldAt(b, i)
        /\ HeldAt(d, IpOf[c]) = HeldAt(b, IpOf[c]) \cup {c} /\ c \notin HeldAt(b, IpOf[c])
    BY <2>7 DEF HeldAt, HeldBy
  <2>9. Cardinality(HeldAt(d, IpOf[c])) = Cardinality(HeldAt(b, IpOf[c])) + 1
    BY <2>8, HeldFinite, CountMore
  <2>10. /\ Cardinality(HeldBy(d, u)) = Cardinality(HeldBy(b, u)) - 1
         /\ Less(Cardinality(HeldBy(b, u))) = Cardinality(HeldBy(b, u)) - 1
         /\ Cardinality(HeldBy(b, u)) >= 1
    BY <2>7, HeldFinite, CountLess
  <2>11. ASSUME NEW i \in Ips PROVE d.ip[i] = Cardinality(HeldAt(d, i)) /\ d.ip[i] <= IpLimit /\ d.ip[i] \in Nat
    <3>1. b.ip[i] = Cardinality(HeldAt(b, i)) /\ b.ip[i] <= IpLimit /\ b.ip[i] \in Nat
      BY <1>a DEF BooksInv
    <3>2. d.ip[i] = IF i = IpOf[c] THEN b.ip[i] + 1 ELSE b.ip[i]
      BY <1>a, <2>4
    <3>3. CASE i = IpOf[c]
      BY <2>3, <2>9, <3>1, <3>2, <3>3, Limits
    <3>4. CASE i # IpOf[c]
      BY <2>8, <3>1, <3>2, <3>4
    <3> QED BY <3>3, <3>4
  <2>12. ASSUME NEW v \in Users PROVE d.user[v] = Cardinality(HeldBy(d, v)) /\ d.user[v] <= UserLimit /\ d.user[v] \in Nat
    <3>1. b.user[v] = Cardinality(HeldBy(b, v)) /\ b.user[v] <= UserLimit /\ b.user[v] \in Nat
      BY <1>a DEF BooksInv
    <3>2. d.user[v] = IF v = u THEN Less(b.user[v]) ELSE b.user[v]
      BY <1>a, <2>4
    <3>3. UserLimit \in Nat
      BY Limits
    <3>4. CASE v = u
      BY <2>10, <3>1, <3>2, <3>3, <3>4
    <3>5. CASE v # u
      BY <2>7, <3>1, <3>2, <3>5
    <3> QED BY <3>4, <3>5
  <2>13. d.ip \in [Ips -> Nat] /\ d.user \in [Users -> Nat]
    <3>1. d.ip = [i \in Ips |-> d.ip[i]] /\ d.user = [v \in Users |-> d.user[v]]
      BY <1>a, <2>4
    <3> QED BY <2>11, <2>12, <3>1
  <2>14. BooksInv(d)
    BY <1>a, <2>4, <2>6, <2>7, <2>11, <2>12, <2>13 DEF BooksInv, Books
  <2>15. /\ d.lease[c] \in Lease /\ d.lease[c].user = Anonymous /\ d.lease[c].work = b.lease[c].work
         /\ d.lease[c].held /\ (d.lease[c].closed <=> b.lease[c].closed)
    <3>1. d.lease[c] = [b.lease[c] EXCEPT !.user = Anonymous]
      BY <1>a, <2>4
    <3> QED BY <1>a, <3>1 DEF Lease
  <2> QED BY <2>1, <2>6, <2>14, <2>15 DEF SameElsewhere
<1> QED BY <1>1, <1>2

-----------------------------------------------------------------------------
\* Turns.

\* A turn so far: k holds for the current frame of c.
Mid(s, c, k) == /\ s = [x |-> s.x, b |-> s.b] /\ s.x \in Connection
                /\ BooksInv(s.b) /\ SameElsewhere(books, s.b, c)
                /\ Core(s.x, s.b.lease[c], k)

\* It may end.
Settled(s, c) == Mid(s, c, FrameHolds(s.x)) /\ FrameInv(s.x) /\ TimerInv(s.x)

\* It may end the frame, or go on with it.
InHand(s, c) == /\ Mid(s, c, 1) /\ TimerInv(s.x)
                /\ s.x.lookup # "live" /\ ~Reads(s.x.refresh)
                /\ s.x.phase = "client" \/ (s.x.phase = "gone" /\ s.x.stopping)

\* What happens to the connection in most turns: it keeps its phase and its
\* identity or loses it, and starts and grants nothing.
Goes(x, y) ==
  /\ y.phase = x.phase /\ y.pin = x.pin /\ y.user \in {x.user, Anonymous}
  /\ y.lookup = "none" <=> x.lookup = "none"
  /\ y.lookup = "live" => x.lookup = "live"
  /\ y.refresh.at \in {x.refresh.at, "idle"} /\ y.snap.at \in {x.snap.at, "idle"}
  /\ x.stopping => y.stopping

Keeps(x, y) == Goes(x, y) /\ y.started = x.started /\ y.drain = x.drain
                          /\ y.refresh.at = x.refresh.at /\ y.snap.at = x.snap.at

LEMMA GoesOn == ASSUME NEW x, NEW y, NEW z, Goes(x, y), Goes(y, z) PROVE Goes(x, z)
BY DEF Goes

LEMMA OutdatedReads ==
  ASSUME NEW r \in Reading
  PROVE  LET o == Outdated(r) IN
         /\ o \in Reading /\ o.at = r.at /\ (Reads(o) <=> Reads(r)) /\ (Reads(o) => o.stale)
         /\ r = NoReading => o = NoReading
<1>1. CASE r.at = "idle"
  BY <1>1 DEF Outdated, Reads
<1>2. CASE r.at # "idle"
  <2>1. PICK o : o = [r EXCEPT !.stale = TRUE]
    OBVIOUS
  <2>2. o \in Reading /\ o.at = r.at /\ o.stale
    BY <2>1 DEF Reading
  <2>3. Outdated(r) = o /\ r # NoReading
    BY <1>2, <2>1 DEF Outdated, NoReading
  <2> QED BY <2>2, <2>3 DEF Reads
<1> QED BY <1>1, <1>2

LEMMA SupersedeFields ==
  ASSUME NEW x \in Connection
  PROVE  LET y == Supersede(x) IN
         /\ y \in Connection
         /\ y.phase = x.phase /\ y.drain = x.drain /\ y.user = x.user /\ y.pin = x.pin
         /\ y.exp = x.exp /\ y.waiting = x.waiting /\ y.seen = x.seen
         /\ y.open = x.open /\ y.started = x.started /\ y.stopping = x.stopping
         /\ y.finalHold = x.finalHold /\ y.static = x.static
         /\ y.expiryTimer = x.expiryTimer /\ y.handshakeTimer = x.handshakeTimer
         /\ y.lookup # "live" /\ (y.lookup = "none" <=> x.lookup = "none")
         /\ y.refresh.at = x.refresh.at /\ y.snap.at = x.snap.at
         /\ x.refresh = NoReading => y.refresh = NoReading
         /\ x.snap = NoReading => y.snap = NoReading
         /\ Reads(y.refresh) => y.refresh.stale
         /\ Reads(y.snap) => y.snap.stale
         /\ OtherHolds(y) = OtherHolds(x)
<1>1. PICK y : y = Supersede(x)
  OBVIOUS
<1>a. x.refresh \in Reading /\ x.snap \in Reading
  BY DEF Connection
<1>2. Outdated(x.refresh) \in Reading /\ Outdated(x.snap) \in Reading
  BY <1>a, OutdatedReads
<1>3. /\ y.lookup = (IF x.lookup = "live" THEN "stale" ELSE x.lookup)
      /\ y.refresh = Outdated(x.refresh) /\ y.snap = Outdated(x.snap)
      /\ y \in Connection
  <2>1. PICK f, p, q : /\ f = (IF x.lookup = "live" THEN "stale" ELSE x.lookup)
                       /\ p = Outdated(x.refresh) /\ q = Outdated(x.snap)
    OBVIOUS
  <2>2. y = [x EXCEPT !.lookup = f, !.refresh = p, !.snap = q]
    BY <1>1, <2>1 DEF Supersede
  <2>3. f \in {"none", "live", "stale"} /\ p \in Reading /\ q \in Reading
    BY <1>2, <2>1 DEF Connection
  <2>4. y.lookup = f /\ y.refresh = p /\ y.snap = q
    BY <2>2 DEF Connection
  <2>5. y \in Connection
    BY <2>2, <2>3 DEF Connection
  <2> QED BY <2>1, <2>4, <2>5
<1>4. /\ y.phase = x.phase /\ y.drain = x.drain /\ y.user = x.user /\ y.pin = x.pin
      /\ y.exp = x.exp /\ y.waiting = x.waiting /\ y.seen = x.seen
      /\ y.open = x.open /\ y.started = x.started /\ y.stopping = x.stopping
      /\ y.finalHold = x.finalHold /\ y.static = x.static
      /\ y.expiryTimer = x.expiryTimer /\ y.handshakeTimer = x.handshakeTimer
  BY <1>1 DEF Supersede, Connection
<1>5. x.lookup \in {"none", "live", "stale"}
  BY DEF Connection
<1>6. /\ y.refresh.at = x.refresh.at /\ y.snap.at = x.snap.at
      /\ x.refresh = NoReading => y.refresh = NoReading
      /\ x.snap = NoReading => y.snap = NoReading
      /\ Reads(y.refresh) => y.refresh.stale
      /\ Reads(y.snap) => y.snap.stale
      /\ Reads(y.refresh) <=> Reads(x.refresh)
      /\ Reads(y.snap) <=> Reads(x.snap)
  BY <1>a, <1>3, OutdatedReads
<1>7. OtherHolds(y) = OtherHolds(x)
  BY <1>3, <1>4, <1>5, <1>6 DEF OtherHolds
<1> QED BY <1>1, <1>3, <1>4, <1>5, <1>6, <1>7


\* The socket is asked to close: one more hold, a closed lease, nothing current.
LEMMA StopKeeps ==
  ASSUME NEW c \in Conns, NEW k \in Nat, NEW s, Mid(s, c, k), s.x.phase = "client"
  PROVE  LET r == Stop(s, c) IN
         /\ Mid(r, c, k) /\ TimerInv(r.x) /\ Keeps(s.x, r.x) /\ r.x.user = s.x.user
         /\ r.x.stopping /\ ~r.x.open /\ r.x.lookup # "live"
<1>1. s.x \in Connection /\ BooksInv(s.b) /\ SameElsewhere(books, s.b, c) /\ s = [x |-> s.x, b |-> s.b]
  BY DEF Mid
<1>2. CASE s.x.stopping
  <2>1. Stop(s, c) = s
    BY <1>2 DEF Stop
  <2>2. ~s.x.open /\ s.x.lookup # "live"
    BY <1>2 DEF Mid, Core, PhaseInv, IdentityInv
  <2> QED BY <1>2, <2>1, <2>2 DEF TimerInv, Keeps, Goes
<1>3. CASE ~s.x.stopping
  <2>1. PICK x : x = [s.x EXCEPT !.stopping = TRUE, !.open = FALSE, !.finalHold = TRUE,
                                 !.expiryTimer = FALSE, !.handshakeTimer = FALSE, !.waiting = 0]
    OBVIOUS
  <2>2. /\ x \in Connection /\ x.stopping /\ ~x.open /\ x.finalHold /\ ~x.expiryTimer /\ ~x.handshakeTimer
        /\ x.phase = s.x.phase /\ x.started = s.x.started /\ x.user = s.x.user /\ x.exp = s.x.exp
        /\ x.static = s.x.static /\ x.pin = s.x.pin /\ x.lookup = s.x.lookup /\ x.drain = s.x.drain
        /\ x.refresh = s.x.refresh /\ x.snap = s.x.snap
    <3>1. 0 \in 0..PendingLimit
      BY ConnectionAssumption
    <3>2. x \in Connection
      BY <1>1, <2>1, <3>1 DEF Connection
    <3>3. x.stopping /\ ~x.open /\ x.finalHold /\ ~x.expiryTimer /\ ~x.handshakeTimer
      BY <1>1, <2>1 DEF Connection
    <3>4. /\ x.phase = s.x.phase /\ x.started = s.x.started /\ x.user = s.x.user /\ x.exp = s.x.exp
          /\ x.static = s.x.static /\ x.pin = s.x.pin /\ x.lookup = s.x.lookup /\ x.drain = s.x.drain
          /\ x.refresh = s.x.refresh /\ x.snap = s.x.snap
      BY <1>1, <2>1 DEF Connection
    <3> QED BY <3>2, <3>3, <3>4
  <2>3. PICK y : y = Supersede(x)
    OBVIOUS
  <2>4. /\ y \in Connection /\ y.stopping /\ ~y.open /\ y.finalHold /\ ~y.expiryTimer /\ ~y.handshakeTimer
        /\ y.phase = s.x.phase /\ y.started = s.x.started /\ y.user = s.x.user /\ y.exp = s.x.exp
        /\ y.static = s.x.static /\ y.pin = s.x.pin /\ y.drain = s.x.drain
        /\ y.lookup # "live" /\ (y.lookup = "none" <=> s.x.lookup = "none")
        /\ y.refresh.at = s.x.refresh.at /\ y.snap.at = s.x.snap.at
        /\ Reads(y.refresh) => y.refresh.stale
        /\ Reads(y.snap) => y.snap.stale
        /\ OtherHolds(y) = OtherHolds(x)
    BY <2>2, <2>3, SupersedeFields
  <2>5. ~s.x.finalHold /\ OtherHolds(x) = OtherHolds(s.x) + 1
    <3>1. ~s.x.finalHold
      BY <1>3 DEF Mid, Core, PhaseInv
    <3> QED BY <2>2, <3>1 DEF OtherHolds, Reads
  <2>6. PICK l : l = s.b.lease[c]
    OBVIOUS
  <2>7. l \in Lease /\ Reserved(l) /\ ~l.closed /\ l.held /\ l.work = k + OtherHolds(s.x) /\ l.user = s.x.user
    <3>1. l \in Lease
      BY <1>1, <2>6, BooksTypes
    <3>2. Reserved(l) /\ ~l.closed
      BY <1>3, <2>6 DEF Mid, Core, PhaseInv
    <3> QED BY <2>6, <3>1, <3>2 DEF Reserved, Mid, Core, HoldsMatch
  <2>8. PICK b : b = Hold(s.b, c)
    OBVIOUS
  <2>9. /\ BooksInv(b) /\ SameElsewhere(s.b, b, c) /\ b.lease[c] \in Lease /\ b.lease[c].held
        /\ b.lease[c].work = l.work + 1 /\ b.lease[c].user = l.user
    BY <1>1, <2>6, <2>7, <2>8, HoldBooks
  <2>10. PICK d : d = Close(b, c)
    OBVIOUS
  <2>11. /\ BooksInv(d) /\ SameElsewhere(b, d, c) /\ d.lease[c] \in Lease /\ d.lease[c].closed
         /\ d.lease[c].work = l.work + 1 /\ d.lease[c].user = l.user /\ d.lease[c].held
    <3>1. b.lease[c].work > 0
      BY <2>7, <2>9 DEF Lease
    <3> QED BY <2>9, <2>10, <3>1, CloseBooks
  <2>12. Stop(s, c) = [x |-> y, b |-> d]
    BY <1>1, <1>3, <2>1, <2>3, <2>8, <2>10 DEF Stop, AuthClose
  <2>13. HoldsMatch(y, d.lease[c], k)
    <3>1. OtherHolds(s.x) \in Nat
      BY DEF OtherHolds
    <3> QED BY <2>4, <2>5, <2>7, <2>11, <3>1 DEF HoldsMatch
  <2>14. PhaseInv(y, d.lease[c])
    <3>1. Reserved(d.lease[c])
      BY <2>7, <2>11 DEF Reserved, Lease
    <3> QED BY <2>4, <2>11, <3>1 DEF PhaseInv
  <2>15. IdentityInv(y, d.lease[c])
    <3>1. IdentityInv(s.x, l)
      BY <2>6 DEF Mid, Core
    <3> QED BY <2>4, <3>1 DEF IdentityInv, Current
  <2>16. SameElsewhere(books, d, c)
    BY <1>1, <2>9, <2>11 DEF SameElsewhere
  <2>17. Keeps(s.x, y)
    BY <2>4 DEF Keeps, Goes
  <2> QED BY <2>4, <2>11, <2>12, <2>13, <2>14, <2>15, <2>16, <2>17 DEF Mid, Core, TimerInv
<1> QED BY <1>2, <1>3

\* Two connections that differ at most in their socket, timers and frames.
Twins(x, y) ==
  /\ y.phase = x.phase /\ y.stopping = x.stopping /\ y.started = x.started /\ y.finalHold = x.finalHold
  /\ y.user = x.user /\ y.exp = x.exp /\ y.static = x.static /\ y.pin = x.pin
  /\ y.lookup = x.lookup /\ y.refresh = x.refresh /\ y.snap = x.snap

LEMMA TwinsMid ==
  ASSUME NEW c \in Conns, NEW k \in Nat, NEW s, Mid(s, c, k), s.x.phase \in {"client", "gone"},
         NEW x \in Connection, Twins(s.x, x), x.open \/ x.expiryTimer \/ x.handshakeTimer => x.phase = "client" /\ ~x.stopping
  PROVE  Mid([x |-> x, b |-> s.b], c, k) /\ Goes(s.x, x)
<1>1. PICK r : r = [x |-> x, b |-> s.b]
  OBVIOUS
<1>2. r = [x |-> r.x, b |-> r.b] /\ r.x = x /\ r.b = s.b
  BY <1>1
<1>3. BooksInv(s.b) /\ SameElsewhere(books, s.b, c) /\ Core(s.x, s.b.lease[c], k)
  BY DEF Mid
<1>4. HoldsMatch(x, s.b.lease[c], k)
  BY <1>3 DEF Core, HoldsMatch, OtherHolds, Twins
<1>5. PhaseInv(x, s.b.lease[c])
  BY <1>3 DEF Core, PhaseInv, Twins
<1>6. IdentityInv(x, s.b.lease[c])
  BY <1>3 DEF Core, IdentityInv, Current, Twins
<1>7. Goes(s.x, x)
  BY DEF Goes, Twins
<1> QED BY <1>1, <1>2, <1>3, <1>4, <1>5, <1>6, <1>7 DEF Mid, Core

\* The updates of one field.
WithTimer(s, v) == [s EXCEPT !.x.expiryTimer = v]
WithDrain(s, stage) == [s EXCEPT !.x.drain = stage]

LEMMA TimerSet ==
  ASSUME NEW c \in Conns, NEW k \in Nat, NEW s, Mid(s, c, k), s.x.phase \in {"client", "gone"},
         NEW v \in BOOLEAN, v => s.x.phase = "client" /\ ~s.x.stopping
  PROVE  LET r == WithTimer(s, v) IN
         /\ Mid(r, c, k) /\ Keeps(s.x, r.x) /\ Twins(s.x, r.x) /\ r.b = s.b
         /\ r.x.open = s.x.open /\ (r.x.expiryTimer <=> v)
<1>1. PICK x : x = [s.x EXCEPT !.expiryTimer = v]
  OBVIOUS
<1>2. s.x \in Connection /\ s = [x |-> s.x, b |-> s.b]
  BY DEF Mid
<1>3. /\ x \in Connection /\ Twins(s.x, x) /\ x.open = s.x.open /\ (x.expiryTimer <=> v)
      /\ x.handshakeTimer = s.x.handshakeTimer /\ x.drain = s.x.drain
  <2>1. x \in Connection
    BY <1>1, <1>2 DEF Connection
  <2>2. /\ Twins(s.x, x) /\ x.open = s.x.open /\ (x.expiryTimer <=> v)
        /\ x.handshakeTimer = s.x.handshakeTimer /\ x.drain = s.x.drain
    BY <1>1, <1>2 DEF Connection, Twins
  <2> QED BY <2>1, <2>2
<1>4. WithTimer(s, v) = [x |-> x, b |-> s.b]
  BY <1>1, <1>2 DEF WithTimer
<1>5. x.open \/ x.expiryTimer \/ x.handshakeTimer => x.phase = "client" /\ ~x.stopping
  BY <1>3 DEF Twins, Mid, Core, PhaseInv
<1>6. Mid([x |-> x, b |-> s.b], c, k) /\ Goes(s.x, x)
  BY <1>3, <1>5, TwinsMid
<1> QED BY <1>3, <1>4, <1>6 DEF Keeps, Twins

LEMMA DrainSet ==
  ASSUME NEW c \in Conns, NEW k \in Nat, NEW s, Mid(s, c, k), s.x.phase \in {"client", "gone"},
         NEW stage \in {"idle", "limits", "auth", "greet", "notify", "prepare", "refresh", "handler"}
  PROVE  LET r == WithDrain(s, stage) IN
         /\ Mid(r, c, k) /\ Goes(s.x, r.x) /\ Twins(s.x, r.x) /\ r.b = s.b
         /\ r.x.open = s.x.open /\ r.x.expiryTimer = s.x.expiryTimer /\ r.x.drain = stage
<1>1. PICK x : x = [s.x EXCEPT !.drain = stage]
  OBVIOUS
<1>2. s.x \in Connection /\ s = [x |-> s.x, b |-> s.b]
  BY DEF Mid
<1>3. /\ x \in Connection /\ Twins(s.x, x) /\ x.open = s.x.open /\ x.expiryTimer = s.x.expiryTimer
      /\ x.handshakeTimer = s.x.handshakeTimer /\ x.drain = stage
  <2>1. x \in Connection
    BY <1>1, <1>2 DEF Connection
  <2>2. /\ Twins(s.x, x) /\ x.open = s.x.open /\ x.expiryTimer = s.x.expiryTimer
        /\ x.handshakeTimer = s.x.handshakeTimer /\ x.drain = stage
    BY <1>1, <1>2 DEF Connection, Twins
  <2> QED BY <2>1, <2>2
<1>4. WithDrain(s, stage) = [x |-> x, b |-> s.b]
  BY <1>1, <1>2 DEF WithDrain
<1>5. x.open \/ x.expiryTimer \/ x.handshakeTimer => x.phase = "client" /\ ~x.stopping
  BY <1>3 DEF Twins, Mid, Core, PhaseInv
<1>6. Mid([x |-> x, b |-> s.b], c, k) /\ Goes(s.x, x)
  BY <1>3, <1>5, TwinsMid
<1> QED BY <1>3, <1>4, <1>6

\* Back to anonymous, in public mode; or closed for capacity.
LEMMA RevertKeeps ==
  ASSUME NEW c \in Conns, NEW k \in Nat, NEW s, Mid(s, c, k), s.x.phase = "client", mode = "public"
  PROVE  LET r == Revert(s, c) IN
         /\ Mid(r, c, k) /\ Keeps(s.x, r.x) /\ r.x.lookup # "live"
         /\ \/ r.x.exp = "never" /\ r.x.expiryTimer = s.x.expiryTimer /\ r.x.open = s.x.open
            \/ ~r.x.open /\ r.x.stopping
         /\ CanBeAnonymous(s.b, c) => r.x.exp = "never" /\ r.x.open = s.x.open /\ r.x.stopping = s.x.stopping
<1>1. s.x \in Connection /\ BooksInv(s.b) /\ SameElsewhere(books, s.b, c) /\ s = [x |-> s.x, b |-> s.b]
  BY DEF Mid
<1>2. CASE ~CanBeAnonymous(s.b, c)
  <2>1. Revert(s, c) = Stop(s, c)
    BY <1>2 DEF Revert
  <2> QED BY <1>2, <2>1, StopKeeps
<1>3. CASE CanBeAnonymous(s.b, c)
  <2>1. PICK x : x = [s.x EXCEPT !.user = Anonymous, !.exp = "never", !.static = FALSE]
    OBVIOUS
  <2>2. /\ x \in Connection /\ x.user = Anonymous /\ x.exp = "never" /\ ~x.static
        /\ x.phase = s.x.phase /\ x.started = s.x.started /\ x.open = s.x.open /\ x.stopping = s.x.stopping
        /\ x.finalHold = s.x.finalHold /\ x.expiryTimer = s.x.expiryTimer /\ x.handshakeTimer = s.x.handshakeTimer
        /\ x.pin = s.x.pin /\ x.lookup = s.x.lookup /\ x.drain = s.x.drain
        /\ x.refresh = s.x.refresh /\ x.snap = s.x.snap
    <3>1. x \in Connection
      BY <1>1, <2>1 DEF Connection
    <3>2. /\ x.user = Anonymous /\ x.exp = "never" /\ ~x.static
          /\ x.phase = s.x.phase /\ x.started = s.x.started /\ x.open = s.x.open /\ x.stopping = s.x.stopping
      BY <1>1, <2>1 DEF Connection
    <3>3. /\ x.finalHold = s.x.finalHold /\ x.expiryTimer = s.x.expiryTimer /\ x.handshakeTimer = s.x.handshakeTimer
          /\ x.pin = s.x.pin /\ x.lookup = s.x.lookup /\ x.drain = s.x.drain
          /\ x.refresh = s.x.refresh /\ x.snap = s.x.snap
      BY <1>1, <2>1 DEF Connection
    <3> QED BY <3>1, <3>2, <3>3
  <2>3. PICK y : y = Supersede(x)
    OBVIOUS
  <2>4. /\ y \in Connection /\ y.user = Anonymous /\ y.exp = "never" /\ ~y.static
        /\ y.phase = s.x.phase /\ y.started = s.x.started /\ y.open = s.x.open /\ y.stopping = s.x.stopping
        /\ y.finalHold = s.x.finalHold /\ y.expiryTimer = s.x.expiryTimer /\ y.handshakeTimer = s.x.handshakeTimer
        /\ y.pin = s.x.pin /\ y.drain = s.x.drain
        /\ y.lookup # "live" /\ (y.lookup = "none" <=> s.x.lookup = "none")
        /\ y.refresh.at = s.x.refresh.at /\ y.snap.at = s.x.snap.at
        /\ Reads(y.refresh) => y.refresh.stale
        /\ Reads(y.snap) => y.snap.stale
        /\ OtherHolds(y) = OtherHolds(x)
    BY <2>2, <2>3, SupersedeFields
  <2>5. OtherHolds(x) = OtherHolds(s.x)
    BY <2>2 DEF OtherHolds
  <2>6. PICK l : l = s.b.lease[c]
    OBVIOUS
  <2>7. l \in Lease /\ Reserved(l) /\ ~l.closed /\ l.held /\ ~s.x.stopping /\ ~s.x.finalHold /\ l.work = k + OtherHolds(s.x)
    <3>1. Reserved(l) /\ ~l.closed /\ ~s.x.stopping /\ ~s.x.finalHold /\ l.work = k + OtherHolds(s.x)
      BY <1>3, <2>6 DEF Mid, Core, PhaseInv, HoldsMatch, CanBeAnonymous
    <3> QED BY <1>1, <2>6, <3>1, BooksTypes DEF Reserved
  <2>8. PICK d : d = ToAnonymous(s.b, c)
    OBVIOUS
  <2>9. /\ BooksInv(d) /\ SameElsewhere(s.b, d, c) /\ d.lease[c] \in Lease /\ d.lease[c].held
        /\ d.lease[c].user = Anonymous /\ d.lease[c].work = l.work /\ ~d.lease[c].closed
    BY <1>1, <1>3, <2>6, <2>7, <2>8, ToAnonymousBooks
  <2>10. Revert(s, c) = [x |-> y, b |-> d]
    BY <1>3, <2>1, <2>3, <2>8 DEF Revert
  <2>11. HoldsMatch(y, d.lease[c], k)
    BY <2>4, <2>5, <2>7, <2>9 DEF HoldsMatch
  <2>12. PhaseInv(y, d.lease[c])
    BY <2>4, <2>7, <2>9 DEF PhaseInv, Reserved
  <2>13. IdentityInv(y, d.lease[c])
    BY <2>4 DEF IdentityInv, Current
  <2>14. SameElsewhere(books, d, c)
    BY <1>1, <2>9 DEF SameElsewhere
  <2>15. Keeps(s.x, y)
    BY <2>4 DEF Keeps, Goes
  <2> QED BY <2>4, <2>9, <2>10, <2>11, <2>12, <2>13, <2>14, <2>15 DEF Mid, Core
<1> QED BY <1>2, <1>3

LEMMA ExpireKeeps ==
  ASSUME NEW c \in Conns, NEW k \in Nat, NEW s, Mid(s, c, k), s.x.phase = "client"
  PROVE  LET r == Expire(s, c) IN
         /\ mode # "public" => r.x.user = s.x.user
         /\ Mid(r, c, k) /\ Keeps(s.x, r.x) /\ r.x.lookup # "live"
         /\ \/ r.x.exp = "never" /\ r.x.expiryTimer = s.x.expiryTimer /\ r.x.open = s.x.open
            \/ ~r.x.open /\ r.x.stopping
<1>1. CASE mode = "public"
  BY <1>1, RevertKeeps DEF Expire
<1>2. CASE mode # "public"
  BY <1>2, StopKeeps DEF Expire
<1> QED BY <1>1, <1>2

\* Whatever the identity's expiry, the timer runs for it afterwards, or the
\* connection ends.
LEMMA ArmKeeps ==
  ASSUME NEW c \in Conns, NEW k \in Nat, NEW s, Mid(s, c, k), s.x.phase = "client", ~s.x.stopping
  PROVE  LET r == ArmExpiryTimer(s, c) IN Mid(r, c, k) /\ Keeps(s.x, r.x) /\ TimerInv(r.x)
<1>1. s.x \in Connection /\ s.x.exp \in {"never", "ahead", "past"}
  BY DEF Mid, Connection
<1>2. PICK v \in BOOLEAN : v <=> s.x.exp = "ahead"
  OBVIOUS
<1>3. PICK t : t = WithTimer(s, v)
  OBVIOUS
<1>4. Mid(t, c, k) /\ Keeps(s.x, t.x) /\ Twins(s.x, t.x) /\ t.x.open = s.x.open /\ (t.x.expiryTimer <=> v)
  BY <1>3, TimerSet
<1>5. ArmExpiryTimer(s, c) = IF s.x.exp = "past" THEN Expire(t, c) ELSE t
  <2>1. v = (s.x.exp = "ahead")
    BY <1>2
  <2> QED BY <1>3, <2>1 DEF ArmExpiryTimer, WithTimer
<1>6. CASE s.x.exp = "past"
  <2>1. PICK r : r = Expire(t, c)
    OBVIOUS
  <2>2. /\ Mid(r, c, k) /\ Keeps(t.x, r.x)
        /\ \/ r.x.exp = "never" /\ r.x.expiryTimer = t.x.expiryTimer
           \/ ~r.x.open /\ r.x.stopping
    BY <1>4, <2>1, ExpireKeeps DEF Twins
  <2>3. ~t.x.expiryTimer
    BY <1>2, <1>4, <1>6
  <2>4. TimerInv(r.x)
    BY <2>2, <2>3 DEF TimerInv
  <2>5. Keeps(s.x, r.x)
    BY <1>4, <2>2 DEF Keeps, Goes
  <2> QED BY <1>5, <1>6, <2>1, <2>2, <2>4, <2>5
<1>7. CASE s.x.exp # "past"
  <2>1. TimerInv(t.x)
    BY <1>1, <1>2, <1>4, <1>7 DEF TimerInv, Twins
  <2> QED BY <1>4, <1>5, <1>7, <2>1
<1> QED BY <1>6, <1>7

\* A hold begun, and one cleared.
LEMMA HoldTurn ==
  ASSUME NEW c \in Conns, NEW k \in Nat, NEW s, Mid(s, c, k), s.x.phase = "client", ~s.b.lease[c].closed
  PROVE  Mid([x |-> s.x, b |-> Hold(s.b, c)], c, k + 1)
<1>1. s.x \in Connection /\ BooksInv(s.b) /\ SameElsewhere(books, s.b, c) /\ Core(s.x, s.b.lease[c], k)
  BY DEF Mid
<1>2. PICK l : l = s.b.lease[c]
  OBVIOUS
<1>3. PICK b : b = Hold(s.b, c)
  OBVIOUS
<1>4. PICK m : m = b.lease[c]
  OBVIOUS
<1>5. l \in Lease /\ Reserved(l) /\ l.held /\ l.work = k + OtherHolds(s.x) /\ l.user = s.x.user
  BY <1>1, <1>2, BooksTypes DEF Core, PhaseInv, HoldsMatch, Reserved
<1>6. /\ BooksInv(b) /\ SameElsewhere(s.b, b, c) /\ m.held /\ ~m.closed
      /\ m.work = l.work + 1 /\ m.user = l.user
  BY <1>1, <1>2, <1>3, <1>4, <1>5, HoldBooks
<1>7. HoldsMatch(s.x, m, k + 1) /\ OtherHolds(s.x) \in Nat
  BY <1>5, <1>6 DEF HoldsMatch, OtherHolds
<1>8. PhaseInv(s.x, m)
  BY <1>1, <1>2, <1>6 DEF PhaseInv, Reserved, Core
<1>9. IdentityInv(s.x, m)
  BY <1>1, <1>2, <1>6 DEF IdentityInv, Current, Core
<1>10. SameElsewhere(books, b, c)
  BY <1>1, <1>6 DEF SameElsewhere
<1> QED BY <1>1, <1>3, <1>4, <1>6, <1>7, <1>8, <1>9, <1>10 DEF Mid, Core

LEMMA ClearTurn ==
  ASSUME NEW c \in Conns, NEW k \in Nat, NEW s, Mid(s, c, k + 1), s.x.phase \in {"client", "gone"}
  PROVE  Mid([x |-> s.x, b |-> Clear(s.b, c)], c, k)
<1>1. s.x \in Connection /\ BooksInv(s.b) /\ SameElsewhere(books, s.b, c) /\ Core(s.x, s.b.lease[c], k + 1)
  BY DEF Mid
<1>2. PICK l : l = s.b.lease[c]
  OBVIOUS
<1>3. PICK b : b = Clear(s.b, c)
  OBVIOUS
<1>4. PICK m : m = b.lease[c]
  OBVIOUS
<1>a. OtherHolds(s.x) \in Nat
  BY DEF OtherHolds
<1>5. l \in Lease /\ Reserved(l) /\ l.held /\ l.work = k + 1 + OtherHolds(s.x) /\ l.user = s.x.user /\ l.work >= 1
  <2>1. l \in Lease /\ l.work = k + 1 + OtherHolds(s.x) /\ l.user = s.x.user /\ l.work >= 1
    BY <1>1, <1>2, <1>a, BooksTypes DEF Core, HoldsMatch
  <2>2. Reserved(l)
    BY <1>1, <1>2, <2>1 DEF Core, PhaseInv, NoLease
  <2>3. l.held
    <3>1. l.work > 0
      BY <2>1 DEF Lease
    <3> QED BY <2>2, <3>1 DEF Reserved
  <2> QED BY <2>1, <2>2, <2>3
<1>6. /\ BooksInv(b) /\ SameElsewhere(s.b, b, c) /\ (m.closed <=> l.closed)
      /\ m.work = l.work - 1 /\ m.user = l.user /\ (m.held <=> ~l.closed \/ l.work > 1)
  BY <1>1, <1>2, <1>3, <1>4, <1>5, ClearBooks
<1>7. HoldsMatch(s.x, m, k)
  BY <1>5, <1>6, <1>a DEF HoldsMatch
<1>8. PhaseInv(s.x, m)
  <2>1. Reserved(m)
    BY <1>5, <1>6, <1>a DEF Reserved
  <2> QED BY <1>1, <1>2, <1>5, <1>6, <2>1 DEF PhaseInv, Core, NoLease
<1>9. IdentityInv(s.x, m)
  BY <1>1, <1>2, <1>6 DEF IdentityInv, Current, Core
<1>10. SameElsewhere(books, b, c)
  BY <1>1, <1>6 DEF SameElsewhere
<1> QED BY <1>1, <1>3, <1>4, <1>6, <1>7, <1>8, <1>9, <1>10 DEF Mid, Core

-----------------------------------------------------------------------------
\* The ends of a frame.

\* Between two frames: the next is begun, or none.
BetweenFrames(s, c) == /\ Mid(s, c, 0) /\ TimerInv(s.x)
                       /\ s.x.lookup # "live" /\ ~Reads(s.x.refresh)
                       /\ s.x.phase = "client" \/ (s.x.phase = "gone" /\ s.x.stopping)

LEMMA NextFrameSettles ==
  ASSUME NEW c \in Conns, NEW t, BetweenFrames(t, c)
  PROVE  LET r == NextFrame(t, c) IN
         /\ Settled(r, c) /\ Goes(t.x, r.x)
         /\ t.x.phase # "client" => r.x.drain = "idle"
<1>1. /\ t.x \in Connection /\ t = [x |-> t.x, b |-> t.b] /\ TimerInv(t.x)
      /\ t.x.lookup # "live" /\ ~Reads(t.x.refresh) /\ Mid(t, c, 0)
      /\ t.x.phase \in {"client", "gone"} /\ (t.x.phase = "gone" => t.x.stopping)
  BY DEF BetweenFrames, Mid
<1>2. CASE t.x.waiting > 0 /\ ~t.x.stopping /\ ~t.b.lease[c].closed
  <2>1. PICK b : b = Hold(t.b, c)
    OBVIOUS
  <2>2. PICK u : u = [x |-> t.x, b |-> b]
    OBVIOUS
  <2>3. Mid(u, c, 1) /\ u.x = t.x /\ u.b = b
    <3>1. 1 = 0 + 1 /\ t.x.phase = "client"
      BY <1>1, <1>2
    <3> QED BY <1>1, <1>2, <2>1, <2>2, <3>1, HoldTurn
  <2>4. PICK x : x = [t.x EXCEPT !.waiting = @ - 1, !.drain = "limits"]
    OBVIOUS
  <2>5. x \in Connection /\ Twins(t.x, x) /\ x.drain = "limits" /\ x.open = t.x.open
        /\ x.expiryTimer = t.x.expiryTimer /\ x.handshakeTimer = t.x.handshakeTimer
    <3>1. t.x.waiting - 1 \in 0..PendingLimit
      BY <1>1, <1>2, ConnectionAssumption DEF Connection
    <3>2. x \in Connection
      BY <1>1, <2>4, <3>1 DEF Connection
    <3>3. Twins(t.x, x) /\ x.drain = "limits" /\ x.open = t.x.open
          /\ x.expiryTimer = t.x.expiryTimer /\ x.handshakeTimer = t.x.handshakeTimer
      BY <1>1, <2>4 DEF Connection, Twins
    <3> QED BY <3>2, <3>3
  <2>6. PICK r : r = [x |-> x, b |-> u.b]
    OBVIOUS
  <2>7. NextFrame(t, c) = r
    BY <1>2, <2>1, <2>3, <2>4, <2>6 DEF NextFrame
  <2>8. Mid(r, c, 1) /\ Goes(t.x, x) /\ r.x = x
    <3>1. x.open \/ x.expiryTimer \/ x.handshakeTimer => x.phase = "client" /\ ~x.stopping
      BY <1>1, <2>5 DEF Twins, Mid, Core, PhaseInv
    <3>2. Mid([x |-> x, b |-> u.b], c, 1) /\ Goes(u.x, x)
      BY <1>1, <2>3, <2>5, <3>1, TwinsMid
    <3> QED BY <2>3, <2>6, <3>2
  <2>9. FrameInv(x) /\ TimerInv(x) /\ FrameHolds(x) = 1
    BY <1>1, <1>2, <2>5 DEF FrameInv, TimerInv, FrameHolds, Twins
  <2>10. t.x.phase = "client"
    BY <1>1, <1>2
  <2> QED BY <2>7, <2>8, <2>9, <2>10 DEF Settled
<1>3. CASE ~(t.x.waiting > 0 /\ ~t.x.stopping /\ ~t.b.lease[c].closed)
  <2>1. PICK r : r = WithDrain(t, "idle")
    OBVIOUS
  <2>2. NextFrame(t, c) = r
    BY <1>3, <2>1 DEF NextFrame, WithDrain
  <2>3. Mid(r, c, 0) /\ Goes(t.x, r.x) /\ Twins(t.x, r.x) /\ r.x.open = t.x.open
        /\ r.x.expiryTimer = t.x.expiryTimer /\ r.x.drain = "idle"
    BY <1>1, <2>1, DrainSet
  <2>4. FrameInv(r.x) /\ TimerInv(r.x) /\ FrameHolds(r.x) = 0
    BY <1>1, <2>3 DEF FrameInv, TimerInv, FrameHolds, Twins
  <2> QED BY <2>2, <2>3, <2>4 DEF Settled
<1> QED BY <1>2, <1>3

LEMMA FrameDoneSettles ==
  ASSUME NEW c \in Conns, NEW s, InHand(s, c)
  PROVE  LET r == FrameDone(s, c) IN
         /\ Settled(r, c) /\ Goes(s.x, r.x)
         /\ s.x.phase # "client" => r.x.drain = "idle"
<1>1. s = [x |-> s.x, b |-> s.b] /\ Mid(s, c, 1) /\ s.x.phase \in {"client", "gone"}
  BY DEF InHand, Mid
<1>2. PICK t : t = [x |-> s.x, b |-> Clear(s.b, c)]
  OBVIOUS
<1>3. Mid(t, c, 0) /\ t.x = s.x
  <2>1. 1 = 0 + 1
    OBVIOUS
  <2> QED BY <1>1, <1>2, <2>1, ClearTurn
<1>4. FrameDone(s, c) = NextFrame(t, c)
  BY <1>1, <1>2 DEF FrameDone
<1>5. BetweenFrames(t, c)
  BY <1>3 DEF BetweenFrames, InHand
<1> QED BY <1>3, <1>4, <1>5, NextFrameSettles

\* Or goes on.
LEMMA AwaitSettles ==
  ASSUME NEW c \in Conns, NEW s, InHand(s, c),
         NEW stage \in {"notify", "prepare", "handler"}, stage # "notify" => s.x.started
  PROVE  LET r == Await(s, stage) IN Settled(r, c) /\ Goes(s.x, r.x) /\ Twins(s.x, r.x)
<1>1. /\ s.x.lookup # "live" /\ ~Reads(s.x.refresh) /\ Mid(s, c, 1) /\ TimerInv(s.x)
      /\ s.x.phase \in {"client", "gone"} /\ (s.x.phase = "gone" => s.x.stopping)
  BY DEF InHand
<1>2. PICK r : r = WithDrain(s, stage)
  OBVIOUS
<1>3. Await(s, stage) = r
  BY <1>2 DEF Await, WithDrain
<1>4. /\ Mid(r, c, 1) /\ Goes(s.x, r.x) /\ Twins(s.x, r.x) /\ r.x.open = s.x.open
      /\ r.x.expiryTimer = s.x.expiryTimer /\ r.x.drain = stage
  BY <1>1, <1>2, DrainSet
<1>5. FrameInv(r.x) /\ TimerInv(r.x) /\ FrameHolds(r.x) = 1 /\ r.x.phase = s.x.phase
  BY <1>1, <1>4 DEF FrameInv, TimerInv, FrameHolds, Twins
<1> QED BY <1>3, <1>4, <1>5 DEF Settled

\* A frame in hand stays so when the connection is stopped.
LEMMA StopInHand ==
  ASSUME NEW c \in Conns, NEW s, InHand(s, c), s.x.stopping \/ s.x.phase = "client"
  PROVE  InHand(Stop(s, c), c) /\ Goes(s.x, Stop(s, c).x) /\ Stop(s, c).x.started = s.x.started
<1>1. CASE s.x.stopping
  <2>1. Stop(s, c) = s
    BY <1>1 DEF Stop
  <2>2. Goes(s.x, s.x)
    BY DEF Goes
  <2> QED BY <2>1, <2>2
<1>2. CASE ~s.x.stopping
  <2>1. s.x.phase = "client" /\ Mid(s, c, 1) /\ ~Reads(s.x.refresh)
    BY <1>2 DEF InHand
  <2>2. PICK r : r = Stop(s, c)
    OBVIOUS
  <2>3. Mid(r, c, 1) /\ TimerInv(r.x) /\ Keeps(s.x, r.x) /\ r.x.lookup # "live"
    BY <2>1, <2>2, StopKeeps
  <2> QED BY <2>1, <2>2, <2>3 DEF InHand, Keeps, Goes, Reads
<1> QED BY <1>1, <1>2

LEMMA RejectSettles ==
  ASSUME NEW c \in Conns, NEW s, InHand(s, c), s.x.phase = "client"
  PROVE  Settled(RejectAuth(s, c), c) /\ Goes(s.x, RejectAuth(s, c).x)
<1>1. CASE ~s.x.started \/ mode # "public" \/ ~CanBeAnonymous(s.b, c)
  <2>1. RejectAuth(s, c) = FrameDone(Stop(s, c), c)
    BY <1>1 DEF RejectAuth
  <2>2. PICK t : t = Stop(s, c)
    OBVIOUS
  <2>3. InHand(t, c) /\ Goes(s.x, t.x)
    BY <2>2, StopInHand
  <2>4. Settled(FrameDone(t, c), c) /\ Goes(t.x, FrameDone(t, c).x)
    BY <2>3, FrameDoneSettles
  <2> QED BY <2>1, <2>2, <2>3, <2>4, GoesOn
<1>2. CASE ~(~s.x.started \/ mode # "public" \/ ~CanBeAnonymous(s.b, c))
  <2>1. PICK t : t = Revert(s, c)
    OBVIOUS
  <2>2. Mid(s, c, 1) /\ ~Reads(s.x.refresh)
    BY DEF InHand
  <2>3. Mid(t, c, 1) /\ Keeps(s.x, t.x) /\ t.x.lookup # "live" /\ t.x.exp = "never"
    BY <1>2, <2>1, <2>2, RevertKeeps
  <2>4. PICK u : u = WithTimer(t, FALSE)
    OBVIOUS
  <2>5. t.x.phase = "client" /\ ~Reads(t.x.refresh)
    BY <2>2, <2>3 DEF Keeps, Goes, Reads
  <2>6. Mid(u, c, 1) /\ Keeps(t.x, u.x) /\ Twins(t.x, u.x) /\ ~u.x.expiryTimer
    BY <2>3, <2>4, <2>5, TimerSet
  <2>7. InHand(u, c)
    BY <2>3, <2>5, <2>6 DEF InHand, Twins, TimerInv
  <2>8. RejectAuth(s, c) = Await(u, "notify")
    BY <1>2, <2>1, <2>4 DEF RejectAuth, WithTimer
  <2>9. Settled(Await(u, "notify"), c) /\ Goes(u.x, Await(u, "notify").x)
    BY <2>7, AwaitSettles
  <2>10. Goes(s.x, t.x) /\ Goes(t.x, u.x)
    BY <2>3, <2>6 DEF Keeps
  <2> QED BY <2>8, <2>9, <2>10, GoesOn
<1> QED BY <1>1, <1>2

\* The first identity: authenticated, but for the public mode.
WithStart(s) == [s EXCEPT !.x.started = TRUE]

LEMMA StartSet ==
  ASSUME NEW c \in Conns, NEW k \in Nat, NEW s, Mid(s, c, k), s.x.phase = "client",
         mode # "public" => s.x.user # Anonymous
  PROVE  LET r == WithStart(s) IN
         Mid(r, c, k) /\ Goes(s.x, r.x) /\ r.x.started /\ r.x.stopping = s.x.stopping
         /\ r.x.refresh = s.x.refresh /\ r.x.lookup = s.x.lookup /\ r.x.open = s.x.open
<1>1. PICK x : x = [s.x EXCEPT !.started = TRUE]
  OBVIOUS
<1>2. s.x \in Connection /\ s = [x |-> s.x, b |-> s.b] /\ Core(s.x, s.b.lease[c], k)
  BY DEF Mid
<1>3. /\ x \in Connection /\ x.started
      /\ x.phase = s.x.phase /\ x.stopping = s.x.stopping /\ x.finalHold = s.x.finalHold
      /\ x.user = s.x.user /\ x.exp = s.x.exp /\ x.static = s.x.static /\ x.pin = s.x.pin
      /\ x.lookup = s.x.lookup /\ x.refresh = s.x.refresh /\ x.snap = s.x.snap
      /\ x.open = s.x.open /\ x.expiryTimer = s.x.expiryTimer /\ x.handshakeTimer = s.x.handshakeTimer
  <2>1. x \in Connection
    BY <1>1, <1>2 DEF Connection
  <2>a. x.started
    BY <1>1, <1>2 DEF Connection
  <2>2. /\ x.phase = s.x.phase /\ x.stopping = s.x.stopping /\ x.finalHold = s.x.finalHold
        /\ x.user = s.x.user /\ x.exp = s.x.exp /\ x.static = s.x.static /\ x.pin = s.x.pin
    BY <1>1, <1>2 DEF Connection
  <2>3. /\ x.lookup = s.x.lookup /\ x.refresh = s.x.refresh /\ x.snap = s.x.snap
        /\ x.open = s.x.open /\ x.expiryTimer = s.x.expiryTimer /\ x.handshakeTimer = s.x.handshakeTimer
    BY <1>1, <1>2 DEF Connection
  <2> QED BY <2>a, <2>1, <2>2, <2>3
<1>4. PICK r : r = [x |-> x, b |-> s.b]
  OBVIOUS
<1>5. WithStart(s) = r /\ r.x = x /\ r.b = s.b /\ r = [x |-> r.x, b |-> r.b]
  <2>1. s = [x |-> s.x, b |-> s.b]
    BY <1>2
  <2>2. WithStart(s) = [x |-> [s.x EXCEPT !.started = TRUE], b |-> s.b]
    <3>1. \A v \in BOOLEAN : [s EXCEPT !.x.started = v] = [x |-> [s.x EXCEPT !.started = v], b |-> s.b]
      BY <2>1
    <3>2. TRUE \in BOOLEAN
      OBVIOUS
    <3> QED BY <3>1, <3>2, Zenon DEF WithStart
  <2> QED BY <1>1, <1>4, <2>2
<1>6. HoldsMatch(x, s.b.lease[c], k) /\ PhaseInv(x, s.b.lease[c])
  <2>1. HoldsMatch(x, s.b.lease[c], k)
    BY <1>2, <1>3 DEF Core, HoldsMatch, OtherHolds
  <2>2. PhaseInv(x, s.b.lease[c])
    BY <1>2, <1>3 DEF Core, PhaseInv
  <2> QED BY <2>1, <2>2
<1>7. IdentityInv(x, s.b.lease[c])
  BY <1>2, <1>3 DEF Core, IdentityInv, Current
<1>8. Goes(s.x, x)
  BY <1>3 DEF Goes
<1> QED BY <1>3, <1>5, <1>6, <1>7, <1>8 DEF Mid, Core

\* An authentication in hand: a connection that has not started holds one more,
\* and has its identity already.
Answered(s, c) == /\ Mid(s, c, IF s.x.started THEN 1 ELSE 2) /\ s.x.phase = "client"
                  /\ s.x.lookup # "live" /\ ~Reads(s.x.refresh)
                  /\ ~s.x.started /\ mode # "public" => s.x.user # Anonymous

LEMMA AcknowledgeSettles ==
  ASSUME NEW c \in Conns, NEW s, Answered(s, c), ~s.x.stopping
  PROVE  Settled(Acknowledge(s, c), c) /\ Goes(s.x, Acknowledge(s, c).x)
<1>1. CASE s.x.started
  <2>1. PICK t : t = ArmExpiryTimer(s, c)
    OBVIOUS
  <2>2. Mid(t, c, 1) /\ Keeps(s.x, t.x) /\ TimerInv(t.x)
    BY <1>1, <2>1, ArmKeeps DEF Answered
  <2>3. InHand(t, c)
    BY <2>2 DEF InHand, Answered, Keeps, Goes, Reads
  <2>4. Acknowledge(s, c) = Await(t, "notify")
    BY <1>1, <2>1 DEF Acknowledge
  <2>5. Settled(Await(t, "notify"), c) /\ Goes(t.x, Await(t, "notify").x)
    BY <2>3, AwaitSettles
  <2> QED BY <2>2, <2>4, <2>5, GoesOn DEF Keeps
<1>2. CASE ~s.x.started
  <2>1. PICK t : t = WithStart(s)
    OBVIOUS
  <2>2. /\ Mid(t, c, 2) /\ Goes(s.x, t.x) /\ ~t.x.stopping /\ t.x.phase = "client"
        /\ t.x.lookup # "live" /\ ~Reads(t.x.refresh)
    <3>1. Mid(s, c, 2) /\ s.x.phase = "client" /\ (mode # "public" => s.x.user # Anonymous)
      BY <1>2 DEF Answered
    <3>2. /\ Mid(t, c, 2) /\ Goes(s.x, t.x) /\ t.x.stopping = s.x.stopping
          /\ t.x.refresh = s.x.refresh /\ t.x.lookup = s.x.lookup
      BY <2>1, <3>1, StartSet
    <3> QED BY <3>1, <3>2 DEF Answered, Goes
  <2>3. PICK u : u = ArmExpiryTimer(t, c)
    OBVIOUS
  <2>4. Mid(u, c, 2) /\ Keeps(t.x, u.x) /\ TimerInv(u.x)
    BY <2>2, <2>3, ArmKeeps
  <2>5. u.x.phase = "client" /\ u.x.lookup # "live" /\ ~Reads(u.x.refresh) /\ u.x \in Connection
    BY <2>2, <2>4 DEF Keeps, Goes, Reads, Mid
  <2>6. PICK x : x = [u.x EXCEPT !.handshakeTimer = FALSE]
    OBVIOUS
  <2>7. x \in Connection /\ Twins(u.x, x) /\ x.open = u.x.open /\ x.expiryTimer = u.x.expiryTimer /\ ~x.handshakeTimer
    <3>1. x \in Connection
      BY <2>5, <2>6 DEF Connection
    <3>2. Twins(u.x, x) /\ x.open = u.x.open /\ x.expiryTimer = u.x.expiryTimer /\ ~x.handshakeTimer
      BY <2>5, <2>6 DEF Connection, Twins
    <3> QED BY <3>1, <3>2
  <2>8. PICK v : v = [x |-> x, b |-> u.b]
    OBVIOUS
  <2>9. Mid(v, c, 2) /\ Goes(u.x, x) /\ v.x = x /\ v.b = u.b
    <3>1. x.open \/ x.expiryTimer \/ x.handshakeTimer => x.phase = "client" /\ ~x.stopping
      BY <2>4, <2>7 DEF Twins, Mid, Core, PhaseInv
    <3> QED BY <2>4, <2>5, <2>7, <2>8, <3>1, TwinsMid
  <2>10. PICK w : w = [x |-> x, b |-> Clear(u.b, c)]
    OBVIOUS
  <2>11. Mid(w, c, 1) /\ w.x = x
    <3>1. 2 = 1 + 1 /\ v.x.phase = "client"
      BY <2>5, <2>7, <2>9 DEF Twins
    <3> QED BY <2>9, <2>10, <3>1, ClearTurn
  <2>12. InHand(w, c)
    BY <2>4, <2>5, <2>7, <2>11 DEF InHand, TimerInv, Twins
  <2>13. Acknowledge(s, c) = FrameDone(w, c)
    BY <1>2, <2>1, <2>3, <2>6, <2>10 DEF Acknowledge, WithStart
  <2>14. Settled(FrameDone(w, c), c) /\ Goes(x, FrameDone(w, c).x)
    BY <2>11, <2>12, FrameDoneSettles
  <2>15. Goes(t.x, u.x)
    BY <2>4 DEF Keeps
  <2> QED BY <2>2, <2>9, <2>13, <2>14, <2>15, GoesOn
<1> QED BY <1>1, <1>2

LEMMA UnacknowledgedSettles ==
  ASSUME NEW c \in Conns, NEW s, Answered(s, c)
  PROVE  Settled(Unacknowledged(s, c), c) /\ Goes(s.x, Unacknowledged(s, c).x)
<1>1. PICK t : t = IF s.x.open THEN Stop(s, c) ELSE s
  OBVIOUS
<1>2. PICK k \in {1, 2} : k = IF s.x.started THEN 1 ELSE 2
  OBVIOUS
<1>3. /\ Mid(t, c, k) /\ Goes(s.x, t.x) /\ t.x.started = s.x.started /\ ~t.x.open /\ TimerInv(t.x)
      /\ t.x.lookup # "live" /\ ~Reads(t.x.refresh) /\ t.x.phase = "client"
  <2>1. CASE s.x.open
    <3>1. Mid(t, c, k) /\ Keeps(s.x, t.x) /\ ~t.x.open /\ TimerInv(t.x) /\ t.x.lookup # "live"
      BY <1>1, <1>2, <2>1, StopKeeps DEF Answered
    <3> QED BY <3>1 DEF Answered, Keeps, Goes, Reads
  <2>2. CASE ~s.x.open
    BY <1>1, <1>2, <2>2 DEF Answered, Goes, TimerInv
  <2> QED BY <2>1, <2>2
<1>4. CASE s.x.started
  <2>1. Unacknowledged(s, c) = FrameDone(t, c)
    BY <1>1, <1>4 DEF Unacknowledged
  <2>2. InHand(t, c)
    BY <1>2, <1>3, <1>4 DEF InHand
  <2> QED BY <1>3, <2>1, <2>2, FrameDoneSettles, GoesOn
<1>5. CASE ~s.x.started
  <2>1. PICK u : u = [x |-> t.x, b |-> Clear(t.b, c)]
    OBVIOUS
  <2>2. Unacknowledged(s, c) = FrameDone(u, c)
    BY <1>1, <1>3, <1>5, <2>1 DEF Unacknowledged, Mid
  <2>3. Mid(u, c, 1) /\ u.x = t.x
    <3>1. k = 1 + 1
      BY <1>2, <1>5
    <3> QED BY <1>3, <2>1, <3>1, ClearTurn
  <2>4. InHand(u, c)
    BY <1>3, <2>3 DEF InHand
  <2> QED BY <1>3, <2>2, <2>3, <2>4, FrameDoneSettles, GoesOn
<1> QED BY <1>4, <1>5

-----------------------------------------------------------------------------
\* Upgrades: a connection with a place and no socket yet.
Admitted(s, c) ==
  /\ s = [x |-> s.x, b |-> s.b] /\ s.x \in Connection
  /\ BooksInv(s.b) /\ SameElsewhere(books, s.b, c)
  /\ HoldsMatch(s.x, s.b.lease[c], 0) /\ Reserved(s.b.lease[c]) /\ ~s.b.lease[c].closed
  /\ Socketless(s.x) /\ ~s.x.open /\ ~s.x.expiryTimer /\ ~s.x.handshakeTimer
  /\ s.x.static => s.x.exp = "never"
  /\ s.x.user \in {Anonymous, s.x.pin}

\* What Gone leaves of it: nothing but a lookup that is answered to no effect.
Over(x, y) == /\ y.phase = "gone" /\ y.user = x.user /\ y.pin = x.pin /\ y.drain = "idle"
              /\ y.refresh = NoReading /\ y.snap = NoReading
              /\ y.lookup = "none" <=> x.lookup = "none"

LEMMA GoneSettles ==
  ASSUME NEW c \in Conns, NEW s, Admitted(s, c), NEW x, x = [s.x EXCEPT !.phase = "gone"]
  PROVE  Settled(AuthClose([x |-> x, b |-> s.b], c), c) /\ Over(s.x, AuthClose([x |-> x, b |-> s.b], c).x)
<1>1. /\ s.x \in Connection /\ BooksInv(s.b) /\ SameElsewhere(books, s.b, c) /\ Socketless(s.x)
  BY DEF Admitted
<1>2. /\ x \in Connection /\ x.phase = "gone"
      /\ x.user = s.x.user /\ x.exp = s.x.exp /\ x.static = s.x.static /\ x.pin = s.x.pin
      /\ x.started = s.x.started /\ x.stopping = s.x.stopping /\ x.finalHold = s.x.finalHold
      /\ x.lookup = s.x.lookup /\ x.drain = s.x.drain /\ x.refresh = s.x.refresh /\ x.snap = s.x.snap
      /\ x.open = s.x.open /\ x.expiryTimer = s.x.expiryTimer /\ x.handshakeTimer = s.x.handshakeTimer
  <2>1. x \in Connection
    BY <1>1 DEF Connection
  <2>2. /\ x.phase = "gone"
        /\ x.user = s.x.user /\ x.exp = s.x.exp /\ x.static = s.x.static /\ x.pin = s.x.pin
        /\ x.started = s.x.started /\ x.stopping = s.x.stopping /\ x.finalHold = s.x.finalHold
    BY <1>1 DEF Connection
  <2>3. /\ x.lookup = s.x.lookup /\ x.drain = s.x.drain /\ x.refresh = s.x.refresh /\ x.snap = s.x.snap
        /\ x.open = s.x.open /\ x.expiryTimer = s.x.expiryTimer /\ x.handshakeTimer = s.x.handshakeTimer
    BY <1>1 DEF Connection
  <2> QED BY <2>1, <2>2, <2>3
<1>3. PICK y : y = Supersede(x)
  OBVIOUS
<1>4. /\ y \in Connection /\ y.phase = "gone" /\ y.drain = "idle"
      /\ y.user = s.x.user /\ y.exp = s.x.exp /\ y.static = s.x.static /\ y.pin = s.x.pin
      /\ ~y.started /\ ~y.stopping /\ ~y.finalHold
      /\ ~y.open /\ ~y.expiryTimer /\ ~y.handshakeTimer
      /\ y.lookup # "live" /\ (y.lookup = "none" <=> s.x.lookup = "none")
      /\ y.refresh = NoReading /\ y.snap = NoReading /\ OtherHolds(y) = OtherHolds(x)
  <2>1. ~x.started /\ ~x.stopping /\ ~x.finalHold /\ x.drain = "idle" /\ x.refresh = NoReading /\ x.snap = NoReading
    BY <1>1, <1>2 DEF Socketless
  <2>2. ~x.open /\ ~x.expiryTimer /\ ~x.handshakeTimer
    BY <1>2 DEF Admitted
  <2>3. /\ y \in Connection /\ y.phase = x.phase /\ y.drain = x.drain /\ y.user = x.user /\ y.pin = x.pin
        /\ y.exp = x.exp /\ y.open = x.open /\ y.started = x.started /\ y.stopping = x.stopping
        /\ y.finalHold = x.finalHold /\ y.static = x.static
        /\ y.expiryTimer = x.expiryTimer /\ y.handshakeTimer = x.handshakeTimer
    BY <1>2, <1>3, SupersedeFields
  <2>4. /\ y.lookup # "live" /\ (y.lookup = "none" <=> x.lookup = "none")
        /\ OtherHolds(y) = OtherHolds(x)
        /\ x.refresh = NoReading => y.refresh = NoReading
        /\ x.snap = NoReading => y.snap = NoReading
    BY <1>2, <1>3, SupersedeFields
  <2> QED BY <1>2, <2>1, <2>2, <2>3, <2>4
<1>5. OtherHolds(x) = OtherHolds(s.x) /\ OtherHolds(s.x) \in Nat
  BY <1>2 DEF OtherHolds
<1>6. PICK l : l = s.b.lease[c]
  OBVIOUS
<1>7. PICK b : b = Close(s.b, c)
  OBVIOUS
<1>8. l.held /\ l \in Lease /\ l.work = OtherHolds(s.x) /\ l.user = s.x.user
  BY <1>1, <1>5, <1>6, BooksTypes DEF Admitted, Reserved, HoldsMatch
<1>9. /\ BooksInv(b) /\ SameElsewhere(s.b, b, c) /\ b.lease[c].closed /\ b.lease[c].work = l.work
      /\ b.lease[c].user = l.user /\ (b.lease[c].held <=> l.work > 0)
  BY <1>1, <1>6, <1>7, <1>8, CloseBooks
<1>10. PICK r : r = [x |-> y, b |-> b]
  OBVIOUS
<1>11. r = AuthClose([x |-> x, b |-> s.b], c) /\ r.x = y /\ r.b = b /\ r = [x |-> r.x, b |-> r.b]
  BY <1>3, <1>7, <1>10 DEF AuthClose
<1>12. HoldsMatch(y, b.lease[c], 0) /\ FrameHolds(y) = 0
  BY <1>4, <1>5, <1>8, <1>9 DEF HoldsMatch, FrameHolds
<1>13. PhaseInv(y, b.lease[c])
  BY <1>4, <1>9 DEF PhaseInv, Reserved
<1>14. IdentityInv(y, b.lease[c])
  BY <1>4 DEF IdentityInv, Current, Reads, NoReading, Admitted
<1>15. FrameInv(y) /\ TimerInv(y)
  BY <1>4 DEF FrameInv, TimerInv, Reads, NoReading
<1>16. SameElsewhere(books, b, c)
  BY <1>1, <1>9 DEF SameElsewhere
<1>17. Over(s.x, y)
  BY <1>4 DEF Over
<1> QED BY <1>4, <1>9, <1>11, <1>12, <1>13, <1>14, <1>15, <1>16, <1>17 DEF Settled, Mid, Core

-----------------------------------------------------------------------------
\* The steps of one connection.

\* What a step may do to the identity of a connection.
Acts(x, y) ==
  /\ y.user \notin {x.user, Anonymous} => /\ x.lookup = "live" /\ ~x.stopping
                                          /\ x.phase = "lookup" \/ x.drain = "auth"
  /\ \A k \in {"refresh", "snap"} :
        x[k].at # "granted" /\ y[k].at = "granted" => x.user = y[k].as /\ y[k].ok /\ ~y.stopping
  /\ y.user # Anonymous /\ x.pin # Anonymous => y.user = x.pin

\* Once terminate has begun a step starts no upgrade, and what is over stays so.
Leaves(x, y) ==
  shutdown # "serving" =>
    /\ x.phase \notin Upgrading => y.phase \notin Upgrading
    /\ x.phase # "client" => y.phase # "client" /\ (x.drain = "idle" => y.drain = "idle")
    /\ x.phase \notin Upgrading \cup {"client"} /\ x.lookup = "none" => y.lookup = "none"

Lands(c) == \E r : Settled(r, c) /\ Acts(conn[c], r.x) /\ Leaves(conn[c], r.x) /\ Ends(c, r)

LEMMA Begins ==
  ASSUME ConnectionInv, NEW c \in Conns
  PROVE  LET s == Turn(c) IN
         Settled(s, c) /\ s.x = conn[c] /\ s.b = books /\ s = [x |-> s.x, b |-> s.b] /\ s.x \in Connection
<1>1. PICK s : s = [x |-> conn[c], b |-> books]
  OBVIOUS
<1>2. s = Turn(c) /\ s = [x |-> s.x, b |-> s.b] /\ s.x = conn[c] /\ s.b = books
  BY <1>1 DEF Turn
<1>3. conn[c] \in Connection /\ BooksInv(books) /\ Local(conn[c], books.lease[c])
  BY DEF ConnectionInv, TypeOK
<1>4. SameElsewhere(books, books, c)
  BY DEF SameElsewhere
<1> QED BY <1>2, <1>3, <1>4 DEF Settled, Mid, Local

LEMMA GoesActs ==
  ASSUME NEW x, NEW y, Goes(x, y), x.user \in {Anonymous, x.pin}
  PROVE  Acts(x, y)
<1>1. y.refresh.at \in {x.refresh.at, "idle"} /\ y.snap.at \in {x.snap.at, "idle"}
      /\ y.user \in {x.user, Anonymous}
  BY DEF Goes
<1>2. \A k \in {"refresh", "snap"} : x[k].at # "granted" => y[k].at # "granted"
  BY <1>1
<1> QED BY <1>1, <1>2 DEF Acts

\* A step that goes on leads to a state a step may lead to.
LEMMA GoesLands ==
  ASSUME ConnectionInv, NEW c \in Conns, NEW r, Settled(r, c), Goes(conn[c], r.x), Ends(c, r),
         conn[c].drain # "idle" \/ conn[c].phase = "client" \/ r.x.drain = "idle"
  PROVE  Lands(c)
<1>1. conn[c].user \in {Anonymous, conn[c].pin}
  BY DEF ConnectionInv, Local, Core, IdentityInv
<1>2. Leaves(conn[c], r.x)
  BY DEF Goes, Leaves
<1> QED BY <1>1, <1>2, GoesActs DEF Lands

\* A frame that may be ended or gone on with.
LEMMA FrameInHand ==
  ASSUME NEW c \in Conns, NEW s, Settled(s, c), s.x.drain \in {"limits", "prepare", "handler", "notify"}
  PROVE  InHand(s, c) /\ (~s.x.stopping => s.x.phase = "client")
<1>1. FrameHolds(s.x) = 1
  BY DEF FrameHolds
<1>2. Mid(s, c, 1) /\ TimerInv(s.x) /\ FrameInv(s.x)
  BY <1>1 DEF Settled
<1>3. s.x.phase = "client" \/ (s.x.phase = "gone" /\ s.x.stopping)
  BY <1>2 DEF FrameInv
<1> QED BY <1>2, <1>3 DEF InHand, FrameInv

LEMMA StopSettles ==
  ASSUME NEW c \in Conns, NEW s, Settled(s, c), s.x.phase = "client"
  PROVE  Settled(Stop(s, c), c) /\ Keeps(s.x, Stop(s, c).x) /\ Stop(s, c).x.user = s.x.user
<1>1. PICK r : r = Stop(s, c)
  OBVIOUS
<1>2. FrameHolds(s.x) \in Nat /\ Mid(s, c, FrameHolds(s.x)) /\ FrameInv(s.x)
  BY DEF FrameHolds, Settled
<1>3. Mid(r, c, FrameHolds(s.x)) /\ TimerInv(r.x) /\ Keeps(s.x, r.x) /\ r.x.user = s.x.user /\ r.x.lookup # "live"
  BY <1>1, <1>2, StopKeeps
<1>4. FrameHolds(r.x) = FrameHolds(s.x)
  BY <1>3 DEF Keeps, FrameHolds
<1>5. FrameInv(r.x)
  BY <1>2, <1>3 DEF FrameInv, Keeps, Goes, Reads
<1> QED BY <1>1, <1>3, <1>4, <1>5 DEF Settled

LEMMA NotifiedLands ==
  ASSUME ConnectionInv, NEW c \in Conns, Notified(c)
  PROVE  Lands(c)
<1>1. PICK s : s = Turn(c)
  OBVIOUS
<1>2. Settled(s, c) /\ s.x = conn[c] /\ s.x.drain = "notify"
  BY <1>1, Begins DEF Notified
<1>3. PICK r : r = FrameDone(s, c)
  OBVIOUS
<1>4. InHand(s, c)
  BY <1>2, FrameInHand
<1>5. Settled(r, c) /\ Goes(s.x, r.x)
  BY <1>3, <1>4, FrameDoneSettles
<1>6. Ends(c, r)
  BY <1>1, <1>3 DEF Notified
<1> QED BY <1>2, <1>5, <1>6, GoesLands

LEMMA ClientStopsLands ==
  ASSUME ConnectionInv, NEW c \in Conns, ClientStops(c)
  PROVE  Lands(c)
<1>1. PICK s : s = Turn(c)
  OBVIOUS
<1>2. Settled(s, c) /\ s.x = conn[c] /\ s.x.phase = "client"
  BY <1>1, Begins DEF ClientStops
<1>3. PICK r : r = Stop(s, c)
  OBVIOUS
<1>4. Settled(r, c) /\ Goes(s.x, r.x)
  BY <1>2, <1>3, StopSettles DEF Keeps
<1>5. Ends(c, r)
  BY <1>1, <1>3 DEF ClientStops
<1> QED BY <1>2, <1>4, <1>5, GoesLands

\* Two connections that differ at most in their readings, and in no other hold.
Rest(x, y) ==
  /\ y.phase = x.phase /\ y.open = x.open /\ y.started = x.started /\ y.stopping = x.stopping
  /\ y.finalHold = x.finalHold /\ y.user = x.user /\ y.exp = x.exp /\ y.static = x.static
  /\ y.pin = x.pin /\ y.lookup = x.lookup /\ y.drain = x.drain
  /\ y.expiryTimer = x.expiryTimer /\ y.handshakeTimer = x.handshakeTimer

\* A reading that ends leaves its hold to be cleared.
LEMMA RefreshEnds ==
  ASSUME NEW c \in Conns, NEW k \in Nat, NEW s, Mid(s, c, k), s.x.phase \in {"client", "gone"},
         NEW x \in Connection, Rest(s.x, x), x.snap = s.x.snap, ~Reads(x.refresh)
  PROVE  LET r == [x |-> x, b |-> s.b] IN
         /\ Reads(s.x.refresh) => Mid(r, c, k + 1)
         /\ ~Reads(s.x.refresh) => Mid(r, c, k)
<1>1. PICK r : r = [x |-> x, b |-> s.b]
  OBVIOUS
<1>2. r = [x |-> r.x, b |-> r.b] /\ r.x = x /\ r.b = s.b
  BY <1>1
<1>3. BooksInv(s.b) /\ SameElsewhere(books, s.b, c) /\ Core(s.x, s.b.lease[c], k)
  BY DEF Mid
<1>4. PhaseInv(x, s.b.lease[c])
  BY <1>3 DEF Core, PhaseInv, Rest
<1>5. IdentityInv(x, s.b.lease[c])
  BY <1>3 DEF Core, IdentityInv, Current, Rest
<1>6. CASE Reads(s.x.refresh)
  <2>1. HoldsMatch(x, s.b.lease[c], k + 1)
    BY <1>3, <1>6 DEF Core, HoldsMatch, OtherHolds, Rest
  <2> QED BY <1>1, <1>2, <1>3, <1>4, <1>5, <1>6, <2>1 DEF Mid, Core
<1>7. CASE ~Reads(s.x.refresh)
  <2>1. HoldsMatch(x, s.b.lease[c], k)
    BY <1>3, <1>7 DEF Core, HoldsMatch, OtherHolds, Rest
  <2> QED BY <1>1, <1>2, <1>3, <1>4, <1>5, <1>7, <2>1 DEF Mid, Core
<1> QED BY <1>6, <1>7

LEMMA SnapEnds ==
  ASSUME NEW c \in Conns, NEW k \in Nat, NEW s, Mid(s, c, k), s.x.phase \in {"client", "gone"},
         NEW x \in Connection, Rest(s.x, x), x.refresh = s.x.refresh, ~Reads(x.snap)
  PROVE  LET r == [x |-> x, b |-> s.b] IN
         /\ Reads(s.x.snap) => Mid(r, c, k + 1)
         /\ ~Reads(s.x.snap) => Mid(r, c, k)
<1>1. PICK r : r = [x |-> x, b |-> s.b]
  OBVIOUS
<1>2. r = [x |-> r.x, b |-> r.b] /\ r.x = x /\ r.b = s.b
  BY <1>1
<1>3. BooksInv(s.b) /\ SameElsewhere(books, s.b, c) /\ Core(s.x, s.b.lease[c], k)
  BY DEF Mid
<1>4. PhaseInv(x, s.b.lease[c])
  BY <1>3 DEF Core, PhaseInv, Rest
<1>5. IdentityInv(x, s.b.lease[c])
  BY <1>3 DEF Core, IdentityInv, Current, Rest
<1>6. CASE Reads(s.x.snap)
  <2>1. HoldsMatch(x, s.b.lease[c], k + 1)
    BY <1>3, <1>6 DEF Core, HoldsMatch, OtherHolds, Rest
  <2> QED BY <1>1, <1>2, <1>3, <1>4, <1>5, <1>6, <2>1 DEF Mid, Core
<1>7. CASE ~Reads(s.x.snap)
  <2>1. HoldsMatch(x, s.b.lease[c], k)
    BY <1>3, <1>7 DEF Core, HoldsMatch, OtherHolds, Rest
  <2> QED BY <1>1, <1>2, <1>3, <1>4, <1>5, <1>7, <2>1 DEF Mid, Core
<1> QED BY <1>6, <1>7

\* The updates of a reading.
LEMMA NoReadingType ==
  /\ NoReading \in Reading /\ NoReading.at = "idle" /\ ~Reads(NoReading)
BY DEF NoReading, Reading, Reads

LEMMA NoRefresh ==
  ASSUME NEW x \in Connection, NEW y, y = [x EXCEPT !.refresh = NoReading]
  PROVE  y \in Connection /\ Rest(x, y) /\ y.snap = x.snap /\ y.refresh = NoReading /\ Goes(x, y)
<1>1. y \in Connection
  BY NoReadingType DEF Connection
<1>2. Rest(x, y) /\ y.snap = x.snap /\ y.refresh = NoReading
  BY DEF Connection, Rest
<1> QED BY <1>1, <1>2, NoReadingType DEF Rest, Goes

LEMMA NoSnap ==
  ASSUME NEW x \in Connection, NEW y, y = [x EXCEPT !.snap = NoReading]
  PROVE  y \in Connection /\ Rest(x, y) /\ y.refresh = x.refresh /\ y.snap = NoReading /\ Goes(x, y)
<1>1. y \in Connection
  BY NoReadingType DEF Connection
<1>2. Rest(x, y) /\ y.refresh = x.refresh /\ y.snap = NoReading
  BY DEF Connection, Rest
<1> QED BY <1>1, <1>2, NoReadingType DEF Rest, Goes

LEMMA HandlerDoneLands ==
  ASSUME ConnectionInv, NEW c \in Conns, HandlerDone(c)
  PROVE  Lands(c)
<1>1. PICK t : t = Turn(c)
  OBVIOUS
<1>2. Settled(t, c) /\ t.x = conn[c] /\ t.b = books /\ t.x.drain = "handler" /\ t.x \in Connection
      /\ t = [x |-> t.x, b |-> t.b]
  BY <1>1, Begins DEF HandlerDone
<1>3. PICK x : x = [t.x EXCEPT !.refresh = NoReading]
  OBVIOUS
<1>4. PICK s : s = [x |-> x, b |-> t.b]
  OBVIOUS
<1>5. s = [Turn(c) EXCEPT !.x.refresh = NoReading] /\ s.x = x
  BY <1>1, <1>2, <1>3, <1>4
<1>6. InHand(t, c) /\ (~t.x.stopping => t.x.phase = "client")
  BY <1>2, FrameInHand
<1>7. x \in Connection /\ Rest(t.x, x) /\ x.snap = t.x.snap /\ x.refresh = NoReading /\ Goes(t.x, x)
  BY <1>2, <1>3, NoRefresh
<1>8. InHand(s, c)
  <2>1. Mid(t, c, 1) /\ ~Reads(t.x.refresh) /\ t.x.phase \in {"client", "gone"}
    BY <1>6 DEF InHand
  <2>2. Mid(s, c, 1)
    BY <1>4, <1>7, <2>1, RefreshEnds, NoReadingType
  <2> QED BY <1>5, <1>6, <1>7, <2>2, NoReadingType DEF InHand, Rest, TimerInv
<1>9. CASE Ends(c, FrameDone(s, c))
  <2>1. PICK r : r = FrameDone(s, c)
    OBVIOUS
  <2>2. Settled(r, c) /\ Goes(x, r.x)
    BY <1>5, <1>8, <2>1, FrameDoneSettles
  <2>3. Goes(conn[c], r.x)
    BY <1>2, <1>7, <2>2, GoesOn
  <2> QED BY <1>2, <1>9, <2>1, <2>2, <2>3, GoesLands
<1>10. CASE Ends(c, Await(s, "notify"))
  <2>1. PICK r : r = Await(s, "notify")
    OBVIOUS
  <2>2. Settled(r, c) /\ Goes(x, r.x)
    BY <1>5, <1>8, <2>1, AwaitSettles
  <2>3. Goes(conn[c], r.x)
    BY <1>2, <1>7, <2>2, GoesOn
  <2> QED BY <1>2, <1>10, <2>1, <2>2, <2>3, GoesLands
<1> QED BY <1>5, <1>9, <1>10 DEF HandlerDone

\* A frame in hand is done, and the step ends there.
LEMMA FrameDoneLands ==
  ASSUME ConnectionInv, NEW c \in Conns, NEW s, InHand(s, c), Goes(conn[c], s.x), conn[c].drain # "idle",
         Ends(c, FrameDone(s, c))
  PROVE  Lands(c)
<1>1. PICK r : r = FrameDone(s, c)
  OBVIOUS
<1>2. Settled(r, c) /\ Goes(conn[c], r.x)
  BY <1>1, FrameDoneSettles, GoesOn
<1> QED BY <1>1, <1>2, GoesLands

\* A lookup begins for the frame in hand.
LEMMA StartAuthSettles ==
  ASSUME NEW c \in Conns, NEW s, InHand(s, c), s.x.phase = "client", ~s.x.stopping, revoked \subseteq Users
  PROVE  LET r == StartAuth(s, c) IN
         /\ Settled(r, c)
         /\ r.x.phase = s.x.phase /\ r.x.pin = s.x.pin /\ r.x.user \in {s.x.user, Anonymous}
         /\ r.x.refresh.at \in {s.x.refresh.at, "idle"} /\ r.x.snap.at \in {s.x.snap.at, "idle"}
<1>1. CASE s.x.lookup # "none"
  <2>1. StartAuth(s, c) = FrameDone(s, c)
    BY <1>1 DEF StartAuth
  <2> QED BY <2>1, FrameDoneSettles DEF Goes
<1>2. CASE s.x.lookup = "none"
  <2>1. /\ s.x \in Connection /\ s = [x |-> s.x, b |-> s.b] /\ Mid(s, c, 1) /\ TimerInv(s.x)
        /\ ~Reads(s.x.refresh) /\ Core(s.x, s.b.lease[c], 1)
    BY DEF InHand, Mid
  <2>2. ~s.b.lease[c].closed
    BY <2>1 DEF Core, PhaseInv
  <2>3. PICK u : u = [x |-> s.x, b |-> Hold(s.b, c)]
    OBVIOUS
  <2>4. Mid(u, c, 2) /\ u.x = s.x /\ u.b = Hold(s.b, c)
    <3>1. 2 = 1 + 1
      OBVIOUS
    <3> QED BY <2>1, <2>2, <2>3, <3>1, HoldTurn
  <2>5. PICK x : x = [s.x EXCEPT !.lookup = "live", !.seen = revoked, !.drain = "auth"]
    OBVIOUS
  <2>6. /\ x \in Connection /\ x.lookup = "live" /\ x.drain = "auth"
        /\ x.phase = s.x.phase /\ x.started = s.x.started /\ x.open = s.x.open /\ x.stopping = s.x.stopping
        /\ x.finalHold = s.x.finalHold /\ x.expiryTimer = s.x.expiryTimer /\ x.handshakeTimer = s.x.handshakeTimer
        /\ x.user = s.x.user /\ x.exp = s.x.exp /\ x.static = s.x.static /\ x.pin = s.x.pin
        /\ x.refresh = s.x.refresh /\ x.snap = s.x.snap
    <3>1. x \in Connection
      BY <2>1, <2>5 DEF Connection
    <3>2. /\ x.lookup = "live" /\ x.drain = "auth"
          /\ x.phase = s.x.phase /\ x.started = s.x.started /\ x.open = s.x.open /\ x.stopping = s.x.stopping
          /\ x.finalHold = s.x.finalHold /\ x.expiryTimer = s.x.expiryTimer /\ x.handshakeTimer = s.x.handshakeTimer
      BY <2>1, <2>5 DEF Connection
    <3>3. /\ x.user = s.x.user /\ x.exp = s.x.exp /\ x.static = s.x.static /\ x.pin = s.x.pin
          /\ x.refresh = s.x.refresh /\ x.snap = s.x.snap
      BY <2>1, <2>5 DEF Connection
    <3> QED BY <3>1, <3>2, <3>3
  <2>7. PICK r : r = [x |-> x, b |-> u.b]
    OBVIOUS
  <2>8. r = StartAuth(s, c) /\ r.x = x /\ r.b = u.b /\ r = [x |-> r.x, b |-> r.b]
    BY <1>2, <2>1, <2>4, <2>5, <2>7 DEF StartAuth
  <2>9. BooksInv(u.b) /\ SameElsewhere(books, u.b, c) /\ Core(s.x, u.b.lease[c], 2)
    BY <2>4 DEF Mid
  <2>10. HoldsMatch(x, u.b.lease[c], 1)
    BY <1>2, <2>6, <2>9 DEF Core, HoldsMatch, OtherHolds
  <2>11. PhaseInv(x, u.b.lease[c])
    BY <2>6, <2>9 DEF Core, PhaseInv
  <2>12. ~u.b.lease[c].closed
    BY <2>9 DEF Core, PhaseInv
  <2>13. IdentityInv(x, u.b.lease[c])
    BY <2>6, <2>9, <2>12 DEF Core, IdentityInv, Current
  <2>14. FrameInv(x) /\ TimerInv(x) /\ FrameHolds(x) = 1
    BY <2>1, <2>6 DEF FrameInv, TimerInv, FrameHolds
  <2> QED BY <2>6, <2>8, <2>9, <2>10, <2>11, <2>13, <2>14 DEF Settled, Mid, Core
<1> QED BY <1>1, <1>2

LEMMA FrameLimitsLands ==
  ASSUME ConnectionInv, NEW c \in Conns, FrameLimits(c)
  PROVE  Lands(c)
<1>1. PICK s : s = Turn(c)
  OBVIOUS
<1>2. Settled(s, c) /\ s.x = conn[c] /\ s.x.drain = "limits"
  BY <1>1, Begins DEF FrameLimits
<1>3. InHand(s, c) /\ (~s.x.stopping => s.x.phase = "client") /\ s.x.phase \in {"client", "gone"}
  BY <1>2, FrameInHand DEF InHand
<1>4. Goes(s.x, s.x)
  BY DEF Goes
<1>5. CASE Ends(c, FrameDone(s, c))
  BY <1>2, <1>3, <1>4, <1>5, FrameDoneLands
<1>6. CASE Ends(c, FrameDone(Stop(s, c), c))
  <2>1. PICK t : t = Stop(s, c)
    OBVIOUS
  <2>2. s.x.stopping \/ s.x.phase = "client"
    BY <1>3
  <2>3. InHand(t, c) /\ Goes(s.x, t.x)
    BY <1>3, <2>1, <2>2, StopInHand
  <2> QED BY <1>2, <1>6, <2>1, <2>3, FrameDoneLands
<1>7. CASE ~s.x.stopping /\ Ends(c, RejectAuth(s, c))
  <2>1. PICK r : r = RejectAuth(s, c)
    OBVIOUS
  <2>2. Settled(r, c) /\ Goes(s.x, r.x)
    BY <1>3, <1>7, <2>1, RejectSettles
  <2> QED BY <1>2, <1>7, <2>1, <2>2, GoesLands
<1>8. CASE ~s.x.stopping /\ Ends(c, StartAuth(s, c))
  <2>1. PICK r : r = StartAuth(s, c)
    OBVIOUS
  <2>2. revoked \subseteq Users
    BY ConnectionAssumption DEF ConnectionInv, TypeOK
  <2>3. /\ Settled(r, c)
        /\ r.x.phase = s.x.phase /\ r.x.pin = s.x.pin /\ r.x.user \in {s.x.user, Anonymous}
        /\ r.x.refresh.at \in {s.x.refresh.at, "idle"} /\ r.x.snap.at \in {s.x.snap.at, "idle"}
    BY <1>3, <1>8, <2>1, <2>2, StartAuthSettles
  <2>4. s.x.user \in {Anonymous, s.x.pin}
    BY <1>2 DEF ConnectionInv, Local, Core, IdentityInv
  <2>5. Acts(s.x, r.x)
    <3>1. \A k \in {"refresh", "snap"} : s.x[k].at # "granted" => r.x[k].at # "granted"
      BY <2>3
    <3> QED BY <2>3, <2>4, <3>1 DEF Acts
  <2>6. Leaves(s.x, r.x)
    BY <1>3, <1>8, <2>3 DEF Leaves
  <2> QED BY <1>2, <1>8, <2>1, <2>3, <2>5, <2>6 DEF Lands
<1>9. CASE s.x.started /\ Ends(c, Await(s, "prepare"))
  <2>1. PICK r : r = Await(s, "prepare")
    OBVIOUS
  <2>2. Settled(r, c) /\ Goes(s.x, r.x)
    BY <1>3, <1>9, <2>1, AwaitSettles
  <2> QED BY <1>2, <1>9, <2>1, <2>2, GoesLands
<1> QED BY <1>1, <1>5, <1>6, <1>7, <1>8, <1>9 DEF FrameLimits

LEMMA AuthDeadlineLands ==
  ASSUME ConnectionInv, NEW c \in Conns, AuthDeadline(c)
  PROVE  Lands(c)
<1>1. PICK s : s = Turn(c)
  OBVIOUS
<1>2. Settled(s, c) /\ s.x = conn[c] /\ s.x.drain = "auth"
  BY <1>1, Begins DEF AuthDeadline
<1>3. /\ Mid(s, c, 1) /\ TimerInv(s.x) /\ FrameInv(s.x) /\ ~Reads(s.x.refresh)
      /\ s.x.phase = "client" \/ (s.x.phase = "gone" /\ s.x.stopping)
  <2>1. FrameHolds(s.x) = 1
    BY <1>2 DEF FrameHolds
  <2> QED BY <1>2, <2>1 DEF Settled, FrameInv
<1>4. CASE s.x.stopping
  <2>1. s.b.lease[c].closed
    <3>1. OtherHolds(s.x) \in Nat
      BY DEF OtherHolds
    <3>2. s.b.lease[c].work # 0
      BY <1>3, <3>1 DEF Mid, Core, HoldsMatch
    <3>3. s.b.lease[c] # NoLease
      BY <3>2 DEF NoLease
    <3> QED BY <1>3, <1>4, <3>3 DEF Mid, Core, PhaseInv
  <2>2. InHand(s, c)
    BY <1>3, <2>1 DEF InHand, Mid, Core, IdentityInv
  <2>3. Goes(s.x, s.x)
    BY DEF Goes
  <2>4. Ends(c, FrameDone(s, c))
    BY <1>1, <1>4 DEF AuthDeadline
  <2> QED BY <1>2, <2>2, <2>3, <2>4, FrameDoneLands
<1>5. CASE ~s.x.stopping /\ (~s.x.started \/ mode # "public")
  <2>1. PICK t : t = Stop(s, c)
    OBVIOUS
  <2>2. Mid(t, c, 1) /\ TimerInv(t.x) /\ Keeps(s.x, t.x) /\ t.x.lookup # "live"
    BY <1>3, <1>5, <2>1, StopKeeps
  <2>3. InHand(t, c) /\ Goes(s.x, t.x)
    BY <1>3, <1>5, <2>2 DEF InHand, Keeps, Goes, Reads
  <2>4. Ends(c, FrameDone(t, c))
    BY <1>1, <1>5, <2>1 DEF AuthDeadline
  <2> QED BY <1>2, <2>3, <2>4, FrameDoneLands
<1>6. CASE ~s.x.stopping /\ ~(~s.x.started \/ mode # "public")
  <2>1. PICK t : t = Revert(s, c)
    OBVIOUS
  <2>2. /\ Mid(t, c, 1) /\ Keeps(s.x, t.x) /\ t.x.lookup # "live"
        /\ t.x.exp = "never" \/ ~t.x.open
    BY <1>3, <1>6, <2>1, RevertKeeps
  <2>3. PICK u : u = WithTimer(t, FALSE)
    OBVIOUS
  <2>4. t.x.phase = "client" /\ ~Reads(t.x.refresh)
    BY <1>3, <1>6, <2>2 DEF Keeps, Goes, Reads
  <2>5. Mid(u, c, 1) /\ Keeps(t.x, u.x) /\ Twins(t.x, u.x) /\ u.x.open = t.x.open /\ ~u.x.expiryTimer
    <3>1. PICK v \in BOOLEAN : v = FALSE
      OBVIOUS
    <3>2. u = WithTimer(t, v)
      BY <2>3, <3>1
    <3>3. v => t.x.phase = "client" /\ ~t.x.stopping
      BY <3>1
    <3>4. Mid(u, c, 1) /\ Keeps(t.x, u.x) /\ Twins(t.x, u.x) /\ u.x.open = t.x.open /\ (u.x.expiryTimer <=> v)
      BY <2>2, <2>4, <3>2, <3>3, TimerSet
    <3> QED BY <3>1, <3>4
  <2>6. InHand(u, c)
    BY <2>2, <2>4, <2>5 DEF InHand, Twins, TimerInv
  <2>7. Goes(s.x, u.x)
    BY <2>2, <2>5, GoesOn DEF Keeps
  <2>8. Ends(c, FrameDone(u, c))
    BY <1>1, <1>6, <2>1, <2>3 DEF AuthDeadline, WithTimer
  <2> QED BY <1>2, <2>6, <2>7, <2>8, FrameDoneLands
<1> QED BY <1>4, <1>5, <1>6

LEMMA GreetLands ==
  ASSUME ConnectionInv, NEW c \in Conns, Greet(c)
  PROVE  Lands(c)
<1>1. PICK s : s = Turn(c)
  OBVIOUS
<1>2. Settled(s, c) /\ s.x = conn[c] /\ s.b = books /\ s.x.drain = "greet" /\ s = [x |-> s.x, b |-> s.b]
  BY <1>1, Begins DEF Greet
<1>3. /\ Mid(s, c, 2) /\ TimerInv(s.x) /\ FrameInv(s.x) /\ ~Reads(s.x.refresh) /\ s.x.lookup # "live"
      /\ s.x.phase = "client" \/ (s.x.phase = "gone" /\ s.x.stopping)
      /\ ~s.x.started /\ (mode # "public" => s.x.user # Anonymous)
  <2>1. FrameHolds(s.x) = 2
    BY <1>2 DEF FrameHolds
  <2> QED BY <1>2, <2>1 DEF Settled, FrameInv
<1>4. CASE Ends(c, FrameDone([s EXCEPT !.b = Clear(books, c)], c))
  <2>1. PICK t : t = [x |-> s.x, b |-> Clear(s.b, c)]
    OBVIOUS
  <2>2. t = [s EXCEPT !.b = Clear(books, c)] /\ t.x = s.x
    BY <1>2, <2>1
  <2>3. Mid(t, c, 1)
    <3>1. 2 = 1 + 1
      OBVIOUS
    <3> QED BY <1>3, <2>1, <3>1, ClearTurn
  <2>4. InHand(t, c)
    BY <1>3, <2>2, <2>3 DEF InHand
  <2>5. Goes(s.x, t.x)
    BY <2>2 DEF Goes
  <2> QED BY <1>2, <1>4, <2>2, <2>4, <2>5, FrameDoneLands
<1>5. CASE ~s.x.stopping /\ Ends(c, Acknowledge(s, c))
  <2>1. PICK r : r = Acknowledge(s, c)
    OBVIOUS
  <2>2. Answered(s, c)
    BY <1>3, <1>5 DEF Answered
  <2>3. Settled(r, c) /\ Goes(s.x, r.x)
    BY <1>5, <2>1, <2>2, AcknowledgeSettles
  <2> QED BY <1>2, <1>5, <2>1, <2>3, GoesLands
<1>6. CASE ~s.x.stopping /\ Ends(c, Unacknowledged(s, c))
  <2>1. PICK r : r = Unacknowledged(s, c)
    OBVIOUS
  <2>2. Answered(s, c)
    BY <1>3, <1>6 DEF Answered
  <2>3. Settled(r, c) /\ Goes(s.x, r.x)
    BY <2>1, <2>2, UnacknowledgedSettles
  <2> QED BY <1>2, <1>6, <2>1, <2>3, GoesLands
<1> QED BY <1>1, <1>4, <1>5, <1>6 DEF Greet

\* A change of the socket, the timers or the queue.
LEMMA TwinsSettle ==
  ASSUME NEW c \in Conns, NEW s, Settled(s, c), s.x.phase = "client", NEW x \in Connection,
         Twins(s.x, x), x.drain = s.x.drain,
         x.open \/ x.expiryTimer \/ x.handshakeTimer => ~x.stopping
  PROVE  LET r == [x |-> x, b |-> s.b] IN
         /\ Mid(r, c, FrameHolds(x)) /\ FrameInv(x) /\ Goes(s.x, x)
         /\ TimerInv(x) => Settled(r, c)
<1>1. PICK r : r = [x |-> x, b |-> s.b]
  OBVIOUS
<1>2. FrameHolds(x) = FrameHolds(s.x) /\ FrameHolds(x) \in Nat
  BY DEF FrameHolds
<1>3. Mid(s, c, FrameHolds(x)) /\ FrameInv(s.x)
  BY <1>2 DEF Settled
<1>4. Mid(r, c, FrameHolds(x)) /\ Goes(s.x, x) /\ r.x = x
  <2>1. x.open \/ x.expiryTimer \/ x.handshakeTimer => x.phase = "client" /\ ~x.stopping
    BY DEF Twins
  <2> QED BY <1>1, <1>2, <1>3, <2>1, TwinsMid
<1>5. FrameInv(x)
  BY <1>3 DEF FrameInv, Twins
<1> QED BY <1>1, <1>4, <1>5 DEF Settled

LEMMA PeerClosesLands ==
  ASSUME ConnectionInv, NEW c \in Conns, PeerCloses(c)
  PROVE  Lands(c)
<1>1. PICK s : s = Turn(c)
  OBVIOUS
<1>2. Settled(s, c) /\ s.x = conn[c] /\ s.x.phase = "client" /\ s.x \in Connection /\ s = [x |-> s.x, b |-> s.b]
      /\ Ends(c, [s EXCEPT !.x.open = FALSE])
  BY <1>1, Begins DEF PeerCloses
<1>3. PICK v \in BOOLEAN : v = FALSE
  OBVIOUS
<1>4. PICK x : x = [s.x EXCEPT !.open = v]
  OBVIOUS
<1>5. PICK r : r = [x |-> x, b |-> s.b]
  OBVIOUS
<1>6. [s EXCEPT !.x.open = v] = r
  BY <1>2, <1>4, <1>5
<1>7. Ends(c, r)
  BY <1>2, <1>3, <1>6
<1>8. /\ x \in Connection /\ Twins(s.x, x) /\ x.drain = s.x.drain /\ ~x.open
      /\ x.expiryTimer = s.x.expiryTimer /\ x.handshakeTimer = s.x.handshakeTimer
  <2>1. x \in Connection
    BY <1>2, <1>4 DEF Connection
  <2>2. /\ Twins(s.x, x) /\ x.drain = s.x.drain
        /\ x.expiryTimer = s.x.expiryTimer /\ x.handshakeTimer = s.x.handshakeTimer
    BY <1>2, <1>4 DEF Connection, Twins
  <2>3. x.open = v
    BY <1>2, <1>4 DEF Connection
  <2> QED BY <1>3, <2>1, <2>2, <2>3
<1>9. x.open \/ x.expiryTimer \/ x.handshakeTimer => ~x.stopping
  BY <1>2, <1>8 DEF Settled, Mid, Core, PhaseInv, Twins
<1>10. TimerInv(x)
  BY <1>8 DEF TimerInv
<1>11. Settled(r, c) /\ Goes(s.x, r.x)
  BY <1>2, <1>5, <1>8, <1>9, <1>10, TwinsSettle
<1> QED BY <1>2, <1>7, <1>11, GoesLands

LEMMA HandshakeDeadlineLands ==
  ASSUME ConnectionInv, NEW c \in Conns, HandshakeDeadline(c)
  PROVE  Lands(c)
<1>1. PICK s : s = Turn(c)
  OBVIOUS
<1>2. Settled(s, c) /\ s.x = conn[c] /\ s.x.handshakeTimer /\ s.x \in Connection /\ s = [x |-> s.x, b |-> s.b]
      /\ Ends(c, Stop([s EXCEPT !.x.handshakeTimer = FALSE], c))
  BY <1>1, Begins DEF HandshakeDeadline
<1>3. s.x.phase = "client" /\ ~s.x.stopping /\ TimerInv(s.x)
  BY <1>2 DEF Settled, Mid, Core, PhaseInv
<1>4. PICK v \in BOOLEAN : v = FALSE
  OBVIOUS
<1>5. PICK x : x = [s.x EXCEPT !.handshakeTimer = v]
  OBVIOUS
<1>6. PICK t : t = [x |-> x, b |-> s.b]
  OBVIOUS
<1>7. [s EXCEPT !.x.handshakeTimer = v] = t
  BY <1>2, <1>5, <1>6
<1>8. /\ x \in Connection /\ Twins(s.x, x) /\ x.drain = s.x.drain
      /\ x.expiryTimer = s.x.expiryTimer /\ x.open = s.x.open
  <2>1. x \in Connection
    BY <1>2, <1>5 DEF Connection
  <2>2. /\ Twins(s.x, x) /\ x.drain = s.x.drain
        /\ x.expiryTimer = s.x.expiryTimer /\ x.open = s.x.open
    BY <1>2, <1>5 DEF Connection, Twins
  <2> QED BY <2>1, <2>2
<1>9. ~x.stopping /\ TimerInv(x)
  BY <1>3, <1>8 DEF Twins, TimerInv
<1>10. Settled(t, c) /\ Goes(s.x, t.x) /\ t.x.phase = "client"
  <2>1. Settled(t, c) /\ Goes(s.x, t.x)
    BY <1>2, <1>3, <1>6, <1>8, <1>9, TwinsSettle
  <2> QED BY <1>3, <2>1 DEF Goes
<1>11. PICK r : r = Stop(t, c)
  OBVIOUS
<1>12. Settled(r, c) /\ Goes(s.x, r.x)
  BY <1>10, <1>11, StopSettles, GoesOn DEF Keeps
<1>13. Ends(c, r)
  BY <1>2, <1>4, <1>7, <1>11
<1> QED BY <1>2, <1>3, <1>12, <1>13, GoesLands

\* The identity expires, or is found to be revoked.
LEMMA ExpireSettles ==
  ASSUME NEW c \in Conns, NEW k \in Nat, NEW s, Mid(s, c, k), k = FrameHolds(s.x), FrameInv(s.x),
         s.x.phase = "client", s.x.open => ~s.x.started \/ ~s.x.expiryTimer
  PROVE  LET r == Expire(s, c) IN Settled(r, c) /\ Keeps(s.x, r.x)
<1>1. PICK r : r = Expire(s, c)
  OBVIOUS
<1>2. /\ Mid(r, c, k) /\ Keeps(s.x, r.x) /\ r.x.lookup # "live" /\ (mode # "public" => r.x.user = s.x.user)
      /\ (r.x.exp = "never" /\ r.x.expiryTimer = s.x.expiryTimer /\ r.x.open = s.x.open) \/ ~r.x.open
  BY <1>1, ExpireKeeps
<1>3. TimerInv(r.x)
  BY <1>2 DEF TimerInv, Keeps
<1>4. FrameHolds(r.x) = k
  BY <1>2 DEF Keeps, FrameHolds
<1>5. FrameInv(r.x)
  BY <1>2 DEF FrameInv, Keeps, Goes, Reads
<1> QED BY <1>1, <1>2, <1>3, <1>4, <1>5 DEF Settled

LEMMA ExpiryTimerLands ==
  ASSUME ConnectionInv, NEW c \in Conns, ExpiryTimer(c)
  PROVE  Lands(c)
<1>1. PICK s : s = Turn(c)
  OBVIOUS
<1>2. Settled(s, c) /\ s.x = conn[c] /\ s.x.expiryTimer /\ s.x \in Connection /\ s = [x |-> s.x, b |-> s.b]
      /\ Ends(c, Expire([s EXCEPT !.x.expiryTimer = FALSE], c))
  BY <1>1, Begins DEF ExpiryTimer
<1>3. s.x.phase = "client" /\ ~s.x.stopping /\ FrameInv(s.x)
  BY <1>2 DEF Settled, Mid, Core, PhaseInv
<1>4. PICK v \in BOOLEAN : v = FALSE
  OBVIOUS
<1>5. PICK t : t = WithTimer(s, v)
  OBVIOUS
<1>6. PICK k \in Nat : k = FrameHolds(s.x)
  BY DEF FrameHolds
<1>7. Mid(t, c, k) /\ Keeps(s.x, t.x) /\ Twins(s.x, t.x) /\ ~t.x.expiryTimer
  <2>1. Mid(s, c, k)
    BY <1>2, <1>6 DEF Settled
  <2>2. v => s.x.phase = "client" /\ ~s.x.stopping
    BY <1>4
  <2>3. Mid(t, c, k) /\ Keeps(s.x, t.x) /\ Twins(s.x, t.x) /\ (t.x.expiryTimer <=> v)
    BY <1>3, <1>5, <2>1, <2>2, TimerSet
  <2> QED BY <1>4, <2>3
<1>8. FrameInv(t.x) /\ k = FrameHolds(t.x) /\ t.x.phase = "client"
  BY <1>3, <1>6, <1>7 DEF FrameInv, FrameHolds, Keeps, Twins
<1>9. PICK r : r = Expire(t, c)
  OBVIOUS
<1>10. Settled(r, c) /\ Goes(s.x, r.x)
  BY <1>7, <1>8, <1>9, ExpireSettles, GoesOn DEF Keeps
<1>11. Ends(c, r)
  BY <1>2, <1>4, <1>5, <1>9 DEF WithTimer
<1> QED BY <1>2, <1>3, <1>10, <1>11, GoesLands

LEMMA TokenExpiresLands ==
  ASSUME ConnectionInv, NEW c \in Conns, TokenExpires(c)
  PROVE  Lands(c)
<1>1. PICK s : s = Turn(c)
  OBVIOUS
<1>2. Settled(s, c) /\ s.x = conn[c] /\ s.x.exp = "ahead" /\ s.x \in Connection /\ s = [x |-> s.x, b |-> s.b]
      /\ Ends(c, [s EXCEPT !.x.exp = "past"])
  BY <1>1, Begins DEF TokenExpires
<1>3. PICK x : x = [s.x EXCEPT !.exp = "past"]
  OBVIOUS
<1>4. PICK r : r = [x |-> x, b |-> s.b]
  OBVIOUS
<1>5. Ends(c, r) /\ r.x = x /\ r.b = s.b /\ r = [x |-> r.x, b |-> r.b]
  <2>1. [s EXCEPT !.x.exp = "past"] = r
    BY <1>2, <1>3, <1>4
  <2> QED BY <1>2, <1>4, <2>1
<1>6. /\ x \in Connection /\ x.exp = "past"
      /\ x.refresh = s.x.refresh /\ x.snap = s.x.snap
      /\ x.phase = s.x.phase /\ x.open = s.x.open /\ x.started = s.x.started /\ x.stopping = s.x.stopping
      /\ x.finalHold = s.x.finalHold /\ x.user = s.x.user /\ x.static = s.x.static
      /\ x.pin = s.x.pin /\ x.lookup = s.x.lookup /\ x.drain = s.x.drain
      /\ x.expiryTimer = s.x.expiryTimer /\ x.handshakeTimer = s.x.handshakeTimer
  <2>1. x \in Connection
    BY <1>2, <1>3 DEF Connection
  <2>2. /\ x.exp = "past" /\ x.refresh = s.x.refresh /\ x.snap = s.x.snap
        /\ x.phase = s.x.phase /\ x.open = s.x.open /\ x.started = s.x.started /\ x.stopping = s.x.stopping
    BY <1>2, <1>3 DEF Connection
  <2>3. /\ x.finalHold = s.x.finalHold /\ x.user = s.x.user /\ x.static = s.x.static
        /\ x.pin = s.x.pin /\ x.lookup = s.x.lookup /\ x.drain = s.x.drain
        /\ x.expiryTimer = s.x.expiryTimer /\ x.handshakeTimer = s.x.handshakeTimer
    BY <1>2, <1>3 DEF Connection
  <2> QED BY <2>1, <2>2, <2>3
<1>7. /\ BooksInv(s.b) /\ SameElsewhere(books, s.b, c) /\ Core(s.x, s.b.lease[c], FrameHolds(s.x))
      /\ FrameInv(s.x) /\ TimerInv(s.x)
  BY <1>2 DEF Settled, Mid
<1>8. s.x.phase \notin {"new", "limits"}
  <2>1. [s.x EXCEPT !.phase = "new"].exp = "ahead" /\ NewConnection.exp = "never"
    BY <1>2 DEF Connection, NewConnection
  <2> QED BY <1>7, <2>1 DEF Core, PhaseInv
<1>9. HoldsMatch(x, s.b.lease[c], FrameHolds(x))
  BY <1>6, <1>7 DEF Core, HoldsMatch, OtherHolds, FrameHolds
<1>10. PhaseInv(x, s.b.lease[c])
  BY <1>6, <1>7, <1>8 DEF Core, PhaseInv, Socketless
<1>11. IdentityInv(x, s.b.lease[c])
  BY <1>2, <1>6, <1>7 DEF Core, IdentityInv, Current
<1>12. FrameInv(x) /\ TimerInv(x)
  BY <1>2, <1>6, <1>7 DEF FrameInv, TimerInv
<1>13. Settled(r, c)
  BY <1>5, <1>6, <1>7, <1>9, <1>10, <1>11, <1>12 DEF Settled, Mid, Core
<1>14. Goes(s.x, x)
  BY <1>6 DEF Goes
<1>15. Acts(s.x, x)
  BY <1>7, <1>14, GoesActs DEF Core, IdentityInv
<1>16. Leaves(s.x, x)
  BY <1>6 DEF Leaves
<1> QED BY <1>2, <1>5, <1>13, <1>15, <1>16 DEF Lands

LEMMA ReceiveLands ==
  ASSUME ConnectionInv, NEW c \in Conns, Receive(c)
  PROVE  Lands(c)
<1>1. PICK s : s = Turn(c)
  OBVIOUS
<1>2. Settled(s, c) /\ s.x = conn[c] /\ s.x.phase = "client" /\ s.x \in Connection /\ s = [x |-> s.x, b |-> s.b]
  BY <1>1, Begins DEF Receive
<1>3. PICK x : x = [s.x EXCEPT !.waiting = @ + 1]
  OBVIOUS
<1>4. PICK q : q = [x |-> x, b |-> s.b]
  OBVIOUS
<1>5. q = [s EXCEPT !.x.waiting = @ + 1] /\ q.x = x /\ q.b = s.b
  BY <1>2, <1>3, <1>4
<1>6. CASE Ends(c, s)
  <2>1. Goes(s.x, s.x)
    BY DEF Goes
  <2> QED BY <1>2, <1>6, <2>1, GoesLands
<1>7. CASE Ends(c, Stop(s, c))
  <2>1. PICK r : r = Stop(s, c)
    OBVIOUS
  <2>2. Settled(r, c) /\ Goes(s.x, r.x)
    BY <1>2, <2>1, StopSettles DEF Keeps
  <2> QED BY <1>2, <1>7, <2>1, <2>2, GoesLands
<1>8. ASSUME ~(s.x.waiting >= PendingLimit)
      PROVE  Settled(q, c) /\ Goes(s.x, x) /\ Twins(s.x, x) /\ x.drain = s.x.drain
  <2>1. s.x.waiting + 1 \in 0..PendingLimit
    BY <1>2, <1>8, ConnectionAssumption DEF Connection
  <2>2. x \in Connection
    BY <1>2, <1>3, <2>1 DEF Connection
  <2>3. /\ Twins(s.x, x) /\ x.drain = s.x.drain /\ x.open = s.x.open
        /\ x.expiryTimer = s.x.expiryTimer /\ x.handshakeTimer = s.x.handshakeTimer
    BY <1>2, <1>3 DEF Connection, Twins
  <2>4. x.open \/ x.expiryTimer \/ x.handshakeTimer => ~x.stopping
    BY <1>2, <2>3 DEF Settled, Mid, Core, PhaseInv, Twins
  <2>5. TimerInv(x)
    BY <1>2, <2>3 DEF Settled, TimerInv, Twins
  <2> QED BY <1>2, <1>4, <2>2, <2>3, <2>4, <2>5, TwinsSettle
<1>9. CASE ~(s.x.waiting >= PendingLimit) /\ s.x.drain = "idle" /\ Ends(c, NextFrame(q, c))
  <2>1. PICK r : r = NextFrame(q, c)
    OBVIOUS
  <2>2. BetweenFrames(q, c)
    <3>1. Settled(q, c) /\ q.x.drain = "idle" /\ q.x.phase = "client"
      BY <1>2, <1>5, <1>8, <1>9 DEF Twins
    <3>2. Mid(q, c, 0)
      BY <3>1 DEF Settled, FrameHolds
    <3> QED BY <3>1, <3>2 DEF BetweenFrames, Settled, FrameInv
  <2>3. Settled(r, c) /\ Goes(x, r.x)
    BY <1>5, <2>1, <2>2, NextFrameSettles
  <2>4. Goes(s.x, r.x)
    BY <1>8, <1>9, <2>3, GoesOn
  <2> QED BY <1>2, <1>9, <2>1, <2>3, <2>4, GoesLands
<1>10. CASE ~(s.x.waiting >= PendingLimit) /\ Ends(c, q)
  BY <1>2, <1>5, <1>8, <1>10, GoesLands
<1>11. \/ Ends(c, s)
       \/ Ends(c, Stop(s, c))
       \/ ~(s.x.waiting >= PendingLimit) /\ s.x.drain = "idle" /\ Ends(c, NextFrame(q, c))
       \/ ~(s.x.waiting >= PendingLimit) /\ Ends(c, q)
  BY <1>1, <1>5 DEF Receive
<1> QED BY <1>6, <1>7, <1>9, <1>10, <1>11

LEMMA DeliveredLands ==
  ASSUME ConnectionInv, NEW c \in Conns, Delivered(c)
  PROVE  Lands(c)
<1>1. PICK s : s = Turn(c)
  OBVIOUS
<1>2. Settled(s, c) /\ s.x = conn[c] /\ s.x.snap.at = "granted" /\ s.x \in Connection /\ s = [x |-> s.x, b |-> s.b]
      /\ Ends(c, [s EXCEPT !.x.snap = NoReading])
  BY <1>1, Begins DEF Delivered
<1>3. PICK x : x = [s.x EXCEPT !.snap = NoReading]
  OBVIOUS
<1>4. PICK r : r = [x |-> x, b |-> s.b]
  OBVIOUS
<1>5. Ends(c, r) /\ r.x = x /\ r.b = s.b
  <2>1. [s EXCEPT !.x.snap = NoReading] = r
    BY <1>2, <1>3, <1>4
  <2> QED BY <1>2, <1>4, <2>1
<1>6. x \in Connection /\ Rest(s.x, x) /\ x.refresh = s.x.refresh /\ x.snap = NoReading /\ Goes(s.x, x)
  BY <1>2, <1>3, NoSnap
<1>7. s.x.phase \in {"client", "gone"}
  <2>1. s.x.snap # NoReading
    BY <1>2 DEF NoReading
  <2>2. s.x.phase \notin {"lookup", "schema"}
    BY <1>2, <2>1 DEF Settled, Mid, Core, PhaseInv, Socketless
  <2>3. s.x.phase \notin {"new", "limits"}
    <3>1. [s.x EXCEPT !.phase = "new"].snap = s.x.snap /\ NewConnection.snap = NoReading
      BY <1>2 DEF Connection, NewConnection
    <3> QED BY <1>2, <2>1, <3>1 DEF Settled, Mid, Core, PhaseInv
  <2> QED BY <1>2, <2>2, <2>3 DEF Connection, Upgrading
<1>8. Settled(r, c)
  <2>1. FrameHolds(s.x) \in Nat /\ FrameHolds(x) = FrameHolds(s.x) /\ ~Reads(s.x.snap)
    BY <1>2, <1>6 DEF FrameHolds, Rest, Reads
  <2>2. Mid(s, c, FrameHolds(s.x)) /\ FrameInv(s.x) /\ TimerInv(s.x)
    BY <1>2 DEF Settled
  <2>3. Mid(r, c, FrameHolds(s.x))
    BY <1>4, <1>6, <1>7, <2>1, <2>2, SnapEnds, NoReadingType
  <2>4. FrameInv(x) /\ TimerInv(x)
    BY <1>6, <2>2 DEF FrameInv, TimerInv, Rest
  <2> QED BY <1>5, <2>1, <2>3, <2>4 DEF Settled
<1>9. Acts(s.x, x)
  BY <1>2, <1>6, GoesActs DEF Settled, Mid, Core, IdentityInv
<1>10. Leaves(s.x, x)
  BY <1>6 DEF Leaves, Rest
<1> QED BY <1>2, <1>5, <1>8, <1>9, <1>10 DEF Lands

\* A reading that begins is one of the identity in use.
LEMMA StartReadingIs ==
  ASSUME NEW x \in Connection
  PROVE  LET r == StartReading(x) IN
         /\ r \in Reading /\ Reads(r) /\ r.as = x.user /\ ~r.stale
         /\ r.at = "reval" => x.static
         /\ r.at = "perms" => r.ok
<1>1. x.user \in Users \cup {Anonymous} /\ x.static \in BOOLEAN
  BY DEF Connection
<1>2. PICK ok \in BOOLEAN : ok <=> ~x.static \/ x.user \notin revoked
  OBVIOUS
<1>3. PICK r : r = [at |-> IF x.static THEN "reval" ELSE "perms", as |-> x.user, ok |-> ok, stale |-> FALSE]
  OBVIOUS
<1>4. StartReading(x) = r
  <2>1. ok = (~x.static \/ x.user \notin revoked)
    BY <1>2
  <2> QED BY <1>3, <2>1 DEF StartReading
<1> QED BY <1>1, <1>2, <1>3, <1>4 DEF Reading, Reads

LEMMA PreparedLands ==
  ASSUME ConnectionInv, NEW c \in Conns, Prepared(c)
  PROVE  Lands(c)
<1>1. PICK s : s = Turn(c)
  OBVIOUS
<1>2. Settled(s, c) /\ s.x = conn[c] /\ s.x.drain = "prepare" /\ s.x \in Connection /\ s = [x |-> s.x, b |-> s.b]
  BY <1>1, Begins DEF Prepared
<1>3. InHand(s, c) /\ (~s.x.stopping => s.x.phase = "client")
  BY <1>2, FrameInHand
<1>4. CASE Ends(c, FrameDone(s, c))
  <2>1. Goes(s.x, s.x)
    BY DEF Goes
  <2> QED BY <1>2, <1>3, <1>4, <2>1, FrameDoneLands
<1>5. CASE ~s.x.stopping /\ Ends(c, [x |-> [s.x EXCEPT !.drain = "refresh", !.refresh = StartReading(s.x)],
                                     b |-> Hold(s.b, c)])
  <2>1. s.x.phase = "client" /\ Mid(s, c, 1) /\ TimerInv(s.x) /\ ~Reads(s.x.refresh) /\ s.x.lookup # "live"
    BY <1>3, <1>5 DEF InHand
  <2>2. ~s.b.lease[c].closed
    BY <1>5, <2>1 DEF Mid, Core, PhaseInv
  <2>3. PICK u : u = [x |-> s.x, b |-> Hold(s.b, c)]
    OBVIOUS
  <2>4. Mid(u, c, 2) /\ u.b = Hold(s.b, c) /\ u.x = s.x
    <3>1. 2 = 1 + 1
      OBVIOUS
    <3> QED BY <2>1, <2>2, <2>3, <3>1, HoldTurn
  <2>5. PICK n : n = StartReading(s.x)
    OBVIOUS
  <2>6. /\ n \in Reading /\ Reads(n) /\ n.as = s.x.user /\ ~n.stale
        /\ n.at = "reval" => s.x.static
        /\ n.at = "perms" => n.ok
    BY <1>2, <2>5, StartReadingIs
  <2>7. PICK x : x = [s.x EXCEPT !.drain = "refresh", !.refresh = n]
    OBVIOUS
  <2>8. /\ x \in Connection /\ x.drain = "refresh" /\ x.refresh = n /\ x.snap = s.x.snap
        /\ x.phase = s.x.phase /\ x.open = s.x.open /\ x.started = s.x.started /\ x.stopping = s.x.stopping
        /\ x.finalHold = s.x.finalHold /\ x.user = s.x.user /\ x.exp = s.x.exp /\ x.static = s.x.static
        /\ x.pin = s.x.pin /\ x.lookup = s.x.lookup
        /\ x.expiryTimer = s.x.expiryTimer /\ x.handshakeTimer = s.x.handshakeTimer
    <3>1. x \in Connection
      BY <1>2, <2>6, <2>7 DEF Connection
    <3>2. /\ x.drain = "refresh" /\ x.refresh = n /\ x.snap = s.x.snap
          /\ x.phase = s.x.phase /\ x.open = s.x.open /\ x.started = s.x.started /\ x.stopping = s.x.stopping
      BY <1>2, <2>7 DEF Connection
    <3>3. /\ x.finalHold = s.x.finalHold /\ x.user = s.x.user /\ x.exp = s.x.exp /\ x.static = s.x.static
          /\ x.pin = s.x.pin /\ x.lookup = s.x.lookup
          /\ x.expiryTimer = s.x.expiryTimer /\ x.handshakeTimer = s.x.handshakeTimer
      BY <1>2, <2>7 DEF Connection
    <3> QED BY <3>1, <3>2, <3>3
  <2>9. PICK r : r = [x |-> x, b |-> u.b]
    OBVIOUS
  <2>10. Ends(c, r) /\ r.x = x /\ r.b = u.b /\ r = [x |-> r.x, b |-> r.b]
    BY <1>5, <2>4, <2>5, <2>7, <2>9
  <2>11. BooksInv(u.b) /\ SameElsewhere(books, u.b, c) /\ Core(s.x, u.b.lease[c], 2)
    BY <2>4 DEF Mid
  <2>12. HoldsMatch(x, u.b.lease[c], 1)
    BY <2>1, <2>6, <2>8, <2>11 DEF Core, HoldsMatch, OtherHolds
  <2>13. PhaseInv(x, u.b.lease[c])
    BY <2>1, <2>8, <2>11 DEF Core, PhaseInv
  <2>14. ~u.b.lease[c].closed
    BY <1>5, <2>1, <2>11 DEF Core, PhaseInv
  <2>15. IdentityInv(x, u.b.lease[c])
    BY <2>6, <2>8, <2>11, <2>14 DEF Core, IdentityInv, Current
  <2>16. s.x.started
    BY <1>2 DEF Settled, FrameInv
  <2>17. FrameInv(x) /\ TimerInv(x) /\ FrameHolds(x) = 1
    BY <2>1, <2>8, <2>16 DEF FrameInv, TimerInv, FrameHolds
  <2>18. Settled(r, c)
    BY <2>8, <2>10, <2>11, <2>12, <2>13, <2>15, <2>17 DEF Settled, Mid, Core
  <2>19. Acts(s.x, x)
    <3>1. \A k \in {"refresh", "snap"} : s.x[k].at # "granted" => x[k].at # "granted"
      BY <2>6, <2>8 DEF Reads
    <3>2. s.x.user \in {Anonymous, s.x.pin}
      BY <2>1 DEF Mid, Core, IdentityInv
    <3> QED BY <2>8, <3>1, <3>2 DEF Acts
  <2>20. Leaves(s.x, x)
    BY <2>1, <2>8 DEF Leaves
  <2> QED BY <1>2, <2>10, <2>18, <2>19, <2>20 DEF Lands
<1> QED BY <1>1, <1>4, <1>5 DEF Prepared

LEMMA DeliverLands ==
  ASSUME ConnectionInv, NEW c \in Conns, Deliver(c)
  PROVE  Lands(c)
<1>1. PICK s : s = Turn(c)
  OBVIOUS
<1>2. Settled(s, c) /\ s.x = conn[c] /\ s.b = books /\ s.x \in Connection /\ s = [x |-> s.x, b |-> s.b]
  BY <1>1, Begins
<1>3. /\ s.x.phase = "client" /\ s.x.started /\ ~s.b.lease[c].closed /\ s.x.snap = NoReading
      /\ Ends(c, [x |-> [s.x EXCEPT !.snap = StartReading(s.x)], b |-> Hold(s.b, c)])
  BY <1>2 DEF Deliver
<1>4. PICK k \in Nat : k = FrameHolds(s.x)
  BY DEF FrameHolds
<1>5. Mid(s, c, k) /\ FrameInv(s.x) /\ TimerInv(s.x)
  BY <1>2, <1>4 DEF Settled
<1>6. PICK u : u = [x |-> s.x, b |-> Hold(s.b, c)]
  OBVIOUS
<1>7. Mid(u, c, k + 1) /\ u.b = Hold(s.b, c) /\ u.x = s.x
  BY <1>3, <1>5, <1>6, HoldTurn
<1>8. PICK n : n = StartReading(s.x)
  OBVIOUS
<1>9. /\ n \in Reading /\ Reads(n) /\ n.as = s.x.user /\ ~n.stale
      /\ n.at = "reval" => s.x.static
      /\ n.at = "perms" => n.ok
  BY <1>2, <1>8, StartReadingIs
<1>10. PICK x : x = [s.x EXCEPT !.snap = n]
  OBVIOUS
<1>11. x \in Connection /\ x.snap = n /\ x.refresh = s.x.refresh /\ Rest(s.x, x)
  <2>1. x \in Connection
    BY <1>2, <1>9, <1>10 DEF Connection
  <2>2. x.snap = n /\ x.refresh = s.x.refresh /\ Rest(s.x, x)
    BY <1>2, <1>10 DEF Connection, Rest
  <2> QED BY <2>1, <2>2
<1>12. PICK r : r = [x |-> x, b |-> u.b]
  OBVIOUS
<1>13. Ends(c, r) /\ r.x = x /\ r.b = u.b /\ r = [x |-> r.x, b |-> r.b]
  BY <1>3, <1>7, <1>8, <1>10, <1>12
<1>14. BooksInv(u.b) /\ SameElsewhere(books, u.b, c) /\ Core(s.x, u.b.lease[c], k + 1)
  BY <1>7 DEF Mid
<1>15. HoldsMatch(x, u.b.lease[c], k)
  <2>1. ~Reads(s.x.snap)
    BY <1>3, NoReadingType
  <2> QED BY <1>9, <1>11, <1>14, <2>1 DEF Core, HoldsMatch, OtherHolds, Rest
<1>16. PhaseInv(x, u.b.lease[c])
  BY <1>3, <1>11, <1>14 DEF Core, PhaseInv, Rest
<1>17. ~u.b.lease[c].closed
  <2>1. ~s.x.stopping
    BY <1>3, <1>5 DEF Mid, Core, PhaseInv
  <2> QED BY <1>3, <1>14, <2>1 DEF Core, PhaseInv
<1>18. IdentityInv(x, u.b.lease[c])
  BY <1>9, <1>11, <1>14, <1>17 DEF Core, IdentityInv, Current, Rest
<1>19. FrameInv(x) /\ TimerInv(x) /\ FrameHolds(x) = k
  BY <1>4, <1>5, <1>11 DEF FrameInv, TimerInv, FrameHolds, Rest
<1>20. Settled(r, c)
  BY <1>11, <1>13, <1>14, <1>15, <1>16, <1>18, <1>19 DEF Settled, Mid, Core
<1>21. Acts(s.x, x)
  <2>1. \A i \in {"refresh", "snap"} : s.x[i].at # "granted" => x[i].at # "granted"
    BY <1>9, <1>11 DEF Reads
  <2>2. s.x.user \in {Anonymous, s.x.pin}
    BY <1>5 DEF Mid, Core, IdentityInv
  <2> QED BY <1>11, <2>1, <2>2 DEF Acts, Rest
<1>22. Leaves(s.x, x)
  BY <1>3, <1>11 DEF Leaves, Rest
<1> QED BY <1>2, <1>13, <1>20, <1>21, <1>22 DEF Lands

\* The end of a reading without a result.
LEMMA CommandWithheld ==
  ASSUME NEW c \in Conns, NEW s, Mid(s, c, 1), TimerInv(s.x), Reads(s.x.refresh), s.x.lookup # "live",
         s.x.phase = "client" \/ (s.x.phase = "gone" /\ s.x.stopping)
  PROVE  Settled(Withheld(s, c, "refresh"), c) /\ Goes(s.x, Withheld(s, c, "refresh").x)
<1>1. PICK x : x = [s.x EXCEPT !.refresh = NoReading]
  OBVIOUS
<1>2. s.x \in Connection
  BY DEF Mid
<1>3. x \in Connection /\ Rest(s.x, x) /\ x.snap = s.x.snap /\ x.refresh = NoReading /\ Goes(s.x, x)
  BY <1>1, <1>2, NoRefresh
<1>4. PICK u : u = [x |-> x, b |-> s.b]
  OBVIOUS
<1>5. Mid(u, c, 2) /\ u.x = x /\ u.b = s.b
  <2>1. s.x.phase \in {"client", "gone"} /\ 1 \in Nat /\ 1 + 1 = 2
    OBVIOUS
  <2>2. Mid(u, c, 1 + 1)
    BY <1>3, <1>4, <2>1, RefreshEnds, NoReadingType
  <2> QED BY <1>4, <2>1, <2>2
<1>6. PICK t : t = [x |-> x, b |-> Clear(s.b, c)]
  OBVIOUS
<1>7. Mid(t, c, 1) /\ t.x = x
  <2>1. 2 = 1 + 1 /\ u.x.phase \in {"client", "gone"}
    BY <1>3, <1>5 DEF Rest
  <2> QED BY <1>5, <1>6, <2>1, ClearTurn
<1>8. InHand(t, c)
  BY <1>3, <1>7, NoReadingType DEF InHand, Rest, TimerInv
<1>9. Withheld(s, c, "refresh") = FrameDone(t, c)
  BY <1>1, <1>6 DEF Withheld
<1>10. Settled(FrameDone(t, c), c) /\ Goes(x, FrameDone(t, c).x)
  BY <1>7, <1>8, FrameDoneSettles
<1> QED BY <1>3, <1>9, <1>10, GoesOn

LEMMA DeliveryWithheld ==
  ASSUME NEW c \in Conns, NEW k \in Nat, NEW s, Mid(s, c, k), Reads(s.x.snap), s.x.phase \in {"client", "gone"}
  PROVE  LET r == Withheld(s, c, "snap") IN
         Mid(r, c, k) /\ Goes(s.x, r.x) /\ Rest(s.x, r.x) /\ r.x.refresh = s.x.refresh
<1>1. PICK x : x = [s.x EXCEPT !.snap = NoReading]
  OBVIOUS
<1>2. s.x \in Connection
  BY DEF Mid
<1>3. x \in Connection /\ Rest(s.x, x) /\ x.refresh = s.x.refresh /\ x.snap = NoReading /\ Goes(s.x, x)
  BY <1>1, <1>2, NoSnap
<1>4. PICK u : u = [x |-> x, b |-> s.b]
  OBVIOUS
<1>5. Mid(u, c, k + 1) /\ u.x = x /\ u.b = s.b
  BY <1>3, <1>4, SnapEnds, NoReadingType
<1>6. PICK t : t = [x |-> x, b |-> Clear(s.b, c)]
  OBVIOUS
<1>7. Mid(t, c, k) /\ t.x = x
  <2>1. u.x.phase \in {"client", "gone"}
    BY <1>3, <1>5 DEF Rest
  <2> QED BY <1>5, <1>6, <2>1, ClearTurn
<1>8. Withheld(s, c, "snap") = t
  <2>1. "snap" # "refresh"
    OBVIOUS
  <2> QED BY <1>1, <1>6, <2>1 DEF Withheld
<1> QED BY <1>3, <1>7, <1>8

\* Where a reading is under way.
LEMMA ReadingIs ==
  ASSUME NEW c \in Conns, NEW s, Settled(s, c), NEW k \in {"refresh", "snap"}, Reads(s.x[k])
  PROVE  /\ s.x.phase \in {"client", "gone"}
         /\ Current(s.x[k], s.x, s.b.lease[c])
         /\ ~s.x[k].stale => s.x.phase = "client" /\ ~s.x.stopping
         /\ k = "refresh" => /\ s.x.drain = "refresh" /\ Mid(s, c, 1) /\ s.x.started /\ s.x.lookup # "live"
                             /\ s.x.phase = "gone" => s.x.stopping
<1>1. /\ s.x \in Connection /\ Core(s.x, s.b.lease[c], FrameHolds(s.x)) /\ FrameInv(s.x)
      /\ HoldsMatch(s.x, s.b.lease[c], FrameHolds(s.x)) /\ PhaseInv(s.x, s.b.lease[c]) /\ IdentityInv(s.x, s.b.lease[c])
  BY DEF Settled, Mid, Core
<1>2. Reads(s.x.refresh) \/ Reads(s.x.snap)
  OBVIOUS
<1>3. s.x.phase \in {"client", "gone"}
  <2>1. s.x.phase \notin {"lookup", "schema"}
    BY <1>1, <1>2, NoReadingType DEF PhaseInv, Socketless
  <2>2. s.x.phase \notin {"new", "limits"}
    <3>1. /\ [s.x EXCEPT !.phase = "new"].snap = s.x.snap /\ [s.x EXCEPT !.phase = "new"].refresh = s.x.refresh
          /\ NewConnection.snap = NoReading /\ NewConnection.refresh = NoReading
      BY <1>1 DEF Connection, NewConnection
    <3> QED BY ZenonT(40), <1>1, <1>2, <3>1, NoReadingType DEF PhaseInv
  <2> QED BY <1>1, <2>1, <2>2 DEF Connection, Upgrading
<1>4. Current(s.x[k], s.x, s.b.lease[c])
  <2>1. CASE k = "refresh"
    BY <1>1, <2>1 DEF IdentityInv
  <2>2. CASE k = "snap"
    BY <1>1, <2>2 DEF IdentityInv
  <2> QED BY <2>1, <2>2
<1>5. ASSUME ~s.x[k].stale PROVE s.x.phase = "client" /\ ~s.x.stopping
  <2>1. ~s.b.lease[c].closed
    BY <1>4, <1>5 DEF Current
  <2>2. s.b.lease[c] # NoLease
    <3>1. OtherHolds(s.x) >= 1 /\ FrameHolds(s.x) \in Nat /\ OtherHolds(s.x) \in Nat
      BY <1>2 DEF OtherHolds, FrameHolds
    <3>2. s.b.lease[c].work # 0
      BY <1>1, <3>1 DEF HoldsMatch
    <3> QED BY <3>2 DEF NoLease
  <2> QED BY <1>1, <1>3, <2>1, <2>2 DEF PhaseInv
<1>6. ASSUME k = "refresh"
      PROVE  /\ s.x.drain = "refresh" /\ Mid(s, c, 1) /\ s.x.started /\ s.x.lookup # "live"
             /\ s.x.phase = "gone" => s.x.stopping
  <2>1. s.x.drain = "refresh"
    BY <1>1, <1>6 DEF FrameInv
  <2>2. FrameHolds(s.x) = 1
    BY <2>1 DEF FrameHolds
  <2>3. Mid(s, c, 1)
    BY <2>2 DEF Settled
  <2> QED BY <1>1, <1>3, <2>1, <2>3 DEF FrameInv
<1> QED BY <1>3, <1>4, <1>5, <1>6

LEMMA WithheldSettles ==
  ASSUME NEW c \in Conns, NEW k \in {"refresh", "snap"}, NEW s, Settled(s, c), Reads(s.x[k])
  PROVE  LET r == Withheld(s, c, k) IN
         Settled(r, c) /\ Goes(s.x, r.x) /\ (s.x.drain = "idle" => r.x.drain = "idle")
<1>1. s.x.phase \in {"client", "gone"}
  BY ReadingIs
<1>2. CASE k = "refresh"
  <2>1. s.x.drain = "refresh" /\ Mid(s, c, 1) /\ s.x.lookup # "live" /\ (s.x.phase = "gone" => s.x.stopping)
    BY <1>2, ReadingIs
  <2>2. Reads(s.x.refresh) /\ TimerInv(s.x)
    BY <1>2 DEF Settled
  <2>3. Settled(Withheld(s, c, "refresh"), c) /\ Goes(s.x, Withheld(s, c, "refresh").x)
    BY <1>1, <2>1, <2>2, CommandWithheld
  <2> QED BY <1>2, <2>1, <2>3
<1>3. CASE k = "snap"
  <2>1. PICK r : r = Withheld(s, c, "snap")
    OBVIOUS
  <2>2. PICK j \in Nat : j = FrameHolds(s.x)
    BY DEF FrameHolds
  <2>3. Mid(s, c, j) /\ FrameInv(s.x) /\ TimerInv(s.x) /\ Reads(s.x.snap)
    BY <1>3, <2>2 DEF Settled
  <2>4. Mid(r, c, j) /\ Goes(s.x, r.x) /\ Rest(s.x, r.x) /\ r.x.refresh = s.x.refresh
    BY <1>1, <2>1, <2>3, DeliveryWithheld
  <2>5. FrameInv(r.x) /\ TimerInv(r.x) /\ FrameHolds(r.x) = j
    BY <2>2, <2>3, <2>4 DEF FrameInv, TimerInv, FrameHolds, Rest
  <2>6. Settled(r, c) /\ r.x.drain = s.x.drain
    BY <2>4, <2>5 DEF Settled, Rest
  <2> QED BY <1>3, <2>1, <2>4, <2>6
<1> QED BY <1>2, <1>3

\* A reading whose static user is found, and goes on to the permissions.
LEMMA ReadsOn ==
  ASSUME NEW c \in Conns, NEW s, Settled(s, c), NEW k \in {"refresh", "snap"}, s.x[k].at = "reval", s.x[k].ok
  PROVE  LET r == [s EXCEPT !.x[k].at = "perms"] IN
         /\ Settled(r, c) /\ Rest(s.x, r.x)
         /\ \A i \in {"refresh", "snap"} : r.x[i].at = "granted" => s.x[i].at = "granted"
<1>1. /\ s.x \in Connection /\ s = [x |-> s.x, b |-> s.b] /\ s.x.refresh \in Reading /\ s.x.snap \in Reading
      /\ BooksInv(s.b) /\ SameElsewhere(books, s.b, c) /\ Core(s.x, s.b.lease[c], FrameHolds(s.x))
      /\ FrameInv(s.x) /\ TimerInv(s.x)
  BY DEF Settled, Mid, Connection
<1>a. Reads(s.x[k])
  BY DEF Reads
<1>2. s.x.phase \in {"client", "gone"}
  BY <1>a, ReadingIs
<1>3. PICK n : n = [s.x[k] EXCEPT !.at = "perms"]
  OBVIOUS
<1>4. /\ n \in Reading /\ n.at = "perms" /\ n.as = s.x[k].as /\ n.ok = s.x[k].ok /\ n.stale = s.x[k].stale /\ Reads(n)
  <2>1. s.x[k] \in Reading
    BY <1>1
  <2> QED BY <1>3, <2>1 DEF Reading, Reads
<1>5. PICK x : x = [s.x EXCEPT ![k] = n]
  OBVIOUS
<1>6. PICK r : r = [x |-> x, b |-> s.b]
  OBVIOUS
<1>7. r = [s EXCEPT !.x[k].at = "perms"] /\ r.x = x /\ r.b = s.b /\ r = [x |-> r.x, b |-> r.b]
  BY <1>1, <1>3, <1>5, <1>6
<1>8. CASE k = "refresh"
  <2>1. x = [s.x EXCEPT !.refresh = n]
    BY <1>5, <1>8
  <2>2. x \in Connection
    BY <1>1, <1>4, <2>1 DEF Connection
  <2>3. Rest(s.x, x) /\ x.snap = s.x.snap /\ x.refresh = n
    BY <1>1, <2>1 DEF Connection, Rest
  <2>4. HoldsMatch(x, s.b.lease[c], FrameHolds(x)) /\ FrameInv(x) /\ TimerInv(x)
    BY <1>1, <1>4, <1>8, <1>a, <2>3 DEF Core, HoldsMatch, OtherHolds, FrameHolds, FrameInv, TimerInv, Rest
  <2>5. PhaseInv(x, s.b.lease[c])
    BY <1>1, <1>2, <2>3 DEF Core, PhaseInv, Rest
  <2>6. IdentityInv(x, s.b.lease[c])
    BY ZenonT(40), <1>1, <1>4, <1>8, <1>a, <2>3 DEF Core, IdentityInv, Current, Rest
  <2>7. \A i \in {"refresh", "snap"} : x[i].at = "granted" => s.x[i].at = "granted"
    BY <1>4, <2>3
  <2> QED BY <1>1, <1>7, <2>2, <2>3, <2>4, <2>5, <2>6, <2>7 DEF Settled, Mid, Core
<1>9. CASE k = "snap"
  <2>1. x = [s.x EXCEPT !.snap = n]
    BY <1>5, <1>9
  <2>2. x \in Connection
    BY <1>1, <1>4, <2>1 DEF Connection
  <2>3. Rest(s.x, x) /\ x.refresh = s.x.refresh /\ x.snap = n
    BY <1>1, <2>1 DEF Connection, Rest
  <2>4. HoldsMatch(x, s.b.lease[c], FrameHolds(x)) /\ FrameInv(x) /\ TimerInv(x)
    BY <1>1, <1>4, <1>9, <1>a, <2>3 DEF Core, HoldsMatch, OtherHolds, FrameHolds, FrameInv, TimerInv, Rest
  <2>5. PhaseInv(x, s.b.lease[c])
    BY <1>1, <1>2, <2>3 DEF Core, PhaseInv, Rest
  <2>6. IdentityInv(x, s.b.lease[c])
    BY ZenonT(40), <1>1, <1>4, <1>9, <1>a, <2>3 DEF Core, IdentityInv, Current, Rest
  <2>7. \A i \in {"refresh", "snap"} : x[i].at = "granted" => s.x[i].at = "granted"
    BY <1>4, <2>3
  <2> QED BY <1>1, <1>7, <2>2, <2>3, <2>4, <2>5, <2>6, <2>7 DEF Settled, Mid, Core
<1> QED BY <1>8, <1>9

LEMMA RevalidatedLands ==
  ASSUME ConnectionInv, NEW c \in Conns, NEW k \in {"refresh", "snap"}, Revalidated(c, k)
  PROVE  Lands(c)
<1>1. PICK s : s = Turn(c)
  OBVIOUS
<1>2. Settled(s, c) /\ s.x = conn[c] /\ s.x[k].at = "reval" /\ Reads(s.x[k])
  BY <1>1, Begins DEF Revalidated, Reads
<1>3. s.x.phase \in {"client", "gone"} /\ Current(s.x[k], s.x, s.b.lease[c])
      /\ (~s.x[k].stale => s.x.phase = "client" /\ ~s.x.stopping)
  BY <1>2, ReadingIs
<1>4. CASE Ends(c, Withheld(s, c, k))
  <2>1. PICK r : r = Withheld(s, c, k)
    OBVIOUS
  <2>2. Settled(r, c) /\ Goes(s.x, r.x) /\ (s.x.drain = "idle" => r.x.drain = "idle")
    BY <1>2, <2>1, WithheldSettles
  <2> QED BY <1>2, <1>4, <2>1, <2>2, GoesLands
<1>5. CASE ~s.x[k].stale /\ s.x[k].ok /\ Ends(c, [s EXCEPT !.x[k].at = "perms"])
  <2>1. PICK r : r = [s EXCEPT !.x[k].at = "perms"]
    OBVIOUS
  <2>2. /\ Settled(r, c) /\ Rest(s.x, r.x)
        /\ \A i \in {"refresh", "snap"} : r.x[i].at = "granted" => s.x[i].at = "granted"
    BY <1>2, <1>5, <2>1, ReadsOn
  <2>3. Acts(s.x, r.x)
    <3>1. s.x.user \in {Anonymous, s.x.pin}
      BY <1>2 DEF Settled, Mid, Core, IdentityInv
    <3> QED BY <2>2, <3>1 DEF Acts, Rest
  <2>4. Leaves(s.x, r.x)
    BY <2>2 DEF Leaves, Rest
  <2> QED BY <1>2, <1>5, <2>1, <2>2, <2>3, <2>4 DEF Lands
<1>6. CASE ~s.x[k].stale /\ Ends(c, Withheld(Expire(s, c), c, k))
  <2>1. PICK e : e = Expire(s, c)
    OBVIOUS
  <2>2. Settled(e, c) /\ Keeps(s.x, e.x)
    <3>1. PICK j \in Nat : j = FrameHolds(s.x)
      BY DEF FrameHolds
    <3>2. Mid(s, c, j) /\ FrameInv(s.x) /\ TimerInv(s.x)
      BY <1>2, <3>1 DEF Settled
    <3>3. s.x.exp = "never"
      BY <1>2, <1>3, <1>6 DEF Current, Settled, Mid, Core, IdentityInv
    <3>4. s.x.open => ~s.x.started \/ ~s.x.expiryTimer
      BY <1>3, <1>6, <3>2, <3>3 DEF TimerInv
    <3> QED BY <1>3, <1>6, <2>1, <3>1, <3>2, <3>4, ExpireSettles
  <2>3. Reads(e.x[k])
    BY <1>2, <2>2 DEF Keeps, Reads
  <2>4. PICK r : r = Withheld(e, c, k)
    OBVIOUS
  <2>5. Settled(r, c) /\ Goes(e.x, r.x)
    BY <2>2, <2>3, <2>4, WithheldSettles
  <2>6. Goes(s.x, r.x)
    BY <2>2, <2>5, GoesOn DEF Keeps
  <2> QED BY <1>2, <1>3, <1>6, <2>1, <2>4, <2>5, <2>6, GoesLands
<1>7. \/ Ends(c, Withheld(s, c, k))
      \/ ~s.x[k].stale /\ s.x[k].ok /\ Ends(c, [s EXCEPT !.x[k].at = "perms"])
      \/ ~s.x[k].stale /\ Ends(c, Withheld(Expire(s, c), c, k))
  BY <1>1, <1>2 DEF Revalidated, LateReading
<1> QED BY <1>4, <1>5, <1>6, <1>7

\* A reading whose permissions arrive: its result is that of the identity in use.
WithGrant(x, k) == [x EXCEPT ![k].at = "granted", !.user = IF k = "refresh" THEN x[k].as ELSE @]

LEMMA GrantIs ==
  ASSUME NEW c \in Conns, NEW s, Settled(s, c), NEW k \in {"refresh", "snap"}, Reads(s.x[k]), ~s.x[k].stale,
         NEW x, x = WithGrant(s.x, k)
  PROVE  /\ x \in Connection /\ Rest(s.x, x) /\ x[k].at = "granted" /\ x[k].as = s.x.user /\ x[k].ok = s.x[k].ok
         /\ \A i \in {"refresh", "snap"} \ {k} : x[i] = s.x[i]
<1>1. s.x \in Connection /\ s.x[k] \in Reading /\ s.x[k].as = s.x.user
  BY ReadingIs DEF Settled, Mid, Connection, Current
<1>2. PICK n : n = [s.x[k] EXCEPT !.at = "granted"]
  OBVIOUS
<1>3. n \in Reading /\ n.at = "granted" /\ n.as = s.x[k].as /\ n.ok = s.x[k].ok
  BY <1>1, <1>2 DEF Reading
<1>4. PICK u : u = IF k = "refresh" THEN s.x[k].as ELSE s.x.user
  OBVIOUS
<1>5. u = s.x.user
  BY <1>1, <1>4
<1>6. CASE k = "refresh"
  <2>1. x = [s.x EXCEPT !.refresh = n, !.user = u]
    BY <1>1, <1>2, <1>4, <1>6 DEF Connection, WithGrant
  <2>2. x \in Connection
    BY <1>1, <1>3, <1>5, <2>1 DEF Connection
  <2>3. Rest(s.x, x) /\ x.snap = s.x.snap /\ x.refresh = n
    BY <1>1, <1>5, <2>1 DEF Connection, Rest
  <2> QED BY <1>1, <1>3, <1>6, <2>2, <2>3
<1>7. CASE k = "snap"
  <2>1. x = [s.x EXCEPT !.snap = n, !.user = u]
    BY <1>1, <1>2, <1>4, <1>7 DEF Connection, WithGrant
  <2>2. x \in Connection
    BY <1>1, <1>3, <1>5, <2>1 DEF Connection
  <2>3. Rest(s.x, x) /\ x.refresh = s.x.refresh /\ x.snap = n
    BY <1>1, <1>5, <2>1 DEF Connection, Rest
  <2> QED BY <1>1, <1>3, <1>7, <2>2, <2>3
<1> QED BY <1>6, <1>7

LEMMA GrantedLands ==
  ASSUME ConnectionInv, NEW c \in Conns, NEW s, Settled(s, c), s.x = conn[c], NEW k \in {"refresh", "snap"},
         s.x[k].at = "perms", ~s.x[k].stale, NEW g,
         g = [x |-> WithGrant(s.x, k), b |-> Clear(s.b, c)],
         Ends(c, IF k = "snap" THEN g ELSE Await(g, "handler"))
  PROVE  Lands(c)
<1>1. Reads(s.x[k])
  BY DEF Reads
<1>2. /\ s.x.phase = "client" /\ ~s.x.stopping /\ s.x[k].ok
      /\ k = "refresh" => s.x.drain = "refresh" /\ s.x.started /\ s.x.lookup # "live"
  BY <1>1, ReadingIs DEF Current
<1>3. PICK x : x = WithGrant(s.x, k)
  OBVIOUS
<1>4. /\ x \in Connection /\ Rest(s.x, x) /\ x[k].at = "granted" /\ x[k].as = s.x.user /\ x[k].ok = s.x[k].ok
      /\ \A i \in {"refresh", "snap"} \ {k} : x[i] = s.x[i]
  BY <1>1, <1>3, GrantIs
<1>5. g = [x |-> x, b |-> Clear(s.b, c)] /\ g.x = x
  BY <1>3
<1>6. PICK j \in Nat : j = FrameHolds(s.x)
  BY DEF FrameHolds
<1>7. Mid(s, c, j) /\ FrameInv(s.x) /\ TimerInv(s.x)
  BY <1>6 DEF Settled
<1>8. PICK t : t = [x |-> x, b |-> s.b]
  OBVIOUS
<1>9. Mid(t, c, j + 1) /\ t.x = x /\ t.b = s.b
  <2>1. CASE k = "refresh"
    <3>1. x.snap = s.x.snap /\ ~Reads(x.refresh) /\ Reads(s.x.refresh)
      BY <1>1, <1>4, <2>1 DEF Reads
    <3> QED BY <1>2, <1>4, <1>7, <1>8, <3>1, RefreshEnds
  <2>2. CASE k = "snap"
    <3>1. x.refresh = s.x.refresh /\ ~Reads(x.snap) /\ Reads(s.x.snap)
      BY <1>1, <1>4, <2>2 DEF Reads
    <3> QED BY <1>2, <1>4, <1>7, <1>8, <3>1, SnapEnds
  <2> QED BY <2>1, <2>2
<1>10. Mid(g, c, j)
  <2>1. t.x.phase \in {"client", "gone"}
    BY <1>2, <1>4, <1>9 DEF Rest
  <2> QED BY <1>5, <1>9, <2>1, ClearTurn
<1>11. s.x.user \in {Anonymous, s.x.pin}
  BY <1>7 DEF Mid, Core, IdentityInv
<1>12. CASE k = "snap"
  <2>1. x.refresh = s.x.refresh
    BY <1>4, <1>12
  <2>2. FrameInv(x) /\ TimerInv(x) /\ FrameHolds(x) = j
    BY <1>4, <1>6, <1>7, <2>1 DEF FrameInv, TimerInv, FrameHolds, Rest
  <2>3. Settled(g, c)
    BY <1>5, <1>10, <2>2 DEF Settled
  <2>4. Acts(s.x, x)
    BY <1>2, <1>4, <1>11, <1>12 DEF Acts, Rest
  <2>5. Leaves(s.x, x)
    BY <1>4 DEF Leaves, Rest
  <2> QED BY <1>5, <1>12, <2>3, <2>4, <2>5 DEF Lands
<1>13. CASE k = "refresh"
  <2>1. InHand(g, c)
    <3>1. j = 1
      BY <1>2, <1>6, <1>13 DEF FrameHolds
    <3>2. TimerInv(x) /\ ~Reads(x.refresh) /\ x.lookup # "live" /\ x.phase = "client"
      BY <1>2, <1>4, <1>7, <1>13 DEF TimerInv, Rest, Reads
    <3> QED BY <1>5, <1>10, <3>1, <3>2 DEF InHand
  <2>2. PICK r : r = Await(g, "handler")
    OBVIOUS
  <2>3. Settled(r, c) /\ Twins(x, r.x)
    <3>1. g.x.started
      BY <1>2, <1>4, <1>5, <1>13 DEF Rest
    <3> QED BY <1>5, <2>1, <2>2, <3>1, AwaitSettles
  <2>4. Acts(s.x, r.x)
    <3>1. r.x.refresh = x.refresh /\ r.x.snap = s.x.snap /\ r.x.user = s.x.user /\ r.x.stopping = s.x.stopping
      BY <1>4, <1>13, <2>3 DEF Twins, Rest
    <3>2. x.refresh.as = s.x.user /\ x.refresh.ok
      BY <1>2, <1>4, <1>13
    <3> QED BY <1>2, <1>11, <3>1, <3>2 DEF Acts
  <2>5. Leaves(s.x, r.x)
    BY <1>2, <1>4, <2>3 DEF Leaves, Rest, Twins
  <2>6. Ends(c, r)
    BY <1>13, <2>2
  <2> QED BY <2>3, <2>4, <2>5, <2>6 DEF Lands
<1> QED BY <1>12, <1>13

LEMMA PermittedLands ==
  ASSUME ConnectionInv, NEW c \in Conns, NEW k \in {"refresh", "snap"}, Permitted(c, k)
  PROVE  Lands(c)
<1>1. PICK s : s = Turn(c)
  OBVIOUS
<1>2. Settled(s, c) /\ s.x = conn[c] /\ s.x[k].at = "perms" /\ Reads(s.x[k])
  BY <1>1, Begins DEF Permitted, Reads
<1>3. s.x.phase \in {"client", "gone"} /\ (~s.x[k].stale => s.x.phase = "client" /\ ~s.x.stopping)
  BY <1>2, ReadingIs
<1>4. CASE Ends(c, Withheld(s, c, k))
  <2>1. PICK r : r = Withheld(s, c, k)
    OBVIOUS
  <2>2. Settled(r, c) /\ Goes(s.x, r.x) /\ (s.x.drain = "idle" => r.x.drain = "idle")
    BY <1>2, <2>1, WithheldSettles
  <2> QED BY <1>2, <1>4, <2>1, <2>2, GoesLands
<1>5. PICK g : g = [x |-> WithGrant(s.x, k), b |-> Clear(s.b, c)]
  OBVIOUS
<1>6. CASE ~s.x[k].stale /\ Ends(c, IF k = "snap" THEN g ELSE Await(g, "handler"))
  BY <1>2, <1>5, <1>6, GrantedLands
<1>7. Ends(c, Withheld(s, c, k)) \/ (~s.x[k].stale /\ Ends(c, IF k = "snap" THEN g ELSE Await(g, "handler")))
  BY <1>1, <1>2, <1>3, <1>5 DEF Permitted, LateReading, WithGrant
<1> QED BY <1>4, <1>6, <1>7

-----------------------------------------------------------------------------
\* Upgrades.

\* A connection that has no lease yet is as it was created.
LEMMA FreshIs ==
  ASSUME NEW c \in Conns, NEW s, Settled(s, c), s.x.phase \in {"new", "limits"}
  PROVE  /\ ~s.x.open /\ ~s.x.started /\ ~s.x.stopping /\ ~s.x.finalHold
         /\ s.x.user = Anonymous /\ s.x.exp = "never" /\ ~s.x.static /\ s.x.pin = Anonymous
         /\ s.x.lookup = "none" /\ ~s.x.expiryTimer /\ ~s.x.handshakeTimer
         /\ s.x.drain = "idle" /\ s.x.refresh = NoReading /\ s.x.snap = NoReading
         /\ s.b.lease[c] = NoLease
<1>1. s.x \in Connection /\ s.b.lease[c] = NoLease /\ [s.x EXCEPT !.phase = "new"] = NewConnection
  BY DEF Settled, Mid, Core, PhaseInv
<1>2. PICK y : y = [s.x EXCEPT !.phase = "new"]
  OBVIOUS
<1>3. /\ y.open = s.x.open /\ y.started = s.x.started /\ y.stopping = s.x.stopping /\ y.finalHold = s.x.finalHold
      /\ y.user = s.x.user /\ y.exp = s.x.exp /\ y.static = s.x.static /\ y.pin = s.x.pin
      /\ y.lookup = s.x.lookup /\ y.expiryTimer = s.x.expiryTimer /\ y.handshakeTimer = s.x.handshakeTimer
      /\ y.drain = s.x.drain /\ y.refresh = s.x.refresh /\ y.snap = s.x.snap
  BY <1>1, <1>2 DEF Connection
<1>4. y = NewConnection
  BY <1>1, <1>2
<1>5. /\ y.user = Anonymous /\ y.exp = "never" /\ y.pin = Anonymous /\ y.lookup = "none"
      /\ y.drain = "idle" /\ y.refresh = NoReading /\ y.snap = NoReading
      /\ ~y.open /\ ~y.started /\ ~y.stopping /\ ~y.finalHold /\ ~y.static /\ ~y.expiryTimer /\ ~y.handshakeTimer
  BY <1>4 DEF NewConnection
<1> QED BY <1>1, <1>3, <1>5

\* What a change of phase leaves alone.
AllButPhase(x, y) ==
  /\ y.open = x.open /\ y.started = x.started /\ y.stopping = x.stopping /\ y.finalHold = x.finalHold
  /\ y.user = x.user /\ y.exp = x.exp /\ y.static = x.static /\ y.pin = x.pin
  /\ y.lookup = x.lookup /\ y.expiryTimer = x.expiryTimer /\ y.handshakeTimer = x.handshakeTimer
  /\ y.drain = x.drain /\ y.refresh = x.refresh /\ y.snap = x.snap

LEMMA PhaseSet ==
  ASSUME NEW x \in Connection, NEW p \in {"new", "gone", "client", "limits", "lookup", "schema"},
         NEW y, y = [x EXCEPT !.phase = p]
  PROVE  y \in Connection /\ y.phase = p /\ AllButPhase(x, y)
<1>1. y \in Connection
  BY DEF Connection, Upgrading
<1>2. y.phase = p /\ AllButPhase(x, y)
  BY DEF Connection, AllButPhase
<1> QED BY <1>1, <1>2

\* A connection that is refused, or begins its upgrade, before it has a lease.
LEMMA FreshSettles ==
  ASSUME NEW c \in Conns, NEW s, Settled(s, c), s.x.phase \in {"new", "limits"}, NEW p \in {"limits", "gone"},
         NEW r, r = [s EXCEPT !.x.phase = p]
  PROVE  Settled(r, c) /\ r.x.phase = p /\ AllButPhase(s.x, r.x)
<1>1. /\ s = [x |-> s.x, b |-> s.b] /\ s.x \in Connection /\ BooksInv(s.b) /\ SameElsewhere(books, s.b, c)
      /\ Core(s.x, s.b.lease[c], FrameHolds(s.x)) /\ [s.x EXCEPT !.phase = "new"] = NewConnection
  BY DEF Settled, Mid, Core, PhaseInv
<1>2. PICK x : x = [s.x EXCEPT !.phase = p]
  OBVIOUS
<1>3. x \in Connection /\ x.phase = p /\ AllButPhase(s.x, x)
  BY <1>1, <1>2, PhaseSet
<1>4. r = [x |-> x, b |-> s.b] /\ r.x = x /\ r.b = s.b /\ r = [x |-> r.x, b |-> r.b]
  BY <1>1, <1>2
<1>5. [x EXCEPT !.phase = "new"] = NewConnection
  BY <1>1, <1>2 DEF Connection
<1>6. /\ ~s.x.open /\ ~s.x.started /\ ~s.x.stopping /\ ~s.x.finalHold
      /\ s.x.user = Anonymous /\ s.x.exp = "never" /\ ~s.x.static
      /\ s.x.lookup = "none" /\ ~s.x.expiryTimer /\ ~s.x.handshakeTimer
      /\ s.x.drain = "idle" /\ s.x.refresh = NoReading /\ s.x.snap = NoReading
      /\ s.b.lease[c] = NoLease
  BY FreshIs
<1>7. HoldsMatch(x, s.b.lease[c], FrameHolds(x))
  BY <1>1, <1>3 DEF Core, HoldsMatch, OtherHolds, FrameHolds, AllButPhase
<1>8. PhaseInv(x, s.b.lease[c])
  BY <1>3, <1>5, <1>6 DEF PhaseInv, AllButPhase
<1>9. IdentityInv(x, s.b.lease[c])
  BY <1>3, <1>6, NoReadingType DEF IdentityInv, Current, AllButPhase
<1>10. FrameInv(x) /\ TimerInv(x)
  BY <1>3, <1>6, NoReadingType DEF FrameInv, TimerInv, AllButPhase
<1> QED BY <1>1, <1>3, <1>4, <1>7, <1>8, <1>9, <1>10 DEF Settled, Mid, Core

\* Acts and Leaves of a step that changes the phase and nothing of the identity.
LEMMA PhaseActs ==
  ASSUME NEW x, NEW y, y.user = x.user, x.user \in {Anonymous, x.pin},
         y.refresh = NoReading \/ y.refresh.at \in {x.refresh.at, "idle"}, y.snap = NoReading \/ y.snap.at \in {x.snap.at, "idle"}
  PROVE  Acts(x, y)
<1>1. \A k \in {"refresh", "snap"} : x[k].at # "granted" => y[k].at # "granted"
  BY NoReadingType
<1> QED BY <1>1 DEF Acts

LEMMA ArriveLands ==
  ASSUME ConnectionInv, NEW c \in Conns, Arrive(c)
  PROVE  Lands(c)
<1>1. PICK s : s = Turn(c)
  OBVIOUS
<1>2. Settled(s, c) /\ s.x = conn[c] /\ s.x.phase = "new"
  BY <1>1, Begins DEF Arrive
<1>3. PICK p \in {"limits", "gone"} : p = IF shutdown = "serving" THEN "limits" ELSE "gone"
  OBVIOUS
<1>4. PICK r : r = [s EXCEPT !.x.phase = p]
  OBVIOUS
<1>5. Settled(r, c) /\ r.x.phase = p /\ AllButPhase(s.x, r.x)
  BY <1>2, <1>3, <1>4, FreshSettles
<1>6. Ends(c, r)
  BY <1>1, <1>3, <1>4 DEF Arrive
<1>7. Acts(s.x, r.x)
  BY <1>2, <1>5, FreshIs, PhaseActs DEF AllButPhase
<1>8. Leaves(s.x, r.x)
  BY <1>2, <1>3, <1>5 DEF Leaves, AllButPhase, Upgrading
<1> QED BY <1>2, <1>5, <1>6, <1>7, <1>8 DEF Lands

\* A place on the books.
LEMMA LeasedIs ==
  ASSUME NEW c \in Conns, NEW s, Settled(s, c), s.x.phase = "limits", Admits(s.b, c), NEW r, r = [x |-> s.x, b |-> Reserve(s.b, c)]
  PROVE  Admitted(r, c) /\ r.x = s.x
<1>1. s.x \in Connection /\ BooksInv(s.b) /\ SameElsewhere(books, s.b, c)
  BY DEF Settled, Mid
<1>2. /\ ~s.x.open /\ ~s.x.started /\ ~s.x.stopping /\ ~s.x.finalHold
      /\ s.x.user = Anonymous /\ s.x.exp = "never" /\ ~s.x.static
      /\ s.x.lookup = "none" /\ ~s.x.expiryTimer /\ ~s.x.handshakeTimer
      /\ s.x.drain = "idle" /\ s.x.refresh = NoReading /\ s.x.snap = NoReading
      /\ s.b.lease[c] = NoLease
  BY FreshIs
<1>3. PICK b : b = Reserve(s.b, c)
  OBVIOUS
<1>4. s.b.lease[c] = NoLease /\ BooksInv(s.b)
  BY <1>1, <1>2
<1>5. /\ BooksInv(b) /\ SameElsewhere(s.b, b, c)
      /\ b.lease[c].held /\ ~b.lease[c].closed /\ b.lease[c].work = 0 /\ b.lease[c].user = Anonymous
  BY <1>3, <1>4, ReserveBooks
<1>6. HoldsMatch(s.x, b.lease[c], 0) /\ Reserved(b.lease[c])
  BY <1>2, <1>5, NoReadingType DEF HoldsMatch, OtherHolds, Reserved
<1>7. SameElsewhere(books, b, c)
  BY <1>1, <1>5 DEF SameElsewhere
<1> QED BY <1>1, <1>2, <1>3, <1>5, <1>6, <1>7 DEF Admitted, Socketless

\* An upgrade under way has one.
LEMMA UpgradeAdmitted ==
  ASSUME NEW c \in Conns, NEW s, Settled(s, c), s.x.phase \in {"lookup", "schema"}
  PROVE  Admitted(s, c)
<1>1. /\ s = [x |-> s.x, b |-> s.b] /\ s.x \in Connection /\ BooksInv(s.b) /\ SameElsewhere(books, s.b, c)
      /\ HoldsMatch(s.x, s.b.lease[c], FrameHolds(s.x)) /\ Reserved(s.b.lease[c]) /\ ~s.b.lease[c].closed
      /\ Socketless(s.x) /\ ~s.x.open /\ ~s.x.expiryTimer /\ ~s.x.handshakeTimer
      /\ s.x.static => s.x.exp = "never"
      /\ s.x.user \in {Anonymous, s.x.pin}
  BY DEF Settled, Mid, Core, PhaseInv, IdentityInv
<1>2. FrameHolds(s.x) = 0
  BY <1>1 DEF FrameHolds, Socketless
<1> QED BY <1>1, <1>2 DEF Admitted

\* An upgrade ends before it has a socket.
LEMMA GoneLands ==
  ASSUME ConnectionInv, NEW c \in Conns, NEW s, Admitted(s, c), Ends(c, Gone(s, c)),
         conn[c].phase \in Upgrading, s.x.user = conn[c].user
  PROVE  Lands(c)
<1>1. PICK x : x = [s.x EXCEPT !.phase = "gone"]
  OBVIOUS
<1>2. PICK r : r = AuthClose([x |-> x, b |-> s.b], c)
  OBVIOUS
<1>3. Gone(s, c) = r
  BY <1>1, <1>2 DEF Gone, Admitted
<1>4. Settled(r, c) /\ Over(s.x, r.x)
  BY <1>1, <1>2, GoneSettles
<1>5. Acts(conn[c], r.x)
  <2>1. conn[c].user \in {Anonymous, conn[c].pin}
    BY DEF ConnectionInv, Local, Core, IdentityInv
  <2> QED BY <1>4, <2>1, PhaseActs DEF Over
<1>6. Leaves(conn[c], r.x)
  BY <1>4 DEF Leaves, Over, Upgrading
<1> QED BY <1>3, <1>4, <1>5, <1>6 DEF Lands

LEMMA AbandonLookupLands ==
  ASSUME ConnectionInv, NEW c \in Conns, AbandonLookup(c)
  PROVE  Lands(c)
<1>1. PICK s : s = Turn(c)
  OBVIOUS
<1>2. Settled(s, c) /\ s.x = conn[c] /\ s.x.phase = "lookup" /\ Ends(c, Gone(s, c))
  BY <1>1, Begins DEF AbandonLookup
<1>3. Admitted(s, c) /\ conn[c].phase \in Upgrading
  BY <1>2, UpgradeAdmitted DEF Upgrading
<1> QED BY <1>2, <1>3, GoneLands

\* An upgrade that waits for its schema.
LEMMA SchemaSettles ==
  ASSUME NEW c \in Conns, NEW s, Admitted(s, c), s.x.lookup = "none", mode # "public" => s.x.user # Anonymous,
         NEW r, r = [s EXCEPT !.x.phase = "schema"]
  PROVE  Settled(r, c) /\ r.x.phase = "schema" /\ AllButPhase(s.x, r.x)
<1>1. /\ s = [x |-> s.x, b |-> s.b] /\ s.x \in Connection
      /\ BooksInv(s.b) /\ SameElsewhere(books, s.b, c)
      /\ HoldsMatch(s.x, s.b.lease[c], 0) /\ Reserved(s.b.lease[c]) /\ ~s.b.lease[c].closed
      /\ Socketless(s.x) /\ ~s.x.open /\ ~s.x.expiryTimer /\ ~s.x.handshakeTimer
      /\ s.x.static => s.x.exp = "never"
      /\ s.x.user \in {Anonymous, s.x.pin}
  BY DEF Admitted
<1>2. PICK x : x = [s.x EXCEPT !.phase = "schema"]
  OBVIOUS
<1>3. x \in Connection /\ x.phase = "schema" /\ AllButPhase(s.x, x)
  BY <1>1, <1>2, PhaseSet
<1>4. r = [x |-> x, b |-> s.b] /\ r.x = x /\ r.b = s.b /\ r = [x |-> r.x, b |-> r.b]
  BY <1>1, <1>2
<1>5. HoldsMatch(x, s.b.lease[c], FrameHolds(x))
  BY <1>1, <1>3 DEF HoldsMatch, OtherHolds, FrameHolds, AllButPhase, Socketless
<1>6. PhaseInv(x, s.b.lease[c])
  BY <1>1, <1>3 DEF PhaseInv, AllButPhase, Socketless
<1>7. IdentityInv(x, s.b.lease[c])
  BY <1>1, <1>3, NoReadingType DEF IdentityInv, Current, AllButPhase, Socketless
<1>8. FrameInv(x) /\ TimerInv(x)
  BY <1>1, <1>3, NoReadingType DEF FrameInv, TimerInv, AllButPhase, Socketless
<1> QED BY <1>1, <1>3, <1>4, <1>5, <1>6, <1>7, <1>8 DEF Settled, Mid, Core

\* A client is created from an upgrade, started or not.
Joined(x, y) ==
  /\ y.phase = "client" /\ y.open /\ y.stopping = x.stopping /\ y.finalHold = x.finalHold
  /\ y.user = x.user /\ y.exp = x.exp /\ y.static = x.static /\ y.pin = x.pin
  /\ y.lookup = x.lookup /\ y.expiryTimer = x.expiryTimer
  /\ y.drain = x.drain /\ y.refresh = x.refresh /\ y.snap = x.snap

LEMMA JoinedMid ==
  ASSUME NEW c \in Conns, NEW s, Admitted(s, c), s.x.lookup = "none", NEW x \in Connection, Joined(s.x, x),
         mode # "public" /\ x.started => x.user # Anonymous, NEW r, r = [x |-> x, b |-> s.b]
  PROVE  Mid(r, c, 0) /\ r.x = x /\ FrameInv(x) /\ ~x.stopping /\ x.drain = "idle" /\ x.lookup = "none"
<1>1. /\ s = [x |-> s.x, b |-> s.b] /\ s.x \in Connection
      /\ BooksInv(s.b) /\ SameElsewhere(books, s.b, c)
      /\ HoldsMatch(s.x, s.b.lease[c], 0) /\ Reserved(s.b.lease[c]) /\ ~s.b.lease[c].closed
      /\ Socketless(s.x)
      /\ s.x.static => s.x.exp = "never"
      /\ s.x.user \in {Anonymous, s.x.pin}
  BY DEF Admitted
<1>2. r.x = x /\ r.b = s.b /\ r = [x |-> r.x, b |-> r.b]
  OBVIOUS
<1>3. HoldsMatch(x, s.b.lease[c], 0)
  BY <1>1 DEF HoldsMatch, OtherHolds, Joined
<1>4. PhaseInv(x, s.b.lease[c])
  BY <1>1 DEF PhaseInv, Joined, Socketless
<1>5. IdentityInv(x, s.b.lease[c])
  BY <1>1, NoReadingType DEF IdentityInv, Current, Joined, Socketless
<1>6. FrameInv(x) /\ ~x.stopping /\ x.drain = "idle" /\ x.lookup = "none"
  BY <1>1, NoReadingType DEF FrameInv, Joined, Socketless
<1> QED BY <1>1, <1>2, <1>3, <1>4, <1>5, <1>6 DEF Mid, Core

LEMMA EstablishLands ==
  ASSUME ConnectionInv, NEW c \in Conns, NEW s, Admitted(s, c), s.x = conn[c], s.x.lookup = "none",
         conn[c].phase \in Upgrading, mode \notin {"public", "handshake"} => s.x.user # Anonymous, Ends(c, Establish(s, c))
  PROVE  Lands(c)
<1>1. /\ s = [x |-> s.x, b |-> s.b] /\ s.x \in Connection /\ Socketless(s.x) /\ ~s.x.expiryTimer
      /\ s.x.user \in {Anonymous, s.x.pin}
  BY DEF Admitted
<1>2. CASE ~Joins
  BY <1>2, GoneLands DEF Establish
<1>3. PICK v \in BOOLEAN : v = TRUE
  OBVIOUS
<1>4. CASE Joins /\ mode = "handshake"
  <2>1. PICK x : x = [s.x EXCEPT !.phase = "client", !.open = v, !.handshakeTimer = v]
    OBVIOUS
  <2>2. x \in Connection /\ Joined(s.x, x) /\ ~x.started
    <3>1. x \in Connection
      BY <1>1, <2>1 DEF Connection
    <3>2. /\ x.phase = "client" /\ x.stopping = s.x.stopping /\ x.finalHold = s.x.finalHold
          /\ x.user = s.x.user /\ x.exp = s.x.exp /\ x.static = s.x.static /\ x.pin = s.x.pin
          /\ x.lookup = s.x.lookup /\ x.expiryTimer = s.x.expiryTimer
          /\ x.drain = s.x.drain /\ x.refresh = s.x.refresh /\ x.snap = s.x.snap /\ x.started = s.x.started
      BY <1>1, <2>1 DEF Connection
    <3>3. x.open = v
      BY <1>1, <2>1 DEF Connection
    <3> QED BY <1>1, <1>3, <3>1, <3>2, <3>3 DEF Joined, Socketless
  <2>3. PICK r : r = [x |-> x, b |-> s.b]
    OBVIOUS
  <2>4. Mid(r, c, 0) /\ r.x = x /\ FrameInv(x) /\ x.drain = "idle"
    BY <2>2, <2>3, JoinedMid
  <2>5. Settled(r, c)
    BY <2>2, <2>4 DEF Settled, FrameHolds, TimerInv
  <2>6. Ends(c, r)
    <3>1. [s EXCEPT !.x.phase = "client", !.x.open = v, !.x.handshakeTimer = v] = r
      <4>1. PICK y : y = [s.x EXCEPT !.phase = "client"]
        OBVIOUS
      <4>2. PICK q : q = [s EXCEPT !.x.phase = "client"]
        OBVIOUS
      <4>3. q = [x |-> y, b |-> s.b] /\ q.x = y /\ q.b = s.b
        BY <1>1, <4>1, <4>2
      <4>4. PICK z : z = [y EXCEPT !.open = v]
        OBVIOUS
      <4>5. PICK w : w = [q EXCEPT !.x.open = v]
        OBVIOUS
      <4>6. w = [x |-> z, b |-> s.b] /\ w.x = z /\ w.b = s.b
        BY <4>3, <4>4, <4>5
      <4>7. [w EXCEPT !.x.handshakeTimer = v] = [x |-> [z EXCEPT !.handshakeTimer = v], b |-> s.b]
        BY <4>6
      <4>8. x = [z EXCEPT !.handshakeTimer = v]
        BY <2>1, <4>1, <4>4
      <4> QED BY <2>3, <4>2, <4>5, <4>7, <4>8
    <3>2. Ends(c, [s EXCEPT !.x.phase = "client", !.x.open = TRUE, !.x.handshakeTimer = TRUE])
      BY <1>4 DEF Establish
    <3> QED BY <1>3, <3>1, <3>2
  <2>7. Acts(s.x, x)
    BY <1>1, <2>2, PhaseActs DEF Joined
  <2>8. Leaves(s.x, x)
    BY <1>4 DEF Leaves, Joins
  <2> QED BY <2>4, <2>5, <2>6, <2>7, <2>8 DEF Lands
<1>5. CASE Joins /\ mode # "handshake"
  <2>1. PICK x : x = [s.x EXCEPT !.phase = "client", !.open = v, !.started = v]
    OBVIOUS
  <2>2. x \in Connection /\ Joined(s.x, x)
    <3>1. x \in Connection
      BY <1>1, <2>1 DEF Connection
    <3>2. /\ x.phase = "client" /\ x.stopping = s.x.stopping /\ x.finalHold = s.x.finalHold
          /\ x.user = s.x.user /\ x.exp = s.x.exp /\ x.static = s.x.static /\ x.pin = s.x.pin
          /\ x.lookup = s.x.lookup /\ x.expiryTimer = s.x.expiryTimer
          /\ x.drain = s.x.drain /\ x.refresh = s.x.refresh /\ x.snap = s.x.snap
      BY <1>1, <2>1 DEF Connection
    <3>3. x.open = v
      BY <1>1, <2>1 DEF Connection
    <3> QED BY <1>3, <3>1, <3>2, <3>3 DEF Joined
  <2>3. PICK t : t = [x |-> x, b |-> s.b]
    OBVIOUS
  <2>4. Mid(t, c, 0) /\ t.x = x /\ FrameInv(x) /\ ~x.stopping /\ x.drain = "idle" /\ x.lookup = "none" /\ x.phase = "client"
    <3>1. mode # "public" => x.user # Anonymous
      BY <1>5, <2>2 DEF Joined
    <3> QED BY <2>2, <2>3, <3>1, JoinedMid DEF Joined
  <2>5. PICK r : r = ArmExpiryTimer(t, c)
    OBVIOUS
  <2>6. Mid(r, c, 0) /\ Keeps(x, r.x) /\ TimerInv(r.x)
    <3>1. 0 \in Nat
      OBVIOUS
    <3> QED BY <2>4, <2>5, <3>1, ArmKeeps
  <2>7. FrameInv(r.x) /\ FrameHolds(r.x) = 0
    <3>1. r.x.drain = "idle" /\ r.x.lookup # "live" /\ ~Reads(r.x.refresh)
      <4>1. x.refresh = NoReading
        BY <1>1, <2>2 DEF Joined, Socketless
      <4> QED BY <2>4, <2>6, <4>1, NoReadingType DEF Keeps, Goes, Reads
    <3> QED BY <3>1 DEF FrameInv, FrameHolds
  <2>8. Settled(r, c)
    BY <2>6, <2>7 DEF Settled
  <2>9. Ends(c, r)
    <3>1. [s EXCEPT !.x.phase = "client", !.x.open = v, !.x.started = v] = t
      <4>1. PICK y : y = [s.x EXCEPT !.phase = "client"]
        OBVIOUS
      <4>2. PICK q : q = [s EXCEPT !.x.phase = "client"]
        OBVIOUS
      <4>3. q = [x |-> y, b |-> s.b] /\ q.x = y /\ q.b = s.b
        BY <1>1, <4>1, <4>2
      <4>4. PICK z : z = [y EXCEPT !.open = v]
        OBVIOUS
      <4>5. PICK w : w = [q EXCEPT !.x.open = v]
        OBVIOUS
      <4>6. w = [x |-> z, b |-> s.b] /\ w.x = z /\ w.b = s.b
        BY <4>3, <4>4, <4>5
      <4>7. [w EXCEPT !.x.started = v] = [x |-> [z EXCEPT !.started = v], b |-> s.b]
        BY <4>6
      <4>8. x = [z EXCEPT !.started = v]
        BY <2>1, <4>1, <4>4
      <4> QED BY <2>3, <4>2, <4>5, <4>7, <4>8
    <3>2. Ends(c, ArmExpiryTimer([s EXCEPT !.x.phase = "client", !.x.open = TRUE, !.x.started = TRUE], c))
      BY <1>5 DEF Establish
    <3> QED BY <1>3, <2>5, <3>1, <3>2
  <2>10. Acts(s.x, r.x)
    <3>1. Acts(x, r.x)
      BY <1>1, <2>2, <2>6, GoesActs DEF Keeps, Joined
    <3>2. \A k \in {"refresh", "snap"} : s.x[k] = x[k]
      BY <2>2 DEF Joined
    <3> QED BY <1>1, <2>2, <2>4, <2>6, <3>1, <3>2 DEF Acts, Joined, Keeps, Goes
  <2>11. Leaves(s.x, r.x)
    BY <1>5 DEF Leaves, Joins
  <2> QED BY <2>8, <2>9, <2>10, <2>11 DEF Lands
<1> QED BY <1>2, <1>4, <1>5

LEMMA UpgradeSchemaLands ==
  ASSUME ConnectionInv, NEW c \in Conns, UpgradeSchema(c)
  PROVE  Lands(c)
<1>1. PICK s : s = Turn(c)
  OBVIOUS
<1>2. /\ Settled(s, c) /\ s.x = conn[c] /\ s.x.phase = "schema"
      /\ Ends(c, Gone(s, c)) \/ Ends(c, Establish(s, c))
  BY <1>1, Begins DEF UpgradeSchema
<1>3. Admitted(s, c) /\ conn[c].phase \in Upgrading
  BY <1>2, UpgradeAdmitted DEF Upgrading
<1>4. s.x.lookup = "none" /\ (mode # "public" => s.x.user # Anonymous)
  BY <1>2 DEF Settled, Mid, Core, PhaseInv, IdentityInv
<1> QED BY <1>2, <1>3, <1>4, GoneLands, EstablishLands

\* authorize of the strict mode: a place, and a lookup that holds it.
WithLookup(x) == [x EXCEPT !.phase = "lookup", !.lookup = "live", !.seen = revoked]

LEMMA LookupSettles ==
  ASSUME NEW c \in Conns, NEW s, Admitted(s, c), s.x.lookup = "none", revoked \subseteq Users,
         NEW x, x = WithLookup(s.x), NEW r, r = [x |-> x, b |-> Hold(s.b, c)]
  PROVE  Settled(r, c) /\ r.x.phase = "lookup" /\ r.x.user = s.x.user
         /\ r.x.refresh = NoReading /\ r.x.snap = NoReading
<1>1. /\ s.x \in Connection
      /\ BooksInv(s.b) /\ SameElsewhere(books, s.b, c)
      /\ HoldsMatch(s.x, s.b.lease[c], 0) /\ Reserved(s.b.lease[c]) /\ ~s.b.lease[c].closed
      /\ Socketless(s.x) /\ ~s.x.open /\ ~s.x.expiryTimer /\ ~s.x.handshakeTimer
      /\ s.x.static => s.x.exp = "never"
      /\ s.x.user \in {Anonymous, s.x.pin}
  BY DEF Admitted
<1>2. /\ x \in Connection /\ x.phase = "lookup" /\ x.lookup = "live"
      /\ x.open = s.x.open /\ x.started = s.x.started /\ x.stopping = s.x.stopping /\ x.finalHold = s.x.finalHold
      /\ x.user = s.x.user /\ x.exp = s.x.exp /\ x.static = s.x.static /\ x.pin = s.x.pin
      /\ x.expiryTimer = s.x.expiryTimer /\ x.handshakeTimer = s.x.handshakeTimer
      /\ x.drain = s.x.drain /\ x.refresh = s.x.refresh /\ x.snap = s.x.snap
  <2>1. x \in Connection
    BY <1>1 DEF WithLookup, Connection, Upgrading
  <2>2. /\ x.phase = "lookup" /\ x.lookup = "live"
        /\ x.open = s.x.open /\ x.started = s.x.started /\ x.stopping = s.x.stopping /\ x.finalHold = s.x.finalHold
        /\ x.user = s.x.user /\ x.exp = s.x.exp /\ x.static = s.x.static /\ x.pin = s.x.pin
    BY <1>1 DEF WithLookup, Connection
  <2>3. /\ x.expiryTimer = s.x.expiryTimer /\ x.handshakeTimer = s.x.handshakeTimer
        /\ x.drain = s.x.drain /\ x.refresh = s.x.refresh /\ x.snap = s.x.snap
    BY <1>1 DEF WithLookup, Connection
  <2> QED BY <2>1, <2>2, <2>3
<1>3. PICK l : l = s.b.lease[c]
  OBVIOUS
<1>4. l \in Lease /\ l.held /\ ~l.closed /\ l.work = OtherHolds(s.x) /\ l.user = s.x.user /\ OtherHolds(s.x) = 0
  <2>1. OtherHolds(s.x) = 0
    BY <1>1, NoReadingType DEF OtherHolds, Socketless
  <2> QED BY <1>1, <1>3, <2>1, BooksTypes DEF HoldsMatch, Reserved
<1>5. PICK b : b = Hold(s.b, c)
  OBVIOUS
<1>6. /\ BooksInv(b) /\ SameElsewhere(s.b, b, c) /\ b.lease[c].held /\ ~b.lease[c].closed
      /\ b.lease[c].work = l.work + 1 /\ b.lease[c].user = l.user
  BY <1>1, <1>3, <1>4, <1>5, HoldBooks
<1>7. r.x = x /\ r.b = b /\ r = [x |-> r.x, b |-> r.b]
  BY <1>5
<1>8. HoldsMatch(x, b.lease[c], FrameHolds(x))
  <2>1. OtherHolds(x) = 1 /\ FrameHolds(x) = 0
    BY <1>1, <1>2, NoReadingType DEF OtherHolds, FrameHolds, Socketless
  <2> QED BY <1>2, <1>4, <1>6, <2>1 DEF HoldsMatch
<1>9. PhaseInv(x, b.lease[c])
  BY <1>1, <1>2, <1>6 DEF PhaseInv, Reserved, Socketless
<1>10. IdentityInv(x, b.lease[c])
  BY <1>1, <1>2, <1>6, NoReadingType DEF IdentityInv, Current, Socketless
<1>11. FrameInv(x) /\ TimerInv(x)
  BY <1>1, <1>2, NoReadingType DEF FrameInv, TimerInv, Socketless
<1>12. SameElsewhere(books, b, c)
  BY <1>1, <1>6 DEF SameElsewhere
<1>13. x.refresh = NoReading /\ x.snap = NoReading
  BY <1>1, <1>2 DEF Socketless
<1> QED BY <1>2, <1>6, <1>7, <1>8, <1>9, <1>10, <1>11, <1>12, <1>13 DEF Settled, Mid, Core

LEMMA UpgradeLimitsLands ==
  ASSUME ConnectionInv, NEW c \in Conns, UpgradeLimits(c)
  PROVE  Lands(c)
<1>1. PICK s : s = Turn(c)
  OBVIOUS
<1>2. /\ Settled(s, c) /\ s.x = conn[c] /\ s.b = books /\ s = [x |-> s.x, b |-> s.b]
      /\ s.x.phase = "limits" /\ conn[c].phase \in Upgrading
  BY <1>1, Begins DEF UpgradeLimits, Upgrading
<1>3. /\ s.x.user = Anonymous /\ s.x.lookup = "none" /\ s.x.drain = "idle" /\ s.x.pin = Anonymous
      /\ s.x.refresh = NoReading /\ s.x.snap = NoReading
  BY <1>2, FreshIs
<1>4. PICK e : e = [x |-> s.x, b |-> Reserve(s.b, c)]
  OBVIOUS
<1>5. e = [s EXCEPT !.b = Reserve(books, c)] /\ e.x = s.x /\ e.b = Reserve(s.b, c)
  BY <1>2, <1>4
<1>6. CASE Ends(c, [s EXCEPT !.x.phase = "gone"])
  <2>1. PICK r : r = [s EXCEPT !.x.phase = "gone"]
    OBVIOUS
  <2>2. Settled(r, c) /\ r.x.phase = "gone" /\ AllButPhase(s.x, r.x)
    BY <1>2, <2>1, FreshSettles
  <2>3. Acts(s.x, r.x)
    BY <1>3, <2>2, PhaseActs DEF AllButPhase
  <2>4. Leaves(s.x, r.x)
    BY <1>3, <2>2 DEF Leaves, AllButPhase, Upgrading
  <2> QED BY <1>2, <1>6, <2>1, <2>2, <2>3, <2>4 DEF Lands
<1>7. ASSUME Admits(books, c) PROVE Admitted(e, c)
  BY <1>2, <1>4, <1>7, LeasedIs
<1>8. CASE Admits(books, c) /\ mode = "public" /\ Ends(c, [e EXCEPT !.x.phase = "schema"])
  <2>1. PICK r : r = [e EXCEPT !.x.phase = "schema"]
    OBVIOUS
  <2>2. Settled(r, c) /\ r.x.phase = "schema" /\ AllButPhase(s.x, r.x)
    BY <1>3, <1>5, <1>7, <1>8, <2>1, SchemaSettles
  <2>3. Acts(s.x, r.x)
    BY <1>3, <2>2, PhaseActs DEF AllButPhase
  <2>4. Leaves(s.x, r.x)
    BY <1>2, <1>3, <2>2 DEF Leaves, AllButPhase, Upgrading
  <2> QED BY <1>2, <1>8, <2>1, <2>2, <2>3, <2>4 DEF Lands
<1>9. CASE Admits(books, c) /\ mode = "handshake" /\ Ends(c, Establish(e, c))
  BY <1>2, <1>3, <1>5, <1>7, <1>9, EstablishLands
<1>10. CASE Admits(books, c) /\ Ends(c, [x |-> [s.x EXCEPT !.phase = "lookup", !.lookup = "live", !.seen = revoked],
                                        b |-> Hold(e.b, c)])
  <2>1. PICK x : x = [s.x EXCEPT !.phase = "lookup", !.lookup = "live", !.seen = revoked]
    OBVIOUS
  <2>2. PICK r : r = [x |-> x, b |-> Hold(e.b, c)]
    OBVIOUS
  <2>3. revoked \subseteq Users
    BY ConnectionAssumption DEF ConnectionInv, TypeOK
  <2>4. /\ Settled(r, c) /\ r.x.phase = "lookup" /\ r.x.user = s.x.user
        /\ r.x.refresh = NoReading /\ r.x.snap = NoReading
    <3>1. x = WithLookup(e.x) /\ e.x.lookup = "none"
      BY <1>3, <1>5, <2>1 DEF WithLookup
    <3>2. Admitted(e, c)
      BY <1>7, <1>10
    <3>3. Settled(r, c) /\ r.x.phase = "lookup" /\ r.x.user = e.x.user /\ r.x.refresh = NoReading /\ r.x.snap = NoReading
      BY <2>2, <2>3, <3>1, <3>2, LookupSettles
    <3> QED BY <1>5, <3>3
  <2>5. Acts(s.x, r.x)
    BY <1>3, <2>4, PhaseActs
  <2>6. Leaves(s.x, r.x)
    <3>1. r.x.drain = "idle"
      BY <2>4 DEF Settled, Mid, Core, PhaseInv, Socketless
    <3> QED BY <1>2, <2>4, <3>1 DEF Leaves, Upgrading
  <2>7. Ends(c, r)
    BY <1>10, <2>1, <2>2
  <2> QED BY <1>2, <2>4, <2>5, <2>6, <2>7 DEF Lands
<1>11. CASE Admits(books, c) /\ Ends(c, Gone(e, c))
  BY <1>2, <1>5, <1>7, <1>11, GoneLands
<1>12. \/ Ends(c, [s EXCEPT !.x.phase = "gone"])
       \/ Admits(books, c) /\ mode = "public" /\ Ends(c, [e EXCEPT !.x.phase = "schema"])
       \/ Admits(books, c) /\ mode = "handshake" /\ Ends(c, Establish(e, c))
       \/ Admits(books, c) /\ Ends(c, [x |-> [s.x EXCEPT !.phase = "lookup", !.lookup = "live", !.seen = revoked],
                                       b |-> Hold(e.b, c)])
       \/ Admits(books, c) /\ Ends(c, Gone(e, c))
  BY <1>1, <1>5 DEF UpgradeLimits
<1> QED BY <1>6, <1>8, <1>9, <1>10, <1>11, <1>12

-----------------------------------------------------------------------------
\* The answer of a lookup.

\* The connection when its lookup has settled.
WithAnswer(x) == [x EXCEPT !.lookup = "none", !.seen = {}]

LEMMA RepliedIs ==
  ASSUME NEW x \in Connection, NEW y, y = WithAnswer(x)
  PROVE  /\ y \in Connection /\ y.phase = x.phase /\ y.lookup = "none"
         /\ y.open = x.open /\ y.started = x.started /\ y.stopping = x.stopping /\ y.finalHold = x.finalHold
         /\ y.user = x.user /\ y.exp = x.exp /\ y.static = x.static /\ y.pin = x.pin
         /\ y.expiryTimer = x.expiryTimer /\ y.handshakeTimer = x.handshakeTimer
         /\ y.drain = x.drain /\ y.refresh = x.refresh /\ y.snap = x.snap
<1>1. y \in Connection
  BY DEF WithAnswer, Connection
<1>2. /\ y.phase = x.phase /\ y.lookup = "none"
      /\ y.open = x.open /\ y.started = x.started /\ y.stopping = x.stopping /\ y.finalHold = x.finalHold
      /\ y.user = x.user /\ y.exp = x.exp /\ y.static = x.static /\ y.pin = x.pin
  BY DEF WithAnswer, Connection
<1>3. /\ y.expiryTimer = x.expiryTimer /\ y.handshakeTimer = x.handshakeTimer
      /\ y.drain = x.drain /\ y.refresh = x.refresh /\ y.snap = x.snap
  BY DEF WithAnswer, Connection
<1> QED BY <1>1, <1>2, <1>3

\* A lookup holds a place, whose books go on as before when it is cleared.
LEMMA AnswerSettles ==
  ASSUME NEW c \in Conns, NEW t, Settled(t, c), t.x.phase \in {"client", "gone"}, t.x.lookup # "none",
         NEW s, s = [x |-> WithAnswer(t.x), b |-> Clear(t.b, c)]
  PROVE  Settled(s, c)
<1>1. /\ t.x \in Connection /\ BooksInv(t.b) /\ SameElsewhere(books, t.b, c)
      /\ Core(t.x, t.b.lease[c], FrameHolds(t.x)) /\ FrameInv(t.x) /\ TimerInv(t.x)
  BY DEF Settled, Mid
<1>2. PICK x : x = WithAnswer(t.x)
  OBVIOUS
<1>3. /\ x \in Connection /\ x.phase = t.x.phase /\ x.lookup = "none"
      /\ x.open = t.x.open /\ x.started = t.x.started /\ x.stopping = t.x.stopping /\ x.finalHold = t.x.finalHold
      /\ x.user = t.x.user /\ x.exp = t.x.exp /\ x.static = t.x.static /\ x.pin = t.x.pin
      /\ x.expiryTimer = t.x.expiryTimer /\ x.handshakeTimer = t.x.handshakeTimer
      /\ x.drain = t.x.drain /\ x.refresh = t.x.refresh /\ x.snap = t.x.snap
  BY <1>1, <1>2, RepliedIs
<1>4. PICK j \in Nat : j = FrameHolds(t.x)
  BY DEF FrameHolds
<1>5. PICK u : u = [x |-> x, b |-> t.b]
  OBVIOUS
<1>6. u.x = x /\ u.b = t.b /\ u = [x |-> u.x, b |-> u.b]
  BY <1>5
<1>7. HoldsMatch(x, t.b.lease[c], j + 1)
  BY <1>1, <1>3, <1>4 DEF Core, HoldsMatch, OtherHolds
<1>8. PhaseInv(x, t.b.lease[c])
  BY <1>1, <1>3 DEF Core, PhaseInv
<1>9. IdentityInv(x, t.b.lease[c])
  BY <1>1, <1>3 DEF Core, IdentityInv, Current
<1>10. Mid(u, c, j + 1)
  BY <1>1, <1>3, <1>6, <1>7, <1>8, <1>9 DEF Mid, Core
<1>11. Mid(s, c, j) /\ s.x = x
  BY <1>2, <1>3, <1>6, <1>10, ClearTurn
<1>12. FrameInv(x) /\ TimerInv(x) /\ FrameHolds(x) = j
  BY <1>1, <1>3, <1>4 DEF FrameInv, TimerInv, FrameHolds
<1> QED BY <1>11, <1>12 DEF Settled

LEMMA AnswerAdmitted ==
  ASSUME NEW c \in Conns, NEW t, Settled(t, c), t.x.phase = "lookup", t.x.lookup # "none",
         NEW s, s = [x |-> WithAnswer(t.x), b |-> Clear(t.b, c)]
  PROVE  Admitted(s, c)
<1>1. Admitted(t, c)
  BY UpgradeAdmitted
<1>2. /\ t.x \in Connection
      /\ BooksInv(t.b) /\ SameElsewhere(books, t.b, c)
      /\ HoldsMatch(t.x, t.b.lease[c], 0) /\ Reserved(t.b.lease[c]) /\ ~t.b.lease[c].closed
      /\ Socketless(t.x) /\ ~t.x.open /\ ~t.x.expiryTimer /\ ~t.x.handshakeTimer
      /\ t.x.static => t.x.exp = "never"
      /\ t.x.user \in {Anonymous, t.x.pin}
  BY <1>1 DEF Admitted
<1>3. PICK x : x = WithAnswer(t.x)
  OBVIOUS
<1>4. /\ x \in Connection /\ x.phase = t.x.phase /\ x.lookup = "none"
      /\ x.open = t.x.open /\ x.started = t.x.started /\ x.stopping = t.x.stopping /\ x.finalHold = t.x.finalHold
      /\ x.user = t.x.user /\ x.exp = t.x.exp /\ x.static = t.x.static /\ x.pin = t.x.pin
      /\ x.expiryTimer = t.x.expiryTimer /\ x.handshakeTimer = t.x.handshakeTimer
      /\ x.drain = t.x.drain /\ x.refresh = t.x.refresh /\ x.snap = t.x.snap
  BY <1>2, <1>3, RepliedIs
<1>5. OtherHolds(t.x) = OtherHolds(x) + 1 /\ OtherHolds(x) = 0
  BY <1>2, <1>4, NoReadingType DEF OtherHolds, Socketless
<1>6. PICK l : l = t.b.lease[c]
  OBVIOUS
<1>7. l \in Lease /\ l.held /\ ~l.closed /\ l.work = 1 /\ l.user = t.x.user
  BY <1>2, <1>5, <1>6, BooksTypes DEF HoldsMatch, Reserved
<1>8. PICK b : b = Clear(t.b, c)
  OBVIOUS
<1>9. /\ BooksInv(b) /\ SameElsewhere(t.b, b, c) /\ ~b.lease[c].closed /\ b.lease[c].held
      /\ b.lease[c].work = 0 /\ b.lease[c].user = l.user
  BY <1>2, <1>6, <1>7, <1>8, ClearBooks
<1>10. HoldsMatch(x, b.lease[c], 0) /\ Reserved(b.lease[c])
  BY <1>4, <1>5, <1>7, <1>9 DEF HoldsMatch, Reserved
<1>11. SameElsewhere(books, b, c)
  BY <1>2, <1>9 DEF SameElsewhere
<1>12. s.x = x /\ s.b = b /\ s = [x |-> s.x, b |-> s.b]
  BY <1>3, <1>8
<1>13. Socketless(x)
  BY <1>2, <1>4 DEF Socketless
<1> QED BY <1>2, <1>4, <1>9, <1>10, <1>11, <1>12, <1>13 DEF Admitted

\* Where a lookup is under way.
LEMMA LookupIs ==
  ASSUME NEW c \in Conns, NEW t, Settled(t, c), t.x.lookup # "none"
  PROVE  /\ t.x.phase \in {"lookup", "client", "gone"}
         /\ t.x.lookup = "live" => /\ ~t.x.stopping
                                   /\ t.x.phase = "lookup" \/ (t.x.phase = "client" /\ t.x.drain = "auth")
         /\ t.x.drain = "auth" => t.x.phase \in {"client", "gone"}
<1>1. /\ t.x \in Connection /\ HoldsMatch(t.x, t.b.lease[c], FrameHolds(t.x))
      /\ PhaseInv(t.x, t.b.lease[c]) /\ IdentityInv(t.x, t.b.lease[c]) /\ FrameInv(t.x)
  BY DEF Settled, Mid, Core
<1>2. t.x.phase \notin {"new", "limits"}
  BY FreshIs
<1>3. t.x.phase \in {"lookup", "client", "gone"}
  BY <1>1, <1>2 DEF Connection, Upgrading, PhaseInv
<1>4. t.b.lease[c] # NoLease
  <2>1. OtherHolds(t.x) >= 1 /\ FrameHolds(t.x) \in Nat /\ OtherHolds(t.x) \in Nat
    BY DEF OtherHolds, FrameHolds
  <2>2. t.b.lease[c].work # 0
    BY <1>1, <2>1 DEF HoldsMatch
  <2> QED BY <2>2 DEF NoLease
<1>5. ASSUME t.x.lookup = "live"
      PROVE  ~t.x.stopping /\ (t.x.phase = "lookup" \/ (t.x.phase = "client" /\ t.x.drain = "auth"))
  <2>1. ~t.b.lease[c].closed
    BY <1>1, <1>5 DEF IdentityInv
  <2>2. t.x.phase # "gone"
    BY <1>1, <1>4, <2>1 DEF PhaseInv
  <2>3. CASE t.x.phase = "lookup"
    BY <1>1, <2>3 DEF PhaseInv, Socketless
  <2>4. CASE t.x.phase = "client"
    BY <1>1, <1>5, <2>1, <2>4 DEF PhaseInv, FrameInv
  <2> QED BY <1>3, <2>2, <2>3, <2>4
<1>6. t.x.drain = "auth" => t.x.phase \in {"client", "gone"}
  BY <1>1 DEF FrameInv
<1> QED BY <1>3, <1>5, <1>6

\* The frame that waited for the answer, in hand again.
LEMMA AnswerInHand ==
  ASSUME NEW c \in Conns, NEW s, Settled(s, c), s.x.drain = "auth", s.x.lookup = "none"
  PROVE  InHand(s, c) /\ (~s.x.stopping => s.x.phase = "client")
<1>1. FrameHolds(s.x) = 1
  BY DEF FrameHolds
<1>2. Mid(s, c, 1) /\ TimerInv(s.x) /\ FrameInv(s.x)
  BY <1>1 DEF Settled
<1> QED BY <1>2 DEF InHand, FrameInv

\* A step that ends an answered lookup, under the identity it found or under
\* the one committed.
LEMMA AnswerLands ==
  ASSUME ConnectionInv, NEW c \in Conns, NEW y, NEW r, Settled(r, c), Goes(y, r.x), Ends(c, r),
         conn[c].lookup # "none", conn[c].drain = "auth", conn[c].phase \in {"client", "gone"},
         y.phase = conn[c].phase, y.refresh.at = conn[c].refresh.at, y.snap.at = conn[c].snap.at,
         \/ y.user = conn[c].user
         \/ /\ conn[c].lookup = "live" /\ ~conn[c].stopping
            /\ conn[c].pin \in {y.user, Anonymous}
  PROVE  Lands(c)
<1>1. conn[c].user \in {Anonymous, conn[c].pin}
  BY DEF ConnectionInv, Local, Core, IdentityInv
<1>2. \A k \in {"refresh", "snap"} : conn[c][k].at # "granted" => r.x[k].at # "granted"
  <2>1. /\ r.x.refresh.at \in {conn[c].refresh.at, "idle"}
        /\ r.x.snap.at \in {conn[c].snap.at, "idle"}
    BY DEF Goes
  <2> QED BY <2>1
<1>3. Acts(conn[c], r.x)
  BY <1>1, <1>2 DEF Acts, Goes
<1>4. Leaves(conn[c], r.x)
  BY DEF Leaves, Goes
<1> QED BY <1>3, <1>4 DEF Lands

\* No identity is committed: the answer came too late, or refused.
LEMMA NotAuthenticatedLands ==
  ASSUME ConnectionInv, NEW c \in Conns, conn[c].lookup # "none",
         NEW s, s = [x |-> WithAnswer(conn[c]), b |-> Clear(books, c)],
         NEW result \in {"superseded", "rejected", "refused"}, Resume(s, c, result)
  PROVE  Lands(c)
<1>1. PICK t : t = Turn(c)
  OBVIOUS
<1>2. Settled(t, c) /\ t.x = conn[c] /\ t.b = books /\ t.x \in Connection
  BY <1>1, Begins
<1>3. s.x = WithAnswer(conn[c]) /\ s.b = Clear(books, c)
  OBVIOUS
<1>4. /\ s.x.phase = conn[c].phase /\ s.x.lookup = "none" /\ s.x.stopping = conn[c].stopping
      /\ s.x.user = conn[c].user /\ s.x.pin = conn[c].pin
      /\ s.x.drain = conn[c].drain /\ s.x.refresh = conn[c].refresh /\ s.x.snap = conn[c].snap
  BY <1>2, <1>3, RepliedIs
<1>5. conn[c].phase \in {"lookup", "client", "gone"} /\ (conn[c].drain = "auth" => conn[c].phase \in {"client", "gone"})
  BY <1>2, LookupIs
<1>6. CASE conn[c].phase = "lookup"
  <2>1. Admitted(s, c)
    BY <1>2, <1>6, AnswerAdmitted
  <2>2. Ends(c, Gone(s, c))
    BY <1>4, <1>5, <1>6 DEF Resume, Gone
  <2>3. conn[c].phase \in Upgrading
    BY <1>6 DEF Upgrading
  <2> QED BY <1>4, <2>1, <2>2, <2>3, GoneLands
<1>7. CASE conn[c].phase # "lookup"
  <2>1. Settled(s, c)
    BY <1>2, <1>5, <1>7, AnswerSettles
  <2>2. CASE conn[c].drain # "auth"
    <3>1. Ends(c, s)
      BY <1>4, <1>7, <2>2 DEF Resume
    <3>2. Acts(conn[c], s.x)
      <4>1. conn[c].user \in {Anonymous, conn[c].pin}
        BY DEF ConnectionInv, Local, Core, IdentityInv
      <4> QED BY <1>4, <4>1, PhaseActs
    <3>3. Leaves(conn[c], s.x)
      BY <1>4 DEF Leaves
    <3> QED BY <2>1, <3>1, <3>2, <3>3 DEF Lands
  <2>3. CASE conn[c].drain = "auth"
    <3>1. InHand(s, c) /\ (~s.x.stopping => s.x.phase = "client")
      BY <1>4, <2>1, <2>3, AnswerInHand
    <3>2. PICK r : /\ Ends(c, r)
                   /\ \/ r = FrameDone(s, c)
                      \/ ~s.x.stopping /\ r = FrameDone(Stop(s, c), c)
                      \/ ~s.x.stopping /\ r = RejectAuth(s, c)
      BY <1>4, <1>7, <2>3 DEF Resume
    <3>3. Settled(r, c) /\ Goes(s.x, r.x)
      <4>1. CASE r = FrameDone(s, c)
        BY <3>1, <4>1, FrameDoneSettles
      <4>2. CASE ~s.x.stopping /\ r = FrameDone(Stop(s, c), c)
        <5>1. PICK u : u = Stop(s, c)
          OBVIOUS
        <5>2. InHand(u, c) /\ Goes(s.x, u.x)
          BY <3>1, <4>2, <5>1, StopInHand
        <5>3. Settled(r, c) /\ Goes(u.x, r.x)
          BY <4>2, <5>1, <5>2, FrameDoneSettles
        <5> QED BY <5>2, <5>3, GoesOn
      <4>3. CASE ~s.x.stopping /\ r = RejectAuth(s, c)
        BY <3>1, <4>3, RejectSettles
      <4> QED BY <3>2, <4>1, <4>2, <4>3
    <3> QED BY <1>4, <1>5, <2>3, <3>2, <3>3, AnswerLands
  <2> QED BY <2>2, <2>3
<1> QED BY <1>6, <1>7

\* The connection with the identity its lookup found.
WithIdentity(x, u, exp, static) == [x EXCEPT !.user = u, !.exp = exp, !.static = static, !.pin = u]

\* Connections that differ at most in their identity and in what it outdates.
Renewed(x, y, u) ==
  /\ y.phase = x.phase /\ y.open = x.open /\ y.started = x.started /\ y.stopping = x.stopping
  /\ y.finalHold = x.finalHold /\ y.expiryTimer = x.expiryTimer /\ y.handshakeTimer = x.handshakeTimer
  /\ y.drain = x.drain /\ y.lookup = "none" /\ y.user = u /\ y.pin = u /\ (y.static => y.exp = "never")
  /\ y.refresh.at = x.refresh.at /\ y.snap.at = x.snap.at
  /\ x.refresh = NoReading => y.refresh = NoReading
  /\ x.snap = NoReading => y.snap = NoReading
  /\ Reads(y.refresh) => y.refresh.stale
  /\ Reads(y.snap) => y.snap.stale
  /\ OtherHolds(y) = OtherHolds(x)

LEMMA IdentityIs ==
  ASSUME NEW x \in Connection, x.lookup = "none", NEW u \in Users, NEW exp \in {"never", "ahead", "past"},
         NEW static \in BOOLEAN, static => exp = "never",
         NEW w, w = WithIdentity(x, u, exp, static), NEW y, y = Supersede(w)
  PROVE  y \in Connection /\ Renewed(x, y, u)
<1>1. w \in Connection
  BY DEF WithIdentity, Connection
<1>2. /\ w.phase = x.phase /\ w.open = x.open /\ w.started = x.started /\ w.stopping = x.stopping
      /\ w.finalHold = x.finalHold /\ w.expiryTimer = x.expiryTimer /\ w.handshakeTimer = x.handshakeTimer
  BY DEF WithIdentity, Connection
<1>3. /\ w.drain = x.drain /\ w.lookup = "none" /\ w.refresh = x.refresh /\ w.snap = x.snap
      /\ w.user = u /\ w.pin = u /\ w.exp = exp
  BY DEF WithIdentity, Connection
<1>4. w.static = static
  BY DEF WithIdentity, Connection
<1>5. OtherHolds(w) = OtherHolds(x)
  BY <1>2, <1>3 DEF OtherHolds
<1>6. /\ y \in Connection
      /\ y.phase = w.phase /\ y.open = w.open /\ y.started = w.started /\ y.stopping = w.stopping
      /\ y.finalHold = w.finalHold /\ y.expiryTimer = w.expiryTimer /\ y.handshakeTimer = w.handshakeTimer
      /\ y.drain = w.drain /\ y.user = w.user /\ y.pin = w.pin /\ y.exp = w.exp /\ y.static = w.static
      /\ y.lookup = "none" <=> w.lookup = "none"
      /\ y.refresh.at = w.refresh.at /\ y.snap.at = w.snap.at
      /\ w.refresh = NoReading => y.refresh = NoReading
      /\ w.snap = NoReading => y.snap = NoReading
      /\ Reads(y.refresh) => y.refresh.stale
      /\ Reads(y.snap) => y.snap.stale
      /\ OtherHolds(y) = OtherHolds(w)
  BY <1>1, SupersedeFields
<1> QED BY <1>2, <1>3, <1>4, <1>5, <1>6 DEF Renewed

\* Committing an identity: the lease counts for its user.
LEMMA InstallIs ==
  ASSUME NEW c \in Conns, NEW s, s.x \in Connection, BooksInv(s.b), SameElsewhere(books, s.b, c),
         s.b.lease[c].held, s.x.lookup = "none", NEW u \in Users, CanBeUser(s.b, c, u),
         NEW exp \in {"never", "ahead", "past"}, NEW static \in BOOLEAN, static => exp = "never",
         NEW t, t = Install(s, c, u, exp, static)
  PROVE  /\ t = [x |-> t.x, b |-> t.b] /\ t.x \in Connection /\ Renewed(s.x, t.x, u)
         /\ BooksInv(t.b) /\ SameElsewhere(books, t.b, c)
         /\ t.b.lease[c].user = u /\ t.b.lease[c].work = s.b.lease[c].work
         /\ t.b.lease[c].held /\ ~t.b.lease[c].closed
<1>1. PICK w : w = WithIdentity(s.x, u, exp, static)
  OBVIOUS
<1>2. PICK y : y = Supersede(w)
  OBVIOUS
<1>3. PICK d : d = ToUser(s.b, c, u)
  OBVIOUS
<1>4. y \in Connection /\ Renewed(s.x, y, u)
  BY <1>1, <1>2, IdentityIs
<1>5. /\ BooksInv(d) /\ SameElsewhere(s.b, d, c)
      /\ d.lease[c].user = u /\ d.lease[c].work = s.b.lease[c].work
      /\ d.lease[c].held /\ ~d.lease[c].closed
  BY <1>3, ToUserBooks DEF CanBeUser
<1>6. t = [x |-> y, b |-> d]
  BY <1>1, <1>2, <1>3 DEF Install, WithIdentity
<1>7. SameElsewhere(books, d, c)
  BY <1>5 DEF SameElsewhere
<1> QED BY <1>4, <1>5, <1>6, <1>7

\* On an upgrade; and on the frame of a client.
LEMMA InstallAdmitted ==
  ASSUME NEW c \in Conns, NEW s, Admitted(s, c), s.x.lookup = "none", NEW u \in Users, CanBeUser(s.b, c, u),
         NEW exp \in {"never", "ahead", "past"}, NEW static \in BOOLEAN, static => exp = "never",
         NEW t, t = Install(s, c, u, exp, static)
  PROVE  Admitted(t, c) /\ Renewed(s.x, t.x, u)
<1>1. /\ s.x \in Connection /\ BooksInv(s.b) /\ SameElsewhere(books, s.b, c)
      /\ HoldsMatch(s.x, s.b.lease[c], 0) /\ Reserved(s.b.lease[c]) /\ ~s.b.lease[c].closed
      /\ Socketless(s.x) /\ ~s.x.open /\ ~s.x.expiryTimer /\ ~s.x.handshakeTimer
  BY DEF Admitted
<1>2. s.b.lease[c].held
  BY <1>1 DEF Reserved
<1>3. /\ t = [x |-> t.x, b |-> t.b] /\ t.x \in Connection /\ Renewed(s.x, t.x, u)
      /\ BooksInv(t.b) /\ SameElsewhere(books, t.b, c)
      /\ t.b.lease[c].user = u /\ t.b.lease[c].work = s.b.lease[c].work
      /\ t.b.lease[c].held /\ ~t.b.lease[c].closed
  BY <1>1, <1>2, InstallIs
<1>4. HoldsMatch(t.x, t.b.lease[c], 0) /\ Reserved(t.b.lease[c])
  BY <1>1, <1>3 DEF HoldsMatch, Reserved, Renewed
<1>5. Socketless(t.x)
  BY <1>1, <1>3 DEF Socketless, Renewed
<1> QED BY <1>1, <1>3, <1>4, <1>5 DEF Admitted, Renewed

LEMMA InstallMid ==
  ASSUME NEW c \in Conns, NEW s, InHand(s, c), s.x.phase = "client", s.x.lookup = "none",
         NEW u \in Users, CanBeUser(s.b, c, u),
         NEW exp \in {"never", "ahead", "past"}, NEW static \in BOOLEAN, static => exp = "never",
         NEW t, t = Install(s, c, u, exp, static)
  PROVE  Mid(t, c, 1) /\ Renewed(s.x, t.x, u)
<1>1. /\ s.x \in Connection /\ BooksInv(s.b) /\ SameElsewhere(books, s.b, c)
      /\ HoldsMatch(s.x, s.b.lease[c], 1) /\ PhaseInv(s.x, s.b.lease[c])
  BY DEF InHand, Mid, Core
<1>2. s.b.lease[c].held /\ ~s.b.lease[c].closed
  BY <1>1 DEF PhaseInv, Reserved, CanBeUser
<1>3. /\ t = [x |-> t.x, b |-> t.b] /\ t.x \in Connection /\ Renewed(s.x, t.x, u)
      /\ BooksInv(t.b) /\ SameElsewhere(books, t.b, c)
      /\ t.b.lease[c].user = u /\ t.b.lease[c].work = s.b.lease[c].work
      /\ t.b.lease[c].held /\ ~t.b.lease[c].closed
  BY <1>1, <1>2, InstallIs
<1>4. HoldsMatch(t.x, t.b.lease[c], 1)
  BY <1>1, <1>3 DEF HoldsMatch, Renewed
<1>5. PhaseInv(t.x, t.b.lease[c])
  BY <1>1, <1>2, <1>3 DEF PhaseInv, Reserved, Renewed
<1>6. IdentityInv(t.x, t.b.lease[c])
  BY <1>3, Limits DEF IdentityInv, Current, Renewed
<1> QED BY <1>3, <1>4, <1>5, <1>6 DEF Mid, Core

\* The answer that a live lookup was waiting for: authenticated.
LEMMA AuthenticatedLands ==
  ASSUME ConnectionInv, NEW c \in Conns, conn[c].lookup = "live",
         NEW s, s = [x |-> WithAnswer(conn[c]), b |-> Clear(books, c)],
         NEW u \in Users, conn[c].pin \in {u, Anonymous}, CanBeUser(s.b, c, u),
         NEW exp \in {"never", "ahead", "past"}, NEW static \in BOOLEAN, static => exp = "never",
         NEW t, t = Install(s, c, u, exp, static), Resume(t, c, "authenticated")
  PROVE  Lands(c)
<1>1. PICK o : o = Turn(c)
  OBVIOUS
<1>2. Settled(o, c) /\ o.x = conn[c] /\ o.b = books /\ o.x \in Connection
  BY <1>1, Begins
<1>3. s.x = WithAnswer(conn[c]) /\ s.b = Clear(books, c)
  OBVIOUS
<1>4. /\ s.x.phase = conn[c].phase /\ s.x.lookup = "none" /\ s.x.stopping = conn[c].stopping
      /\ s.x.started = conn[c].started /\ s.x.drain = conn[c].drain
      /\ s.x.refresh = conn[c].refresh /\ s.x.snap = conn[c].snap
  BY <1>2, <1>3, RepliedIs
<1>5. ~conn[c].stopping /\ (conn[c].phase = "lookup" \/ (conn[c].phase = "client" /\ conn[c].drain = "auth"))
  BY <1>2, LookupIs
<1>6. u # Anonymous
  BY Limits
<1>7. CASE conn[c].phase = "lookup"
  <2>1. Admitted(s, c)
    BY <1>2, <1>7, AnswerAdmitted
  <2>2. Admitted(t, c) /\ Renewed(s.x, t.x, u)
    BY <1>4, <2>1, InstallAdmitted
  <2>3. PICK r : r = [t EXCEPT !.x.phase = "schema"]
    OBVIOUS
  <2>a. t.x.lookup = "none" /\ t.x.user # Anonymous
    BY <1>6, <2>2 DEF Renewed
  <2>4. Settled(r, c) /\ r.x.phase = "schema" /\ AllButPhase(t.x, r.x)
    BY <2>2, <2>3, <2>a, SchemaSettles
  <2>5. Ends(c, r)
    <3>1. t.x.phase = "lookup" /\ t.x.drain # "auth"
      <4>1. t.x.phase = "lookup"
        BY <1>4, <1>7, <2>2 DEF Renewed
      <4>2. t.x.drain = "idle"
        BY <2>2 DEF Admitted, Socketless
      <4> QED BY <4>1, <4>2
    <3> QED BY <2>3, <3>1 DEF Resume
  <2>6. /\ r.x.user = u /\ r.x.refresh = NoReading /\ r.x.snap = NoReading /\ r.x.drain = "idle"
    BY <2>1, <2>2, <2>4 DEF AllButPhase, Renewed, Admitted, Socketless
  <2>7. Acts(conn[c], r.x)
    BY <1>5, <1>7, <2>6, NoReadingType DEF Acts
  <2>8. Leaves(conn[c], r.x)
    BY <1>7, <2>4, <2>6 DEF Leaves, Upgrading
  <2> QED BY <2>4, <2>5, <2>7, <2>8 DEF Lands
<1>8. CASE conn[c].phase = "client" /\ conn[c].drain = "auth"
  <2>1. Settled(s, c)
    BY <1>2, <1>8, AnswerSettles
  <2>2. InHand(s, c)
    BY <1>4, <1>8, <2>1, AnswerInHand
  <2>3. Mid(t, c, 1) /\ Renewed(s.x, t.x, u)
    BY <1>4, <1>8, <2>2, InstallMid
  <2>4. /\ t.x.phase = "client" /\ t.x.drain = "auth" /\ ~t.x.stopping /\ t.x.user = u /\ t.x.lookup = "none"
        /\ t.x.refresh.at = conn[c].refresh.at /\ t.x.snap.at = conn[c].snap.at
        /\ t.x.started = conn[c].started /\ ~Reads(t.x.refresh)
    BY <1>4, <1>5, <1>8, <2>2, <2>3 DEF Renewed, InHand, Reads
  <2>5. PICK r : /\ Ends(c, r)
                 /\ \/ ~t.x.started /\ r = Await([t EXCEPT !.b = Hold(t.b, c)], "greet")
                    \/ t.x.started /\ r = Acknowledge(t, c)
                    \/ t.x.started /\ r = Unacknowledged(t, c)
    BY <2>4 DEF Resume
  <2>6. Settled(r, c) /\ Goes(t.x, r.x)
    <3>1. CASE ~t.x.started /\ r = Await([t EXCEPT !.b = Hold(t.b, c)], "greet")
      <4>1. PICK h : h = [x |-> t.x, b |-> Hold(t.b, c)]
        OBVIOUS
      <4>2. ~t.b.lease[c].closed
        BY <2>3, <2>4 DEF Mid, Core, PhaseInv
      <4>3. Mid(h, c, 2) /\ h.x = t.x
        <5>1. 2 = 1 + 1
          OBVIOUS
        <5> QED BY <2>3, <2>4, <4>1, <4>2, <5>1, HoldTurn
      <4>4. r = WithDrain(h, "greet")
        <5>1. h = [t EXCEPT !.b = Hold(t.b, c)]
          BY <2>3, <4>1 DEF Mid
        <5> QED BY <3>1, <5>1 DEF Await, WithDrain
      <4>5. Mid(r, c, 2) /\ Goes(h.x, r.x) /\ Twins(h.x, r.x) /\ r.x.drain = "greet"
        BY <2>4, <4>3, <4>4, DrainSet
      <4>6. FrameInv(r.x) /\ TimerInv(r.x) /\ FrameHolds(r.x) = 2
        <5>1. Twins(t.x, r.x) /\ r.x.drain = "greet"
          BY <4>3, <4>5
        <5>2. /\ r.x.phase = "client" /\ ~r.x.started /\ r.x.user = u /\ r.x.lookup = "none"
              /\ r.x.refresh = t.x.refresh
          BY <2>4, <3>1, <5>1 DEF Twins
        <5>3. FrameInv(r.x)
          BY <1>6, <2>4, <5>1, <5>2 DEF FrameInv
        <5> QED BY <5>1, <5>2, <5>3 DEF TimerInv, FrameHolds
      <4> QED BY <4>3, <4>5, <4>6 DEF Settled
    <3>2. Answered(t, c) \/ ~t.x.started
      BY <2>3, <2>4 DEF Answered
    <3>3. CASE t.x.started /\ r = Acknowledge(t, c)
      BY <2>4, <3>2, <3>3, AcknowledgeSettles
    <3>4. CASE t.x.started /\ r = Unacknowledged(t, c)
      BY <3>2, <3>4, UnacknowledgedSettles
    <3> QED BY <2>5, <3>1, <3>3, <3>4
  <2> QED BY <1>5, <1>8, <2>4, <2>5, <2>6, AnswerLands
<1> QED BY <1>5, <1>7, <1>8

LEMMA AuthAnswerLands ==
  ASSUME ConnectionInv, NEW c \in Conns, AuthAnswer(c)
  PROVE  Lands(c)
<1>1. PICK s : s = [x |-> WithAnswer(conn[c]), b |-> Clear(books, c)]
  OBVIOUS
<1>2. conn[c].lookup # "none" /\ conn[c] \in Connection
  BY DEF AuthAnswer, ConnectionInv, TypeOK
<1>3. s.x.pin = conn[c].pin
  <2>1. s.x = WithAnswer(conn[c])
    BY <1>1
  <2> QED BY <1>2, <2>1, RepliedIs
<1>4. \/ LateLookup(conn[c]) /\ Resume(s, c, "superseded")
      \/ ~LateLookup(conn[c]) /\ Resume(s, c, "rejected")
      \/ /\ ~LateLookup(conn[c])
         /\ \E u \in Users :
               \/ Resume(s, c, "refused")
               \/ /\ s.x.pin \in {u, Anonymous} /\ CanBeUser(s.b, c, u)
                  /\ \/ \E exp \in {"ahead", "past"} : Resume(Install(s, c, u, exp, FALSE), c, "authenticated")
                     \/ Resume(Install(s, c, u, "never", TRUE), c, "authenticated")
  BY <1>1 DEF AuthAnswer, WithAnswer, Pinned
<1>5. CASE \E result \in {"superseded", "rejected", "refused"} : Resume(s, c, result)
  BY <1>1, <1>2, <1>5, NotAuthenticatedLands
<1>6. CASE ~LateLookup(conn[c]) /\ \E u \in Users :
             /\ s.x.pin \in {u, Anonymous} /\ CanBeUser(s.b, c, u)
             /\ \/ \E exp \in {"ahead", "past"} : Resume(Install(s, c, u, exp, FALSE), c, "authenticated")
                \/ Resume(Install(s, c, u, "never", TRUE), c, "authenticated")
  <2>1. PICK u \in Users :
             /\ s.x.pin \in {u, Anonymous} /\ CanBeUser(s.b, c, u)
             /\ \/ \E exp \in {"ahead", "past"} : Resume(Install(s, c, u, exp, FALSE), c, "authenticated")
                \/ Resume(Install(s, c, u, "never", TRUE), c, "authenticated")
    BY <1>6
  <2>2. conn[c].lookup = "live"
    BY <1>2, <1>6 DEF LateLookup, Connection
  <2>3. CASE \E exp \in {"ahead", "past"} : Resume(Install(s, c, u, exp, FALSE), c, "authenticated")
    <3>1. PICK e \in {"ahead", "past"} : Resume(Install(s, c, u, e, FALSE), c, "authenticated")
      BY <2>3, Zenon
    <3>2. PICK v \in BOOLEAN : v = FALSE
      OBVIOUS
    <3>3. PICK t : t = Install(s, c, u, e, v)
      OBVIOUS
    <3>4. Resume(t, c, "authenticated")
      BY <3>1, <3>2, <3>3, Zenon
    <3>5. e \in {"never", "ahead", "past"} /\ ~v
      BY <3>2
    <3> QED BY <1>1, <1>3, <2>1, <2>2, <3>3, <3>4, <3>5, AuthenticatedLands
  <2>4. CASE Resume(Install(s, c, u, "never", TRUE), c, "authenticated")
    <3>1. PICK v \in BOOLEAN : v = TRUE
      OBVIOUS
    <3>2. PICK t : t = Install(s, c, u, "never", v)
      OBVIOUS
    <3>3. Resume(t, c, "authenticated")
      BY <2>4, <3>1, <3>2, Zenon
    <3> QED BY <1>1, <1>3, <2>1, <2>2, <3>2, <3>3, AuthenticatedLands
  <2> QED BY <2>1, <2>3, <2>4
<1> QED BY <1>4, <1>5, <1>6

-----------------------------------------------------------------------------
\* The socket's close event.

\* The connection as finalizeClient leaves it, but for the epoch and the final hold.
WithoutSocket(x) == [x EXCEPT !.phase = "gone", !.stopping = TRUE, !.waiting = 0,
                              !.expiryTimer = FALSE, !.handshakeTimer = FALSE]

WithoutFinalHold(x) == [x EXCEPT !.finalHold = FALSE]

Closed(x, y) ==
  /\ y.phase = "gone" /\ y.stopping /\ y.open = x.open /\ ~y.expiryTimer /\ ~y.handshakeTimer
  /\ y.started = x.started /\ y.drain = x.drain /\ y.user = x.user /\ y.pin = x.pin
  /\ y.exp = x.exp /\ y.static = x.static
  /\ y.lookup # "live"
  /\ y.refresh.at = x.refresh.at /\ y.snap.at = x.snap.at
  /\ Reads(y.refresh) => y.refresh.stale
  /\ Reads(y.snap) => y.snap.stale

LEMMA ClosedIs ==
  ASSUME NEW x \in Connection, NEW w, w = WithoutSocket(x), NEW y, y = Supersede(w)
  PROVE  y \in Connection /\ Closed(x, y) /\ y.finalHold = x.finalHold /\ OtherHolds(y) = OtherHolds(x)
<1>1. w \in Connection
  <2>1. 0 \in 0..PendingLimit
    BY ConnectionAssumption
  <2> QED BY <2>1 DEF WithoutSocket, Connection
<1>2. w.phase = "gone" /\ w.stopping /\ ~w.expiryTimer /\ ~w.handshakeTimer
  BY DEF WithoutSocket, Connection
<1>3. /\ w.open = x.open /\ w.started = x.started /\ w.drain = x.drain /\ w.user = x.user /\ w.pin = x.pin
      /\ w.exp = x.exp /\ w.static = x.static /\ w.lookup = x.lookup
      /\ w.refresh = x.refresh /\ w.snap = x.snap /\ w.finalHold = x.finalHold
  BY DEF WithoutSocket, Connection
<1>4. OtherHolds(w) = OtherHolds(x)
  BY <1>3 DEF OtherHolds
<1>5. /\ y \in Connection
      /\ y.phase = w.phase /\ y.drain = w.drain /\ y.user = w.user /\ y.pin = w.pin /\ y.exp = w.exp
      /\ y.open = w.open /\ y.started = w.started /\ y.stopping = w.stopping
      /\ y.finalHold = w.finalHold /\ y.static = w.static
      /\ y.expiryTimer = w.expiryTimer /\ y.handshakeTimer = w.handshakeTimer
      /\ y.lookup # "live" /\ y.refresh.at = w.refresh.at /\ y.snap.at = w.snap.at
      /\ Reads(y.refresh) => y.refresh.stale
      /\ Reads(y.snap) => y.snap.stale
      /\ OtherHolds(y) = OtherHolds(w)
  BY <1>1, SupersedeFields
<1> QED BY <1>2, <1>3, <1>4, <1>5 DEF Closed

LEMMA FinalHoldIs ==
  ASSUME NEW x, NEW y \in Connection, Closed(x, y), y.finalHold, NEW z, z = WithoutFinalHold(y)
  PROVE  z \in Connection /\ Closed(x, z) /\ ~z.finalHold /\ OtherHolds(y) = OtherHolds(z) + 1
<1>1. z \in Connection
  BY DEF WithoutFinalHold, Connection
<1>2. ~z.finalHold
  BY DEF WithoutFinalHold, Connection
<1>3. /\ z.phase = y.phase /\ z.stopping = y.stopping /\ z.open = y.open
      /\ z.expiryTimer = y.expiryTimer /\ z.handshakeTimer = y.handshakeTimer
      /\ z.started = y.started /\ z.drain = y.drain /\ z.user = y.user /\ z.pin = y.pin
      /\ z.exp = y.exp /\ z.static = y.static
      /\ z.lookup = y.lookup /\ z.refresh = y.refresh /\ z.snap = y.snap
  BY DEF WithoutFinalHold, Connection
<1>4. OtherHolds(y) = OtherHolds(z) + 1
  BY <1>2, <1>3 DEF OtherHolds, Reads
<1> QED BY <1>1, <1>2, <1>3, <1>4 DEF Closed

\* What closes a client leaves in order.
LEMMA ClosedSettles ==
  ASSUME NEW c \in Conns, NEW s, Settled(s, c), s.x.phase = "client", ~s.x.open,
         NEW y \in Connection, Closed(s.x, y), ~y.finalHold, NEW b, BooksInv(b), SameElsewhere(books, b, c),
         HoldsMatch(y, b.lease[c], FrameHolds(s.x)), b.lease[c].closed, Reserved(b.lease[c]),
         NEW r, r = [x |-> y, b |-> b]
  PROVE  Settled(r, c)
<1>1. IdentityInv(s.x, s.b.lease[c]) /\ FrameInv(s.x)
  BY DEF Settled, Mid, Core
<1>2. r.x = y /\ r.b = b /\ r = [x |-> r.x, b |-> r.b]
  OBVIOUS
<1>3. FrameHolds(y) = FrameHolds(s.x)
  BY DEF FrameHolds, Closed
<1>4. PhaseInv(y, b.lease[c])
  BY DEF PhaseInv, Closed
<1>5. IdentityInv(y, b.lease[c])
  BY <1>1 DEF IdentityInv, Current, Closed
<1>6. FrameInv(y) /\ TimerInv(y)
  BY <1>1 DEF FrameInv, TimerInv, Closed, Reads
<1> QED BY <1>2, <1>3, <1>4, <1>5, <1>6 DEF Settled, Mid, Core

LEMMA SocketClosesLands ==
  ASSUME ConnectionInv, NEW c \in Conns, SocketCloses(c)
  PROVE  Lands(c)
<1>1. PICK s : s = Turn(c)
  OBVIOUS
<1>2. Settled(s, c) /\ s.x = conn[c] /\ s.b = books /\ s.x \in Connection
  BY <1>1, Begins
<1>3. s.x.phase = "client" /\ ~s.x.open
  BY <1>2 DEF SocketCloses
<1>4. /\ BooksInv(s.b) /\ HoldsMatch(s.x, s.b.lease[c], FrameHolds(s.x))
      /\ PhaseInv(s.x, s.b.lease[c]) /\ SameElsewhere(books, s.b, c)
      /\ s.x.user \in {Anonymous, s.x.pin}
  BY <1>2 DEF Settled, Mid, Core, IdentityInv
<1>5. PICK l : l = s.b.lease[c]
  OBVIOUS
<1>6. FrameHolds(s.x) \in Nat /\ OtherHolds(s.x) \in Nat /\ (s.x.finalHold => OtherHolds(s.x) >= 1)
  BY DEF FrameHolds, OtherHolds
<1>7. l \in Lease /\ Reserved(l) /\ (l.closed <=> s.x.finalHold) /\ l.work = FrameHolds(s.x) + OtherHolds(s.x)
      /\ l.user = s.x.user
  <2>1. l \in Lease
    BY <1>4, <1>5, BooksTypes
  <2>2. Reserved(l) /\ (l.closed <=> s.x.finalHold)
    BY <1>3, <1>4, <1>5 DEF PhaseInv
  <2>3. l.work = FrameHolds(s.x) + OtherHolds(s.x) /\ l.user = s.x.user
    BY <1>4, <1>5 DEF HoldsMatch
  <2> QED BY <2>1, <2>2, <2>3
<1>8. l.held
  BY <1>6, <1>7 DEF Reserved
<1>9. PICK w : w = WithoutSocket(s.x)
  OBVIOUS
<1>10. PICK y : y = Supersede(w)
  OBVIOUS
<1>11. y \in Connection /\ Closed(s.x, y) /\ y.finalHold = s.x.finalHold /\ OtherHolds(y) = OtherHolds(s.x)
  BY <1>2, <1>9, <1>10, ClosedIs
<1>12. PICK d : d = Close(s.b, c)
  OBVIOUS
<1>13. /\ BooksInv(d) /\ SameElsewhere(s.b, d, c) /\ d.lease[c].closed
       /\ d.lease[c].work = l.work /\ d.lease[c].user = l.user /\ (d.lease[c].held <=> l.work > 0)
  BY <1>4, <1>5, <1>8, <1>12, CloseBooks
<1>14. PICK t : t = [x |-> y, b |-> d]
  OBVIOUS
<1>15. t.x = y /\ t.b = d /\ t = AuthClose([x |-> w, b |-> books], c)
  BY <1>2, <1>10, <1>12, <1>14 DEF AuthClose
<1>16. Ends(c, IF y.finalHold THEN [x |-> WithoutFinalHold(y), b |-> Clear(d, c)] ELSE t)
  BY <1>2, <1>9, <1>15 DEF SocketCloses, WithoutSocket, WithoutFinalHold
<1>17. PICK r : Ends(c, r) /\ Settled(r, c) /\ Closed(s.x, r.x)
  <2>1. CASE ~y.finalHold
    <3>1. Reserved(d.lease[c]) /\ HoldsMatch(y, d.lease[c], FrameHolds(s.x))
      BY <1>7, <1>11, <1>13 DEF Reserved, HoldsMatch, Closed
    <3>2. SameElsewhere(books, d, c)
      BY <1>2, <1>13
    <3>3. Settled(t, c)
      BY <1>2, <1>3, <1>11, <1>13, <1>14, <2>1, <3>1, <3>2, ClosedSettles
    <3> QED BY <1>11, <1>15, <1>16, <2>1, <3>3
  <2>2. CASE y.finalHold
    <3>1. PICK z : z = WithoutFinalHold(y)
      OBVIOUS
    <3>2. z \in Connection /\ Closed(s.x, z) /\ ~z.finalHold /\ OtherHolds(y) = OtherHolds(z) + 1
      BY <1>11, <2>2, <3>1, FinalHoldIs
    <3>3. PICK b : b = Clear(d, c)
      OBVIOUS
    <3>4. d.lease[c].work >= 1 /\ d.lease[c].held
      BY <1>6, <1>7, <1>11, <1>13, <2>2
    <3>5. /\ BooksInv(b) /\ SameElsewhere(d, b, c) /\ b.lease[c].user = d.lease[c].user /\ b.lease[c].closed
          /\ b.lease[c].work = d.lease[c].work - 1 /\ (b.lease[c].held <=> d.lease[c].work > 1)
      BY <1>13, <3>3, <3>4, ClearBooks
    <3>6. OtherHolds(z) \in Nat
      BY DEF OtherHolds
    <3>7. HoldsMatch(z, b.lease[c], FrameHolds(s.x))
      <4>1. z.user = b.lease[c].user
        BY <1>7, <1>13, <3>2, <3>5 DEF Closed
      <4>2. OtherHolds(s.x) = OtherHolds(z) + 1
        BY <1>11, <3>2
      <4>3. b.lease[c].work = l.work - 1
        BY <1>13, <3>5
      <4>4. l.work = FrameHolds(s.x) + OtherHolds(s.x)
        BY <1>7
      <4>5. b.lease[c].work = FrameHolds(s.x) + OtherHolds(z)
        BY <1>6, <3>6, <4>2, <4>3, <4>4
      <4> QED BY <4>1, <4>5 DEF HoldsMatch
    <3>8. Reserved(b.lease[c])
      BY <1>6, <1>7, <1>13, <3>5 DEF Reserved
    <3>9. SameElsewhere(books, b, c)
      BY <1>2, <1>13, <3>5 DEF SameElsewhere
    <3>10. PICK r : r = [x |-> z, b |-> b]
      OBVIOUS
    <3>11. Settled(r, c)
      BY <1>2, <1>3, <3>2, <3>5, <3>7, <3>8, <3>9, <3>10, ClosedSettles
    <3>12. Ends(c, r) /\ r.x = z
      BY <1>16, <2>2, <3>1, <3>3, <3>10
    <3> QED BY <3>2, <3>11, <3>12
  <2> QED BY <2>1, <2>2
<1>18. Acts(conn[c], r.x)
  BY <1>2, <1>4, <1>17, PhaseActs DEF Closed
<1>19. Leaves(conn[c], r.x)
  BY <1>2, <1>3, <1>17 DEF Leaves, Closed, Upgrading
<1> QED BY <1>17, <1>18, <1>19 DEF Lands

-----------------------------------------------------------------------------
\* Every step keeps the invariant.

LEMMA StepLands ==
  ASSUME ConnectionInv, NEW c \in Conns, Step(c)
  PROVE  Lands(c)
<1>1. CASE Arrive(c) \/ UpgradeLimits(c) \/ AbandonLookup(c) \/ UpgradeSchema(c)
  BY <1>1, ArriveLands, UpgradeLimitsLands, AbandonLookupLands, UpgradeSchemaLands
<1>2. CASE Receive(c) \/ FrameLimits(c) \/ AuthAnswer(c) \/ AuthDeadline(c) \/ Greet(c)
  BY <1>2, ReceiveLands, FrameLimitsLands, AuthAnswerLands, AuthDeadlineLands, GreetLands
<1>3. CASE Prepared(c) \/ HandlerDone(c) \/ Notified(c) \/ Deliver(c) \/ Delivered(c)
  BY <1>3, PreparedLands, HandlerDoneLands, NotifiedLands, DeliverLands, DeliveredLands
<1>4. CASE \E k \in {"refresh", "snap"} : Revalidated(c, k) \/ Permitted(c, k)
  BY <1>4, RevalidatedLands, PermittedLands
<1>5. CASE ClientStops(c) \/ PeerCloses(c) \/ SocketCloses(c)
  BY <1>5, ClientStopsLands, PeerClosesLands, SocketClosesLands
<1>6. CASE HandshakeDeadline(c) \/ ExpiryTimer(c) \/ TokenExpires(c)
  BY <1>6, HandshakeDeadlineLands, ExpiryTimerLands, TokenExpiresLands
<1> QED BY <1>1, <1>2, <1>3, <1>4, <1>5, <1>6 DEF Step

\* A step of a connection is its own.
LEMMA StepRest ==
  ASSUME TypeOK, NEW c \in Conns, Step(c)
  PROVE  /\ UNCHANGED <<mode, shutdownVars, revoked>>
         /\ frames' \in 0..MaxFrames /\ deliveries' \in 0..MaxDeliveries
<1> USE DEF Elsewhere, bounds
<1>a. frames \in 0..MaxFrames /\ deliveries \in 0..MaxDeliveries /\ MaxFrames \in Nat /\ MaxDeliveries \in Nat
  BY ConnectionAssumption DEF TypeOK
<1>1. CASE Arrive(c) \/ UpgradeLimits(c) \/ AbandonLookup(c) \/ UpgradeSchema(c)
  BY <1>1, <1>a DEF Arrive, UpgradeLimits, AbandonLookup, UpgradeSchema
<1>2. CASE Receive(c)
  BY <1>2, <1>a DEF Receive
<1>3. CASE FrameLimits(c) \/ AuthAnswer(c) \/ AuthDeadline(c) \/ Greet(c)
  BY <1>3, <1>a DEF FrameLimits, AuthAnswer, AuthDeadline, Greet
<1>4. CASE Prepared(c) \/ HandlerDone(c) \/ Notified(c) \/ Delivered(c)
  BY <1>4, <1>a DEF Prepared, HandlerDone, Notified, Delivered
<1>5. CASE Deliver(c)
  BY <1>5, <1>a DEF Deliver
<1>6. CASE \E k \in {"refresh", "snap"} : Revalidated(c, k) \/ Permitted(c, k)
  BY <1>6, <1>a DEF Revalidated, Permitted
<1>7. CASE ClientStops(c) \/ PeerCloses(c) \/ SocketCloses(c)
  BY <1>7, <1>a DEF ClientStops, PeerCloses, SocketCloses
<1>8. CASE HandshakeDeadline(c) \/ ExpiryTimer(c) \/ TokenExpires(c)
  BY <1>8, <1>a DEF HandshakeDeadline, ExpiryTimer, TokenExpires
<1> QED BY <1>1, <1>2, <1>3, <1>4, <1>5, <1>6, <1>7, <1>8 DEF Step

\* What is true of a connection does not depend on the others, nor on the rest.
LEMMA LocalStays ==
  ASSUME mode' = mode, NEW e, NEW x, NEW b, Local(x, b.lease[e]), conn'[e] = x, books'.lease[e] = b.lease[e]
  PROVE  Local(conn[e], books.lease[e])'
BY DEF Local, Core, HoldsMatch, OtherHolds, FrameHolds, PhaseInv, Reserved, Socketless, IdentityInv, Current,
       FrameInv, TimerInv, Reads

LEMMA LandsShutdown ==
  ASSUME ConnectionInv, NEW c \in Conns, NEW x, conn' = [conn EXCEPT ![c] = x], Leaves(conn[c], x),
         UNCHANGED shutdownVars
  PROVE  ShutdownInv'
<1>1. /\ conn \in [Conns -> Connection] /\ ShutdownInv
      /\ shutdown \in {"serving", "upgrades", "clients", "drains", "lookups", "closed"}
  BY DEF ConnectionInv, TypeOK
<1>2. conn'[c] = x /\ \A e \in Conns \ {c} : conn'[e] = conn[e]
  BY <1>1
<1>3. shutdown' = shutdown /\ awaited' = awaited
  BY DEF shutdownVars
<1>4. CASE shutdown = "serving"
  BY <1>3, <1>4 DEF ShutdownInv
<1>5. CASE shutdown # "serving"
  <2>1. InUpgrade' \subseteq InUpgrade
    BY <1>2, <1>5 DEF Leaves, InUpgrade
  <2>2. Clients' \subseteq Clients
    BY <1>2, <1>5 DEF Leaves, Clients
  <2>3. Clients = {} => InDrain' \subseteq InDrain
    BY <1>2, <1>5 DEF Leaves, Clients, InDrain
  <2>4. Clients = {} /\ InUpgrade = {} => InLookup' \subseteq InLookup
    BY <1>2, <1>5 DEF Leaves, Clients, InUpgrade, InLookup
  <2> QED BY <1>1, <1>3, <2>1, <2>2, <2>3, <2>4 DEF ShutdownInv
<1> QED BY <1>4, <1>5

LEMMA LandsKeeps ==
  ASSUME ConnectionInv, NEW c \in Conns, Lands(c), UNCHANGED <<mode, shutdownVars, revoked>>,
         frames' \in 0..MaxFrames, deliveries' \in 0..MaxDeliveries
  PROVE  ConnectionInv'
<1>1. PICK r : Settled(r, c) /\ Leaves(conn[c], r.x) /\ conn' = [conn EXCEPT ![c] = r.x] /\ books' = r.b
  BY DEF Lands, Ends
<1>2. /\ r.x \in Connection /\ BooksInv(r.b) /\ SameElsewhere(books, r.b, c)
      /\ Local(r.x, r.b.lease[c])
  BY <1>1 DEF Settled, Mid, Local
<1>3. conn \in [Conns -> Connection] /\ TypeOK /\ \A e \in Conns : Local(conn[e], books.lease[e])
  BY DEF ConnectionInv, TypeOK
<1>4. TypeOK'
  <2>1. conn' \in [Conns -> Connection]
    BY <1>1, <1>2, <1>3
  <2>2. books' \in Books
    BY <1>1, <1>2 DEF BooksInv
  <2> QED BY <1>3, <2>1, <2>2 DEF TypeOK, shutdownVars
<1>5. BooksInv(books)'
  BY <1>1, <1>2 DEF BooksInv, HeldIn, HeldAt, HeldBy
<1>6. ShutdownInv'
  BY <1>1, LandsShutdown
<1>7. ASSUME NEW e \in Conns PROVE Local(conn[e], books.lease[e])'
  <2>1. CASE e = c
    <3>1. conn'[e] = r.x /\ books'.lease[e] = r.b.lease[e]
      BY <1>1, <1>3, <2>1
    <3> QED BY <1>2, <2>1, <3>1, LocalStays
  <2>2. CASE e # c
    <3>1. conn'[e] = conn[e] /\ books'.lease[e] = books.lease[e]
      BY <1>1, <1>2, <1>3, <2>2 DEF SameElsewhere
    <3> QED BY <1>3, <3>1, LocalStays
  <2> QED BY <2>1, <2>2
<1> QED BY <1>4, <1>5, <1>6, <1>7 DEF ConnectionInv

\* A client holds its place, in its user's name.
LEMMA ClientHeld ==
  ASSUME NEW x, NEW l \in Lease, Local(x, l), x.phase = "client"
  PROVE  l.held /\ l.user = x.user
<1>1. Reserved(l) /\ (l.closed <=> x.finalHold) /\ l.user = x.user /\ l.work = FrameHolds(x) + OtherHolds(x)
  BY DEF Local, Core, PhaseInv, HoldsMatch
<1>2. FrameHolds(x) \in Nat /\ OtherHolds(x) \in Nat /\ (x.finalHold => OtherHolds(x) >= 1)
  BY DEF FrameHolds, OtherHolds
<1> QED BY <1>1, <1>2 DEF Reserved

\* Leases may change as long as who holds them does not.
LEMMA RelabelBooks ==
  ASSUME NEW b, BooksInv(b), NEW d \in Books,
         d.transport = b.transport, d.process = b.process, d.ip = b.ip, d.user = b.user,
         \A c \in Conns : (d.lease[c].held <=> b.lease[c].held) /\ d.lease[c].user = b.lease[c].user
  PROVE  BooksInv(d)
<1>1. HeldIn(d) = HeldIn(b)
  BY DEF HeldIn
<1>2. \A u : HeldBy(d, u) = HeldBy(b, u)
  BY <1>1 DEF HeldBy, HeldIn
<1>3. \A i : HeldAt(d, i) = HeldAt(b, i)
  BY <1>2 DEF HeldAt
<1> QED BY <1>1, <1>2, <1>3 DEF BooksInv

\* terminate stops every client, in the same turn.
LEMMA StoppedIs ==
  ASSUME ConnectionInv, NEW c \in Clients
  PROVE  LET r == Stop(Turn(c), c) IN
         /\ Local(r.x, r.b.lease[c]) /\ r.x \in Connection /\ Keeps(conn[c], r.x) /\ r.x.user = conn[c].user
         /\ r.b.lease[c] \in Lease /\ r.b.lease[c].held /\ r.b.lease[c].user = conn[c].user
<1>1. c \in Conns /\ conn[c].phase = "client"
  BY DEF Clients
<1>2. PICK s : s = Turn(c)
  OBVIOUS
<1>3. Settled(s, c) /\ s.x = conn[c]
  BY <1>1, <1>2, Begins
<1>4. PICK r : r = Stop(s, c)
  OBVIOUS
<1>5. Settled(r, c) /\ Keeps(conn[c], r.x) /\ r.x.user = conn[c].user
  BY <1>1, <1>3, <1>4, StopSettles
<1>6. Local(r.x, r.b.lease[c]) /\ r.x \in Connection /\ BooksInv(r.b)
  BY <1>5 DEF Settled, Mid, Local
<1>7. r.b.lease[c] \in Lease
  BY <1>1, <1>6, BooksTypes
<1>8. r.x.phase = "client"
  BY <1>1, <1>5 DEF Keeps, Goes
<1>9. r.b.lease[c].held /\ r.b.lease[c].user = r.x.user
  BY <1>6, <1>7, <1>8, ClientHeld
<1> QED BY <1>2, <1>4, <1>5, <1>6, <1>7, <1>9

LEMMA TerminateMoves ==
  ASSUME ConnectionInv, Terminate
  PROVE  /\ conn' \in [Conns -> Connection] /\ books' \in Books
         /\ \A c \in Conns :
              /\ Local(conn'[c], books'.lease[c]) /\ conn'[c].phase = conn[c].phase
              /\ (books'.lease[c].held <=> books.lease[c].held) /\ books'.lease[c].user = books.lease[c].user
              /\ Acts(conn[c], conn'[c])
         /\ books'.transport = books.transport /\ books'.process = books.process
         /\ books'.ip = books.ip /\ books'.user = books.user
<1>1. /\ conn \in [Conns -> Connection] /\ books \in Books /\ books.lease \in [Conns -> Lease]
      /\ \A c \in Conns : Local(conn[c], books.lease[c]) /\ conn[c].user \in {Anonymous, conn[c].pin}
  BY DEF ConnectionInv, TypeOK, Books, Local, Core, IdentityInv
<1>2. PICK f : f = [c \in Conns |-> IF c \in Clients THEN Stop(Turn(c), c).b.lease[c] ELSE books.lease[c]]
  OBVIOUS
<1>3. /\ conn' = [c \in Conns |-> IF c \in Clients THEN Stop(Turn(c), c).x ELSE conn[c]]
      /\ books' = [books EXCEPT !.lease = f]
  BY <1>2 DEF Terminate
<1>4. ASSUME NEW c \in Conns
      PROVE  /\ Local(conn'[c], f[c]) /\ conn'[c].phase = conn[c].phase /\ conn'[c] \in Connection
             /\ (f[c].held <=> books.lease[c].held) /\ f[c].user = books.lease[c].user /\ f[c] \in Lease
             /\ Acts(conn[c], conn'[c])
  <2>1. CASE c \in Clients
    <3>1. PICK r : r = Stop(Turn(c), c)
      OBVIOUS
    <3>2. /\ Local(r.x, r.b.lease[c]) /\ r.x \in Connection /\ Keeps(conn[c], r.x)
          /\ r.b.lease[c] \in Lease /\ r.b.lease[c].held /\ r.b.lease[c].user = conn[c].user
      BY <2>1, <3>1, StoppedIs
    <3>3. books.lease[c].held /\ books.lease[c].user = conn[c].user
      BY <1>1, <2>1, ClientHeld DEF Clients
    <3>4. conn'[c] = r.x /\ f[c] = r.b.lease[c]
      BY <1>2, <1>3, <2>1, <3>1
    <3>5. Acts(conn[c], r.x)
      BY <1>1, <3>2, GoesActs DEF Keeps
    <3> QED BY <3>2, <3>3, <3>4, <3>5 DEF Keeps, Goes
  <2>2. CASE c \notin Clients
    <3>1. conn'[c] = conn[c] /\ f[c] = books.lease[c]
      BY <1>2, <1>3, <2>2
    <3>2. Acts(conn[c], conn[c])
      BY <1>1 DEF Acts
    <3> QED BY <1>1, <3>1, <3>2
  <2> QED BY <2>1, <2>2
<1>5. f \in [Conns -> Lease] /\ conn' \in [Conns -> Connection]
  BY <1>2, <1>3, <1>4
<1>6. /\ books'.lease = f /\ books' \in Books
      /\ books'.transport = books.transport /\ books'.process = books.process
      /\ books'.ip = books.ip /\ books'.user = books.user
  BY <1>1, <1>3, <1>5 DEF Books
<1> QED BY <1>4, <1>5, <1>6

LEMMA TerminateKeeps ==
  ASSUME ConnectionInv, Terminate
  PROVE  ConnectionInv'
<1>1. /\ conn' \in [Conns -> Connection] /\ books' \in Books
      /\ \A c \in Conns :
           /\ Local(conn'[c], books'.lease[c]) /\ conn'[c].phase = conn[c].phase
           /\ (books'.lease[c].held <=> books.lease[c].held) /\ books'.lease[c].user = books.lease[c].user
      /\ books'.transport = books.transport /\ books'.process = books.process
      /\ books'.ip = books.ip /\ books'.user = books.user
  BY TerminateMoves
<1>2. /\ shutdown' = "upgrades" /\ awaited' = InUpgrade /\ UNCHANGED <<mode, revoked, frames, deliveries>>
      /\ TypeOK /\ BooksInv(books)
  BY DEF Terminate, bounds, ConnectionInv
<1>3. TypeOK'
  BY <1>1, <1>2 DEF TypeOK, InUpgrade
<1>4. BooksInv(books)'
  <2>1. PICK d : d = books'
    OBVIOUS
  <2>2. BooksInv(d)
    BY <1>1, <1>2, <2>1, RelabelBooks
  <2> QED BY <2>1, <2>2 DEF BooksInv, HeldIn, HeldAt, HeldBy
<1>5. ShutdownInv'
  <2>1. InUpgrade' = InUpgrade
    BY <1>1 DEF InUpgrade
  <2> QED BY <1>2, <2>1 DEF ShutdownInv
<1>6. ASSUME NEW c \in Conns PROVE Local(conn[c], books.lease[c])'
  <2>1. PICK x, d : x = conn'[c] /\ d = books'
    OBVIOUS
  <2> QED BY <1>1, <1>2, <2>1, LocalStays
<1> QED BY <1>3, <1>4, <1>5, <1>6 DEF ConnectionInv

\* What is left: steps that leave the connections and the books alone.
LEMMA RestKeeps ==
  ASSUME ConnectionInv, TypeOK', ShutdownInv', UNCHANGED <<mode, conn, books>>
  PROVE  ConnectionInv'
<1>1. BooksInv(books) /\ \A c \in Conns : Local(conn[c], books.lease[c])
  BY DEF ConnectionInv
<1>2. BooksInv(books)'
  BY <1>1 DEF BooksInv, HeldIn, HeldAt, HeldBy
<1>3. ASSUME NEW c \in Conns PROVE Local(conn[c], books.lease[c])'
  BY <1>1, LocalStays
<1> QED BY <1>2, <1>3 DEF ConnectionInv

LEMMA InitInv ==
  ASSUME Init
  PROVE  ConnectionInv
<1>1. NewConnection \in Connection
  <2>1. 0 \in 0..PendingLimit
    BY ConnectionAssumption
  <2> QED BY <2>1, NoReadingType DEF NewConnection, Connection
<1>2. EmptyBooks \in Books
  BY DEF EmptyBooks, Books, NoLease, Lease
<1>3. TypeOK
  BY <1>1, <1>2, ConnectionAssumption DEF Init, TypeOK
<1>4. BooksInv(books)
  <2>1. HeldIn(books) = {}
    BY DEF Init, EmptyBooks, NoLease, HeldIn
  <2>2. \A u : HeldBy(books, u) = {} /\ \A i : HeldAt(books, i) = {}
    BY <2>1 DEF HeldBy, HeldAt
  <2>3. IsFiniteSet({}) /\ Cardinality({}) = 0
    BY FS_EmptySet
  <2>4. /\ books \in Books /\ books.process = 0 /\ books.transport = 0
        /\ \A i \in Ips : books.ip[i] = 0
        /\ \A u \in Users : books.user[u] = 0
    BY <1>2 DEF Init, EmptyBooks
  <2> QED BY <2>1, <2>2, <2>3, <2>4, Limits DEF BooksInv
<1>5. ShutdownInv
  BY DEF Init, ShutdownInv
<1>6. ASSUME NEW c \in Conns PROVE Local(conn[c], books.lease[c])
  <2>1. PICK x : x = NewConnection
    OBVIOUS
  <2>2. /\ x.phase = "new" /\ ~x.open /\ ~x.started /\ ~x.stopping /\ ~x.finalHold
        /\ x.user = Anonymous /\ x.exp = "never" /\ ~x.static /\ x.pin = Anonymous
        /\ x.lookup = "none" /\ ~x.expiryTimer /\ ~x.handshakeTimer
        /\ x.drain = "idle" /\ x.refresh = NoReading /\ x.snap = NoReading
    BY <2>1 DEF NewConnection
  <2>3. [x EXCEPT !.phase = "new"] = x
    <3>1. x \in Connection /\ x.phase = "new"
      BY <1>1, <2>1, <2>2
    <3>2. [x EXCEPT !.phase = x.phase] = x
      BY <3>1 DEF Connection
    <3> QED BY <3>1, <3>2
  <2>4. PICK l : l = NoLease
    OBVIOUS
  <2>5. HoldsMatch(x, l, FrameHolds(x))
    BY <2>2, <2>4, NoReadingType DEF HoldsMatch, FrameHolds, OtherHolds, NoLease
  <2>6. PhaseInv(x, l)
    BY <2>1, <2>2, <2>3, <2>4 DEF PhaseInv
  <2>7. IdentityInv(x, l)
    BY <2>2, NoReadingType DEF IdentityInv, Current
  <2>8. FrameInv(x) /\ TimerInv(x)
    BY <2>2, NoReadingType DEF FrameInv, TimerInv
  <2>9. conn[c] = x /\ books.lease[c] = l
    BY <2>1, <2>4 DEF Init, EmptyBooks
  <2> QED BY <2>5, <2>6, <2>7, <2>8, <2>9 DEF Local, Core
<1> QED BY <1>3, <1>4, <1>5, <1>6 DEF ConnectionInv

LEMMA NextInv ==
  ASSUME ConnectionInv, [Next]_vars
  PROVE  ConnectionInv'
<1>a. TypeOK /\ ShutdownInv
  BY DEF ConnectionInv
<1>1. CASE \E c \in Conns : Step(c)
  BY <1>1, <1>a, StepLands, StepRest, LandsKeeps
<1>2. CASE \E u \in Users : Revoke(u)
  <2>1. UNCHANGED <<mode, conn, books, shutdown, awaited, frames, deliveries>> /\ revoked' \subseteq Revocable
    BY <1>2, <1>a DEF Revoke, TypeOK, shutdownVars, bounds
  <2>2. TypeOK'
    BY <1>a, <2>1 DEF TypeOK
  <2>3. ShutdownInv'
    BY <1>a, <2>1 DEF ShutdownInv, InUpgrade, Clients, InDrain, InLookup
  <2> QED BY <2>1, <2>2, <2>3, RestKeeps
<1>3. CASE Terminate
  BY <1>3, TerminateKeeps
<1>4. CASE TerminateNext
  <2>1. UNCHANGED <<mode, conn, books, revoked, frames, deliveries>>
    BY <1>4 DEF TerminateNext, bounds
  <2>2. /\ InUpgrade' = InUpgrade /\ Clients' = Clients /\ InDrain' = InDrain /\ InLookup' = InLookup
    BY <2>1 DEF InUpgrade, Clients, InDrain, InLookup
  <2>3. TypeOK'
    BY <1>4, <1>a, <2>1 DEF TypeOK, TerminateNext, InDrain, InLookup
  <2>4. ShutdownInv'
    BY <1>4, <1>a, <2>2 DEF ShutdownInv, TerminateNext
  <2> QED BY <2>1, <2>3, <2>4, RestKeeps
<1>5. CASE UNCHANGED vars
  <2>1. UNCHANGED <<mode, conn, books, shutdown, awaited, revoked, frames, deliveries>>
    BY <1>5 DEF vars, shutdownVars, bounds
  <2>2. TypeOK'
    BY <1>a, <2>1 DEF TypeOK
  <2>3. ShutdownInv'
    BY <1>a, <2>1 DEF ShutdownInv, InUpgrade, Clients, InDrain, InLookup
  <2> QED BY <2>1, <2>2, <2>3, RestKeeps
<1> QED BY <1>1, <1>2, <1>3, <1>4, <1>5 DEF Next

-----------------------------------------------------------------------------
\* The theorems.

\* The inductive invariant holds in every reachable state (websocket
\* controllers, authenticate.ts and admission.ts, in every interleaving).
THEOREM ConnectionInvariant == Spec => []ConnectionInv
<1>1. Init => ConnectionInv
  BY InitInv
<1>2. ConnectionInv /\ [Next]_vars => ConnectionInv'
  BY NextInv
<1> QED BY <1>1, <1>2, PTL DEF Spec

\* Types: every connection, reading and counter stays within its range, the
\* waiting frames within PENDING_COMMAND_LIMIT (base.ts:admit).
THEOREM ConnectionTypes == Spec => []TypeOK
<1>1. ConnectionInv => TypeOK
  BY DEF ConnectionInv
<1> QED BY <1>1, ConnectionInvariant, PTL

LEMMA CountsAreExact ==
  ASSUME ConnectionInv
  PROVE  CountsExact
<1>1. /\ books.process = Cardinality(HeldIn(books)) /\ books.transport = books.process
      /\ \A i \in Ips : books.ip[i] = Cardinality(HeldAt(books, i))
      /\ \A u \in Users : books.user[u] = Cardinality(HeldBy(books, u))
  BY DEF ConnectionInv, BooksInv
<1>2. HeldIn(books) = Held(LAMBDA c : TRUE)
  BY DEF HeldIn, Held
<1>3. \A i \in Ips : HeldAt(books, i) = Held(LAMBDA c : books.lease[c].user = Anonymous /\ IpOf[c] = i)
  BY DEF HeldAt, HeldBy, HeldIn, Held
<1>4. \A u \in Users : HeldBy(books, u) = Held(LAMBDA c : books.lease[c].user = u)
  BY DEF HeldBy, HeldIn, Held
<1> QED BY <1>1, <1>2, <1>3, <1>4 DEF CountsExact

LEMMA AdmissionIsWork ==
  ASSUME ConnectionInv
  PROVE  AdmissionFollowsWork
<1> SUFFICES ASSUME NEW c \in Conns
             PROVE  books.lease[c].held <=> conn[c].phase \in {"lookup", "schema", "client"} \/ WorkUnderway(c)
  BY DEF AdmissionFollowsWork
<1>1. PICK x : x = conn[c]
  OBVIOUS
<1>2. PICK l : l = books.lease[c]
  OBVIOUS
<1>3. x \in Connection /\ Local(x, l) /\ BooksInv(books)
  BY <1>1, <1>2 DEF ConnectionInv, TypeOK
<1>4. l \in Lease
  BY <1>2, <1>3, BooksTypes
<1>5. HoldsMatch(x, l, FrameHolds(x)) /\ PhaseInv(x, l)
  BY <1>3 DEF Local, Core
<1>6. WorkUnderway(c) <=> x.drain # "idle" \/ x.lookup # "none" \/ Reads(x.refresh) \/ Reads(x.snap)
  BY <1>1 DEF WorkUnderway, Reads
<1>7. CASE x.phase \in {"new", "limits"}
  <2>1. Settled(Turn(c), c)
    BY Begins
  <2>2. x.drain = "idle" /\ x.lookup = "none" /\ x.refresh = NoReading /\ x.snap = NoReading /\ l = NoLease
    BY <1>1, <1>2, <1>7, <2>1, FreshIs DEF Turn
  <2> QED BY <1>1, <1>2, <1>6, <1>7, <2>2, NoReadingType DEF NoLease
<1>8. CASE x.phase \in {"lookup", "schema"}
  BY <1>1, <1>2, <1>5, <1>8 DEF PhaseInv, Reserved
<1>9. CASE x.phase = "client"
  BY <1>1, <1>2, <1>3, <1>4, <1>9, ClientHeld
<1>10. CASE x.phase = "gone"
  <2>1. ~x.finalHold /\ (l = NoLease \/ (Reserved(l) /\ l.closed)) /\ l.work = FrameHolds(x) + OtherHolds(x)
    BY <1>5, <1>10 DEF PhaseInv, HoldsMatch
  <2>2. l.held <=> l.work > 0
    BY <1>4, <2>1 DEF Reserved, NoLease
  <2>3. FrameHolds(x) \in Nat /\ OtherHolds(x) \in Nat /\ (FrameHolds(x) > 0 <=> x.drain # "idle")
    BY DEF FrameHolds, OtherHolds
  <2>4. OtherHolds(x) > 0 <=> x.lookup # "none" \/ Reads(x.refresh) \/ Reads(x.snap)
    BY <2>1 DEF OtherHolds
  <2>5. l.work > 0 <=> FrameHolds(x) > 0 \/ OtherHolds(x) > 0
    BY <2>1, <2>3
  <2> QED BY <1>1, <1>2, <1>6, <1>10, <2>2, <2>3, <2>4, <2>5
<1>11. x.phase \in {"new", "gone", "client", "limits", "lookup", "schema"}
  BY <1>3 DEF Connection, Upgrading
<1> QED BY <1>7, <1>8, <1>9, <1>10, <1>11

LEMMA LimitsAreKept ==
  ASSUME ConnectionInv
  PROVE  DocumentedLimits
<1> DEFINE Acting(u) == {c \in Clients : conn[c].user = u}
<1>1. /\ BooksInv(books)
      /\ \A c \in Conns : Local(conn[c], books.lease[c]) /\ books.lease[c] \in Lease
  BY DEF ConnectionInv, TypeOK, Books
<1>2. \A c \in Clients : c \in Conns /\ books.lease[c].held /\ books.lease[c].user = conn[c].user
  BY <1>1, ClientHeld DEF Clients
<1>3. Clients \subseteq HeldIn(books) /\ \A u : Acting(u) \subseteq HeldBy(books, u)
  BY <1>2 DEF HeldIn, HeldBy
<1>4. ASSUME NEW u \in Users PROVE Cardinality(Acting(u)) <= UserLimit
  <2>1. /\ IsFiniteSet(HeldBy(books, u)) /\ Cardinality(HeldBy(books, u)) <= UserLimit
    BY <1>1, HeldFinite DEF BooksInv
  <2>2. /\ Cardinality(Acting(u)) <= Cardinality(HeldBy(books, u))
        /\ Cardinality(Acting(u)) \in Nat /\ Cardinality(HeldBy(books, u)) \in Nat
    BY <1>3, <2>1, FS_Subset, FS_CardinalityType
  <2> QED BY <2>1, <2>2, Limits
<1>5. ASSUME NEW i \in Ips PROVE Cardinality({c \in Acting(Anonymous) : IpOf[c] = i}) <= IpLimit
  <2>1. /\ IsFiniteSet(HeldAt(books, i)) /\ Cardinality(HeldAt(books, i)) <= IpLimit
    BY <1>1, HeldFinite DEF BooksInv
  <2>2. PICK S : S = {c \in Acting(Anonymous) : IpOf[c] = i}
    OBVIOUS
  <2>3. S \subseteq HeldAt(books, i)
    BY <1>3, <2>2 DEF HeldAt
  <2>4. /\ Cardinality(S) <= Cardinality(HeldAt(books, i))
        /\ Cardinality(S) \in Nat /\ Cardinality(HeldAt(books, i)) \in Nat
    BY <2>1, <2>3, FS_Subset, FS_CardinalityType
  <2> QED BY <2>1, <2>2, <2>4, Limits
<1>6. Cardinality(Clients) <= ProcessLimit
  <2>1. IsFiniteSet(HeldIn(books)) /\ Cardinality(HeldIn(books)) <= ProcessLimit
    BY <1>1 DEF BooksInv
  <2>2. /\ Cardinality(Clients) <= Cardinality(HeldIn(books))
        /\ Cardinality(Clients) \in Nat /\ Cardinality(HeldIn(books)) \in Nat
    BY <1>3, <2>1, FS_Subset, FS_CardinalityType
  <2> QED BY <2>1, <2>2, Limits
<1> QED BY <1>4, <1>5, <1>6 DEF DocumentedLimits

LEMMA EndIsQuiet ==
  ASSUME ConnectionInv
  PROVE  TerminateIsQuiet
<1> SUFFICES ASSUME shutdown = "closed", NEW c \in Conns
             PROVE  conn[c].phase \in {"new", "gone"} /\ conn[c].drain = "idle" /\ conn[c].lookup = "none"
  BY DEF TerminateIsQuiet
<1>1. InUpgrade = {} /\ Clients = {} /\ InDrain = {} /\ InLookup = {}
  BY DEF ConnectionInv, ShutdownInv
<1>2. conn[c] \in Connection
  BY DEF ConnectionInv, TypeOK
<1>3. conn[c].phase \in {"new", "gone", "client"} \cup Upgrading
  BY <1>2 DEF Connection
<1> QED BY <1>1, <1>3 DEF InUpgrade, Clients, InDrain, InLookup

\* Whatever transitions, refusals, holds and double closes came before, each
\* counter of admission.ts counts exactly the leases it stands for; a lease is
\* held exactly as long as its connection has a socket or work under way; the
\* documented limits are kept; and nothing runs on after terminate.
THEOREM AdmissionIsRight == Spec => []AdmissionRules
<1>1. ConnectionInv => AdmissionRules
  BY CountsAreExact, AdmissionIsWork, LimitsAreKept, EndIsQuiet DEF AdmissionRules, AdmissionExact
<1> QED BY <1>1, ConnectionInvariant, PTL

\* The expiry timer runs exactly while the identity in use can expire, and
\* outside public mode only an authenticated connection reaches a handler
\* (authenticate.ts, base.ts's expiry and rejection).
THEOREM IdentityIsRight == Spec => []IdentityRules
<1>1. ConnectionInv => IdentityRules
  <2> SUFFICES ASSUME ConnectionInv PROVE IdentityRules
    OBVIOUS
  <2>1. ASSUME NEW c \in Conns PROVE FrameInv(conn[c]) /\ TimerInv(conn[c]) /\ IdentityInv(conn[c], books.lease[c])
    BY DEF ConnectionInv, Local, Core
  <2>2. TimerTracksIdentity
    BY <2>1 DEF TimerTracksIdentity, TimerInv, Clients
  <2>3. AuthenticatedModes
    BY <2>1 DEF AuthenticatedModes, FrameInv, IdentityInv
  <2> QED BY <2>2, <2>3 DEF IdentityRules
<1> QED BY <1>1, ConnectionInvariant, PTL

\* Every step keeps to what Acts says of it.
LEMMA NextActs ==
  ASSUME ConnectionInv, [Next]_vars, NEW c \in Conns
  PROVE  Acts(conn[c], conn'[c])
<1>1. conn \in [Conns -> Connection] /\ conn[c].user \in {Anonymous, conn[c].pin}
  BY DEF ConnectionInv, TypeOK, Local, Core, IdentityInv
<1>2. Acts(conn[c], conn[c])
  BY <1>1 DEF Acts
<1>3. CASE \E e \in Conns : Step(e)
  <2>1. PICK e \in Conns : Step(e)
    BY <1>3
  <2>2. PICK r : Acts(conn[e], r.x) /\ conn' = [conn EXCEPT ![e] = r.x]
    BY <2>1, StepLands DEF Lands, Ends
  <2>3. CASE c = e
    BY <1>1, <2>2, <2>3
  <2>4. CASE c # e
    BY <1>1, <1>2, <2>2, <2>4
  <2> QED BY <2>3, <2>4
<1>4. CASE Terminate
  BY <1>4, TerminateMoves
<1>5. CASE TerminateNext \/ (\E u \in Users : Revoke(u)) \/ UNCHANGED vars
  <2>1. conn' = conn
    BY <1>5 DEF TerminateNext, Revoke, vars
  <2> QED BY <1>2, <2>1
<1> QED BY <1>3, <1>4, <1>5 DEF Next

\* A connection takes on an identity only from a lookup it still waits for,
\* commands and deliveries are granted only under the identity of the moment,
\* and no connection ever acts for a second user (the epochs, deadlines and the
\* pinned user of authenticate.ts).
THEOREM IdentityStepsAreRight == Spec => IdentitySteps
<1>1. ConnectionInv /\ [Next]_vars =>
        [\A c \in Conns :
           conn'[c].user \notin {conn[c].user, Anonymous} =>
             /\ conn[c].lookup = "live" /\ ~conn[c].stopping
             /\ conn[c].phase = "lookup" \/ conn[c].drain = "auth"]_vars
  BY NextActs DEF Acts
<1>2. ConnectionInv /\ [Next]_vars =>
        [\A c \in Conns, k \in {"refresh", "snap"} :
           conn[c][k].at # "granted" /\ conn'[c][k].at = "granted" =>
             conn[c].user = conn'[c][k].as /\ conn'[c][k].ok /\ ~conn'[c].stopping]_vars
  BY NextActs DEF Acts
<1>3. ConnectionInv /\ [Next]_vars =>
        [\A c \in Conns : conn'[c].user # Anonymous /\ conn[c].pin # Anonymous =>
                            conn'[c].user = conn[c].pin]_vars
  BY NextActs DEF Acts
<1>4. Spec => AbandonedLookupsInert
  BY <1>1, ConnectionInvariant, PTL DEF Spec, AbandonedLookupsInert
<1>5. Spec => GrantsCurrent
  BY <1>2, ConnectionInvariant, PTL DEF Spec, GrantsCurrent
<1>6. Spec => OneUser
  BY <1>3, ConnectionInvariant, PTL DEF Spec, OneUser
<1> QED BY <1>4, <1>5, <1>6 DEF IdentitySteps
=============================================================================
