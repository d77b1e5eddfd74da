----------------------------- MODULE MessengerProofs -----------------------------
(***************************************************************************)
(* Theorems about Messenger, for any channels, access rules and number of  *)
(* calls and faults: types, the recovery protocol, and that an available   *)
(* status is true.                                                         *)
(***************************************************************************)
EXTENDS Messenger, SequenceTheorems, TLAPS

-----------------------------------------------------------------------------
\* The inductive invariant.

\* The commands a connection can have under way.  Only calls publish and only
\* recovery probes; one that is neither stale nor lost was sent over a connection
\* that has been ready ever since.
Live(c) == ~c.stale /\ ~c.lost
Underway(k, isReady) ==
  {c \in Command : /\ (c.op \in {"publish", "probe"}) = (k = "pub")
                   /\ c.op = "publish" => c.by = "call"
                   /\ c.op = "probe" => c.by = "recovery"
                   /\ Live(c) => isReady}

Queued(q, rdy) == /\ q = [k \in Kind |-> q[k]]
                  /\ \A k \in Kind : q[k] \in Seq(Underway(k, rdy[k]))

\* Recovery's lock, for any two queues of commands.
NoneAwaited(q) == \A k \in Kind : Awaited(q[k]) = {}
OneAwaited(q) == \E k \in Kind : \E i \in Awaited(q[k]) :
                   \A m \in Kind : \A j \in Awaited(q[m]) : m = k /\ j = i
Locks(q, held) == (held => OneAwaited(q)) /\ (~held => NoneAwaited(q))

LinkInv == \A k \in Kind : link[k] = "up" => ready[k]

StateTypes ==
  /\ link \in [Kind -> Link] /\ ready \in [Kind -> BOOLEAN]
  /\ desired \subseteq Channels /\ acked \subseteq Channels
  /\ pendingUnsub \subseteq Channels /\ subscribed \subseteq Channels
  /\ recovery \in Recovery
  /\ pubHealthy \in BOOLEAN /\ status \in BOOLEAN /\ timer \in BOOLEAN /\ destroyed \in BOOLEAN
  /\ denied \subseteq Deniable
  /\ calls \in 0..MaxCalls /\ faults \in 0..MaxFaults

MessengerInv == /\ StateTypes /\ LinkInv
                /\ Queued(inflight, ready) /\ Locks(inflight, recovering)
                /\ NoLostRecovery /\ HealthIsCurrent

-----------------------------------------------------------------------------
\* Queues of commands.

LEMMA Removal ==
  ASSUME NEW S, NEW s \in Seq(S), NEW j \in 1..Len(s)
  PROVE  /\ RemoveAt(s, j) \in Seq(S)
         /\ Len(RemoveAt(s, j)) = Len(s) - 1
         /\ \A i \in 1..(Len(s) - 1) : RemoveAt(s, j)[i] = IF i < j THEN s[i] ELSE s[i + 1]
<1> DEFINE a == SubSeq(s, 1, j - 1)
           b == SubSeq(s, j + 1, Len(s))
<1>1. /\ a \in Seq(S) /\ Len(a) = j - 1
      /\ \A i \in 1..(j - 1) : a[i] = s[i]
  BY SubSeqProperties
<1>2. /\ b \in Seq(S) /\ Len(b) = Len(s) - j
      /\ \A i \in 1..(Len(s) - j) : b[i] = s[j + i]
  BY SubSeqProperties
<1> HIDE DEF a, b
<1>3. /\ a \o b \in Seq(S) /\ Len(a \o b) = Len(a) + Len(b)
      /\ \A i \in 1..(Len(a) + Len(b)) : (a \o b)[i] = IF i <= Len(a) THEN a[i] ELSE b[i - Len(a)]
  BY <1>1, <1>2, ConcatProperties
<1>4. Len(a) + Len(b) = Len(s) - 1
  BY <1>1, <1>2
<1>5. ASSUME NEW i \in 1..(Len(s) - 1) PROVE (a \o b)[i] = IF i < j THEN s[i] ELSE s[i + 1]
  <2>1. CASE i < j
    BY <1>1, <1>3, <1>4, <2>1
  <2>2. CASE ~(i < j)
    <3>1. i - (j - 1) \in 1..(Len(s) - j) /\ j + (i - (j - 1)) = i + 1 /\ ~(i <= j - 1)
      BY <2>2
    <3> QED BY <1>1, <1>2, <1>3, <1>4, <2>2, <3>1, ZenonT(40)
  <2> QED BY <2>1, <2>2
<1> QED BY <1>3, <1>4, <1>5 DEF RemoveAt, a, b

\* Taking a command off a queue takes its claim on the lock with it.
LEMMA Taken ==
  ASSUME NEW q, NEW rdy, Queued(q, rdy), NEW held \in BOOLEAN, Locks(q, held),
         NEW k \in Kind, NEW j \in 1..Len(q[k]), NEW r, r = [q EXCEPT ![k] = RemoveAt(@, j)]
  PROVE  /\ q[k][j] \in Underway(k, rdy[k]) /\ Queued(r, rdy)
         /\ q[k][j].by = "recovery" => held /\ NoneAwaited(r)
         /\ q[k][j].by # "recovery" => Locks(r, held)
<1>1. q[k] \in Seq(Underway(k, rdy[k])) /\ Len(q[k]) \in Nat /\ DOMAIN q[k] = 1..Len(q[k])
  BY DEF Queued
<1>2. /\ r[k] \in Seq(Underway(k, rdy[k])) /\ Len(r[k]) = Len(q[k]) - 1
      /\ \A i \in 1..(Len(q[k]) - 1) : r[k][i] = IF i < j THEN q[k][i] ELSE q[k][i + 1]
      /\ r = [m \in Kind |-> r[m]] /\ \A m \in Kind \ {k} : r[m] = q[m]
  BY <1>1, Removal DEF Queued
<1>3. DOMAIN r[k] = 1..(Len(q[k]) - 1)
  BY <1>1, <1>2
<1>4. q[k][j] \in Underway(k, rdy[k]) /\ Queued(r, rdy)
  BY <1>1, <1>2 DEF Queued
\* Where a command of recovery stands after the removal, one stood before.
<1>5. \A i \in Awaited(r[k]) : (IF i < j THEN i ELSE i + 1) \in Awaited(q[k])
  BY <1>1, <1>2, <1>3 DEF Awaited
<1>6. \A i \in Awaited(q[k]) : i # j => (IF i < j THEN i ELSE i - 1) \in Awaited(r[k])
  <2>1. SUFFICES ASSUME NEW i \in Awaited(q[k]), i # j PROVE (IF i < j THEN i ELSE i - 1) \in Awaited(r[k])
    OBVIOUS
  <2>2. i \in 1..Len(q[k]) /\ q[k][i].by = "recovery"
    BY <1>1 DEF Awaited
  <2>3. CASE i < j
    <3>1. i \in 1..(Len(q[k]) - 1) /\ r[k][i] = q[k][i]
      BY <1>1, <1>2, <2>2, <2>3
    <3> QED BY <1>3, <2>2, <2>3, <3>1 DEF Awaited
  <2>4. CASE i > j
    <3>1. i - 1 \in 1..(Len(q[k]) - 1) /\ ~(i - 1 < j) /\ (i - 1) + 1 = i
      BY <1>1, <2>2, <2>4
    <3>2. r[k][i - 1] = q[k][i]
      BY <1>2, <3>1
    <3>3. i - 1 \in Awaited(r[k])
      BY <1>3, <2>2, <3>1, <3>2 DEF Awaited
    <3> QED BY <2>2, <2>4, <3>3
  <2> QED BY <1>1, <2>1, <2>2, <2>3, <2>4
<1>7. \A i \in Awaited(r[k]) \cup Awaited(q[k]) : i \in Nat
  BY <1>1, <1>3 DEF Awaited
<1>8. j \in Awaited(q[k]) <=> q[k][j].by = "recovery"
  BY <1>1 DEF Awaited
<1>9. ASSUME q[k][j].by = "recovery" PROVE held /\ NoneAwaited(r)
  <2>1. OneAwaited(q) /\ held
    BY <1>8, <1>9 DEF Locks, NoneAwaited
  <2>2. \A m \in Kind : \A i \in Awaited(q[m]) : m = k /\ i = j
    <3>1. PICK n \in Kind : \E l \in Awaited(q[n]) : \A m \in Kind : \A i \in Awaited(q[m]) : m = n /\ i = l
      BY <2>1 DEF OneAwaited
    <3>2. PICK l \in Awaited(q[n]) : \A m \in Kind : \A i \in Awaited(q[m]) : m = n /\ i = l
      BY <3>1
    <3>3. k = n /\ j = l
      BY <1>8, <1>9, <3>2
    <3> QED BY <3>2, <3>3
  <2>3. ASSUME NEW i \in Awaited(r[k]) PROVE FALSE
    <3>1. i \in Nat /\ j \in Nat /\ (IF i < j THEN i ELSE i + 1) = j
      BY <1>1, <1>5, <1>7, <2>2
    <3> QED BY <3>1
  <2> QED BY <1>2, <2>1, <2>2, <2>3 DEF NoneAwaited
<1>10. ASSUME q[k][j].by # "recovery" PROVE Locks(r, held)
  <2>1. ASSUME NoneAwaited(q) PROVE NoneAwaited(r)
    <3>1. Awaited(r[k]) = {}
      BY <1>5, <2>1 DEF NoneAwaited
    <3>2. \A m \in Kind \ {k} : Awaited(r[m]) = {}
      BY <1>2, <2>1 DEF NoneAwaited
    <3> QED BY <3>1, <3>2 DEF NoneAwaited
  <2>2. ASSUME OneAwaited(q) PROVE OneAwaited(r)
    <3>0. PICK m \in Kind : \E i \in Awaited(q[m]) : \A n \in Kind : \A l \in Awaited(q[n]) : n = m /\ l = i
      BY <2>2 DEF OneAwaited
    <3>1. PICK i \in Awaited(q[m]) : \A n \in Kind : \A l \in Awaited(q[n]) : n = m /\ l = i
      BY <3>0
    <3>2. CASE m = k
      <4> DEFINE p == IF i < j THEN i ELSE i - 1
      <4>1. i # j /\ p \in Awaited(r[k])
        <5>1. i \in Awaited(q[k]) /\ i # j
          BY <1>8, <1>10, <3>2
        <5> QED BY <1>6, <5>1
      <4>2. \A l \in Awaited(r[k]) : l = p
        <5>1. ASSUME NEW l \in Awaited(r[k]) PROVE l = p
          <6>1. l \in Nat /\ i \in Nat /\ j \in Nat
            BY <1>1, <1>7, <3>2
          <6>2. (IF l < j THEN l ELSE l + 1) \in Awaited(q[k])
            BY <1>5
          <6>3. (IF l < j THEN l ELSE l + 1) = i
            BY <3>1, <6>2
          <6> QED BY <4>1, <6>1, <6>3
        <5> QED BY <5>1
      <4>3. \A n \in Kind : \A l \in Awaited(r[n]) : n = k
        BY <1>2, <3>1, <3>2
      <4> HIDE DEF p
      <4> QED BY <4>1, <4>2, <4>3 DEF OneAwaited
    <3>3. CASE m # k
      <4>1. Awaited(r[k]) = {}
        BY <1>5, <3>1, <3>3
      <4>2. i \in Awaited(r[m]) /\ \A n \in Kind : \A l \in Awaited(r[n]) : n = m /\ l = i
        BY <1>2, <3>1, <3>3, <4>1
      <4> QED BY <4>2 DEF OneAwaited
    <3> QED BY <3>2, <3>3
  <2> QED BY <2>1, <2>2 DEF Locks
<1> QED BY <1>4, <1>9, <1>10

LEMMA TailRemoves ==
  ASSUME NEW S, NEW s \in Seq(S), s # <<>>
  PROVE  1 \in 1..Len(s) /\ Head(s) = s[1] /\ Tail(s) = RemoveAt(s, 1)
<1>1. /\ Len(s) \in Nat \ {0} /\ Head(s) = s[1] /\ Tail(s) \in Seq(S) /\ Len(Tail(s)) = Len(s) - 1
      /\ \A i \in 1..(Len(s) - 1) : Tail(s)[i] = s[i + 1]
  BY HeadTailProperties, LenProperties, EmptySeq
<1>2. 1 \in 1..Len(s)
  BY <1>1
<1>3. /\ RemoveAt(s, 1) \in Seq(S) /\ Len(RemoveAt(s, 1)) = Len(s) - 1
      /\ \A i \in 1..(Len(s) - 1) : RemoveAt(s, 1)[i] = IF i < 1 THEN s[i] ELSE s[i + 1]
  BY <1>2, Removal
<1>4. \A i \in 1..(Len(s) - 1) : ~(i < 1)
  BY <1>1
<1>5. \A i \in 1..Len(Tail(s)) : Tail(s)[i] = RemoveAt(s, 1)[i]
  BY <1>1, <1>3, <1>4
<1>6. Len(Tail(s)) = Len(RemoveAt(s, 1))
  BY <1>1, <1>3
<1> QED BY <1>1, <1>2, <1>3, <1>5, <1>6, SeqEqual

\* Sending adds a claim only for recovery, which sends when nothing is awaited.
Sendable(k) == {c \in Command : /\ (c.op \in {"publish", "probe"}) = (k = "pub")
                                /\ c.op = "publish" => c.by = "call"
                                /\ c.op = "probe" => c.by = "recovery"}

LEMMA Sending ==
  ASSUME NEW q, ready' \in [Kind -> BOOLEAN], Queued(q, ready'), LinkInv',
         NEW k \in Kind, NEW c \in Sendable(k), c.by = "recovery" => NoneAwaited(q)
  PROVE  /\ Queued(Sent(q, k, c), ready')
         /\ c.by = "recovery" => OneAwaited(Sent(q, k, c))
         /\ c.by # "recovery" => \A held \in BOOLEAN : Locks(q, held) => Locks(Sent(q, k, c), held)
<1>a. PICK d : d = [c EXCEPT !.lost = link'[k] # "up"]
  OBVIOUS
<1>b. PICK r : r = Sent(q, k, c)
  OBVIOUS
<1>1. d \in Underway(k, ready'[k]) /\ d.by = c.by
  BY <1>a DEF Sendable, Command, Underway, Live, LinkInv
<1>2. q[k] \in Seq(Underway(k, ready'[k])) /\ Len(q[k]) \in Nat /\ DOMAIN q[k] = 1..Len(q[k])
  BY DEF Queued
<1>3. /\ r = [m \in Kind |-> r[m]] /\ r[k] = Append(q[k], d) /\ \A m \in Kind \ {k} : r[m] = q[m]
  BY <1>a, <1>b DEF Sent, Queued
<1>4. /\ r[k] \in Seq(Underway(k, ready'[k])) /\ DOMAIN r[k] = 1..(Len(q[k]) + 1)
      /\ \A i \in 1..Len(q[k]) : r[k][i] = q[k][i]
      /\ r[k][Len(q[k]) + 1] = d
  BY <1>1, <1>2, <1>3, AppendProperties
<1>5. Queued(r, ready')
  BY <1>3, <1>4 DEF Queued
<1>6. ASSUME c.by = "recovery" PROVE OneAwaited(r)
  <2>1. NoneAwaited(q)
    BY <1>6
  <2>2. \A m \in Kind \ {k} : Awaited(r[m]) = {}
    BY <1>3, <2>1 DEF NoneAwaited
  <2>3. Len(q[k]) + 1 \in Awaited(r[k]) /\ \A i \in Awaited(r[k]) : i = Len(q[k]) + 1
    <3>1. d.by = "recovery" /\ Awaited(q[k]) = {}
      BY <1>1, <1>6, <2>1 DEF NoneAwaited
    <3>2. Len(q[k]) + 1 \in Awaited(r[k])
      BY <1>2, <1>4, <3>1 DEF Awaited
    <3>3. ASSUME NEW i \in Awaited(r[k]), i \in 1..Len(q[k]) PROVE FALSE
      BY <1>2, <1>4, <3>1, <3>3 DEF Awaited
    <3>4. \A i \in Awaited(r[k]) : i \in 1..(Len(q[k]) + 1)
      BY <1>4 DEF Awaited
    <3>5. ASSUME NEW i \in Awaited(r[k]) PROVE i = Len(q[k]) + 1
      <4>1. i \in 1..(Len(q[k]) + 1) /\ i \notin 1..Len(q[k])
        BY <3>3, <3>4
      <4> QED BY <1>2, <4>1
    <3> QED BY <3>2, <3>5
  <2>4. ASSUME NEW m \in Kind, NEW i \in Awaited(r[m]) PROVE m = k /\ i = Len(q[k]) + 1
    BY <2>2, <2>3
  <2> QED BY <2>3, <2>4 DEF OneAwaited
<1>7. ASSUME c.by # "recovery" PROVE \A m \in Kind : Awaited(r[m]) = Awaited(q[m])
  <2>1. Awaited(r[k]) = Awaited(q[k])
    BY <1>1, <1>2, <1>4, <1>7 DEF Awaited
  <2> QED BY <1>3, <2>1
<1>8. ASSUME c.by # "recovery", NEW held \in BOOLEAN, Locks(q, held) PROVE Locks(r, held)
  BY <1>7, <1>8 DEF Locks, NoneAwaited, OneAwaited
<1> QED BY <1>b, <1>5, <1>6, <1>8

LEMMA SeqOfFunction ==
  ASSUME NEW S, NEW n \in Nat, NEW f \in [1..n -> S]
  PROVE  f \in Seq(S)
OBVIOUS

\* Marking commands stale or lost moves none of them.
LEMMA Marking ==
  ASSUME NEW q, NEW rdy, Queued(q, rdy), NEW k \in Kind, NEW b \in BOOLEAN,
         NEW r, r = [i \in DOMAIN q[k] |-> IF b THEN [q[k][i] EXCEPT !.stale = TRUE] ELSE [q[k][i] EXCEPT !.lost = TRUE]]
  PROVE  r \in Seq(Underway(k, FALSE)) /\ Awaited(r) = Awaited(q[k])
<1>1. q[k] \in Seq(Underway(k, rdy[k])) /\ Len(q[k]) \in Nat /\ DOMAIN q[k] = 1..Len(q[k])
  BY DEF Queued
<1>2. ASSUME NEW i \in 1..Len(q[k]) PROVE r[i] \in Underway(k, FALSE) /\ r[i].by = q[k][i].by
  <2>1. q[k][i] \in Underway(k, rdy[k])
    BY <1>1, ElementOfSeq
  <2> QED BY <1>1, <2>1 DEF Underway, Command, Live
<1>3. r \in Seq(Underway(k, FALSE))
  <2>1. r \in [1..Len(q[k]) -> Underway(k, FALSE)]
    BY <1>1, <1>2
  <2> QED BY <1>1, <2>1, SeqOfFunction, Zenon
<1> QED BY <1>1, <1>2, <1>3 DEF Awaited

\* Commands that may be under way on a connection that is not ready may be so on any.
LEMMA Remain ==
  ASSUME NEW k \in Kind, NEW cs \in Seq(Underway(k, FALSE)), NEW b
  PROVE  cs \in Seq(Underway(k, b))
<1>1. Underway(k, FALSE) \subseteq Underway(k, b)
  BY DEF Underway
<1> QED BY <1>1, SeqMonotonic

LEMMA SameClaims ==
  ASSUME NEW q, NEW r, NEW held \in BOOLEAN, Locks(q, held), \A k \in Kind : Awaited(r[k]) = Awaited(q[k])
  PROVE  Locks(r, held)
BY DEF Locks, OneAwaited, NoneAwaited

-----------------------------------------------------------------------------
\* What ends a turn: the status, and recovery's next command or its end.

\* What a turn has done by then.
Turn == /\ link' \in [Kind -> Link] /\ ready' \in [Kind -> BOOLEAN] /\ LinkInv'
        /\ pubHealthy' \in BOOLEAN /\ destroyed' \in BOOLEAN /\ status \in BOOLEAN

RecoveryInv == /\ Queued(inflight, ready) /\ Locks(inflight, recovering) /\ recovery \in Recovery
               /\ status \in BOOLEAN /\ timer \in BOOLEAN /\ NoLostRecovery

\* updateStatus arms the timer whenever there is work and no recovery.
LEMMA StatusFinds ==
  ASSUME Turn, NEW armed \in BOOLEAN, UpdateStatus(armed)
  PROVE  status' \in BOOLEAN /\ timer' \in BOOLEAN /\ NoLostRecovery'
<1>1. ready'["sub"] \in BOOLEAN /\ ready'["pub"] \in BOOLEAN
  BY DEF Turn, Kind
<1>2. status' \in BOOLEAN
  BY <1>1 DEF Turn, UpdateStatus, SubscriberHealthy, PublisherHealthy
<1>3. timer' \in BOOLEAN
  BY <1>1, <1>2 DEF Turn, UpdateStatus, Wanted, NeedsWork, recovering
<1>4. NoLostRecovery'
  BY <1>1 DEF Turn, UpdateStatus, NoLostRecovery, Wanted, NeedsWork, SubscriberHealthy, PublisherHealthy
<1> QED BY <1>2, <1>3, <1>4

LEMMA Settles ==
  ASSUME Turn, NEW armed \in BOOLEAN, NEW q, Queued(q, ready'), NoneAwaited(q), inflight' = q, Settle(armed)
  PROVE  RecoveryInv'
<1>1. recovery' = Resting /\ ~recovering' /\ Resting \in Recovery
  BY DEF Settle, Resting, recovering, Recovery
<1>2. Queued(inflight, ready)' /\ Locks(inflight, recovering)'
  BY <1>1 DEF Locks, Queued, NoneAwaited, Awaited
<1> QED BY <1>1, <1>2, StatusFinds DEF Settle, RecoveryInv

LEMMA Waits ==
  ASSUME Turn, NEW armed \in BOOLEAN, NEW q, Queued(q, ready'), NoneAwaited(q),
         NEW k \in Kind, NEW c \in Sendable(k), c.by = "recovery", inflight' = Sent(q, k, c),
         NEW r \in Recovery, r.at # "idle", Wait(r, armed)
  PROVE  RecoveryInv'
<1>1. recovery' = r /\ recovering' /\ timer' = armed /\ status' = status
  BY DEF Wait, recovering
<1>2. Queued(inflight', ready') /\ OneAwaited(inflight')
  BY Sending DEF Turn
<1>3. Locks(inflight, recovering)'
  BY <1>1, <1>2 DEF Locks, OneAwaited, NoneAwaited, Awaited
<1>4. Queued(inflight, ready)'
  BY <1>2 DEF Queued
<1> QED BY <1>1, <1>3, <1>4 DEF RecoveryInv, NoLostRecovery, Turn

LEMMA ProbesOrSettles ==
  ASSUME Turn, NEW armed \in BOOLEAN, NEW q, Queued(q, ready'), NoneAwaited(q), ProbeOrSettle(q, armed)
  PROVE  RecoveryInv'
<1> DEFINE c == OnPub("probe", "recovery")
           r == [Resting EXCEPT !.at = "probe"]
<1>1. c \in Sendable("pub") /\ c.by = "recovery" /\ "pub" \in Kind
  BY DEF OnPub, Sendable, Command, Kind
<1>2. r \in Recovery /\ r.at # "idle"
  BY DEF Resting, Recovery
<1>3. \/ inflight' = Sent(q, "pub", c) /\ Wait(r, armed)
      \/ inflight' = q /\ Settle(armed)
  BY DEF ProbeOrSettle
<1> HIDE DEF c, r
<1> QED BY <1>1, <1>2, <1>3, Waits, Settles

LEMMA SubscribesNext ==
  ASSUME Turn, NEW armed \in BOOLEAN, NEW q, Queued(q, ready'), NoneAwaited(q),
         desired \subseteq Channels, NEW seen \in SUBSET Channels, SubscribeNext(q, seen, armed)
  PROVE  RecoveryInv'
<1>1. CASE ProbeOrSettle(q, armed)
  BY <1>1, ProbesOrSettles
<1>2. ASSUME NEW d \in Channels, NEW passed \in SUBSET Channels,
             inflight' = Sent(q, "sub", OnSub("subscribe", d, "recovery")),
             Wait([at |-> "subscribe", todo |-> {}, seen |-> seen \cup passed \cup {d}], armed)
      PROVE  RecoveryInv'
  <2> DEFINE c == OnSub("subscribe", d, "recovery")
             r == [at |-> "subscribe", todo |-> {}, seen |-> seen \cup passed \cup {d}]
  <2>1. c \in Sendable("sub") /\ c.by = "recovery" /\ "sub" \in Kind
    BY DEF OnSub, Sendable, Command, Kind
  <2>2. r \in Recovery /\ r.at # "idle"
    BY DEF Recovery
  <2>3. inflight' = Sent(q, "sub", c) /\ Wait(r, armed)
    BY <1>2
  <2> HIDE DEF c, r
  <2> QED BY <2>1, <2>2, <2>3, Waits
<1> QED BY <1>1, <1>2 DEF SubscribeNext

LEMMA UnsubscribesNext ==
  ASSUME Turn, NEW armed \in BOOLEAN, NEW q, Queued(q, ready'), NoneAwaited(q),
         desired \subseteq Channels, NEW todo \in SUBSET Channels, NEW pending \in SUBSET Channels,
         UnsubscribeNext(q, todo, pending, armed)
  PROVE  RecoveryInv' /\ pendingUnsub' \subseteq Channels /\ acked' = acked
<1>1. ASSUME NEW d \in todo \ desired, NEW superseded \in SUBSET (todo \cap desired),
             inflight' = Sent(q, "sub", OnSub("unsubscribe", d, "recovery")),
             Wait([at |-> "unsubscribe", todo |-> todo \ (superseded \cup {d}), seen |-> {}], armed)
      PROVE  RecoveryInv'
  <2> DEFINE c == OnSub("unsubscribe", d, "recovery")
             r == [at |-> "unsubscribe", todo |-> todo \ (superseded \cup {d}), seen |-> {}]
  <2>1. c \in Sendable("sub") /\ c.by = "recovery" /\ "sub" \in Kind
    BY DEF OnSub, Sendable, Command, Kind
  <2>2. r \in Recovery /\ r.at # "idle"
    BY DEF Recovery
  <2>3. inflight' = Sent(q, "sub", c) /\ Wait(r, armed)
    BY <1>1
  <2> HIDE DEF c, r
  <2> QED BY <2>1, <2>2, <2>3, Waits
<1>2. ASSUME SubscribeNext(q, {}, armed) PROVE RecoveryInv'
  <2>1. {} \in SUBSET Channels
    OBVIOUS
  <2> QED BY <1>2, <2>1, SubscribesNext
<1>3. pendingUnsub' \subseteq Channels /\ acked' = acked
  BY DEF UnsubscribeNext
<1> QED BY <1>1, <1>2, <1>3 DEF UnsubscribeNext

LEMMA Attempts ==
  ASSUME MessengerInv, Turn, Queued(inflight, ready'), UNCHANGED <<desired, destroyed>>, AttemptRecovery
  PROVE  RecoveryInv' /\ pendingUnsub' \subseteq Channels /\ acked' = acked
<1>1. /\ pendingUnsub \in SUBSET Channels /\ desired \subseteq Channels /\ recovery \in Recovery
      /\ status \in BOOLEAN /\ destroyed \in BOOLEAN /\ FALSE \in BOOLEAN /\ Locks(inflight, recovering)
  BY DEF MessengerInv, StateTypes
<1>2. CASE Refuses
  <2>1. UNCHANGED <<inflight, acked, pendingUnsub, status, recovery>> /\ timer' = FALSE
    BY <1>2 DEF AttemptRecovery
  <2>2. Queued(inflight, ready)' /\ Locks(inflight, recovering)'
    BY <1>1, <2>1 DEF Queued, Locks, recovering, OneAwaited, NoneAwaited, Awaited
  <2>3. NoLostRecovery'
    BY <1>2, <2>1 DEF Refuses, NoLostRecovery, recovering
  <2> QED BY <1>1, <2>1, <2>2, <2>3 DEF RecoveryInv
<1>3. CASE ~Refuses
  <2>1. NoneAwaited(inflight)
    BY <1>1, <1>3 DEF Refuses, Locks
  <2>2. CASE ready'["sub"]
    <3>1. UnsubscribeNext(inflight, pendingUnsub, pendingUnsub, FALSE)
      BY <1>3, <2>2 DEF AttemptRecovery
    <3> QED BY <1>1, <2>1, <3>1, UnsubscribesNext
  <2>3. CASE ~ready'["sub"]
    <3>1. UNCHANGED <<acked, pendingUnsub>> /\ ProbeOrSettle(inflight, FALSE)
      BY <1>3, <2>3 DEF AttemptRecovery
    <3> QED BY <1>1, <2>1, <3>1, ProbesOrSettles
  <2> QED BY <2>2, <2>3
<1> QED BY <1>2, <1>3

\* A turn keeps the invariant when it keeps the types, what is known of the
\* connections, and recovery's part.
Rest == /\ link \in [Kind -> Link] /\ ready \in [Kind -> BOOLEAN]
        /\ desired \subseteq Channels /\ acked \subseteq Channels
        /\ pendingUnsub \subseteq Channels /\ subscribed \subseteq Channels
        /\ pubHealthy \in BOOLEAN /\ destroyed \in BOOLEAN
        /\ denied \subseteq Deniable
        /\ calls \in 0..MaxCalls /\ faults \in 0..MaxFaults
        /\ LinkInv /\ HealthIsCurrent

LEMMA Parts == MessengerInv <=> Rest /\ RecoveryInv
BY DEF MessengerInv, StateTypes, Rest, RecoveryInv

-----------------------------------------------------------------------------
\* The steps.

LEMMA InitKeeps == Init => MessengerInv
<1>1. SUFFICES ASSUME Init PROVE MessengerInv
  OBVIOUS
<1>2. Rest
  <2>1. /\ link \in [Kind -> Link] /\ ready \in [Kind -> BOOLEAN] /\ LinkInv /\ HealthIsCurrent
        /\ pubHealthy \in BOOLEAN /\ destroyed \in BOOLEAN
    BY <1>1 DEF Init, Link, LinkInv, HealthIsCurrent
  <2>2. calls \in 0..MaxCalls /\ faults \in 0..MaxFaults /\ denied \subseteq Deniable
    BY <1>1, MessengerAssumption DEF Init
  <2> QED BY <1>1, <2>1, <2>2 DEF Init, Rest
<1>3. Queued(inflight, ready) /\ NoneAwaited(inflight)
  BY <1>1, EmptySeq DEF Init, Queued, NoneAwaited, Awaited
<1>4. recovery = Resting /\ Resting \in Recovery /\ ~recovering
  BY <1>1 DEF Init, Resting, Recovery, recovering
<1>5. NoLostRecovery
  BY <1>1 DEF Init, NoLostRecovery, NeedsWork, Kind
<1> QED BY <1>1, <1>2, <1>3, <1>4, <1>5, Parts DEF Init, RecoveryInv, Locks

LEMMA RecoveryTimerKeeps == ASSUME MessengerInv, RecoveryTimer PROVE MessengerInv'
<1>1. /\ UNCHANGED <<socketVars, redisVars, desired, pubHealthy, destroyed, calls, faults>> /\ AttemptRecovery
      /\ Queued(inflight, ready)
  BY DEF RecoveryTimer, MessengerInv
<1>2. Turn
  BY <1>1 DEF MessengerInv, StateTypes, LinkInv, Turn, socketVars
<1>3. Queued(inflight, ready')
  BY <1>1 DEF socketVars
<1>4. RecoveryInv' /\ pendingUnsub' \subseteq Channels /\ acked' = acked
  BY <1>1, <1>2, <1>3, Attempts
<1>5. Rest'
  BY <1>1, <1>4, Parts DEF Rest, LinkInv, HealthIsCurrent, socketVars, redisVars
<1> QED BY <1>4, <1>5 DEF MessengerInv, StateTypes, Rest, RecoveryInv

LEMMA OnReadyKeeps == ASSUME MessengerInv, NEW k \in Kind, OnReady(k) PROVE MessengerInv'
<1>1. /\ link' = [link EXCEPT ![k] = "up"] /\ ready' = [ready EXCEPT ![k] = TRUE]
      /\ UNCHANGED <<redisVars, desired, pubHealthy, destroyed, calls, faults>> /\ AttemptRecovery
      /\ Rest /\ RecoveryInv
  BY Parts DEF OnReady
<1>2. link' \in [Kind -> Link] /\ ready' \in [Kind -> BOOLEAN] /\ LinkInv' /\ \A m \in Kind : ready[m] => ready'[m]
  BY <1>1 DEF Rest, Link, LinkInv
<1>3. Queued(inflight, ready')
  <2>1. \A m \in Kind : Underway(m, ready[m]) \subseteq Underway(m, ready'[m])
    BY <1>2 DEF Underway
  <2>2. \A m \in Kind : inflight[m] \in Seq(Underway(m, ready'[m]))
    BY <1>1, <2>1, SeqMonotonic DEF RecoveryInv, Queued
  <2> QED BY <1>1, <2>2 DEF RecoveryInv, Queued
<1>4. Turn
  BY <1>1, <1>2 DEF Turn, Rest, RecoveryInv
<1>5. RecoveryInv' /\ pendingUnsub' \subseteq Channels /\ acked' = acked
  BY <1>1, <1>3, <1>4, Attempts
<1>6. HealthIsCurrent'
  BY <1>1, <1>2, <1>5 DEF Rest, HealthIsCurrent, Kind
<1>7. Rest'
  BY <1>1, <1>2, <1>5, <1>6 DEF Rest, redisVars
<1> QED BY <1>5, <1>7 DEF MessengerInv, StateTypes, Rest, RecoveryInv

\* What a step owes the invariant.
LEMMA Together ==
  ASSUME Rest', Queued(inflight', ready'), Locks(inflight', recovering'), recovery' \in Recovery,
         status' \in BOOLEAN, timer' \in BOOLEAN, NoLostRecovery'
  PROVE  MessengerInv'
<1>1. Queued(inflight, ready)' /\ Locks(inflight, recovering)'
  BY DEF Queued, Locks, OneAwaited, NoneAwaited, Awaited
<1> QED BY <1>1 DEF MessengerInv, StateTypes, Rest

LEMMA CallKeeps ==
  ASSUME MessengerInv, NEW c \in Channels, Subscribe(c) \/ Unsubscribe(c) PROVE MessengerInv'
<1>1. Rest /\ RecoveryInv /\ recovering \in BOOLEAN /\ "sub" \in Kind
  BY Parts DEF recovering, Kind
<1>2. PICK op \in {"subscribe", "unsubscribe"} :
        inflight' = IF ready["sub"] THEN Sent(inflight, "sub", OnSub(op, c, "call")) ELSE inflight
  BY DEF Subscribe, Unsubscribe
<1>3. /\ UNCHANGED <<socketVars, redisVars, pubHealthy, destroyed, faults>> /\ Call /\ UpdateStatus(timer)
      /\ desired' \subseteq Channels /\ acked' \subseteq acked /\ pendingUnsub' \subseteq pendingUnsub
      /\ recovery' \in Recovery /\ recovery'.at = recovery.at
  BY <1>1 DEF Subscribe, Unsubscribe, Rest, RecoveryInv, Recovery
<1>4. Turn
  BY <1>1, <1>3 DEF Turn, Rest, RecoveryInv, LinkInv, socketVars
<1>5. Rest'
  <2>1. calls' \in 0..MaxCalls
    BY <1>1, <1>3, MessengerAssumption DEF Call, Rest
  <2> QED BY <1>1, <1>3, <2>1 DEF Rest, LinkInv, HealthIsCurrent, socketVars, redisVars
<1>6. recovering' = recovering
  BY <1>3 DEF recovering
<1>7. Queued(inflight, ready') /\ Locks(inflight, recovering)
  BY <1>1, <1>3 DEF RecoveryInv, socketVars
<1>8. OnSub(op, c, "call") \in Sendable("sub") /\ OnSub(op, c, "call").by = "call"
  BY <1>2 DEF OnSub, Sendable, Command
<1>9. Queued(inflight', ready') /\ Locks(inflight', recovering)
  <2>1. CASE ready["sub"]
    <3>1. inflight' = Sent(inflight, "sub", OnSub(op, c, "call"))
      BY <1>2, <2>1
    <3>2. LinkInv' /\ ready' \in [Kind -> BOOLEAN]
      BY <1>4 DEF Turn
    <3> QED BY <1>1, <1>7, <1>8, <3>1, <3>2, Sending
  <2>2. CASE ~ready["sub"]
    BY <1>2, <1>7, <2>2
  <2> QED BY <2>1, <2>2
<1>10. status' \in BOOLEAN /\ timer' \in BOOLEAN /\ NoLostRecovery'
  BY <1>1, <1>3, <1>4, StatusFinds DEF RecoveryInv
<1> QED BY <1>3, <1>5, <1>6, <1>9, <1>10, Together

LEMMA PublishKeeps == ASSUME MessengerInv, Publish PROVE MessengerInv'
<1>1. Rest /\ RecoveryInv /\ recovering \in BOOLEAN /\ "pub" \in Kind
  BY Parts DEF recovering, Kind
<1>2. /\ UNCHANGED <<socketVars, redisVars, desired, acked, pendingUnsub, pubHealthy, status, recovery,
                     timer, destroyed, faults>>
      /\ Call /\ inflight' = Sent(inflight, "pub", OnPub("publish", "call"))
  BY DEF Publish
<1>3. Rest'
  <2>1. calls' \in 0..MaxCalls
    BY <1>1, <1>2, MessengerAssumption DEF Call, Rest
  <2> QED BY <1>1, <1>2, <2>1 DEF Rest, LinkInv, HealthIsCurrent, socketVars, redisVars
<1>4. Queued(inflight, ready') /\ Locks(inflight, recovering) /\ LinkInv' /\ ready' \in [Kind -> BOOLEAN]
  BY <1>1, <1>2, <1>3 DEF RecoveryInv, Rest, socketVars
<1>5. OnPub("publish", "call") \in Sendable("pub") /\ OnPub("publish", "call").by = "call"
  BY DEF OnPub, Sendable, Command
<1>6. Queued(inflight', ready') /\ Locks(inflight', recovering)
  BY <1>1, <1>2, <1>4, <1>5, Sending
<1>7. recovering' = recovering /\ NoLostRecovery'
  BY <1>1, <1>2 DEF recovering, RecoveryInv, NoLostRecovery, NeedsWork, SubscriberHealthy, PublisherHealthy,
                    socketVars
<1> QED BY <1>1, <1>2, <1>3, <1>6, <1>7, Together DEF RecoveryInv

LEMMA DestroyKeeps == ASSUME MessengerInv, Destroy PROVE MessengerInv'
<1>1. Rest /\ RecoveryInv
  BY Parts
<1>2. Rest'
  <2>1. link' \in [Kind -> Link] /\ LinkInv'
    BY <1>1 DEF Destroy, Rest, Link, LinkInv
  <2> QED BY <1>1, <2>1 DEF Destroy, Rest, HealthIsCurrent, redisVars
<1>3. \A k \in Kind : /\ inflight'[k] \in Seq(Underway(k, FALSE))
                      /\ Awaited(inflight'[k]) = Awaited(inflight[k])
  <2>1. SUFFICES ASSUME NEW k \in Kind
                 PROVE  inflight'[k] \in Seq(Underway(k, FALSE)) /\ Awaited(inflight'[k]) = Awaited(inflight[k])
    OBVIOUS
  <2>2. Queued(inflight, ready) /\ inflight'[k] = [i \in DOMAIN inflight[k] |-> [inflight[k][i] EXCEPT !.stale = TRUE]]
    BY <1>1 DEF Destroy, RecoveryInv, Outdated
  <2>3. inflight'[k] = [i \in DOMAIN inflight[k] |-> IF TRUE THEN [inflight[k][i] EXCEPT !.stale = TRUE]
                                                           ELSE [inflight[k][i] EXCEPT !.lost = TRUE]]
    BY <2>2
  <2> QED BY <2>2, <2>3, Marking
<1>4. Queued(inflight', ready') /\ Locks(inflight', recovering)
  <2>1. inflight' = [k \in Kind |-> inflight'[k]]
    BY DEF Destroy
  <2>2. \A k \in Kind : Underway(k, FALSE) \subseteq Underway(k, ready'[k])
    BY DEF Underway
  <2>3. \A k \in Kind : inflight'[k] \in Seq(Underway(k, ready'[k]))
    BY <1>3, <2>2, SeqMonotonic
  <2>4. Queued(inflight', ready')
    BY <2>1, <2>3 DEF Queued
  <2>5. recovering \in BOOLEAN /\ Locks(inflight, recovering)
    BY <1>1 DEF RecoveryInv, recovering
  <2> QED BY <1>3, <2>4, <2>5, SameClaims
<1>5. /\ recovering' = recovering /\ NoLostRecovery' /\ timer' = FALSE
      /\ status' = status /\ recovery' = recovery
  BY DEF Destroy, recovering, NoLostRecovery
<1> QED BY <1>1, <1>2, <1>4, <1>5, Together DEF RecoveryInv

\* A command c of connection k has its outcome; q is what remains under way.
Outcome(k, c, q) ==
  /\ c \in Underway(k, ready[k]) /\ Queued(q, ready')
  /\ c.by = "recovery" => NoneAwaited(q)
  /\ c.by # "recovery" => Locks(q, recovering)
  /\ UNCHANGED <<socketVars, desired, destroyed>>

\* What its continuation then owes.
Continued == /\ RecoveryInv' /\ HealthIsCurrent' /\ pubHealthy' \in BOOLEAN
             /\ acked' \subseteq Channels /\ pendingUnsub' \subseteq Channels

LEMMA TurnOfOutcome ==
  ASSUME MessengerInv, NEW k, NEW c, NEW q, Outcome(k, c, q), pubHealthy' \in BOOLEAN
  PROVE  Turn
BY DEF Outcome, MessengerInv, StateTypes, Turn, LinkInv, socketVars

LEMMA QuietContinues ==
  ASSUME MessengerInv, NEW k \in Kind, NEW c, NEW q, Outcome(k, c, q), c.by # "recovery", Quiet(q)
  PROVE  Continued
<1>1. /\ UNCHANGED <<ready, desired, destroyed, acked, pendingUnsub, pubHealthy, status, recovery, timer>>
      /\ inflight' = q /\ Queued(q, ready') /\ Locks(q, recovering)
  BY DEF Quiet, Outcome, socketVars
<1>2. recovering' = recovering /\ NoLostRecovery'
  BY <1>1 DEF MessengerInv, recovering, NoLostRecovery, NeedsWork, SubscriberHealthy, PublisherHealthy
<1>3. Queued(inflight, ready)' /\ Locks(inflight, recovering)'
  BY <1>1, <1>2 DEF Queued, Locks, OneAwaited, NoneAwaited, Awaited
<1> QED BY <1>1, <1>2, <1>3 DEF Continued, RecoveryInv, MessengerInv, StateTypes, HealthIsCurrent

\* A continuation that leaves recovery alone and ends in updateStatus.
LEMMA UpdateContinues ==
  ASSUME MessengerInv, NEW k \in Kind, NEW c, NEW q, Outcome(k, c, q), c.by # "recovery", inflight' = q,
         UNCHANGED recovery, UpdateStatus(timer), HealthIsCurrent', pubHealthy' \in BOOLEAN,
         acked' \subseteq Channels, pendingUnsub' \subseteq Channels
  PROVE  Continued
<1>1. Turn
  BY TurnOfOutcome
<1>2. status' \in BOOLEAN /\ timer' \in BOOLEAN /\ NoLostRecovery'
  BY <1>1, StatusFinds DEF MessengerInv, StateTypes
<1>3. Queued(inflight, ready)' /\ Locks(inflight, recovering)'
  BY DEF Outcome, recovering, Queued, Locks, OneAwaited, NoneAwaited, Awaited
<1> QED BY <1>2, <1>3 DEF Continued, RecoveryInv, MessengerInv, StateTypes

LEMMA RejectedContinues ==
  ASSUME MessengerInv, NEW k \in Kind, NEW c, NEW q, Outcome(k, c, q), Rejected(c, q)
  PROVE  Continued
<1>1. c \in Command /\ ready' = ready
  BY DEF Outcome, Underway, socketVars
<1>2. CASE c.by = "recovery"
  <2>1. inflight' = q /\ UNCHANGED <<acked, pendingUnsub, pubHealthy>> /\ Settle(timer)
    BY <1>2 DEF Rejected
  <2>2. Turn
    BY <2>1, TurnOfOutcome DEF MessengerInv, StateTypes
  <2>3. Queued(q, ready') /\ NoneAwaited(q) /\ timer \in BOOLEAN
    BY <1>2 DEF Outcome, MessengerInv, StateTypes
  <2>4. RecoveryInv'
    BY <2>1, <2>2, <2>3, Settles
  <2> QED BY <1>1, <2>1, <2>4 DEF Continued, MessengerInv, StateTypes, HealthIsCurrent
<1>3. CASE c.by # "recovery" /\ Quiet(q)
  BY <1>3, QuietContinues
<1>4. CASE c.by # "recovery" /\ ~Quiet(q)
  <2>1. /\ inflight' = q /\ UNCHANGED <<acked, recovery>> /\ UpdateStatus(timer)
        /\ (pubHealthy' = FALSE) \/ (pubHealthy' = pubHealthy)
        /\ pendingUnsub' \in {pendingUnsub} \cup
             {pendingUnsub \cup IF c.op = "unsubscribe" THEN Unremoved(c) ELSE {}}
        /\ pendingUnsub' # pendingUnsub => c.op \in {"subscribe", "unsubscribe"}
    BY <1>4 DEF Rejected
  <2>2. pendingUnsub' \subseteq Channels
    BY <1>1, <2>1 DEF MessengerInv, StateTypes, Unremoved, Command
  <2>3. pubHealthy' \in BOOLEAN /\ acked' \subseteq Channels /\ HealthIsCurrent'
    <3>1. /\ pubHealthy \in BOOLEAN /\ acked \subseteq Channels /\ HealthIsCurrent
          /\ (pubHealthy' = FALSE) \/ (pubHealthy' = pubHealthy)
      BY <2>1 DEF MessengerInv, StateTypes
    <3>2. acked' \subseteq Channels /\ (acked' # {} => ready'["sub"])
      BY <1>1, <2>1, <3>1 DEF HealthIsCurrent
    <3>3. pubHealthy' \in BOOLEAN /\ (pubHealthy' => ready'["pub"])
      <4>1. CASE pubHealthy' = FALSE
        BY <4>1
      <4>2. CASE pubHealthy' = pubHealthy
        BY <1>1, <3>1, <4>2 DEF HealthIsCurrent
      <4> QED BY <3>1, <4>1, <4>2
    <3> QED BY <3>2, <3>3 DEF HealthIsCurrent
  <2> QED BY <1>4, <2>1, <2>2, <2>3, UpdateContinues
<1> QED BY <1>2, <1>3, <1>4

LEMMA AcceptedContinues ==
  ASSUME MessengerInv, NEW k \in Kind, NEW c, NEW q, Outcome(k, c, q), ~c.lost, Accepted(c, q)
  PROVE  Continued
<1>1. /\ c \in Command /\ ready' = ready /\ desired' = desired /\ Queued(q, ready')
      /\ (c.op \in {"publish", "probe"}) = (k = "pub")
      /\ c.op = "publish" => c.by = "call"
      /\ c.op = "probe" => c.by = "recovery"
      /\ Current(c) => ready[k]
  BY DEF Outcome, Underway, Live, Current, socketVars
<1>2. /\ timer \in BOOLEAN /\ pubHealthy \in BOOLEAN /\ acked \subseteq Channels /\ pendingUnsub \subseteq Channels
      /\ recovery \in Recovery /\ desired \subseteq Channels /\ HealthIsCurrent
  BY DEF MessengerInv, StateTypes
<1>3. c.op \in {"subscribe", "unsubscribe"} => c.what \in Channels /\ k = "sub"
  BY <1>1 DEF Command, Kind
<1>4. CASE c.by # "recovery" /\ Quiet(q)
  BY <1>4, QuietContinues
<1>5. CASE c.op = "subscribe" /\ c.by = "call" /\ ~Quiet(q)
  <2>1. /\ Current(c) /\ acked' = acked \cup {c.what} /\ inflight' = q
        /\ UNCHANGED <<pendingUnsub, pubHealthy, recovery>> /\ UpdateStatus(timer)
    BY <1>5 DEF Accepted
  <2>2. HealthIsCurrent' /\ acked' \subseteq Channels
    BY <1>1, <1>2, <1>3, <1>5, <2>1 DEF HealthIsCurrent
  <2> QED BY <1>2, <1>5, <2>1, <2>2, UpdateContinues
<1>6. CASE c.op = "publish" /\ ~Quiet(q)
  <2>1. /\ Current(c) /\ pubHealthy' = TRUE /\ inflight' = q
        /\ UNCHANGED <<acked, pendingUnsub, recovery>> /\ UpdateStatus(timer)
    BY <1>6 DEF Accepted
  <2>2. HealthIsCurrent'
    BY <1>1, <1>2, <1>6, <2>1 DEF HealthIsCurrent
  <2> QED BY <1>1, <1>2, <1>6, <2>1, <2>2, UpdateContinues
<1>7. CASE c.op = "unsubscribe" /\ c.by = "recovery"
  <2>1. UNCHANGED pubHealthy /\ UnsubscribeNext(q, recovery.todo, pendingUnsub \ {c.what}, timer)
    BY <1>7 DEF Accepted
  <2>2. Turn /\ NoneAwaited(q)
    BY <1>2, <1>7, <2>1, TurnOfOutcome DEF Outcome
  <2>3. recovery.todo \in SUBSET Channels /\ pendingUnsub \ {c.what} \in SUBSET Channels
    BY <1>2 DEF Recovery
  <2>4. RecoveryInv' /\ pendingUnsub' \subseteq Channels /\ acked' = acked
    BY <1>1, <1>2, <2>1, <2>2, <2>3, UnsubscribesNext
  <2> QED BY <1>1, <1>2, <2>1, <2>4 DEF Continued, HealthIsCurrent
<1>8. CASE c.op = "subscribe" /\ c.by = "recovery"
  <2>1. /\ acked' = IF Current(c) THEN acked \cup {c.what} ELSE acked
        /\ UNCHANGED <<pendingUnsub, pubHealthy>> /\ SubscribeNext(q, recovery.seen, timer)
    BY <1>8 DEF Accepted
  <2>2. Turn /\ NoneAwaited(q)
    BY <1>2, <1>8, <2>1, TurnOfOutcome DEF Outcome
  <2>3. recovery.seen \in SUBSET Channels
    BY <1>2 DEF Recovery
  <2>4. RecoveryInv'
    BY <1>1, <1>2, <2>1, <2>2, <2>3, SubscribesNext
  <2>5. HealthIsCurrent' /\ acked' \subseteq Channels
    BY <1>1, <1>2, <1>3, <1>8, <2>1 DEF HealthIsCurrent
  <2> QED BY <1>2, <2>1, <2>4, <2>5 DEF Continued
<1>9. CASE c.op = "probe"
  <2>1. pubHealthy' = (pubHealthy \/ Current(c)) /\ inflight' = q /\ UNCHANGED <<acked, pendingUnsub>> /\ Settle(timer)
    BY <1>9 DEF Accepted
  <2>2. Turn /\ NoneAwaited(q)
    BY <1>1, <1>2, <1>9, <2>1, TurnOfOutcome DEF Outcome
  <2>3. RecoveryInv'
    BY <1>1, <1>2, <2>1, <2>2, Settles
  <2>4. HealthIsCurrent' /\ pubHealthy' \in BOOLEAN
    BY <1>1, <1>2, <1>9, <2>1 DEF HealthIsCurrent
  <2> QED BY <1>2, <2>1, <2>3, <2>4 DEF Continued
<1> QED BY <1>1, <1>4, <1>5, <1>6, <1>7, <1>8, <1>9 DEF Accepted

LEMMA AnswerKeeps == ASSUME MessengerInv, NEW k \in Kind, Answer(k) PROVE MessengerInv'
<1>1. /\ UNCHANGED <<socketVars, desired, destroyed, denied, calls, faults>>
      /\ inflight[k] # <<>> /\ ~Head(inflight[k]).lost
      /\ Rest /\ Queued(inflight, ready) /\ Locks(inflight, recovering) /\ recovering \in BOOLEAN
  BY Parts DEF Answer, RecoveryInv, recovering
<1>2. PICK c : c = Head(inflight[k])
  OBVIOUS
<1>3. PICK q : q = [inflight EXCEPT ![k] = Tail(@)]
  OBVIOUS
<1>4. /\ \/ Rejected(c, q) /\ UNCHANGED subscribed
         \/ Accepted(c, q) /\ subscribed' \in {subscribed \cup {c.what}, subscribed \ {c.what}, subscribed}
      /\ c.op = "subscribe" \/ subscribed' \subseteq subscribed
  BY <1>2, <1>3 DEF Answer
<1>5. inflight[k] \in Seq(Underway(k, ready[k]))
  BY <1>1 DEF Queued
<1>6. 1 \in 1..Len(inflight[k]) /\ c = inflight[k][1] /\ q = [inflight EXCEPT ![k] = RemoveAt(@, 1)]
  BY <1>1, <1>2, <1>3, <1>5, TailRemoves
<1>7. /\ c \in Underway(k, ready[k]) /\ Queued(q, ready)
      /\ c.by = "recovery" => NoneAwaited(q)
      /\ c.by # "recovery" => Locks(q, recovering)
  BY <1>1, <1>6, Taken, ZenonT(40)
<1>8. Outcome(k, c, q)
  BY <1>1, <1>7 DEF Outcome, socketVars
<1>9. Continued
  BY <1>1, <1>2, <1>4, <1>8, AcceptedContinues, RejectedContinues
<1>10. subscribed' \subseteq Channels
  <2>1. c.op = "subscribe" => c.what \in Channels
    BY <1>7 DEF Underway, Command
  <2> QED BY <1>1, <1>4, <2>1 DEF Rest
<1>11. Rest'
  BY <1>1, <1>9, <1>10 DEF Rest, Continued, LinkInv, socketVars
<1> QED BY <1>9, <1>11 DEF Continued, MessengerInv, StateTypes, Rest, RecoveryInv

LEMMA FlushKeeps == ASSUME MessengerInv, NEW k \in Kind, Flush(k) PROVE MessengerInv'
<1>1. Rest /\ Queued(inflight, ready) /\ Locks(inflight, recovering) /\ recovering \in BOOLEAN
  BY Parts DEF RecoveryInv, recovering
<1>2. PICK i \in DOMAIN inflight[k] :
        /\ UNCHANGED <<socketVars, redisVars, desired, destroyed, calls, faults>>
        /\ Rejected(inflight[k][i], [inflight EXCEPT ![k] = RemoveAt(@, i)])
  BY DEF Flush
<1>3. PICK c : c = inflight[k][i]
  OBVIOUS
<1>4. PICK q : q = [inflight EXCEPT ![k] = RemoveAt(@, i)]
  OBVIOUS
<1>5. i \in 1..Len(inflight[k])
  BY <1>1 DEF Queued
<1>6. /\ c \in Underway(k, ready[k]) /\ Queued(q, ready)
      /\ c.by = "recovery" => NoneAwaited(q)
      /\ c.by # "recovery" => Locks(q, recovering)
  BY <1>1, <1>3, <1>4, <1>5, Taken, ZenonT(40)
<1>7. Outcome(k, c, q)
  BY <1>2, <1>6 DEF Outcome, socketVars
<1>8. Continued
  BY <1>2, <1>3, <1>4, <1>7, RejectedContinues
<1>9. Rest'
  BY <1>1, <1>2, <1>8 DEF Rest, Continued, LinkInv, socketVars, redisVars
<1> QED BY <1>8, <1>9 DEF Continued, MessengerInv, StateTypes, Rest, RecoveryInv

LEMMA TimeoutKeeps == ASSUME MessengerInv, NEW k \in Kind, Timeout(k) PROVE MessengerInv'
<1>1. /\ link' = [link EXCEPT ![k] = "closing"] /\ ready' = [ready EXCEPT ![k] = FALSE]
      /\ acked' = (IF k = "sub" THEN {} ELSE acked)
      /\ pubHealthy' = (pubHealthy /\ k # "pub")
      /\ UNCHANGED <<redisVars, desired, pendingUnsub, destroyed, calls>> /\ Fault /\ UpdateStatus(timer)
      /\ inflight[k] # <<>>
      /\ Rest /\ RecoveryInv /\ recovering \in BOOLEAN
  BY Parts DEF Timeout, recovering
<1>2. PICK q : q = [inflight EXCEPT ![k] = Tail(@)]
  OBVIOUS
<1>3. PICK c : c = Head(inflight[k])
  OBVIOUS
<1>4. /\ inflight' = [q EXCEPT ![k] = Outdated(@)]
      /\ recovery' = (IF c.by = "recovery" THEN Resting ELSE recovery)
      /\ inflight[k] \in Seq(Underway(k, ready[k]))
  BY <1>1, <1>2, <1>3 DEF Timeout, RecoveryInv, Queued
<1>5. 1 \in 1..Len(inflight[k]) /\ c = inflight[k][1] /\ q = [inflight EXCEPT ![k] = RemoveAt(@, 1)]
  BY <1>1, <1>2, <1>3, <1>4, TailRemoves
<1>6. /\ Queued(q, ready)
      /\ c.by = "recovery" => NoneAwaited(q)
      /\ c.by # "recovery" => Locks(q, recovering)
  BY <1>1, <1>5, Taken, ZenonT(40) DEF RecoveryInv
<1>7. Locks(q, recovering') /\ recovery' \in Recovery /\ recovering' \in BOOLEAN
  BY <1>1, <1>4, <1>6 DEF Locks, recovering, Recovery, Resting, RecoveryInv
<1>8. Queued(inflight', ready') /\ \A m \in Kind : Awaited(inflight'[m]) = Awaited(q[m])
  <2>1. PICK cs : cs = [i \in DOMAIN q[k] |-> IF TRUE THEN [q[k][i] EXCEPT !.stale = TRUE]
                                              ELSE [q[k][i] EXCEPT !.lost = TRUE]]
    OBVIOUS
  <2>2. cs \in Seq(Underway(k, FALSE)) /\ Awaited(cs) = Awaited(q[k])
    BY <1>6, <2>1, Marking
  <2>3. inflight' = [m \in Kind |-> inflight'[m]] /\ inflight'[k] = cs
    BY <1>4, <1>6, <2>1 DEF Outdated, Queued
  <2>4. \A m \in Kind \ {k} : inflight'[m] = q[m] /\ ready'[m] = ready[m]
    BY <1>1, <1>4, <1>6 DEF Rest, Queued
  <2>5. cs \in Seq(Underway(k, ready'[k]))
    BY <2>2, Remain
  <2> QED BY <1>6, <2>2, <2>3, <2>4, <2>5 DEF Queued
<1>9. Locks(inflight', recovering')
  BY <1>7, <1>8, SameClaims
<1>10. Rest'
  <2>1. link' \in [Kind -> Link] /\ ready' \in [Kind -> BOOLEAN] /\ LinkInv'
    BY <1>1 DEF Rest, Link, LinkInv
  <2>2. acked' \subseteq Channels /\ pubHealthy' \in BOOLEAN /\ HealthIsCurrent'
    BY <1>1 DEF Rest, HealthIsCurrent, Kind
  <2>3. faults' \in 0..MaxFaults
    BY <1>1, MessengerAssumption DEF Rest, Fault
  <2> QED BY <1>1, <2>1, <2>2, <2>3 DEF Rest, redisVars
<1>11. status' \in BOOLEAN /\ timer' \in BOOLEAN /\ NoLostRecovery'
  <2>1. Turn
    BY <1>1, <1>10 DEF Turn, Rest, RecoveryInv
  <2> QED BY <1>1, <2>1, StatusFinds DEF RecoveryInv
<1> QED BY <1>7, <1>8, <1>9, <1>10, <1>11, Together

LEMMA SocketLostKeeps == ASSUME MessengerInv, NEW k \in Kind, SocketLost(k) PROVE MessengerInv'
<1>1. /\ link' = [link EXCEPT ![k] = "closed"]
      /\ inflight' = [inflight EXCEPT ![k] = [i \in DOMAIN @ |-> [@[i] EXCEPT !.lost = TRUE]]]
      /\ subscribed' = (IF k = "sub" THEN {} ELSE subscribed)
      /\ UNCHANGED <<ready, desired, acked, pendingUnsub, pubHealthy, status, recovery, timer,
                     destroyed, denied, calls>>
      /\ UNCHANGED faults \/ Fault
      /\ Rest /\ RecoveryInv /\ recovering \in BOOLEAN
  BY Parts DEF SocketLost, recovering
<1>2. Queued(inflight', ready') /\ \A m \in Kind : Awaited(inflight'[m]) = Awaited(inflight[m])
  <2>1. PICK cs : cs = [i \in DOMAIN inflight[k] |-> IF FALSE THEN [inflight[k][i] EXCEPT !.stale = TRUE]
                                              ELSE [inflight[k][i] EXCEPT !.lost = TRUE]]
    OBVIOUS
  <2>2. Queued(inflight, ready)
    BY <1>1 DEF RecoveryInv
  <2>3. cs \in Seq(Underway(k, FALSE)) /\ Awaited(cs) = Awaited(inflight[k])
    BY <2>1, <2>2, Marking
  <2>4. inflight' = [m \in Kind |-> inflight'[m]] /\ inflight'[k] = cs
    BY <1>1, <2>1, <2>2 DEF Queued
  <2>5. \A m \in Kind \ {k} : inflight'[m] = inflight[m]
    BY <1>1, <2>2 DEF Queued
  <2>6. cs \in Seq(Underway(k, ready'[k]))
    BY <2>3, Remain
  <2> QED BY <1>1, <2>2, <2>3, <2>4, <2>5, <2>6 DEF Queued
<1>3. recovering' = recovering /\ NoLostRecovery'
  BY <1>1 DEF RecoveryInv, recovering, NoLostRecovery, NeedsWork, SubscriberHealthy, PublisherHealthy
<1>4. Locks(inflight', recovering')
  BY <1>1, <1>2, <1>3, SameClaims DEF RecoveryInv
<1>5. Rest'
  <2>1. link' \in [Kind -> Link] /\ LinkInv'
    BY <1>1 DEF Rest, Link, LinkInv
  <2>2. faults' \in 0..MaxFaults
    BY <1>1, MessengerAssumption DEF Rest, Fault
  <2> QED BY <1>1, <2>1, <2>2 DEF Rest, HealthIsCurrent
<1> QED BY <1>1, <1>2, <1>3, <1>4, <1>5, Together DEF RecoveryInv

LEMMA OnDownKeeps == ASSUME MessengerInv, NEW k \in Kind, OnDown(k) PROVE MessengerInv'
<1>1. /\ link' = [link EXCEPT ![k] = "down"]
      /\ UNCHANGED <<redisVars, desired, pendingUnsub, recovery, destroyed, calls, faults>> /\ UpdateStatus(timer)
      /\ Rest /\ RecoveryInv /\ recovering \in BOOLEAN
  BY Parts DEF OnDown, recovering
<1>2. /\ ready' \in [Kind -> BOOLEAN] /\ ready'[k] = FALSE /\ \A m \in Kind \ {k} : ready'[m] = ready[m]
      /\ acked' \subseteq Channels /\ pubHealthy' \in BOOLEAN
      /\ HealthIsCurrent'
  <2>1. CASE ready[k]
    <3>1. /\ ready' = [ready EXCEPT ![k] = FALSE] /\ acked' = (IF k = "sub" THEN {} ELSE acked)
          /\ pubHealthy' = (pubHealthy /\ k # "pub")
      BY <2>1 DEF OnDown, Acknowledged
    <3> QED BY <1>1, <3>1 DEF Rest, HealthIsCurrent, Kind
  <2>2. CASE ~ready[k]
    BY <1>1, <2>2 DEF OnDown, Rest, HealthIsCurrent
  <2> QED BY <2>1, <2>2
<1>3. Rest'
  <2>1. link' \in [Kind -> Link] /\ LinkInv'
    BY <1>1, <1>2 DEF Rest, Link, LinkInv
  <2> QED BY <1>1, <1>2, <2>1 DEF Rest, redisVars
<1>4. Queued(inflight', ready') /\ \A m \in Kind : Awaited(inflight'[m]) = Awaited(inflight[m])
  <2>1. Queued(inflight, ready)
    BY <1>1 DEF RecoveryInv
  <2>2. CASE ready[k]
    <3>1. PICK cs : cs = [i \in DOMAIN inflight[k] |-> IF TRUE THEN [inflight[k][i] EXCEPT !.stale = TRUE]
                                                ELSE [inflight[k][i] EXCEPT !.lost = TRUE]]
      OBVIOUS
    <3>2. cs \in Seq(Underway(k, FALSE)) /\ Awaited(cs) = Awaited(inflight[k])
      BY <2>1, <3>1, Marking
    <3>3. inflight' = [inflight EXCEPT ![k] = Outdated(@)]
      BY <2>2 DEF OnDown
    <3>4. inflight' = [m \in Kind |-> inflight'[m]] /\ inflight'[k] = cs
      BY <2>1, <3>1, <3>3 DEF Outdated, Queued
    <3>5. \A m \in Kind \ {k} : inflight'[m] = inflight[m]
      BY <2>1, <3>3 DEF Queued
    <3>6. cs \in Seq(Underway(k, ready'[k]))
      BY <3>2, Remain
    <3> QED BY <1>2, <2>1, <3>2, <3>4, <3>5, <3>6 DEF Queued
  <2>3. CASE ~ready[k]
    <3>1. inflight' = inflight /\ ready' = ready
      BY <2>3 DEF OnDown
    <3> QED BY <2>1, <3>1
  <2> QED BY <2>2, <2>3
<1>5. recovering' = recovering /\ recovery' \in Recovery
  BY <1>1 DEF RecoveryInv, recovering
<1>6. Locks(inflight', recovering')
  BY <1>1, <1>4, <1>5, SameClaims DEF RecoveryInv
<1>7. status' \in BOOLEAN /\ timer' \in BOOLEAN /\ NoLostRecovery'
  <2>1. Turn
    BY <1>1, <1>3 DEF Turn, Rest, RecoveryInv
  <2> QED BY <1>1, <2>1, StatusFinds DEF RecoveryInv
<1> QED BY <1>3, <1>4, <1>5, <1>6, <1>7, Together

LEMMA StutterKeeps == ASSUME MessengerInv, UNCHANGED vars PROVE MessengerInv'
<1>1. /\ UNCHANGED <<link, ready, inflight, desired, acked, pendingUnsub, pubHealthy, status, recovery,
                     timer, destroyed, subscribed, denied, calls, faults>>
      /\ Rest /\ RecoveryInv
  BY Parts DEF vars
<1>2. Rest'
  BY <1>1 DEF Rest, LinkInv, HealthIsCurrent
<1>3. recovering' = recovering /\ NoLostRecovery'
  BY <1>1 DEF RecoveryInv, recovering, NoLostRecovery, NeedsWork, SubscriberHealthy, PublisherHealthy
<1> QED BY <1>1, <1>2, <1>3, Together DEF RecoveryInv

LEMMA StepKeeps == MessengerInv /\ [Next]_vars => MessengerInv'
<1>1. SUFFICES ASSUME MessengerInv, [Next]_vars PROVE MessengerInv'
  OBVIOUS
<1> QED BY <1>1, CallKeeps, PublishKeeps, DestroyKeeps, RecoveryTimerKeeps, AnswerKeeps, FlushKeeps, TimeoutKeeps,
           OnReadyKeeps, SocketLostKeeps, OnDownKeeps, StutterKeeps DEF Next

THEOREM MessengerInvariant == Spec => []MessengerInv
BY InitKeeps, StepKeeps, PTL DEF Spec

-----------------------------------------------------------------------------
\* Every variable keeps its type, and each connection holds only commands of its
\* own kind, whatever calls, faults and refusals occur.
THEOREM TypeCorrect == Spec => []TypeOK
<1>1. ASSUME MessengerInv PROVE TypeOK
  <2>1. Queued(inflight, ready) /\ StateTypes
    BY <1>1 DEF MessengerInv
  <2>2. ASSUME NEW k \in Kind
        PROVE  inflight[k] \in Seq({c \in Command : (c.op \in {"publish", "probe"}) = (k = "pub")})
    <3>1. Underway(k, ready[k]) \subseteq {c \in Command : (c.op \in {"publish", "probe"}) = (k = "pub")}
      BY DEF Underway
    <3> QED BY <2>1, <3>1, SeqMonotonic DEF Queued
  <2>3. DOMAIN inflight = Kind
    BY <2>1 DEF Queued
  <2> QED BY <2>1, <2>2, <2>3 DEF StateTypes, TypeOK
<1> QED BY <1>1, MessengerInvariant, PTL

\* No interleaving of calls, answers, drops, timeouts and the timer leaves a
\* connection waiting for a recovery that is not coming, lets two recoveries run or
\* the lock stick (attemptRecovery), or lets an earlier connection's answer count
\* (the generation checks).
THEOREM RecoveryProceeds == Spec => []RecoveryProtocol
<1>1. ASSUME MessengerInv PROVE RecoveryProtocol
  <2>1. Locks(inflight, recovering) /\ NoLostRecovery /\ HealthIsCurrent
    BY <1>1 DEF MessengerInv
  <2>2. RecoveryLock
    <3>1. recovering <=> \E k \in Kind : Awaited(inflight[k]) # {}
      BY <2>1 DEF Locks, OneAwaited, NoneAwaited
    <3>2. ASSUME NEW k \in Kind, NEW m \in Kind, NEW i \in Awaited(inflight[k]), NEW j \in Awaited(inflight[m])
          PROVE  k = m /\ i = j
      <4>1. OneAwaited(inflight)
        BY <2>1, <3>2 DEF Locks, NoneAwaited
      <4> QED BY <4>1 DEF OneAwaited
    <3> QED BY <3>1, <3>2 DEF RecoveryLock
  <2> QED BY <2>1, <2>2 DEF RecoveryProtocol
<1> QED BY <1>1, MessengerInvariant, PTL

-----------------------------------------------------------------------------
\* What an available status promises.

\* The subscriber's commands that Redis may still execute, about channel c.
Subscribing(q, c) == {i \in DOMAIN q : ~q[i].lost /\ q[i].op = "subscribe" /\ q[i].what = c}
Unsubscribing(q, c) == {i \in DOMAIN q : ~q[i].lost /\ q[i].op = "unsubscribe" /\ q[i].what = c}
Ending(q, c) == {i \in Unsubscribing(q, c) : q[i].by = "call"}

Followed(A, B) == \A i \in A : \E j \in B : j > i

\* A channel with a callback is subscribed last of all, and its acknowledgement is
\* a promise of Redis; one without is ended by a call's command, or is recorded in
\* pendingUnsub.
WantedChannel(c, q, ack, subs, no) ==
  /\ Followed(Unsubscribing(q, c), Subscribing(q, c))
  /\ c \in ack => c \notin no /\ (c \in subs \/ Subscribing(q, c) # {})
UnwantedChannel(c, q, pend, subs) ==
  /\ Followed(Subscribing(q, c), Ending(q, c))
  /\ c \in subs /\ Ending(q, c) = {} => c \in pend

\* What is known of the subscriber's connection l, its commands q and Redis's
\* subscriptions subs, given the fields desired, acked and pendingUnsub.
Lost(q) == \A i \in DOMAIN q : q[i].lost
Fresh(q) == \A i \in DOMAIN q : q[i].lost \/ ~q[i].stale
SubInv(l, q, des, ack, pend, subs, no) ==
  /\ l = "up" => /\ Fresh(q)
                 /\ \A c \in Channels : IF c \in des THEN WantedChannel(c, q, ack, subs, no)
                                                     ELSE UnwantedChannel(c, q, pend, subs)
  /\ l \in {"down", "closed"} => subs = {} /\ Lost(q)
Offline == link["sub"] = "down" => ~ready["sub"]

StatusTrue == status /\ ~destroyed => SubscriberHealthy /\ PublisherHealthy
DeliveryInv == /\ StatusTrue /\ Offline
               /\ SubInv(link["sub"], inflight["sub"], desired, acked, pendingUnsub, subscribed, denied)

\* Another command, that is under way or lost at once.
LEMMA Appended ==
  ASSUME NEW S, NEW q \in Seq(S), NEW d \in S, NEW r, r = Append(q, d), NEW n, n = Len(q) + 1
  PROVE  /\ DOMAIN r = DOMAIN q \cup {n} /\ r[n] = d
         /\ \A i \in DOMAIN q : i \in Nat /\ n > i /\ r[i] = q[i]
<1>1. Len(q) \in Nat /\ DOMAIN q = 1..Len(q)
  OBVIOUS
<1>2. /\ Len(r) = Len(q) + 1 /\ r \in Seq(S) /\ r[Len(q) + 1] = d
      /\ \A i \in 1..Len(q) : r[i] = q[i]
  BY AppendProperties
<1> QED BY <1>1, <1>2

Adds(q, d, r, n) ==
  /\ \A c : /\ Subscribing(q, c) \subseteq Subscribing(r, c)
            /\ \A i \in Subscribing(r, c) : \/ i \in Subscribing(q, c)
                                            \/ i = n /\ ~d.lost /\ d.op = "subscribe" /\ d.what = c
            /\ ~d.lost /\ d.op = "subscribe" /\ d.what = c => n \in Subscribing(r, c)
            /\ \A i \in Unsubscribing(r, c) : \/ i \in Unsubscribing(q, c)
                                              \/ i = n /\ ~d.lost /\ d.op = "unsubscribe" /\ d.what = c
            /\ Ending(q, c) \subseteq Ending(r, c)
            /\ ~d.lost /\ d.op = "unsubscribe" /\ d.what = c /\ d.by = "call" => n \in Ending(r, c)
            /\ \A i \in Subscribing(q, c) : n > i
            /\ \A i \in Unsubscribing(q, c) : n > i
  /\ Lost(q) /\ d.lost => Lost(r)
  /\ Fresh(q) /\ (d.lost \/ ~d.stale) => Fresh(r)

LEMMA AppendedClaims ==
  ASSUME NEW S, NEW q \in Seq(S), NEW d \in S
  PROVE  \E r, n : r = Append(q, d) /\ Adds(q, d, r, n)
<1>1. PICK r : r = Append(q, d)
  OBVIOUS
<1>2. PICK n : n = Len(q) + 1
  OBVIOUS
<1>3. /\ DOMAIN r = DOMAIN q \cup {n} /\ r[n] = d
      /\ \A i \in DOMAIN q : i \in Nat /\ n > i /\ r[i] = q[i]
  BY <1>1, <1>2, Appended
<1>4. Adds(q, d, r, n)
  BY <1>3 DEF Adds, Subscribing, Unsubscribing, Ending, Lost, Fresh
<1> QED BY <1>1, <1>4

\* A command of recovery suits the channels' wishes when it is sent.
LEMMA RecoverySends ==
  ASSUME NEW l, NEW S, NEW q \in Seq(S), NEW d \in S, d.lost = (l # "up"), ~d.stale,
         NEW des, NEW ack, NEW pend, NEW subs, NEW no, SubInv(l, q, des, ack, pend, subs, no),
         \/ d.op = "subscribe" /\ d.what \in des
         \/ d.op = "unsubscribe" /\ d.what \notin des
  PROVE  SubInv(l, Append(q, d), des, ack, pend, subs, no)
<1>1. PICK r, n : r = Append(q, d) /\ Adds(q, d, r, n)
  BY AppendedClaims
<1>2. /\ Lost(q) /\ d.lost => Lost(r)
      /\ Fresh(q) /\ (d.lost \/ ~d.stale) => Fresh(r)
  BY <1>1 DEF Adds
<1>3. ASSUME l = "up", NEW c \in Channels, c \in des, WantedChannel(c, q, ack, subs, no)
      PROVE  WantedChannel(c, r, ack, subs, no)
  <2>1. /\ Subscribing(q, c) \subseteq Subscribing(r, c)
        /\ \A i \in Unsubscribing(r, c) : i \in Unsubscribing(q, c)
    BY <1>1, <1>3 DEF Adds
  <2> QED BY <1>3, <2>1 DEF WantedChannel, Followed
<1>4. ASSUME l = "up", NEW c \in Channels, c \notin des, UnwantedChannel(c, q, pend, subs)
      PROVE  UnwantedChannel(c, r, pend, subs)
  <2>1. /\ \A i \in Subscribing(r, c) : i \in Subscribing(q, c)
        /\ Ending(q, c) \subseteq Ending(r, c)
    BY <1>1, <1>4 DEF Adds
  <2> QED BY <1>4, <2>1 DEF UnwantedChannel, Followed
<1>5. SubInv(l, r, des, ack, pend, subs, no)
  BY <1>2, <1>3, <1>4 DEF SubInv
<1> QED BY <1>1, <1>5

\* subscribe(c) and unsubscribe(c), when they send a command.
LEMMA SubscribeSends ==
  ASSUME NEW l, NEW S, NEW q \in Seq(S), NEW d \in S, d.lost = (l # "up"), ~d.stale,
         NEW des, NEW ack, NEW pend, NEW subs, NEW no, SubInv(l, q, des, ack, pend, subs, no),
         NEW c \in Channels, d.op = "subscribe", d.what = c
  PROVE  SubInv(l, Append(q, d), des \cup {c}, ack \ {c}, pend \ {c}, subs, no)
<1>1. PICK r, n : r = Append(q, d) /\ Adds(q, d, r, n)
  BY AppendedClaims
<1>2. /\ Lost(q) /\ d.lost => Lost(r)
      /\ Fresh(q) /\ (d.lost \/ ~d.stale) => Fresh(r)
  BY <1>1 DEF Adds
<1>3. ASSUME l = "up" PROVE WantedChannel(c, r, ack \ {c}, subs, no)
  <2>1. n \in Subscribing(r, c) /\ \A i \in Unsubscribing(r, c) : i \in Unsubscribing(q, c) /\ n > i
    BY <1>1, <1>3 DEF Adds
  <2> QED BY <2>1 DEF WantedChannel, Followed
<1>4. ASSUME NEW e \in Channels, e # c, l = "up"
      PROVE  /\ WantedChannel(e, q, ack, subs, no) => WantedChannel(e, r, ack \ {c}, subs, no)
             /\ UnwantedChannel(e, q, pend, subs) => UnwantedChannel(e, r, pend \ {c}, subs)
  <2>1. /\ Subscribing(q, e) \subseteq Subscribing(r, e) /\ Ending(q, e) \subseteq Ending(r, e)
        /\ \A i \in Subscribing(r, e) : i \in Subscribing(q, e)
        /\ \A i \in Unsubscribing(r, e) : i \in Unsubscribing(q, e)
    BY <1>1, <1>4 DEF Adds
  <2> QED BY <1>4, <2>1 DEF WantedChannel, UnwantedChannel, Followed
<1>5. SubInv(l, r, des \cup {c}, ack \ {c}, pend \ {c}, subs, no)
  BY <1>2, <1>3, <1>4 DEF SubInv
<1> QED BY <1>1, <1>5

LEMMA UnsubscribeSends ==
  ASSUME NEW l, NEW S, NEW q \in Seq(S), NEW d \in S, d.lost = (l # "up"), ~d.stale,
         NEW des, NEW ack, NEW pend, NEW subs, NEW no, SubInv(l, q, des, ack, pend, subs, no),
         NEW c \in Channels, d.op = "unsubscribe", d.what = c, d.by = "call"
  PROVE  SubInv(l, Append(q, d), des \ {c}, ack \ {c}, pend, subs, no)
<1>1. PICK r, n : r = Append(q, d) /\ Adds(q, d, r, n)
  BY AppendedClaims
<1>2. /\ Lost(q) /\ d.lost => Lost(r)
      /\ Fresh(q) /\ (d.lost \/ ~d.stale) => Fresh(r)
  BY <1>1 DEF Adds
<1>3. ASSUME l = "up" PROVE UnwantedChannel(c, r, pend, subs)
  <2>1. n \in Ending(r, c) /\ \A i \in Subscribing(r, c) : i \in Subscribing(q, c) /\ n > i
    BY <1>1, <1>3 DEF Adds
  <2> QED BY <2>1 DEF UnwantedChannel, Followed
<1>4. ASSUME NEW e \in Channels, e # c, l = "up"
      PROVE  /\ WantedChannel(e, q, ack, subs, no) => WantedChannel(e, r, ack \ {c}, subs, no)
             /\ UnwantedChannel(e, q, pend, subs) => UnwantedChannel(e, r, pend, subs)
  <2>1. /\ Subscribing(q, e) \subseteq Subscribing(r, e) /\ Ending(q, e) \subseteq Ending(r, e)
        /\ \A i \in Subscribing(r, e) : i \in Subscribing(q, e)
        /\ \A i \in Unsubscribing(r, e) : i \in Unsubscribing(q, e)
    BY <1>1, <1>4 DEF Adds
  <2> QED BY <1>4, <2>1 DEF WantedChannel, UnwantedChannel, Followed
<1>5. SubInv(l, r, des \ {c}, ack \ {c}, pend, subs, no)
  BY <1>2, <1>3, <1>4 DEF SubInv
<1> QED BY <1>1, <1>5

\* One command less: it was lost, or is the oldest one and has been answered.
Removes(q, r, j) ==
  /\ \A c : /\ Followed(Subscribing(q, c), Ending(q, c)) => Followed(Subscribing(r, c), Ending(r, c))
            /\ Followed(Unsubscribing(q, c), Subscribing(q, c)) => Followed(Unsubscribing(r, c), Subscribing(r, c))
            /\ Subscribing(r, c) = {} => Subscribing(q, c) \subseteq {j}
            /\ Ending(r, c) = {} => Ending(q, c) \subseteq {j}
  /\ Lost(q) => Lost(r)
  /\ Fresh(q) => Fresh(r)

LEMMA RemovedClaims ==
  ASSUME NEW S, NEW q \in Seq(S), NEW j \in 1..Len(q), q[j].lost \/ j = 1
  PROVE  \E r : r = RemoveAt(q, j) /\ Removes(q, r, j)
<1> DEFINE up(i) == IF i < j THEN i ELSE i + 1
           down(i) == IF i < j THEN i ELSE i - 1
<1>1. PICK r : r = RemoveAt(q, j)
  OBVIOUS
<1>2. /\ Len(r) = Len(q) - 1 /\ r \in Seq(S) /\ Len(q) \in Nat
      /\ \A i \in 1..(Len(q) - 1) : r[i] = IF i < j THEN q[i] ELSE q[i + 1]
  <2>1. Len(q) \in Nat
    OBVIOUS
  <2>2. /\ RemoveAt(q, j) \in Seq(S) /\ Len(RemoveAt(q, j)) = Len(q) - 1
        /\ \A i \in 1..(Len(q) - 1) : RemoveAt(q, j)[i] = IF i < j THEN q[i] ELSE q[i + 1]
    BY Removal
  <2> QED BY <1>1, <2>1, <2>2
<1>3. DOMAIN r = 1..(Len(q) - 1) /\ DOMAIN q = 1..Len(q)
  BY <1>2
<1>4. \A i \in DOMAIN r : up(i) \in DOMAIN q /\ up(i) \in Nat /\ r[i] = q[up(i)] /\ (j = 1 => up(i) > j)
  BY <1>2, <1>3
<1>5. \A i \in DOMAIN q \ {j} : down(i) \in DOMAIN r /\ r[down(i)] = q[i]
  <2>1. SUFFICES ASSUME NEW i \in DOMAIN q, i # j PROVE down(i) \in DOMAIN r /\ r[down(i)] = q[i]
    OBVIOUS
  <2>2. CASE i < j
    BY <1>2, <1>3, <2>1, <2>2
  <2>3. CASE i > j
    <3>1. i - 1 \in 1..(Len(q) - 1) /\ ~(i - 1 < j) /\ (i - 1) + 1 = i /\ ~(i < j)
      BY <1>3, <2>1, <2>3
    <3> QED BY <1>2, <1>3, <3>1
  <2> QED BY <1>3, <2>1, <2>2, <2>3
<1>6. \A i \in DOMAIN r : \A k \in DOMAIN q \ {j} : k > up(i) => down(k) > i
  BY <1>2, <1>3
<1> HIDE DEF up, down
<1>7. ASSUME NEW c
      PROVE  /\ \A i \in Subscribing(r, c) : up(i) \in Subscribing(q, c)
             /\ \A i \in Unsubscribing(r, c) : up(i) \in Unsubscribing(q, c)
             /\ \A i \in Subscribing(q, c) \ {j} : down(i) \in Subscribing(r, c)
             /\ \A i \in Ending(q, c) \ {j} : down(i) \in Ending(r, c)
  BY <1>4, <1>5 DEF Subscribing, Unsubscribing, Ending
<1>8. ASSUME NEW c, NEW i \in DOMAIN r, NEW k \in Subscribing(q, c) \cup Ending(q, c), k > up(i) PROVE k # j
  <2>1. k \in DOMAIN q /\ ~q[k].lost
    BY DEF Subscribing, Unsubscribing, Ending
  <2>2. CASE q[j].lost
    BY <2>1, <2>2
  <2>3. CASE j = 1
    BY <1>3, <1>4, <1>8, <2>1, <2>3
  <2> QED BY <2>2, <2>3
<1>9. ASSUME NEW c
      PROVE  /\ Followed(Subscribing(q, c), Ending(q, c)) => Followed(Subscribing(r, c), Ending(r, c))
             /\ Followed(Unsubscribing(q, c), Subscribing(q, c)) => Followed(Unsubscribing(r, c), Subscribing(r, c))
  <2>1. ASSUME Followed(Subscribing(q, c), Ending(q, c)), NEW i \in Subscribing(r, c)
        PROVE  \E k \in Ending(r, c) : k > i
    <3>1. i \in DOMAIN r
      BY DEF Subscribing
    <3>2. PICK k \in Ending(q, c) : k > up(i)
      BY <1>7, <2>1 DEF Followed
    <3>3. k # j /\ k \in DOMAIN q
      BY <1>8, <3>1, <3>2 DEF Ending, Unsubscribing
    <3>4. down(k) \in Ending(r, c) /\ down(k) > i
      BY <1>6, <1>7, <3>1, <3>2, <3>3
    <3> QED BY <3>4
  <2>2. ASSUME Followed(Unsubscribing(q, c), Subscribing(q, c)), NEW i \in Unsubscribing(r, c)
        PROVE  \E k \in Subscribing(r, c) : k > i
    <3>1. i \in DOMAIN r
      BY DEF Unsubscribing
    <3>2. PICK k \in Subscribing(q, c) : k > up(i)
      BY <1>7, <2>2 DEF Followed
    <3>3. k # j /\ k \in DOMAIN q
      BY <1>8, <3>1, <3>2 DEF Subscribing
    <3>4. down(k) \in Subscribing(r, c) /\ down(k) > i
      BY <1>6, <1>7, <3>1, <3>2, <3>3
    <3> QED BY <3>4
  <2> QED BY <2>1, <2>2 DEF Followed
<1>10. (Lost(q) => Lost(r)) /\ (Fresh(q) => Fresh(r))
  BY <1>4 DEF Lost, Fresh
<1>11. Removes(q, r, j)
  BY <1>7, <1>9, <1>10 DEF Removes
<1> QED BY <1>1, <1>11

LEMMA Drops ==
  ASSUME NEW l, NEW S, NEW q \in Seq(S), NEW j \in 1..Len(q), q[j].lost,
         NEW des, NEW ack, NEW pend, NEW subs, NEW no, SubInv(l, q, des, ack, pend, subs, no),
         NEW pend2, pend \subseteq pend2
  PROVE  SubInv(l, RemoveAt(q, j), des, ack, pend2, subs, no)
<1>1. PICK r : r = RemoveAt(q, j) /\ Removes(q, r, j)
  BY RemovedClaims
<1>2. ASSUME NEW c
      PROVE  /\ WantedChannel(c, q, ack, subs, no) => WantedChannel(c, r, ack, subs, no)
             /\ UnwantedChannel(c, q, pend, subs) => UnwantedChannel(c, r, pend2, subs)
  <2>1. j \notin Subscribing(q, c) /\ j \notin Ending(q, c)
    BY DEF Subscribing, Unsubscribing, Ending
  <2> QED BY <1>1, <2>1 DEF Removes, WantedChannel, UnwantedChannel
<1>3. SubInv(l, r, des, ack, pend2, subs, no)
  BY <1>1, <1>2 DEF SubInv, Removes
<1> QED BY <1>1, <1>3

\* The oldest command, under way until now, is answered.
LEMMA Answered ==
  ASSUME NEW l, NEW S, NEW q \in Seq(S), 1 \in 1..Len(q), ~q[1].lost,
         NEW des, NEW ack, NEW pend, NEW subs, NEW no, SubInv(l, q, des, ack, pend, subs, no)
  PROVE  /\ q[1].op = "subscribe" /\ q[1].what \notin no =>
              \A ack2 \in SUBSET (ack \cup {q[1].what}) :
                 SubInv(l, RemoveAt(q, 1), des, ack2, pend, subs \cup {q[1].what}, no)
         /\ q[1].op = "subscribe" /\ q[1].what \in no => SubInv(l, RemoveAt(q, 1), des, ack, pend, subs, no)
         /\ q[1].op = "unsubscribe" =>
              SubInv(l, RemoveAt(q, 1), des, ack, pend \ {q[1].what}, subs \ {q[1].what}, no)
         /\ q[1].op = "unsubscribe" =>
              \A pend2 : /\ pend \subseteq pend2
                         /\ l = "up" /\ q[1].by = "call" => q[1].what \in pend2
                         => SubInv(l, RemoveAt(q, 1), des, ack, pend2, subs, no)
<1>1. PICK r : r = RemoveAt(q, 1) /\ Removes(q, r, 1)
  BY RemovedClaims
<1>2. PICK w : w = q[1].what
  OBVIOUS
<1>3. /\ \A c : 1 \in Subscribing(q, c) <=> q[1].op = "subscribe" /\ w = c
      /\ \A c : 1 \in Unsubscribing(q, c) <=> q[1].op = "unsubscribe" /\ w = c
      /\ \A c : 1 \in Ending(q, c) <=> q[1].op = "unsubscribe" /\ w = c /\ q[1].by = "call"
  BY <1>2 DEF Subscribing, Unsubscribing, Ending
<1>4. ASSUME NEW c, 1 \in Subscribing(q, c), Followed(Subscribing(q, c), Ending(q, c))
      PROVE  Ending(r, c) # {}
  <2>1. PICK k \in Ending(q, c) : k > 1
    BY <1>4 DEF Followed
  <2>2. k # 1
    BY <2>1
  <2> QED BY <1>1, <2>1, <2>2 DEF Removes
<1>5. ASSUME NEW c, 1 \in Unsubscribing(q, c), Followed(Unsubscribing(q, c), Subscribing(q, c))
      PROVE  Subscribing(r, c) # {}
  <2>1. PICK k \in Subscribing(q, c) : k > 1
    BY <1>5 DEF Followed
  <2>2. k # 1
    BY <2>1
  <2> QED BY <1>1, <2>1, <2>2 DEF Removes
<1>6. ~Lost(q) /\ (Fresh(q) => Fresh(r))
  BY <1>1 DEF Lost, Removes
<1>7. ASSUME q[1].op = "subscribe", w \notin no, NEW ack2 \in SUBSET (ack \cup {w}), NEW c
      PROVE  /\ WantedChannel(c, q, ack, subs, no) => WantedChannel(c, r, ack2, subs \cup {w}, no)
             /\ UnwantedChannel(c, q, pend, subs) => UnwantedChannel(c, r, pend, subs \cup {w})
  BY <1>1, <1>3, <1>4, <1>7 DEF WantedChannel, UnwantedChannel, Removes
<1>8. ASSUME q[1].op = "subscribe", w \in no, NEW c
      PROVE  /\ WantedChannel(c, q, ack, subs, no) => WantedChannel(c, r, ack, subs, no)
             /\ UnwantedChannel(c, q, pend, subs) => UnwantedChannel(c, r, pend, subs)
  BY <1>1, <1>3, <1>4, <1>8 DEF WantedChannel, UnwantedChannel, Removes
<1>9. ASSUME q[1].op = "unsubscribe", NEW c
      PROVE  /\ WantedChannel(c, q, ack, subs, no) => WantedChannel(c, r, ack, subs \ {w}, no)
             /\ UnwantedChannel(c, q, pend, subs) => UnwantedChannel(c, r, pend \ {w}, subs \ {w})
  BY <1>1, <1>3, <1>5, <1>9 DEF WantedChannel, UnwantedChannel, Removes
<1>10. ASSUME q[1].op = "unsubscribe", NEW pend2, pend \subseteq pend2, q[1].by = "call" => w \in pend2, NEW c
      PROVE  /\ WantedChannel(c, q, ack, subs, no) => WantedChannel(c, r, ack, subs, no)
             /\ UnwantedChannel(c, q, pend, subs) => UnwantedChannel(c, r, pend2, subs)
  BY <1>1, <1>3, <1>5, <1>10 DEF WantedChannel, UnwantedChannel, Removes
<1>11. ASSUME q[1].op = "subscribe", w \notin no, NEW ack2 \in SUBSET (ack \cup {w})
       PROVE  SubInv(l, r, des, ack2, pend, subs \cup {w}, no)
  BY <1>6, <1>7, <1>11 DEF SubInv
<1>12. ASSUME q[1].op = "subscribe", w \in no PROVE SubInv(l, r, des, ack, pend, subs, no)
  BY <1>6, <1>8, <1>12 DEF SubInv
<1>13. ASSUME q[1].op = "unsubscribe" PROVE SubInv(l, r, des, ack, pend \ {w}, subs \ {w}, no)
  BY <1>6, <1>9, <1>13 DEF SubInv
<1>14. ASSUME q[1].op = "unsubscribe", NEW pend2, pend \subseteq pend2, (l = "up" /\ q[1].by = "call") => w \in pend2
       PROVE  SubInv(l, r, des, ack, pend2, subs, no)
  BY <1>6, <1>10, <1>14 DEF SubInv
<1> QED BY <1>1, <1>2, <1>11, <1>12, <1>13, <1>14

LEMMA Weakens ==
  ASSUME NEW l, NEW q, NEW des, NEW ack, NEW pend, NEW subs, NEW no, SubInv(l, q, des, ack, pend, subs, no),
         NEW pend2, \A c \in Channels : c \in pend /\ c \notin des => c \in pend2
  PROVE  SubInv(l, q, des, ack, pend2, subs, no)
<1>1. \A c \in Channels : c \notin des /\ UnwantedChannel(c, q, pend, subs) => UnwantedChannel(c, q, pend2, subs)
  BY DEF UnwantedChannel
<1> QED BY <1>1 DEF SubInv

\* A turn reports the health it leaves, or leaves the status and only improves health.
Told == \/ status' = status
        \/ destroyed'
        \/ status' => (SubscriberHealthy /\ PublisherHealthy)'

LEMMA Tells == ASSUME NEW a, UpdateStatus(a) PROVE Told
BY DEF UpdateStatus, Told

LEMMA StatusStays ==
  ASSUME StatusTrue, Told, destroyed => destroyed', status' = status => UNCHANGED desired,
         status' = status => \A k \in Kind : ready[k] => ready'[k],
         status' = status => acked \subseteq acked' /\ pendingUnsub' \subseteq pendingUnsub,
         status' = status => (pubHealthy => pubHealthy')
  PROVE  StatusTrue'
<1>1. CASE status' = status
  <2>1. /\ UNCHANGED desired /\ (ready["sub"] => ready'["sub"]) /\ (ready["pub"] => ready'["pub"])
        /\ acked \subseteq acked' /\ pendingUnsub' \subseteq pendingUnsub
        /\ pubHealthy => pubHealthy'
    BY <1>1 DEF Kind
  <2>2. ASSUME SubscriberHealthy, PublisherHealthy PROVE SubscriberHealthy' /\ PublisherHealthy'
    BY <1>1, <2>2 DEF SubscriberHealthy, PublisherHealthy, Kind
  <2> QED BY <1>1, <2>2 DEF StatusTrue
<1>2. CASE destroyed' \/ (status' => (SubscriberHealthy /\ PublisherHealthy)')
  BY <1>2 DEF StatusTrue
<1> QED BY <1>1, <1>2 DEF Told

LEMMA ProbesDeliver ==
  ASSUME NEW armed, NEW q, Queued(q, ready'), ProbeOrSettle(q, armed)
  PROVE  inflight'["sub"] = q["sub"] /\ Told
<1>1. CASE inflight' = Sent(q, "pub", OnPub("probe", "recovery")) /\ Wait([Resting EXCEPT !.at = "probe"], armed)
  BY <1>1 DEF Sent, Queued, Kind, Wait, Told
<1>2. CASE inflight' = q /\ Settle(armed)
  BY <1>2, Tells DEF Settle
<1> QED BY <1>1, <1>2 DEF ProbeOrSettle

LEMMA SentToSub ==
  ASSUME NEW q, Queued(q, ready'), NEW op \in {"subscribe", "unsubscribe"}, NEW c \in Channels,
         NEW by \in {"call", "recovery"}, inflight' = Sent(q, "sub", OnSub(op, c, by))
  PROVE  \E d \in Command : /\ d.op = op /\ d.what = c /\ d.by = by /\ ~d.stale /\ d.lost = (link'["sub"] # "up")
                            /\ q["sub"] \in Seq(Command) /\ inflight'["sub"] = Append(q["sub"], d)
<1>1. PICK d : d = [OnSub(op, c, by) EXCEPT !.lost = link'["sub"] # "up"]
  OBVIOUS
<1>2. d \in Command /\ d.op = op /\ d.what = c /\ d.by = by /\ ~d.stale /\ d.lost = (link'["sub"] # "up")
  BY <1>1 DEF OnSub, Command
<1>3. q["sub"] \in Seq(Command)
  <2>1. Underway("sub", ready'["sub"]) \subseteq Command
    BY DEF Underway
  <2> QED BY <2>1, SeqMonotonic DEF Queued, Kind
<1>4. inflight'["sub"] = Append(q["sub"], d)
  BY <1>1 DEF Sent, Queued, Kind
<1> QED BY <1>2, <1>3, <1>4

LEMMA SubscribesDeliver ==
  ASSUME NEW armed, NEW q, Queued(q, ready'), NEW seen, desired \subseteq Channels, SubscribeNext(q, seen, armed),
         NEW ack, NEW pend, NEW subs, NEW no, SubInv(link'["sub"], q["sub"], desired, ack, pend, subs, no)
  PROVE  SubInv(link'["sub"], inflight'["sub"], desired, ack, pend, subs, no) /\ Told
<1>1. CASE ProbeOrSettle(q, armed)
  <2>1. inflight'["sub"] = q["sub"] /\ Told
    BY <1>1, ProbesDeliver
  <2> QED BY <2>1
<1>2. ASSUME NEW c \in desired, inflight' = Sent(q, "sub", OnSub("subscribe", c, "recovery")), UNCHANGED status
      PROVE  SubInv(link'["sub"], inflight'["sub"], desired, ack, pend, subs, no) /\ Told
  <2>1. PICK d \in Command : /\ d.op = "subscribe" /\ d.what = c /\ d.by = "recovery" /\ ~d.stale
                             /\ d.lost = (link'["sub"] # "up")
                             /\ q["sub"] \in Seq(Command) /\ inflight'["sub"] = Append(q["sub"], d)
    BY <1>2, SentToSub
  <2>2. SubInv(link'["sub"], Append(q["sub"], d), desired, ack, pend, subs, no)
    BY <1>2, <2>1, RecoverySends
  <2> QED BY <1>2, <2>1, <2>2 DEF Told
<1>3. ProbeOrSettle(q, armed) \/ \E c \in desired : /\ inflight' = Sent(q, "sub", OnSub("subscribe", c, "recovery"))
                                                    /\ UNCHANGED status
  BY DEF SubscribeNext, Wait
<1> QED BY <1>1, <1>2, <1>3

LEMMA UnsubscribesDeliver ==
  ASSUME NEW armed, NEW q, Queued(q, ready'), NEW todo \in SUBSET Channels, NEW pending,
         desired \subseteq Channels, UnsubscribeNext(q, todo, pending, armed),
         NEW ack, NEW subs, NEW no, SubInv(link'["sub"], q["sub"], desired, ack, pending, subs, no)
  PROVE  /\ SubInv(link'["sub"], inflight'["sub"], desired, ack, pendingUnsub', subs, no) /\ Told
         /\ acked' = acked /\ pendingUnsub' \subseteq pending
<1>1. acked' = acked /\ pendingUnsub' \subseteq pending /\ \A c \in pending \ desired : c \in pendingUnsub'
  BY DEF UnsubscribeNext
<1>2. SubInv(link'["sub"], q["sub"], desired, ack, pendingUnsub', subs, no)
  BY <1>1, Weakens
<1>3. ASSUME SubscribeNext(q, {}, armed)
      PROVE  SubInv(link'["sub"], inflight'["sub"], desired, ack, pendingUnsub', subs, no) /\ Told
  BY <1>2, <1>3, SubscribesDeliver
<1>4. ASSUME NEW c \in todo \ desired, inflight' = Sent(q, "sub", OnSub("unsubscribe", c, "recovery")), UNCHANGED status
      PROVE  SubInv(link'["sub"], inflight'["sub"], desired, ack, pendingUnsub', subs, no) /\ Told
  <2>1. PICK d \in Command : /\ d.op = "unsubscribe" /\ d.what = c /\ d.by = "recovery" /\ ~d.stale
                             /\ d.lost = (link'["sub"] # "up")
                             /\ q["sub"] \in Seq(Command) /\ inflight'["sub"] = Append(q["sub"], d)
    BY <1>4, SentToSub
  <2>2. SubInv(link'["sub"], Append(q["sub"], d), desired, ack, pendingUnsub', subs, no)
    BY <1>2, <1>4, <2>1, RecoverySends
  <2> QED BY <1>4, <2>1, <2>2 DEF Told
<1>5. \/ SubscribeNext(q, {}, armed)
      \/ \E c \in todo \ desired : inflight' = Sent(q, "sub", OnSub("unsubscribe", c, "recovery")) /\ UNCHANGED status
  BY DEF UnsubscribeNext, Wait
<1> QED BY <1>1, <1>3, <1>4, <1>5

LEMMA AttemptsDeliver ==
  ASSUME MessengerInv, Queued(inflight, ready'), AttemptRecovery,
         NEW ack, NEW subs, NEW no, SubInv(link'["sub"], inflight["sub"], desired, ack, pendingUnsub, subs, no)
  PROVE  /\ SubInv(link'["sub"], inflight'["sub"], desired, ack, pendingUnsub', subs, no) /\ Told
         /\ acked' = acked /\ pendingUnsub' \subseteq pendingUnsub
<1>1. pendingUnsub \in SUBSET Channels /\ desired \subseteq Channels
  BY DEF MessengerInv, StateTypes
<1>2. CASE UNCHANGED <<inflight, acked, pendingUnsub, status>>
  BY <1>2 DEF Told
<1>3. CASE UnsubscribeNext(inflight, pendingUnsub, pendingUnsub, FALSE)
  BY <1>1, <1>3, UnsubscribesDeliver
<1>4. CASE UNCHANGED <<acked, pendingUnsub>> /\ ProbeOrSettle(inflight, FALSE)
  <2>1. inflight'["sub"] = inflight["sub"] /\ Told
    BY <1>4, ProbesDeliver
  <2> QED BY <1>4, <2>1
<1> QED BY <1>2, <1>3, <1>4 DEF AttemptRecovery

\* The steps.
Sound == MessengerInv /\ DeliveryInv

LEMMA SubscriberQueue ==
  ASSUME MessengerInv
  PROVE  inflight["sub"] \in Seq(Command) /\ "sub" \in Kind /\ "pub" \in Kind /\ desired \subseteq Channels
<1>1. Underway("sub", ready["sub"]) \subseteq Command
  BY DEF Underway
<1> QED BY <1>1, SeqMonotonic DEF MessengerInv, StateTypes, Queued, Kind

LEMMA CallDelivers == ASSUME Sound, NEW c \in Channels, Subscribe(c) \/ Unsubscribe(c) PROVE DeliveryInv'
<1>1. /\ UNCHANGED <<link, ready, subscribed, denied, destroyed>> /\ UpdateStatus(timer)
      /\ StatusTrue /\ Offline
      /\ SubInv(link["sub"], inflight["sub"], desired, acked, pendingUnsub, subscribed, denied)
      /\ MessengerInv /\ Queued(inflight, ready')
  BY DEF Sound, DeliveryInv, Subscribe, Unsubscribe, socketVars, redisVars, MessengerInv
<1>2. Offline' /\ StatusTrue'
  <2>1. Told
    BY <1>1, Tells
  <2>2. StatusTrue'
    BY <1>1 DEF UpdateStatus, StatusTrue
  <2> QED BY <1>1, <2>2 DEF Offline
<1>3. CASE Subscribe(c) /\ ready["sub"]
  <2>1. /\ inflight' = Sent(inflight, "sub", OnSub("subscribe", c, "call"))
        /\ desired' = desired \cup {c} /\ acked' = acked \ {c} /\ pendingUnsub' = pendingUnsub \ {c}
    BY <1>3 DEF Subscribe
  <2>2. PICK d \in Command : /\ d.op = "subscribe" /\ d.what = c /\ d.by = "call" /\ ~d.stale
                             /\ d.lost = (link'["sub"] # "up")
                             /\ inflight["sub"] \in Seq(Command) /\ inflight'["sub"] = Append(inflight["sub"], d)
    BY <1>1, <2>1, SentToSub
  <2>3. SubInv(link["sub"], Append(inflight["sub"], d), desired \cup {c}, acked \ {c}, pendingUnsub \ {c}, subscribed, denied)
    BY <1>1, <2>2, SubscribeSends
  <2> QED BY <1>1, <1>2, <2>1, <2>2, <2>3 DEF DeliveryInv
<1>4. CASE Unsubscribe(c) /\ ready["sub"]
  <2>1. /\ inflight' = Sent(inflight, "sub", OnSub("unsubscribe", c, "call"))
        /\ desired' = desired \ {c} /\ acked' = acked \ {c} /\ pendingUnsub' = pendingUnsub
    BY <1>4 DEF Unsubscribe
  <2>2. PICK d \in Command : /\ d.op = "unsubscribe" /\ d.what = c /\ d.by = "call" /\ ~d.stale
                             /\ d.lost = (link'["sub"] # "up")
                             /\ inflight["sub"] \in Seq(Command) /\ inflight'["sub"] = Append(inflight["sub"], d)
    BY <1>1, <2>1, SentToSub
  <2>3. SubInv(link["sub"], Append(inflight["sub"], d), desired \ {c}, acked \ {c}, pendingUnsub, subscribed, denied)
    BY <1>1, <2>2, UnsubscribeSends
  <2> QED BY <1>1, <1>2, <2>1, <2>2, <2>3 DEF DeliveryInv
<1>5. CASE ~ready["sub"]
  <2>1. link["sub"] # "up" /\ inflight' = inflight
    BY <1>1, <1>5, SubscriberQueue DEF Subscribe, Unsubscribe, MessengerInv, LinkInv
  <2>2. SubInv(link["sub"], inflight["sub"], desired, acked, pendingUnsub, subscribed, denied)'
    BY <1>1, <2>1 DEF SubInv
  <2> QED BY <1>2, <2>2 DEF DeliveryInv
<1> QED BY <1>3, <1>4, <1>5

LEMMA PublishDelivers == ASSUME Sound, Publish PROVE DeliveryInv'
<1>1. /\ UNCHANGED <<link, ready, subscribed, denied, desired, acked, pendingUnsub, pubHealthy, status, destroyed>>
      /\ StatusTrue /\ Offline
      /\ SubInv(link["sub"], inflight["sub"], desired, acked, pendingUnsub, subscribed, denied)
      /\ inflight'["sub"] = inflight["sub"]
  BY DEF Sound, DeliveryInv, Publish, socketVars, redisVars, MessengerInv, Queued, Sent, Kind
<1>2. StatusTrue' /\ Offline'
  BY <1>1 DEF StatusTrue, Offline, SubscriberHealthy, PublisherHealthy
<1> QED BY <1>1, <1>2 DEF DeliveryInv

LEMMA DestroyDelivers == ASSUME Sound, Destroy PROVE DeliveryInv'
<1>1. /\ destroyed' /\ UNCHANGED <<ready, subscribed>>
      /\ Offline /\ MessengerInv
      /\ SubInv(link["sub"], inflight["sub"], desired, acked, pendingUnsub, subscribed, denied)
  BY DEF Sound, DeliveryInv, Destroy, redisVars
<1>2. /\ link'["sub"] = (IF link["sub"] = "up" THEN "closing" ELSE link["sub"])
      /\ inflight'["sub"] = [i \in DOMAIN inflight["sub"] |-> [inflight["sub"][i] EXCEPT !.stale = TRUE]]
  BY DEF Destroy, Kind, Outdated
<1>3. Lost(inflight["sub"]) => Lost(inflight'["sub"])
  <2>1. \A i \in DOMAIN inflight["sub"] : inflight["sub"][i] \in Command
    BY <1>1, SubscriberQueue
  <2> QED BY <1>2, <2>1 DEF Lost, Command
<1>4. SubInv(link["sub"], inflight["sub"], desired, acked, pendingUnsub, subscribed, denied)'
  BY <1>1, <1>2, <1>3 DEF SubInv
<1> QED BY <1>1, <1>2, <1>4 DEF DeliveryInv, StatusTrue, Offline

LEMMA RecoveryTimerDelivers == ASSUME Sound, RecoveryTimer PROVE DeliveryInv'
<1>1. /\ UNCHANGED <<link, ready, subscribed, denied, desired, pubHealthy, destroyed>> /\ AttemptRecovery
      /\ StatusTrue /\ Offline /\ MessengerInv
      /\ SubInv(link["sub"], inflight["sub"], desired, acked, pendingUnsub, subscribed, denied)
      /\ Queued(inflight, ready')
  BY DEF Sound, DeliveryInv, RecoveryTimer, socketVars, redisVars, MessengerInv
<1>2. SubInv(link'["sub"], inflight["sub"], desired, acked, pendingUnsub, subscribed, denied)
  BY <1>1
<1>3. /\ SubInv(link'["sub"], inflight'["sub"], desired, acked, pendingUnsub', subscribed, denied) /\ Told
      /\ acked' = acked /\ pendingUnsub' \subseteq pendingUnsub
  BY <1>1, <1>2, AttemptsDeliver
<1>4. StatusTrue' /\ Offline'
  <2>1. StatusTrue'
    BY <1>1, <1>3, StatusStays
  <2> QED BY <1>1, <2>1 DEF Offline
<1> QED BY <1>1, <1>3, <1>4 DEF DeliveryInv

LEMMA OnReadyDelivers == ASSUME Sound, NEW k \in Kind, OnReady(k) PROVE DeliveryInv'
<1>1. /\ link[k] = "down" /\ link' = [link EXCEPT ![k] = "up"] /\ ready' = [ready EXCEPT ![k] = TRUE]
      /\ UNCHANGED <<subscribed, denied, desired, pubHealthy, destroyed>> /\ AttemptRecovery
      /\ StatusTrue /\ Offline /\ MessengerInv
      /\ SubInv(link["sub"], inflight["sub"], desired, acked, pendingUnsub, subscribed, denied)
  BY DEF Sound, DeliveryInv, OnReady, redisVars
<1>2. ready \in [Kind -> BOOLEAN] /\ link \in [Kind -> Link] /\ HealthIsCurrent
  BY <1>1 DEF MessengerInv, StateTypes
<1>3. Queued(inflight, ready')
  <2>1. \A m \in Kind : ready[m] => ready'[m]
    BY <1>1, <1>2
  <2>2. \A m \in Kind : Underway(m, ready[m]) \subseteq Underway(m, ready'[m])
    BY <2>1 DEF Underway
  <2> QED BY <1>1, <2>2, SeqMonotonic DEF MessengerInv, Queued
\* A connection starts out with no subscriptions and no commands, whatever was
\* acknowledged on the one before.
<1>4. SubInv(link'["sub"], inflight["sub"], desired, acked, pendingUnsub, subscribed, denied)
  <2>1. CASE k = "pub"
    BY <1>1, <1>2, <2>1 DEF Kind
  <2>2. CASE k = "sub"
    <3>1. subscribed = {} /\ Lost(inflight["sub"]) /\ acked = {} /\ link'["sub"] = "up"
      BY <1>1, <1>2, <2>2 DEF SubInv, Offline, HealthIsCurrent, Kind
    <3>2. ASSUME NEW c
          PROVE  Subscribing(inflight["sub"], c) = {} /\ Unsubscribing(inflight["sub"], c) = {}
      BY <3>1 DEF Lost, Subscribing, Unsubscribing
    <3>3. ASSUME NEW c
          PROVE  /\ WantedChannel(c, inflight["sub"], acked, subscribed, denied)
                 /\ UnwantedChannel(c, inflight["sub"], pendingUnsub, subscribed)
      BY <3>1, <3>2 DEF WantedChannel, UnwantedChannel, Followed
    <3>4. Fresh(inflight["sub"])
      BY <3>1 DEF Lost, Fresh
    <3> QED BY <3>1, <3>3, <3>4 DEF SubInv
  <2> QED BY <2>1, <2>2 DEF Kind
<1>5. /\ SubInv(link'["sub"], inflight'["sub"], desired, acked, pendingUnsub', subscribed, denied) /\ Told
      /\ acked' = acked /\ pendingUnsub' \subseteq pendingUnsub
  BY <1>1, <1>3, <1>4, AttemptsDeliver
<1>6. StatusTrue'
  <2>1. \A m \in Kind : ready[m] => ready'[m]
    BY <1>1, <1>2
  <2> QED BY <1>1, <1>5, <2>1, StatusStays
<1>7. Offline'
  BY <1>1, <1>2 DEF Offline, Kind
<1> QED BY <1>1, <1>5, <1>6, <1>7 DEF DeliveryInv

\* A failed command leaves what its channel still owes in pendingUnsub.
LEMMA RejectedDelivers ==
  ASSUME Sound, NEW k \in Kind, NEW c, NEW q, Outcome(k, c, q), Rejected(c, q)
  PROVE  /\ inflight' = q /\ acked' = acked /\ pendingUnsub \subseteq pendingUnsub' /\ StatusTrue'
         /\ c.op # "unsubscribe" => pendingUnsub' = pendingUnsub
         /\ c.op = "unsubscribe" /\ c.by = "call" /\ ~c.stale => c.what \in pendingUnsub'
<1>1. /\ inflight' = q /\ acked' = acked /\ pendingUnsub \subseteq pendingUnsub'
      /\ c.op # "unsubscribe" => pendingUnsub' = pendingUnsub
      /\ c.op = "unsubscribe" /\ c.by = "call" /\ ~c.stale => c.what \in pendingUnsub'
      /\ Quiet(q) \/ \E a : UpdateStatus(a)
  BY DEF Rejected, Quiet, Current, Unremoved, Settle
<1>2. UNCHANGED <<ready, desired, destroyed>> /\ StatusTrue
  BY DEF Outcome, socketVars, Sound, DeliveryInv
<1>3. CASE Quiet(q)
  <2>1. UNCHANGED <<acked, pendingUnsub, pubHealthy, status>>
    BY <1>3 DEF Quiet
  <2>2. StatusTrue'
    BY <1>2, <2>1 DEF StatusTrue, SubscriberHealthy, PublisherHealthy
  <2> QED BY <1>1, <2>2
<1>4. CASE \E a : UpdateStatus(a)
  BY <1>1, <1>4 DEF UpdateStatus, StatusTrue
<1> QED BY <1>1, <1>3, <1>4

LEMMA AcceptedTells ==
  ASSUME Sound, NEW k \in Kind, NEW c, NEW q, Outcome(k, c, q), Accepted(c, q) PROVE StatusTrue'
<1>1. /\ UNCHANGED <<ready, desired, destroyed>> /\ StatusTrue /\ Queued(q, ready') /\ desired \subseteq Channels
      /\ recovery \in Recovery
  BY DEF Outcome, socketVars, Sound, DeliveryInv, MessengerInv, StateTypes
<1>2. CASE Quiet(q)
  <2>1. UNCHANGED <<acked, pendingUnsub, pubHealthy, status>>
    BY <1>2 DEF Quiet
  <2> QED BY <1>1, <2>1 DEF StatusTrue, SubscriberHealthy, PublisherHealthy
<1>3. CASE \E a : UpdateStatus(a)
  BY <1>3 DEF UpdateStatus, StatusTrue
<1>4. CASE c.op = "unsubscribe" /\ c.by = "recovery"
  <2>1. UNCHANGED pubHealthy /\ UnsubscribeNext(q, recovery.todo, pendingUnsub \ {c.what}, timer)
    BY <1>4 DEF Accepted
  <2>2. acked' = acked /\ pendingUnsub' \subseteq pendingUnsub
    BY <2>1 DEF UnsubscribeNext
  <2>3. Told
    <3>1. \/ SubscribeNext(q, {}, timer)
          \/ UNCHANGED status
      BY <2>1 DEF UnsubscribeNext, Wait
    <3>2. ASSUME SubscribeNext(q, {}, timer) PROVE ProbeOrSettle(q, timer) \/ UNCHANGED status
      BY <3>2 DEF SubscribeNext, Wait
    <3> QED BY <1>1, <3>1, <3>2, ProbesDeliver DEF Told
  <2> QED BY <1>1, <2>1, <2>2, <2>3, StatusStays
<1>5. CASE c.op = "subscribe" /\ c.by = "recovery"
  <2>1. /\ acked' = (IF Current(c) THEN acked \cup {c.what} ELSE acked)
        /\ UNCHANGED <<pendingUnsub, pubHealthy>> /\ SubscribeNext(q, recovery.seen, timer)
    BY <1>5 DEF Accepted
  <2>2. Told
    <3>1. ProbeOrSettle(q, timer) \/ UNCHANGED status
      BY <2>1 DEF SubscribeNext, Wait
    <3> QED BY <1>1, <3>1, ProbesDeliver DEF Told
  <2>3. acked \subseteq acked'
    BY <2>1
  <2> QED BY <1>1, <2>1, <2>2, <2>3, StatusStays
<1> QED BY <1>2, <1>3, <1>4, <1>5 DEF Accepted, Settle

LEMMA AnswerDelivers == ASSUME Sound, NEW k \in Kind, Answer(k) PROVE DeliveryInv'
<1>1. /\ UNCHANGED <<link, ready, desired, destroyed, denied>>
      /\ inflight[k] # <<>> /\ ~Head(inflight[k]).lost
      /\ StatusTrue /\ Offline /\ MessengerInv
      /\ SubInv(link["sub"], inflight["sub"], desired, acked, pendingUnsub, subscribed, denied)
      /\ Queued(inflight, ready) /\ Locks(inflight, recovering) /\ recovering \in BOOLEAN
  BY DEF Sound, DeliveryInv, Answer, socketVars, MessengerInv, recovering
<1>2. PICK c : c = Head(inflight[k])
  OBVIOUS
<1>3. PICK q : q = [inflight EXCEPT ![k] = Tail(@)]
  OBVIOUS
<1>4. /\ Refused(c) => Rejected(c, q) /\ UNCHANGED subscribed
      /\ ~Refused(c) => Accepted(c, q)
      /\ ~Refused(c) /\ c.op = "subscribe" => subscribed' = subscribed \cup {c.what}
      /\ ~Refused(c) /\ c.op = "unsubscribe" => subscribed' = subscribed \ {c.what}
      /\ c.op \in {"publish", "probe"} => UNCHANGED subscribed
  BY <1>2, <1>3 DEF Answer
<1>5. inflight[k] \in Seq(Underway(k, ready[k]))
  BY <1>1 DEF Queued
<1>6. 1 \in 1..Len(inflight[k]) /\ c = inflight[k][1] /\ q = [inflight EXCEPT ![k] = RemoveAt(@, 1)]
  BY <1>1, <1>2, <1>3, <1>5, TailRemoves
<1>7. /\ c \in Underway(k, ready[k]) /\ Queued(q, ready)
      /\ c.by = "recovery" => NoneAwaited(q)
      /\ c.by # "recovery" => Locks(q, recovering)
  BY <1>1, <1>6, Taken, ZenonT(40)
<1>8. Outcome(k, c, q)
  BY <1>1, <1>7 DEF Outcome, socketVars
<1>9. StatusTrue' /\ Offline'
  <2>1. StatusTrue'
    BY <1>4, <1>8, RejectedDelivers, AcceptedTells
  <2> QED BY <1>1, <2>1 DEF Offline
<1>10. CASE k = "pub"
  <2>1. c.op \in {"publish", "probe"} /\ q["sub"] = inflight["sub"]
    BY <1>1, <1>3, <1>7, <1>10 DEF Underway, Queued, Kind
  <2>2. inflight' = q /\ acked' = acked /\ pendingUnsub' = pendingUnsub
    BY <1>4, <1>8, <2>1, RejectedDelivers DEF Accepted, Quiet
  <2>3. SubInv(link["sub"], inflight["sub"], desired, acked, pendingUnsub, subscribed, denied)'
    BY <1>1, <1>4, <2>1, <2>2
  <2> QED BY <1>9, <2>3 DEF DeliveryInv
<1>11. CASE k = "sub"
  <2>1. /\ c \in Command /\ c.op \in {"subscribe", "unsubscribe"} /\ c.by \in {"call", "recovery"} /\ ~c.lost
        /\ Queued(q, ready') /\ recovery \in Recovery /\ desired \subseteq Channels
        /\ link["sub"] = "up" => ~c.stale
    <3>1. c \in Command /\ c.op \in {"subscribe", "unsubscribe"} /\ c.by \in {"call", "recovery"} /\ ~c.lost
      BY <1>1, <1>2, <1>7, <1>11 DEF Underway, Command
    <3>2. link["sub"] = "up" => ~c.stale
      BY <1>1, <1>5, <1>6, <1>11, <3>1 DEF SubInv, Fresh
    <3> QED BY <1>1, <1>7, <3>1, <3>2 DEF MessengerInv, StateTypes
  <2>2. PICK r : r = RemoveAt(inflight["sub"], 1)
    OBVIOUS
  <2>3. q["sub"] = r
    BY <1>1, <1>6, <1>11, <2>2 DEF Queued
  <2>4. /\ c.op = "subscribe" /\ c.what \notin denied =>
             \A ack2 \in SUBSET (acked \cup {c.what}) :
                SubInv(link["sub"], r, desired, ack2, pendingUnsub, subscribed \cup {c.what}, denied)
        /\ c.op = "subscribe" /\ c.what \in denied =>
             SubInv(link["sub"], r, desired, acked, pendingUnsub, subscribed, denied)
        /\ c.op = "unsubscribe" =>
             SubInv(link["sub"], r, desired, acked, pendingUnsub \ {c.what}, subscribed \ {c.what}, denied)
        /\ c.op = "unsubscribe" =>
             \A pend2 : /\ pendingUnsub \subseteq pend2
                        /\ link["sub"] = "up" /\ c.by = "call" => c.what \in pend2
                        => SubInv(link["sub"], r, desired, acked, pend2, subscribed, denied)
    <3>1. PICK s \in Seq(Command) : s = inflight["sub"]
      BY <1>1, SubscriberQueue
    <3>2. 1 \in 1..Len(s) /\ c = s[1] /\ ~s[1].lost /\ r = RemoveAt(s, 1)
          /\ SubInv(link["sub"], s, desired, acked, pendingUnsub, subscribed, denied)
      BY <1>1, <1>6, <1>11, <2>1, <2>2, <3>1
    <3> HIDE <2>2, <3>1
    <3> QED BY <3>2, Answered
  <2>5. CASE Refused(c)
    <3>1. /\ inflight' = q /\ acked' = acked /\ pendingUnsub \subseteq pendingUnsub' /\ subscribed' = subscribed
          /\ c.op # "unsubscribe" => pendingUnsub' = pendingUnsub
          /\ c.op = "unsubscribe" /\ c.by = "call" /\ ~c.stale => c.what \in pendingUnsub'
      BY <1>4, <1>8, <2>5, RejectedDelivers
    <3>2. SubInv(link["sub"], r, desired, acked, pendingUnsub', subscribed, denied)
      BY <2>1, <2>4, <2>5, <3>1 DEF Refused
    <3> QED BY <1>1, <1>9, <2>3, <3>1, <3>2 DEF DeliveryInv
  <2>6. CASE ~Refused(c) /\ c.op = "subscribe"
    <3>1. c.what \notin denied /\ Accepted(c, q) /\ subscribed' = subscribed \cup {c.what}
      BY <1>4, <2>6 DEF Refused
    <3>2. pendingUnsub' = pendingUnsub /\ acked' \in SUBSET (acked \cup {c.what})
      BY <2>6, <3>1 DEF Accepted, Quiet
    <3>3. SubInv(link["sub"], r, desired, acked', pendingUnsub, subscribed', denied)
      BY <2>4, <2>6, <3>1, <3>2
    <3>4. SubInv(link["sub"], inflight'["sub"], desired, acked', pendingUnsub, subscribed', denied)
      <4>1. CASE c.by = "call"
        <5>1. inflight' = q
          BY <2>6, <3>1, <4>1 DEF Accepted, Quiet
        <5> QED BY <2>3, <3>3, <5>1
      <4>2. CASE c.by = "recovery"
        <5>1. SubscribeNext(q, recovery.seen, timer)
          BY <2>6, <3>1, <4>2 DEF Accepted
        <5>2. SubInv(link'["sub"], q["sub"], desired, acked', pendingUnsub, subscribed', denied)
          BY <1>1, <2>3, <3>3
        <5> QED BY <1>1, <2>1, <5>1, <5>2, SubscribesDeliver
      <4> QED BY <2>1, <4>1, <4>2
    <3> QED BY <1>1, <1>9, <3>2, <3>4 DEF DeliveryInv
  <2>7. CASE ~Refused(c) /\ c.op = "unsubscribe"
    <3>1. Accepted(c, q) /\ subscribed' = subscribed \ {c.what}
      BY <1>4, <2>7
    <3>2. SubInv(link["sub"], r, desired, acked, pendingUnsub \ {c.what}, subscribed', denied)
      BY <2>4, <2>7, <3>1
    <3>3. CASE c.by = "call"
      <4>1. inflight' = q /\ acked' = acked /\ pendingUnsub' = pendingUnsub
        BY <2>7, <3>1, <3>3 DEF Accepted, Quiet
      <4>2. SubInv(link["sub"], r, desired, acked, pendingUnsub, subscribed', denied)
        BY <3>2, Weakens
      <4> QED BY <1>1, <1>9, <2>3, <4>1, <4>2 DEF DeliveryInv
    <3>4. CASE c.by = "recovery"
      <4>1. UnsubscribeNext(q, recovery.todo, pendingUnsub \ {c.what}, timer) /\ recovery.todo \in SUBSET Channels
        BY <2>1, <2>7, <3>1, <3>4 DEF Accepted, Recovery
      <4>2. SubInv(link'["sub"], q["sub"], desired, acked, pendingUnsub \ {c.what}, subscribed', denied)
        BY <1>1, <2>3, <3>2
      <4>3. SubInv(link'["sub"], inflight'["sub"], desired, acked, pendingUnsub', subscribed', denied) /\ acked' = acked
        BY <2>1, <4>1, <4>2, UnsubscribesDeliver
      <4> QED BY <1>1, <1>9, <4>3 DEF DeliveryInv
    <3> QED BY <2>1, <3>3, <3>4
  <2> QED BY <2>1, <2>5, <2>6, <2>7
<1> QED BY <1>10, <1>11 DEF Kind

LEMMA FlushDelivers == ASSUME Sound, NEW k \in Kind, Flush(k) PROVE DeliveryInv'
<1>1. /\ StatusTrue /\ Offline /\ MessengerInv
      /\ SubInv(link["sub"], inflight["sub"], desired, acked, pendingUnsub, subscribed, denied)
      /\ Queued(inflight, ready) /\ Locks(inflight, recovering) /\ recovering \in BOOLEAN
  BY DEF Sound, DeliveryInv, MessengerInv, recovering
<1>2. PICK i \in DOMAIN inflight[k] :
        /\ inflight[k][i].lost
        /\ UNCHANGED <<socketVars, redisVars, desired, destroyed, calls, faults>>
        /\ Rejected(inflight[k][i], [inflight EXCEPT ![k] = RemoveAt(@, i)])
  BY DEF Flush
<1>3. PICK c : c = inflight[k][i]
  OBVIOUS
<1>4. PICK q : q = [inflight EXCEPT ![k] = RemoveAt(@, i)]
  OBVIOUS
<1>5. i \in 1..Len(inflight[k])
  BY <1>1 DEF Queued
<1>6. /\ c \in Underway(k, ready[k]) /\ Queued(q, ready)
      /\ c.by = "recovery" => NoneAwaited(q)
      /\ c.by # "recovery" => Locks(q, recovering)
  BY <1>1, <1>3, <1>4, <1>5, Taken, ZenonT(40)
<1>7. Outcome(k, c, q)
  BY <1>2, <1>6 DEF Outcome, socketVars
<1>8. inflight' = q /\ acked' = acked /\ pendingUnsub \subseteq pendingUnsub' /\ StatusTrue'
      /\ (c.op # "unsubscribe" => pendingUnsub' = pendingUnsub)
  BY <1>2, <1>3, <1>4, <1>7, RejectedDelivers
<1>9. UNCHANGED <<link, ready, desired, subscribed, denied>>
  BY <1>2 DEF socketVars, redisVars
<1>10. SubInv(link["sub"], q["sub"], desired, acked, pendingUnsub', subscribed, denied)
  <2>1. CASE k = "pub"
    <3>1. c.op \in {"publish", "probe"} /\ q["sub"] = inflight["sub"]
      BY <1>1, <1>4, <1>6, <2>1 DEF Underway, Queued, Kind
    <3> QED BY <1>1, <1>8, <3>1
  <2>2. CASE k = "sub"
    <3>1. PICK s \in Seq(Command) : s = inflight["sub"]
      BY <1>1, SubscriberQueue
    <3>2. /\ i \in 1..Len(s) /\ s[i].lost /\ q["sub"] = RemoveAt(s, i)
          /\ SubInv(link["sub"], s, desired, acked, pendingUnsub, subscribed, denied)
      BY <1>1, <1>2, <1>4, <1>5, <2>2, <3>1 DEF Queued
    <3>3. SubInv(link["sub"], RemoveAt(s, i), desired, acked, pendingUnsub', subscribed, denied)
      BY <1>8, <3>2, Drops
    <3> QED BY <3>2, <3>3
  <2> QED BY <2>1, <2>2 DEF Kind
<1> QED BY <1>1, <1>8, <1>9, <1>10 DEF DeliveryInv, Offline

LEMMA TimeoutDelivers == ASSUME Sound, NEW k \in Kind, Timeout(k) PROVE DeliveryInv'
<1>1. /\ link' = [link EXCEPT ![k] = "closing"] /\ ready' = [ready EXCEPT ![k] = FALSE]
      /\ link[k] = "up" /\ acked' = (IF k = "sub" THEN {} ELSE acked)
      /\ inflight' = [inflight EXCEPT ![k] = Outdated(Tail(@))]
      /\ UNCHANGED <<subscribed, denied, desired, pendingUnsub, destroyed>> /\ UpdateStatus(timer)
      /\ Offline /\ MessengerInv
      /\ SubInv(link["sub"], inflight["sub"], desired, acked, pendingUnsub, subscribed, denied)
  BY DEF Sound, DeliveryInv, Timeout, redisVars
<1>2. link \in [Kind -> Link] /\ ready \in [Kind -> BOOLEAN] /\ inflight = [m \in Kind |-> inflight[m]]
  BY <1>1 DEF MessengerInv, StateTypes, Queued
<1>3. StatusTrue'
  BY <1>1 DEF UpdateStatus, StatusTrue
<1>4. CASE k = "pub"
  <2>1. link'["sub"] = link["sub"] /\ ready'["sub"] = ready["sub"] /\ inflight'["sub"] = inflight["sub"] /\ acked' = acked
    BY <1>1, <1>2, <1>4 DEF Kind
  <2> QED BY <1>1, <1>3, <2>1 DEF DeliveryInv, Offline
<1>5. CASE k = "sub"
  <2>1. link'["sub"] = "closing"
    BY <1>1, <1>2, <1>5 DEF Kind
  <2> QED BY <1>3, <2>1 DEF DeliveryInv, SubInv, Offline
<1> QED BY <1>4, <1>5 DEF Kind

LEMMA SocketLostDelivers == ASSUME Sound, NEW k \in Kind, SocketLost(k) PROVE DeliveryInv'
<1>1. /\ link' = [link EXCEPT ![k] = "closed"]
      /\ inflight' = [inflight EXCEPT ![k] = [i \in DOMAIN @ |-> [@[i] EXCEPT !.lost = TRUE]]]
      /\ subscribed' = (IF k = "sub" THEN {} ELSE subscribed)
      /\ UNCHANGED <<ready, desired, acked, pendingUnsub, pubHealthy, status, destroyed, denied>>
      /\ StatusTrue /\ Offline /\ MessengerInv
      /\ SubInv(link["sub"], inflight["sub"], desired, acked, pendingUnsub, subscribed, denied)
  BY DEF Sound, DeliveryInv, SocketLost
<1>2. link \in [Kind -> Link] /\ inflight = [m \in Kind |-> inflight[m]]
  BY <1>1 DEF MessengerInv, StateTypes, Queued
<1>3. StatusTrue'
  BY <1>1 DEF StatusTrue, SubscriberHealthy, PublisherHealthy
<1>4. CASE k = "pub"
  <2>1. link'["sub"] = link["sub"] /\ inflight'["sub"] = inflight["sub"] /\ subscribed' = subscribed
    BY <1>1, <1>2, <1>4 DEF Kind
  <2> QED BY <1>1, <1>3, <2>1 DEF DeliveryInv, Offline
<1>5. CASE k = "sub"
  <2>1. link'["sub"] = "closed" /\ subscribed' = {}
    BY <1>1, <1>2, <1>5 DEF Kind
  <2>2. Lost(inflight'["sub"])
    <3>1. inflight'["sub"] = [i \in DOMAIN inflight["sub"] |-> [inflight["sub"][i] EXCEPT !.lost = TRUE]]
      BY <1>1, <1>2, <1>5 DEF Kind
    <3>2. \A i \in DOMAIN inflight["sub"] : inflight["sub"][i] \in Command
      BY <1>1, SubscriberQueue
    <3> QED BY <3>1, <3>2 DEF Lost, Command
  <2> QED BY <1>3, <2>1, <2>2 DEF DeliveryInv, SubInv, Offline
<1> QED BY <1>4, <1>5 DEF Kind

LEMMA OnDownDelivers == ASSUME Sound, NEW k \in Kind, OnDown(k) PROVE DeliveryInv'
<1>1. /\ link[k] = "closed" /\ link' = [link EXCEPT ![k] = "down"]
      /\ UNCHANGED <<subscribed, denied, desired, pendingUnsub, destroyed>> /\ UpdateStatus(timer)
      /\ Offline /\ MessengerInv
      /\ SubInv(link["sub"], inflight["sub"], desired, acked, pendingUnsub, subscribed, denied)
  BY DEF Sound, DeliveryInv, OnDown, redisVars
<1>2. link \in [Kind -> Link] /\ ready \in [Kind -> BOOLEAN] /\ inflight = [m \in Kind |-> inflight[m]]
  BY <1>1 DEF MessengerInv, StateTypes, Queued
<1>3. StatusTrue'
  BY <1>1 DEF UpdateStatus, StatusTrue
<1>4. /\ ready' = [ready EXCEPT ![k] = FALSE]
      /\ \/ inflight' = inflight
         \/ inflight' = [inflight EXCEPT ![k] = Outdated(@)]
      /\ k = "pub" => acked' = acked
  BY <1>2 DEF OnDown, Acknowledged
<1>5. CASE k = "pub"
  <2>1. link'["sub"] = link["sub"] /\ ready'["sub"] = ready["sub"] /\ inflight'["sub"] = inflight["sub"] /\ acked' = acked
    BY <1>1, <1>2, <1>4, <1>5 DEF Kind
  <2> QED BY <1>1, <1>3, <2>1 DEF DeliveryInv, Offline
<1>6. CASE k = "sub"
  <2>1. link'["sub"] = "down" /\ ~ready'["sub"] /\ subscribed' = {} /\ Lost(inflight["sub"])
    BY <1>1, <1>2, <1>4, <1>6 DEF Kind, SubInv
  <2>2. Lost(inflight'["sub"])
    <3>1. \/ inflight'["sub"] = inflight["sub"]
          \/ inflight'["sub"] = [i \in DOMAIN inflight["sub"] |-> [inflight["sub"][i] EXCEPT !.stale = TRUE]]
      BY <1>2, <1>4, <1>6, ZenonT(40) DEF Kind, Outdated
    <3>2. \A i \in DOMAIN inflight["sub"] : inflight["sub"][i] \in Command
      BY <1>1, SubscriberQueue
    <3> QED BY <2>1, <3>1, <3>2 DEF Lost, Command
  <2> QED BY <1>3, <2>1, <2>2 DEF DeliveryInv, SubInv, Offline
<1> QED BY <1>5, <1>6 DEF Kind

LEMMA StepDelivers == MessengerInv /\ DeliveryInv /\ [Next]_vars => DeliveryInv'
<1>1. SUFFICES ASSUME Sound, [Next]_vars PROVE DeliveryInv'
  BY DEF Sound
<1>2. CASE UNCHANGED vars
  <2>1. UNCHANGED <<link, ready, inflight, desired, acked, pendingUnsub, pubHealthy, status, destroyed,
                    subscribed, denied>>
    BY <1>2 DEF vars
  <2> QED BY <1>1, <2>1 DEF Sound, DeliveryInv, StatusTrue, SubscriberHealthy, PublisherHealthy, Offline
<1> QED BY <1>1, <1>2, CallDelivers, PublishDelivers, DestroyDelivers, RecoveryTimerDelivers, AnswerDelivers,
           FlushDelivers, TimeoutDelivers, OnReadyDelivers, SocketLostDelivers, OnDownDelivers DEF Next

LEMMA InitDelivers == Init => DeliveryInv
<1>1. SUFFICES ASSUME Init PROVE DeliveryInv
  OBVIOUS
<1>2. link["sub"] = "down" /\ ~ready["sub"] /\ inflight["sub"] = <<>> /\ subscribed = {} /\ ~status
  BY <1>1 DEF Init, Kind
<1>3. Lost(inflight["sub"])
  BY <1>2 DEF Lost
<1> QED BY <1>2, <1>3 DEF DeliveryInv, StatusTrue, Offline, SubInv

\* An available status is true: whatever calls, recoveries, drops, stalls and
\* refusals came before, Redis delivers exactly the channels that are wanted, but
\* for those with a command under way.
THEOREM AvailableIsTrue == Spec => []AvailableDelivers
<1>1. ASSUME DeliveryInv, MessengerInv PROVE AvailableDelivers
  <2>1. SUFFICES ASSUME status, ~destroyed, link["sub"] = "up", NEW c \in Channels,
                        \A i \in DOMAIN inflight["sub"] : inflight["sub"][i].what # c
                 PROVE  c \in subscribed <=> c \in desired
    BY DEF AvailableDelivers
  <2>2. Subscribing(inflight["sub"], c) = {} /\ Ending(inflight["sub"], c) = {}
    BY <2>1 DEF Subscribing, Ending, Unsubscribing
  <2>3. pendingUnsub = {} /\ desired \subseteq acked
    BY <1>1, <2>1 DEF DeliveryInv, StatusTrue, SubscriberHealthy
  <2>4. IF c \in desired THEN WantedChannel(c, inflight["sub"], acked, subscribed, denied)
                         ELSE UnwantedChannel(c, inflight["sub"], pendingUnsub, subscribed)
    BY <1>1, <2>1 DEF DeliveryInv, SubInv
  <2> QED BY <2>2, <2>3, <2>4 DEF WantedChannel, UnwantedChannel
<1> QED BY <1>1, MessengerInvariant, InitDelivers, StepDelivers, PTL DEF Spec
==================================================================================
