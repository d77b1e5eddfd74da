---------------------------- MODULE ConfinedProofs ----------------------------
(***************************************************************************)
(* Theorems about the confined extension supervisor.                       *)
(*                                                                         *)
(* ConfinedSlots, for any set of calls and any limit: types, the exactness *)
(* of the slot count and of the queue, and the life cycle of the children's*)
(* cgroups.                                                                *)
(*                                                                         *)
(* ConfinedSession, for any limits and any number of frames: types, the    *)
(* host-call limits, one answer per call, and what settlement guarantees   *)
(* about the work and the result.                                          *)
(***************************************************************************)
EXTENDS ConfinedSlots, ConfinedSession, FiniteSetTheorems, SequenceTheorems, TLAPS

-----------------------------------------------------------------------------
(* The gate: ConfinedSlots. *)

\* The queue.

Distinct(s) == \A j, k \in DOMAIN s : s[j] = s[k] => j = k

\* In a sequence without repetition, RemoveFirst removes the one occurrence.
LEMMA RemoveFirstAt ==
  ASSUME NEW S, NEW s \in Seq(S), Distinct(s), NEW j \in 1..Len(s)
  PROVE  RemoveFirst(s, s[j]) = RemoveAt(s, j)
<1> DEFINE I == {k \in 1..Len(s) : s[k] = s[j]}
<1>1. I = {j}
  BY DEF Distinct
<1>2. Min(I) = j
  BY <1>1 DEF Min
<1> QED
  BY <1>1, <1>2 DEF RemoveFirst, SelectInSeq

\* Removing one place shifts the places after it.
LEMMA RemoveAtShifts ==
  ASSUME NEW S, NEW s \in Seq(S), NEW j \in 1..Len(s)
  PROVE  /\ RemoveAt(s, j) \in Seq(S)
         /\ Len(RemoveAt(s, j)) = Len(s) - 1
         /\ \A k \in 1..(Len(s) - 1) :
               RemoveAt(s, j)[k] = IF k < j THEN s[k] ELSE s[k + 1]
<1> DEFINE a == SubSeq(s, 1, j - 1)
           b == SubSeq(s, j + 1, Len(s))
<1>1. /\ a \in Seq(S) /\ Len(a) = j - 1
      /\ \A k \in 1..(j - 1) : a[k] = s[k]
  OBVIOUS
<1>2. /\ b \in Seq(S) /\ Len(b) = Len(s) - j
      /\ \A k \in 1..(Len(s) - j) : b[k] = s[j + k]
  OBVIOUS
<1> DEFINE c == a \o b
<1>3. /\ c \in Seq(S) /\ Len(c) = Len(a) + Len(b)
      /\ \A k \in 1..(Len(a) + Len(b)) : c[k] = IF k <= Len(a) THEN a[k] ELSE b[k - Len(a)]
  <2> HIDE DEF a, b
  <2> QED
    BY <1>1, <1>2, ConcatProperties
<1> HIDE DEF a, b, c
<1>4. ASSUME NEW k \in 1..(Len(s) - 1)
      PROVE  c[k] = IF k < j THEN s[k] ELSE s[k + 1]
  <2>1. c[k] = IF k <= j - 1 THEN a[k] ELSE b[k - (j - 1)]
    BY <1>1, <1>2, <1>3
  <2>2. CASE k < j
    BY <2>1, <2>2, <1>1
  <2>3. CASE ~(k < j)
    <3>1. k - (j - 1) \in 1..(Len(s) - j) /\ j + (k - (j - 1)) = k + 1
      BY <2>3
    <3>2. b[k - (j - 1)] = s[k + 1]
      BY <3>1, <1>2
    <3> QED
      BY <2>1, <2>3, <3>2
  <2> QED
    BY <2>2, <2>3
<1>5. Len(c) = Len(s) - 1
  BY <1>1, <1>2, <1>3
<1> QED
  BY <1>3, <1>4, <1>5 DEF RemoveAt, a, b, c

\* Removing the one occurrence of an element leaves the others, each once.
LEMMA RemoveFromQueue ==
  ASSUME NEW S, NEW s \in Seq(S), Distinct(s), NEW e \in ToSet(s)
  PROVE  /\ RemoveFirst(s, e) \in Seq(S)
         /\ Distinct(RemoveFirst(s, e))
         /\ ToSet(RemoveFirst(s, e)) = ToSet(s) \ {e}
<1>1. PICK j \in 1..Len(s) : s[j] = e
  BY DEF ToSet
<1> DEFINE r == RemoveAt(s, j)
<1>2. RemoveFirst(s, e) = r
  BY <1>1, RemoveFirstAt
<1>3. /\ r \in Seq(S) /\ Len(r) = Len(s) - 1
      /\ \A k \in 1..(Len(s) - 1) : r[k] = IF k < j THEN s[k] ELSE s[k + 1]
  BY RemoveAtShifts
<1> HIDE DEF r
<1> DEFINE at(k) == IF k < j THEN k ELSE k + 1
<1>a. ASSUME NEW k \in 1..(Len(s) - 1)
      PROVE  at(k) \in 1..Len(s) /\ r[k] = s[at(k)]
  <2>1. at(k) \in 1..Len(s)
    OBVIOUS
  <2>2. CASE k < j
    BY <1>3, <2>1, <2>2
  <2>3. CASE ~(k < j)
    BY <1>3, <2>1, <2>3
  <2> QED
    BY <2>2, <2>3
<1>b. \A k, l \in 1..(Len(s) - 1) : at(k) = at(l) => k = l
  OBVIOUS
<1> HIDE DEF at
<1>4. Distinct(r)
  BY <1>3, <1>a, <1>b DEF Distinct
<1>5. ToSet(r) \subseteq ToSet(s) \ {e}
  BY <1>1, <1>3, SMTT(30) DEF ToSet, Distinct
<1>6. ASSUME NEW x \in ToSet(s) \ {e}
      PROVE  x \in ToSet(r)
  <2>1. PICK k \in 1..Len(s) : s[k] = x
    BY DEF ToSet
  <2>2. k # j
    BY <2>1, <1>1
  <2>3. CASE k < j
    BY <2>1, <2>3, <1>3 DEF ToSet
  <2>4. CASE k > j
    <3>1. k - 1 \in 1..(Len(s) - 1) /\ r[k - 1] = s[k]
      BY <2>4, <1>3
    <3> QED
      BY <2>1, <3>1, <1>3 DEF ToSet
  <2> QED
    BY <2>2, <2>3, <2>4
<1> QED
  BY <1>2, <1>3, <1>4, <1>5, <1>6

\* Appending a new element.
LEMMA AppendToQueue ==
  ASSUME NEW S, NEW s \in Seq(S), Distinct(s), NEW e \in S, e \notin ToSet(s)
  PROVE  /\ Append(s, e) \in Seq(S)
         /\ Distinct(Append(s, e))
         /\ ToSet(Append(s, e)) = ToSet(s) \cup {e}
<1> DEFINE r == Append(s, e)
<1>1. /\ r \in Seq(S) /\ Len(r) = Len(s) + 1 /\ r[Len(s) + 1] = e
      /\ \A k \in 1..Len(s) : r[k] = s[k]
  OBVIOUS
<1> HIDE DEF r
<1>2. Distinct(r)
  BY <1>1 DEF Distinct, ToSet
<1>3. ToSet(r) = ToSet(s) \cup {e}
  BY <1>1 DEF ToSet
<1> QED
  BY <1>1, <1>2, <1>3 DEF r

\* Taking the head.
LEMMA ShiftQueue ==
  ASSUME NEW S, NEW s \in Seq(S), Distinct(s), s # <<>>
  PROVE  /\ Tail(s) \in Seq(S)
         /\ Distinct(Tail(s))
         /\ Head(s) \in ToSet(s)
         /\ ToSet(Tail(s)) = ToSet(s) \ {Head(s)}
<1> DEFINE r == Tail(s)
<1>1. /\ r \in Seq(S) /\ Len(r) = Len(s) - 1 /\ Len(s) >= 1 /\ Head(s) = s[1]
      /\ \A k \in 1..(Len(s) - 1) : r[k] = s[k + 1]
  OBVIOUS
<1> HIDE DEF r
<1>2. Distinct(r)
  BY <1>1, SMTT(30) DEF Distinct
<1>3. ToSet(r) \subseteq ToSet(s) \ {Head(s)}
  BY <1>1 DEF ToSet, Distinct
<1>4. ASSUME NEW x \in ToSet(s) \ {Head(s)}
      PROVE  x \in ToSet(r)
  <2>1. PICK k \in 1..Len(s) : s[k] = x
    BY DEF ToSet
  <2>2. k - 1 \in 1..(Len(s) - 1) /\ r[k - 1] = s[k]
    BY <2>1, <1>1
  <2> QED
    BY <2>1, <2>2, <1>1 DEF ToSet
<1>5. Head(s) \in ToSet(s)
  BY <1>1 DEF ToSet
<1> QED
  BY <1>1, <1>2, <1>3, <1>4, <1>5 DEF r

-----------------------------------------------------------------------------
\* The slots and the queue.

GateInv == SlotsTypeOK /\ SlotsExact /\ NoIdleSlot /\ QueueExact

LEMMA GateInit == SlotsInit => GateInv
<1> SUFFICES ASSUME SlotsInit PROVE GateInv
  OBVIOUS
<1>1. SlotsTypeOK
  BY DEF SlotsInit, SlotsTypeOK, Phase, Process, Cgroup
<1>2. Holders = {} /\ Cardinality(Holders) = 0
  BY FS_EmptySet DEF SlotsInit, Holders
<1>3. SlotsExact
  BY <1>2, SlotsAssumption DEF SlotsInit, SlotsExact
<1>4. NoIdleSlot /\ QueueExact
  BY DEF SlotsInit, NoIdleSlot, QueueExact, ToSet
<1> QED
  BY <1>1, <1>3, <1>4 DEF GateInv

\* The holders are finitely many, and their number changes with the set.
LEMMA CountHolders ==
  ASSUME NEW i \in Invocations
  PROVE  /\ Cardinality(Holders) \in Nat
         /\ i \notin Holders => Cardinality(Holders \cup {i}) = Cardinality(Holders) + 1
         /\ i \in Holders => Cardinality(Holders \ {i}) = Cardinality(Holders) - 1
         /\ i \in Holders => Cardinality(Holders) >= 1
<1>1. IsFiniteSet(Holders)
  BY SlotsAssumption, FS_Subset DEF Holders
<1>2. Cardinality(Holders) \in Nat
  BY <1>1, FS_CardinalityType
<1>3. i \notin Holders => Cardinality(Holders \cup {i}) = Cardinality(Holders) + 1
  BY <1>1, FS_AddElement
<1>4. /\ IsFiniteSet(Holders \ {i})
      /\ i \in Holders => Cardinality(Holders \ {i}) = Cardinality(Holders) - 1
  BY <1>1, FS_RemoveElement
<1>5. Cardinality(Holders \ {i}) \in Nat
  BY <1>4, FS_CardinalityType
<1>6. i \in Holders => Cardinality(Holders) >= 1
  BY <1>2, <1>4, <1>5
<1> QED
  BY <1>2, <1>3, <1>4, <1>6

\* A call moves, and neither the holders nor the waiting calls change.
LEMMA GateUntouched ==
  ASSUME GateInv, SlotsTypeOK', UNCHANGED <<active, waiters>>, Holders' = Holders,
         \A k \in Invocations : phase'[k] = "queued" <=> phase[k] = "queued"
  PROVE  GateInv'
<1>1. SlotsExact'
  BY DEF GateInv, SlotsExact
<1>2. NoIdleSlot'
  BY DEF GateInv, NoIdleSlot
<1>3. QueueExact'
  BY DEF GateInv, QueueExact
<1> QED
  BY <1>1, <1>2, <1>3 DEF GateInv

LEMMA TakeSlotGate ==
  ASSUME GateInv, NEW i \in Invocations, TakeSlot(i)
  PROVE  GateInv'
<1>1. SlotsTypeOK'
  BY DEF GateInv, SlotsTypeOK, TakeSlot, Phase
<1>2. Holders' = Holders \cup {i} /\ i \notin Holders
  BY DEF GateInv, SlotsTypeOK, TakeSlot, Holders
<1>3. SlotsExact'
  BY <1>2, CountHolders, SlotsAssumption DEF GateInv, SlotsTypeOK, TakeSlot, SlotsExact
<1>4. NoIdleSlot'
  BY SlotsAssumption DEF GateInv, SlotsTypeOK, TakeSlot, NoIdleSlot
<1>5. QueueExact'
  BY DEF GateInv, SlotsTypeOK, TakeSlot, QueueExact
<1> QED
  BY <1>1, <1>3, <1>4, <1>5 DEF GateInv

LEMMA EnqueueGate ==
  ASSUME GateInv, NEW i \in Invocations, Enqueue(i)
  PROVE  GateInv'
<1>1. waiters \in Seq(Invocations) /\ Distinct(waiters) /\ i \notin ToSet(waiters)
  BY DEF GateInv, SlotsTypeOK, Enqueue, QueueExact, Distinct
<1>2. /\ waiters' \in Seq(Invocations) /\ Distinct(waiters')
      /\ ToSet(waiters') = ToSet(waiters) \cup {i}
  BY <1>1, AppendToQueue DEF Enqueue
<1>3. SlotsTypeOK'
  BY <1>2 DEF GateInv, SlotsTypeOK, Enqueue, Phase
<1>4. Holders' = Holders
  BY DEF GateInv, SlotsTypeOK, Enqueue, Holders
<1>5. SlotsExact'
  BY <1>4 DEF GateInv, Enqueue, SlotsExact
<1>6. NoIdleSlot'
  BY SlotsAssumption DEF GateInv, SlotsTypeOK, Enqueue, NoIdleSlot, SlotsExact
<1>7. {k \in Invocations : phase'[k] = "queued"} = ToSet(waiters) \cup {i}
  BY DEF GateInv, SlotsTypeOK, Enqueue, QueueExact
<1>8. QueueExact'
  BY <1>2, <1>7 DEF QueueExact, Distinct
<1> QED
  BY <1>3, <1>5, <1>6, <1>8 DEF GateInv

LEMMA GiveUpGate ==
  ASSUME GateInv, NEW i \in Invocations, GiveUp(i)
  PROVE  GateInv'
<1>1. waiters \in Seq(Invocations) /\ Distinct(waiters) /\ i \in ToSet(waiters)
  BY DEF GateInv, SlotsTypeOK, GiveUp, QueueExact, Distinct
<1>2. /\ waiters' \in Seq(Invocations) /\ Distinct(waiters')
      /\ ToSet(waiters') = ToSet(waiters) \ {i}
  BY <1>1, RemoveFromQueue DEF GiveUp, Withdrawn
<1>3. SlotsTypeOK'
  BY <1>2 DEF GateInv, SlotsTypeOK, GiveUp, Phase
<1>4. Holders' = Holders
  BY DEF GateInv, SlotsTypeOK, GiveUp, Holders
<1>5. SlotsExact'
  BY <1>4 DEF GateInv, GiveUp, SlotsExact
<1>6. waiters # <<>>
  BY <1>1 DEF ToSet
<1>7. NoIdleSlot'
  BY <1>6 DEF GateInv, GiveUp, NoIdleSlot
<1>8. {k \in Invocations : phase'[k] = "queued"} = ToSet(waiters) \ {i}
  BY DEF GateInv, SlotsTypeOK, GiveUp, QueueExact
<1>9. QueueExact'
  BY <1>2, <1>8 DEF QueueExact, Distinct
<1> QED
  BY <1>3, <1>5, <1>7, <1>9 DEF GateInv

LEMMA ReleaseGate ==
  ASSUME GateInv, NEW i \in Invocations, Release(i)
  PROVE  GateInv'
<1> USE DEF GateInv
<1>0. i \in Holders /\ phase[i] # "queued"
  BY DEF SlotsTypeOK, Release, Holders
<1>1. CASE waiters = <<>>
  <2>1. /\ waiters' = <<>> /\ active' = active - 1 /\ process' = process /\ cgroup' = cgroup
        /\ phase' = [phase EXCEPT ![i] = "done"]
    BY <1>1 DEF Release
  <2>2. Holders' = Holders \ {i}
    BY <2>1 DEF SlotsTypeOK, Holders
  <2>3. active' = Cardinality(Holders') /\ active' \in Nat /\ active' <= MaxProcesses
    <3>1. /\ Cardinality(Holders) \in Nat /\ Cardinality(Holders) >= 1
          /\ Cardinality(Holders') = Cardinality(Holders) - 1
      BY <1>0, <2>2, CountHolders
    <3>2. active = Cardinality(Holders) /\ active <= MaxProcesses
      BY DEF SlotsExact
    <3> QED
      BY <2>1, <3>1, <3>2, SlotsAssumption
  <2>4. SlotsTypeOK'
    BY <1>1, <2>1, <2>3 DEF SlotsTypeOK, Phase
  <2>5. {k \in Invocations : phase'[k] = "queued"} = {k \in Invocations : phase[k] = "queued"}
    BY <1>0, <2>1 DEF SlotsTypeOK
  <2>6. QueueExact'
    BY <1>1, <2>1, <2>5 DEF QueueExact
  <2> QED
    BY <2>1, <2>3, <2>4, <2>6 DEF SlotsExact, NoIdleSlot
<1>2. CASE waiters # <<>>
  <2> DEFINE h == Head(waiters)
  <2>1. /\ waiters' = Tail(waiters) /\ UNCHANGED <<active, process, cgroup>>
        /\ phase' = [phase EXCEPT ![i] = "done", ![h] = "granted"]
    BY <1>2 DEF Release
  <2>2. /\ waiters' \in Seq(Invocations) /\ Distinct(waiters')
        /\ h \in ToSet(waiters) /\ ToSet(waiters') = ToSet(waiters) \ {h}
    BY <1>2, <2>1, ShiftQueue DEF SlotsTypeOK, QueueExact, Distinct
  <2>3. h \in Invocations /\ phase[h] = "queued" /\ h # i
    BY <1>0, <2>2 DEF QueueExact
  <2> HIDE DEF h
  <2>4. SlotsTypeOK'
    BY <2>1, <2>2, <2>3 DEF SlotsTypeOK, Phase
  <2>5. Holders' = (Holders \ {i}) \cup {h} /\ h \notin Holders
    BY <2>1, <2>3 DEF SlotsTypeOK, Holders
  <2>6. IsFiniteSet(Holders) /\ IsFiniteSet(Holders \ {i})
    BY SlotsAssumption, FS_Subset DEF Holders
  <2>7. Cardinality(Holders') = Cardinality(Holders \ {i}) + 1
    BY <2>5, <2>6, FS_AddElement
  <2>8. SlotsExact'
    BY <1>0, <2>1, <2>7, CountHolders DEF SlotsExact
  <2>9. NoIdleSlot'
    BY <1>2, <2>1 DEF NoIdleSlot
  <2>10. {k \in Invocations : phase'[k] = "queued"} = ToSet(waiters) \ {h}
    BY <1>0, <2>1, <2>3 DEF SlotsTypeOK, QueueExact
  <2>11. QueueExact'
    BY <2>2, <2>10 DEF QueueExact, Distinct
  <2> QED
    BY <2>4, <2>8, <2>9, <2>11
<1> QED
  BY <1>1, <1>2

\* The steps of the child, and a call rejected as busy, leave the gate alone.
LEMMA OtherGate ==
  ASSUME GateInv, NEW i \in Invocations,
         RejectBusy(i) \/ Spawn(i) \/ SpawnThrows(i) \/ Settle(i) \/ ProcessExits(i)
  PROVE  GateInv'
<1> USE DEF GateInv
<1>0. RemoveCgroup(i) \in [Invocations -> Cgroup] /\ CgroupOnSettle(i) \in [Invocations -> Cgroup]
  BY DEF SlotsTypeOK, RemoveCgroup, CgroupOnSettle, Cgroup
<1>1. CASE RejectBusy(i)
  <2>1. SlotsTypeOK' /\ UNCHANGED <<active, waiters>>
    BY <1>1 DEF RejectBusy, SlotsTypeOK, Phase
  <2>2. Holders' = Holders
    BY <1>1 DEF RejectBusy, SlotsTypeOK, Holders
  <2>3. \A k \in Invocations : phase'[k] = "queued" <=> phase[k] = "queued"
    BY <1>1 DEF RejectBusy, SlotsTypeOK
  <2> QED
    BY <2>1, <2>2, <2>3, GateUntouched
<1>2. CASE Spawn(i) \/ SpawnThrows(i)
  <2>1. SlotsTypeOK' /\ UNCHANGED <<active, waiters>>
    BY <1>2 DEF Spawn, SpawnThrows, SlotsTypeOK, Phase, Process, Cgroup
  <2>2. Holders' = Holders
    BY <1>2 DEF Spawn, SpawnThrows, SlotsTypeOK, Holders
  <2>3. \A k \in Invocations : phase'[k] = "queued" <=> phase[k] = "queued"
    BY <1>2 DEF Spawn, SpawnThrows, SlotsTypeOK
  <2> QED
    BY <2>1, <2>2, <2>3, GateUntouched
<1>3. CASE Settle(i)
  <2>1. SlotsTypeOK' /\ UNCHANGED <<active, waiters>>
    BY <1>0, <1>3 DEF Settle, SlotsTypeOK, Phase
  <2>2. Holders' = Holders
    BY <1>3 DEF Settle, SlotsTypeOK, Holders
  <2>3. \A k \in Invocations : phase'[k] = "queued" <=> phase[k] = "queued"
    BY <1>3 DEF Settle, SlotsTypeOK
  <2> QED
    BY <2>1, <2>2, <2>3, GateUntouched
<1>4. CASE ProcessExits(i)
  <2>1. SlotsTypeOK' /\ UNCHANGED <<phase, active, waiters>>
    BY <1>0, <1>4 DEF ProcessExits, SlotsTypeOK, Process
  <2>2. Holders' = Holders
    BY <2>1 DEF Holders
  <2> QED
    BY <2>1, <2>2, GateUntouched
<1> QED
  BY <1>1, <1>2, <1>3, <1>4

LEMMA GateStep == GateInv /\ [SlotsNext]_slotVars => GateInv'
<1> SUFFICES ASSUME GateInv, [SlotsNext]_slotVars PROVE GateInv'
  OBVIOUS
<1>1. CASE SlotsNext
  BY <1>1, TakeSlotGate, EnqueueGate, GiveUpGate, ReleaseGate, OtherGate DEF SlotsNext
<1>2. CASE UNCHANGED slotVars
  <2>1. SlotsTypeOK' /\ Holders' = Holders
    BY <1>2 DEF slotVars, GateInv, SlotsTypeOK, Holders
  <2> QED
    BY <1>2, <2>1, GateUntouched DEF slotVars
<1> QED
  BY <1>1, <1>2

LEMMA GateAlways == SlotsSpec => []GateInv
  BY GateInit, GateStep, PTL DEF SlotsSpec

\* Every reachable state is well typed, for any set of calls and any limit.
THEOREM SlotTypes == SlotsSpec => []SlotsTypeOK
  BY GateAlways, PTL DEF GateInv

\* `active` is the number of calls holding a slot and stays within maxProcesses;
\* while a call queues no slot is free; and the queue holds the waiting calls,
\* each once, so that a release finds the waiter it must serve.
THEOREM PoolCounted == SlotsSpec => []PoolExact
<1>1. GateInv => PoolExact
  BY DEF GateInv, PoolExact
<1> QED
  BY <1>1, GateAlways, PTL

-----------------------------------------------------------------------------
\* The life of a call's child and cgroup: nothing exists before the spawn.

CallInv(i) ==
  /\ phase[i] \in {"new", "queued", "granted"} => process[i] = "none" /\ cgroup[i] = "none"
  /\ cgroup[i] = "removed" => process[i] = "exited"
  /\ process[i] = "exited" /\ phase[i] \in {"settled", "done"} => cgroup[i] # "present"

LifeInv == \A i \in Invocations : CallInv(i)

\* A call keeps its invariant when its child and cgroup do not change and it
\* does not turn settled or done with an exited child, nor back.
LEMMA CallKept ==
  ASSUME NEW i \in Invocations, CallInv(i), process'[i] = process[i], cgroup'[i] = cgroup[i],
         \/ phase'[i] = phase[i]
         \/ phase[i] \in {"new", "queued", "granted"}
         \/ phase[i] = "settled" /\ phase'[i] = "done"
  PROVE  CallInv(i)'
  BY DEF CallInv

LEMMA LifeStep == GateInv /\ LifeInv /\ [SlotsNext]_slotVars => LifeInv'
<1> SUFFICES ASSUME GateInv, LifeInv, [SlotsNext]_slotVars, NEW c \in Invocations
             PROVE  CallInv(c)'
  BY DEF LifeInv
<1> USE DEF GateInv
<1>0. CallInv(c)
  BY DEF LifeInv
<1>1. ASSUME NEW i \in Invocations,
             TakeSlot(i) \/ RejectBusy(i) \/ Enqueue(i) \/ GiveUp(i)
      PROVE  CallInv(c)'
  <2>1. UNCHANGED <<process, cgroup>>
    BY <1>1 DEF TakeSlot, RejectBusy, Enqueue, GiveUp
  <2>2. phase'[c] = phase[c] \/ phase[c] \in {"new", "queued"}
    BY <1>1 DEF TakeSlot, RejectBusy, Enqueue, GiveUp, SlotsTypeOK
  <2> QED
    BY <1>0, <2>1, <2>2, CallKept
<1>2. ASSUME NEW i \in Invocations, Release(i)
      PROVE  CallInv(c)'
  <2>1. UNCHANGED <<process, cgroup>> /\ phase[i] = "settled"
    BY <1>2 DEF Release
  <2>2. waiters # <<>> => phase[Head(waiters)] = "queued"
    BY ShiftQueue DEF SlotsTypeOK, QueueExact, Distinct
  <2>3. \/ phase'[c] = phase[c]
        \/ phase[c] = "settled" /\ phase'[c] = "done"
        \/ phase[c] = "queued"
    BY <1>2, <2>1, <2>2 DEF Release, SlotsTypeOK
  <2> QED
    BY <1>0, <2>1, <2>3, CallKept
<1>3. ASSUME NEW i \in Invocations, Spawn(i) \/ SpawnThrows(i)
      PROVE  CallInv(c)'
  BY <1>0, <1>3 DEF Spawn, SpawnThrows, CallInv, SlotsTypeOK
<1>4. ASSUME NEW i \in Invocations, Settle(i)
      PROVE  CallInv(c)'
  BY <1>0, <1>4 DEF Settle, CgroupOnSettle, RemoveCgroup, CallInv, SlotsTypeOK
<1>5. ASSUME NEW i \in Invocations, ProcessExits(i)
      PROVE  CallInv(c)'
  BY <1>0, <1>5 DEF ProcessExits, RemoveCgroup, CallInv, SlotsTypeOK, Phase
<1>6. CASE UNCHANGED slotVars
  BY <1>0, <1>6, CallKept DEF slotVars
<1> QED
  BY <1>1, <1>2, <1>3, <1>4, <1>5, <1>6 DEF SlotsNext

\* A cgroup outlives its child and is removed once the child is gone, whichever
\* of the exit and the settlement is seen first (removeCgroupWhenExited).
THEOREM CgroupsFollowChildren == SlotsSpec => []CgroupRules
<1>1. SlotsInit => LifeInv
  BY DEF SlotsInit, LifeInv, CallInv
<1>2. LifeInv => CgroupRules
  BY DEF LifeInv, CallInv, CgroupRules, CgroupOutlivesChild, CgroupReclaimed
<1> QED
  BY <1>1, <1>2, LifeStep, GateAlways, PTL DEF SlotsSpec

\* Slots and cgroups are held as long as they must be and no longer (supervisor.ts).
THEOREM SlotsFollowCalls == SlotsSpec => []SlotRules
BY PoolCounted, CgroupsFollowChildren, PTL DEF SlotRules

-----------------------------------------------------------------------------
(* One session: ConfinedSession. *)

\* The inductive invariant.

\* A call whose frame was not read yet has left no trace.
Fresh(k) == work[k] = "none" /\ ~waits[k] /\ replies[k] = 0

\* Each host call is in the channel at most once, and only before it is served.
PipeInv ==
  /\ \A j \in DOMAIN pipe :
        pipe[j].type = "call" => pipe[j].id <= written.calls /\ Fresh(pipe[j].id)
  /\ \A j, l \in DOMAIN pipe :
        pipe[j].type = "call" /\ pipe[l].type = "call" /\ pipe[j].id = pipe[l].id => j = l
  /\ \A k \in Call : k > written.calls => Fresh(k)

\* A call that still waits is being worked on and was not answered.
WaitInv == \A k \in Call : /\ waits[k] => work[k] = "running" /\ replies[k] = 0
                           /\ replies[k] <= 1

Dispatched == {k \in Call : work[k] # "none"}

\* Every dispatched call was counted, within the budget.
BudgetInv == Cardinality(Dispatched) <= total /\ Cardinality(Dispatched) <= MaxHostCalls

\* Until the session settles an unread result is in the channel, and a crash
\* without a violation means that the child ended without one.
ResultInv ==
  /\ ~Settled /\ written.done => \E j \in DOMAIN pipe : pipe[j].type = "done"
  /\ outcome = "crash" /\ ~violated => child = "exited" /\ ~written.done

SessionInv == /\ TypeOK /\ PipeInv /\ WaitInv /\ InFlightExact /\ BudgetInv
              /\ SettledAborts /\ ResultInv

-----------------------------------------------------------------------------
\* Counting.

LEMMA CallFinite == IsFiniteSet(Call)
<1>1. 1 \in Int /\ CallFrames \in Int
  BY SessionAssumption
<1> QED
  BY <1>1, FS_Interval DEF Call

LEMMA CountAdd ==
  ASSUME NEW S \in SUBSET Call, NEW k \in Call
  PROVE  /\ Cardinality(S) \in Nat
         /\ k \notin S => Cardinality(S \cup {k}) = Cardinality(S) + 1
<1>1. IsFiniteSet(S)
  BY CallFinite, FS_Subset
<1>2. Cardinality(S) \in Nat
  BY <1>1, FS_CardinalityType
<1> QED
  BY <1>1, <1>2, FS_AddElement

LEMMA CountRemove ==
  ASSUME NEW S \in SUBSET Call, NEW k \in S
  PROVE  /\ Cardinality(S \ {k}) = Cardinality(S) - 1
         /\ Cardinality(S \ {k}) \in Nat /\ Cardinality(S) \in Nat
<1>1. IsFiniteSet(S) /\ IsFiniteSet(S \ {k})
  BY CallFinite, FS_Subset
<1>2. Cardinality(S \ {k}) \in Nat /\ Cardinality(S) \in Nat
  BY <1>1, FS_CardinalityType
<1> QED
  BY <1>1, <1>2, FS_RemoveElement

LEMMA SessionInit == Init => SessionInv
<1> SUFFICES ASSUME Init PROVE SessionInv
  OBVIOUS
<1>1. TypeOK
  <2>1. written \in [calls : 0..CallFrames, done : BOOLEAN]
    BY SessionAssumption DEF Init
  <2>2. /\ work \in [Call -> {"none", "running", "finished"}]
        /\ waits \in [Call -> BOOLEAN] /\ aborted \in [Call -> BOOLEAN]
        /\ replies \in [Call -> Nat]
    BY DEF Init
  <2>3. pipe \in Seq(Frame)
    BY DEF Init
  <2> QED
    BY <2>1, <2>2, <2>3 DEF Init, TypeOK, Outcome
<1>2. PipeInv /\ WaitInv
  BY DEF Init, PipeInv, WaitInv, Fresh, Call
<1>3. Working = {} /\ Dispatched = {}
  BY DEF Init, Working, Dispatched
<1>4. InFlightExact /\ BudgetInv
  BY <1>3, FS_EmptySet, SessionAssumption DEF Init, InFlightExact, BudgetInv
<1>5. SettledAborts /\ ResultInv
  BY DEF Init, SettledAborts, ResultInv, Settled
<1> QED
  BY <1>1, <1>2, <1>4, <1>5 DEF SessionInv

-----------------------------------------------------------------------------
\* Steps.

\* Appending a frame to the channel, or reading the first one.
LEMMA PipeAppend ==
  ASSUME pipe \in Seq(Frame), NEW f \in Frame
  PROVE  /\ Append(pipe, f) \in Seq(Frame)
         /\ DOMAIN Append(pipe, f) = 1..(Len(pipe) + 1) /\ DOMAIN pipe = 1..Len(pipe)
         /\ Len(pipe) \in Nat
         /\ Append(pipe, f)[Len(pipe) + 1] = f
         /\ \A j \in DOMAIN pipe : Append(pipe, f)[j] = pipe[j]
  OBVIOUS

LEMMA PipeTail ==
  ASSUME pipe \in Seq(Frame), pipe # <<>>
  PROVE  /\ Tail(pipe) \in Seq(Frame)
         /\ Len(pipe) \in Nat \ {0}
         /\ DOMAIN Tail(pipe) = 1..(Len(pipe) - 1) /\ DOMAIN pipe = 1..Len(pipe)
         /\ Head(pipe) = pipe[1] /\ Head(pipe) \in Frame
         /\ \A j \in DOMAIN Tail(pipe) : Tail(pipe)[j] = pipe[j + 1]
  OBVIOUS

\* The child writes one more frame.
LEMMA ChildWritesStep == SessionInv /\ ChildWrites => SessionInv'
<1> SUFFICES ASSUME SessionInv, ChildWrites PROVE SessionInv'
  OBVIOUS
<1> USE DEF SessionInv
<1>0. /\ UNCHANGED <<kind, child>> /\ UNCHANGED parentVars /\ child = "alive"
      /\ written \in [calls : 0..CallFrames, done : BOOLEAN] /\ pipe \in Seq(Frame)
  BY DEF ChildWrites, TypeOK
<1>1. PICK f \in Frame :
         /\ pipe' = Append(pipe, f)
         /\ \/ /\ f.type = "call" /\ f.id = written.calls + 1 /\ f.id \in Call
               /\ written' = [written EXCEPT !.calls = @ + 1]
            \/ f.type = "done" /\ written' = [written EXCEPT !.done = TRUE]
            \/ f.type \in {"junk", "unknown"} /\ written' = written
  <2>1. CASE /\ written.calls < CallFrames
             /\ written' = [written EXCEPT !.calls = @ + 1]
             /\ pipe' = Append(pipe, [type |-> "call", id |-> written.calls + 1])
    <3> DEFINE f == [type |-> "call", id |-> written.calls + 1]
    <3>1. written.calls + 1 \in Call
      BY <1>0, <2>1, SessionAssumption DEF Call
    <3>2. f \in Frame /\ f.type = "call" /\ f.id = written.calls + 1
      BY <3>1 DEF Frame
    <3> QED
      BY <2>1, <3>1, <3>2
  <2>2. CASE written' = [written EXCEPT !.done = TRUE] /\ pipe' = Append(pipe, [type |-> "done"])
    BY <2>2 DEF Frame
  <2>3. CASE /\ \E t \in {"junk", "unknown"} : pipe' = Append(pipe, [type |-> t])
             /\ UNCHANGED written
    <3>1. PICK t \in {"junk", "unknown"} : pipe' = Append(pipe, [type |-> t])
      BY <2>3
    <3>2. [type |-> t] \in Frame /\ [type |-> t].type = t
      BY DEF Frame
    <3> QED
      BY <2>3, <3>1, <3>2
  <2> QED
    BY <2>1, <2>2, <2>3 DEF ChildWrites
<1>2. written'.calls \in 0..CallFrames /\ written'.calls >= written.calls
      /\ written' \in [calls : 0..CallFrames, done : BOOLEAN]
  <2>1. CASE f.id \in Call /\ f.id = written.calls + 1
             /\ written' = [written EXCEPT !.calls = @ + 1]
    <3>1. written.calls + 1 \in 0..CallFrames
      BY <1>0, <2>1, SessionAssumption DEF Call
    <3> QED
      BY <1>0, <2>1, <3>1
  <2>2. CASE written' = [written EXCEPT !.done = TRUE]
    <3>1. written'.calls = written.calls /\ written' \in [calls : 0..CallFrames, done : BOOLEAN]
      BY <1>0, <2>2
    <3> QED
      BY <1>0, <3>1, SessionAssumption
  <2>3. CASE written' = written
    BY <1>0, <2>3, SessionAssumption
  <2> QED
    BY <1>1, <2>1, <2>2, <2>3
<1>3. TypeOK'
  BY <1>0, <1>1, <1>2, PipeAppend DEF TypeOK, parentVars
<1>4. PipeInv'
  <2>1. \A k \in Call : Fresh(k)' <=> Fresh(k)
    BY <1>0 DEF Fresh, parentVars
  <2>2. \A j \in DOMAIN pipe : pipe[j].type = "call" => pipe[j].id \in Call
    BY <1>0 DEF Frame
  <2>3. ASSUME NEW j \in DOMAIN pipe', pipe'[j].type = "call"
        PROVE  pipe'[j].id \in Call /\ pipe'[j].id <= written'.calls /\ Fresh(pipe'[j].id)
    <3>1. CASE j \in DOMAIN pipe
      BY <1>0, <1>1, <1>2, <2>2, <2>3, <3>1, PipeAppend DEF PipeInv, Call
    <3>2. CASE j = Len(pipe) + 1
      <4>1. pipe'[j] = f
        BY <1>0, <1>1, <3>2, PipeAppend
      <4>2. f.id = written.calls + 1 /\ f.id \in Call /\ written'.calls = written.calls + 1
        BY <1>0, <1>1, <2>3, <4>1
      <4> QED
        BY <1>0, <4>1, <4>2 DEF PipeInv, Call
    <3> QED
      BY <1>0, <1>1, <3>1, <3>2, PipeAppend
  <2>4. ASSUME NEW j \in DOMAIN pipe, NEW l \in DOMAIN pipe', l \notin DOMAIN pipe,
               pipe'[j].type = "call", pipe'[l].type = "call"
        PROVE  pipe'[j].id # pipe'[l].id
    <3>1. pipe'[l] = f /\ pipe'[j] = pipe[j]
      BY <1>0, <1>1, <2>4, PipeAppend
    <3>2. pipe[j].id <= written.calls /\ f.id = written.calls + 1
      BY <1>1, <2>4, <3>1 DEF PipeInv
    <3> QED
      BY <1>0, <2>2, <2>4, <3>1, <3>2 DEF Call
  <2>5. \A j \in DOMAIN pipe : j \in DOMAIN pipe' /\ pipe'[j] = pipe[j]
    BY <1>0, <1>1, PipeAppend
  <2>6. \A j, l \in DOMAIN pipe' :
           pipe'[j].type = "call" /\ pipe'[l].type = "call" /\ pipe'[j].id = pipe'[l].id => j = l
    <3>1. \A j, l \in DOMAIN pipe' : j \notin DOMAIN pipe /\ l \notin DOMAIN pipe => j = l
      BY <1>0, <1>1, PipeAppend
    <3> QED
      BY <2>4, <2>5, <3>1 DEF PipeInv
  <2>7. \A k \in Call : k > written'.calls => Fresh(k)'
    BY <1>0, <1>2, <2>1 DEF PipeInv, Call
  <2> QED
    BY <2>1, <2>3, <2>6, <2>7 DEF PipeInv
<1>5. WaitInv' /\ InFlightExact' /\ BudgetInv' /\ SettledAborts'
  BY <1>0 DEF parentVars, WaitInv, InFlightExact, Working, BudgetInv, Dispatched,
              SettledAborts, Settled
<1>6. ResultInv'
  <2>1. ~Settled /\ written'.done => \E j \in DOMAIN pipe' : pipe'[j].type = "done"
    <3>1. CASE written.done
      BY <1>0, <1>1, <3>1, PipeAppend DEF ResultInv
    <3>2. CASE ~written.done
      BY <1>0, <1>1, <3>2, PipeAppend
    <3> QED
      BY <3>1, <3>2
  <2>2. ~(outcome = "crash" /\ ~violated)
    BY <1>0 DEF ResultInv
  <2> QED
    BY <1>0, <2>1, <2>2 DEF ResultInv, Settled, parentVars
<1> QED
  BY <1>3, <1>4, <1>5, <1>6

\* A call leaves the channel, and the rest of it keeps its invariant.
LEMMA PipeTailInv ==
  ASSUME SessionInv, pipe # <<>>, pipe' = Tail(pipe), UNCHANGED childVars,
         \A k \in Call : \/ Fresh(k) => Fresh(k)'
                         \/ Head(pipe).type = "call" /\ k = Head(pipe).id
  PROVE  PipeInv' /\ pipe' \in Seq(Frame)
<1> USE DEF SessionInv
<1>1. written' = written /\ pipe \in Seq(Frame) /\ written.calls \in Nat
  BY SessionAssumption DEF childVars, TypeOK
<1>2. \A j \in DOMAIN pipe' : j + 1 \in DOMAIN pipe /\ pipe'[j] = pipe[j + 1]
  BY <1>1, PipeTail
<1>3. \A j \in DOMAIN pipe' : j \in Nat /\ j + 1 # 1
  BY <1>1, PipeTail
<1>4. 1 \in DOMAIN pipe /\ Head(pipe) = pipe[1]
  BY <1>1, PipeTail
<1>5. \A j \in DOMAIN pipe : pipe[j].type = "call" => pipe[j].id \in Call
  BY <1>1 DEF Frame
<1>6. ASSUME NEW j \in DOMAIN pipe', pipe'[j].type = "call", NEW k \in Call, k = pipe'[j].id
      PROVE  k <= written'.calls /\ Fresh(k)'
  <2>1. k <= written.calls /\ Fresh(k)
    BY <1>2, <1>6 DEF PipeInv
  <2>2. ~(Head(pipe).type = "call" /\ k = Head(pipe).id)
    BY <1>2, <1>3, <1>4, <1>6 DEF PipeInv
  <2> QED
    BY <1>1, <2>1, <2>2
<1>a. \A j \in DOMAIN pipe' : pipe'[j].type = "call" => pipe'[j].id \in Call
  BY <1>2, <1>5
<1>7. \A j, l \in DOMAIN pipe' :
         pipe'[j].type = "call" /\ pipe'[l].type = "call" /\ pipe'[j].id = pipe'[l].id => j = l
  <2>1. \A j, l \in DOMAIN pipe' :
           pipe'[j].type = "call" /\ pipe'[l].type = "call" /\ pipe'[j].id = pipe'[l].id
             => j + 1 = l + 1
    BY <1>2 DEF PipeInv
  <2> QED
    BY <2>1, <1>3
<1>8. ASSUME NEW k \in Call, k > written'.calls
      PROVE  Fresh(k)'
  <2>1. Fresh(k)
    BY <1>1, <1>8 DEF PipeInv
  <2>2. Head(pipe).type = "call" => Head(pipe).id <= written.calls
    BY <1>4 DEF PipeInv
  <2>3. ~(Head(pipe).type = "call" /\ k = Head(pipe).id)
    BY <1>1, <1>8, <2>2 DEF Call
  <2> QED
    BY <2>1, <2>3
<1>9. \A k \in Call : Fresh(k)' <=> work'[k] = "none" /\ ~waits'[k] /\ replies'[k] = 0
  BY DEF Fresh
<1>b. \A j \in DOMAIN pipe' : pipe'[j].type = "call" =>
         /\ pipe'[j].id <= written'.calls
         /\ work'[pipe'[j].id] = "none" /\ ~waits'[pipe'[j].id] /\ replies'[pipe'[j].id] = 0
  BY <1>6, <1>9, <1>a
<1>c. pipe' \in Seq(Frame)
  BY <1>1, PipeTail
<1> QED
  BY <1>7, <1>8, <1>9, <1>b, <1>c DEF PipeInv, Fresh

\* finish keeps the invariant, given what its caller does to the channel.
LEMMA FinishStep ==
  ASSUME SessionInv, NEW code \in Outcome \ {"open"}, Finish(code), UNCHANGED childVars,
         PipeInv', pipe' \in Seq(Frame), violated' \in BOOLEAN, ResultInv'
  PROVE  SessionInv'
<1> USE DEF SessionInv
<1>1. UNCHANGED <<kind, child, written, total, inFlight, work, waits, replies>>
  BY DEF Finish, childVars
<1>2. TypeOK'
  <2>1. outcome' \in Outcome /\ killed' \in BOOLEAN /\ aborted' \in [Call -> BOOLEAN]
    BY DEF Finish, TypeOK, Kill, AbortAll, Working
  <2> QED
    BY <1>1, <2>1 DEF TypeOK
<1>3. WaitInv' /\ InFlightExact' /\ BudgetInv'
  BY <1>1 DEF WaitInv, InFlightExact, Working, BudgetInv, Dispatched
<1>4. SettledAborts'
  <2>1. CASE Settled
    BY <1>1, <2>1 DEF Finish, Undecided, SettledAborts, Settled, Working
  <2>2. CASE ~Settled
    BY <1>1, <2>2 DEF Finish, Undecided, AbortAll, SettledAborts, Working, TypeOK
  <2> QED
    BY <2>1, <2>2
<1> QED
  BY <1>2, <1>3, <1>4

\* The channel does not change and the calls keep their records.
LEMMA PipeUntouched ==
  ASSUME SessionInv, UNCHANGED <<written, pipe>>, \A k \in Call : Fresh(k) => Fresh(k)'
  PROVE  PipeInv' /\ pipe' \in Seq(Frame)
<1> USE DEF SessionInv
<1>1. \A j \in DOMAIN pipe : pipe[j].type = "call" => pipe[j].id \in Call
  BY SMTT(30) DEF TypeOK, Frame
<1> QED
  BY <1>1 DEF PipeInv, TypeOK

LEMMA ClockErrorCloseStep ==
  SessionInv /\ (WallClock \/ ChannelError \/ ChannelClose) => SessionInv'
<1> SUFFICES ASSUME SessionInv, WallClock \/ ChannelError \/ ChannelClose PROVE SessionInv'
  OBVIOUS
<1> USE DEF SessionInv
<1>1. UNCHANGED <<kind, child, written, pipe, violated, work, waits, replies>>
  BY DEF WallClock, ChannelError, ChannelClose, childVars, Finish
<1>2. PipeInv' /\ pipe' \in Seq(Frame)
  BY <1>1, PipeUntouched DEF Fresh
<1>3. PICK code \in {"timeout", "internal", "crash"} :
         Finish(code) /\ (code = "crash" => child = "exited" /\ pipe = <<>>)
  BY DEF WallClock, ChannelError, ChannelClose, Drained
<1>4. code \in Outcome \ {"open"} /\ UNCHANGED childVars /\ violated' \in BOOLEAN
  BY <1>1, <1>3 DEF Outcome, childVars, TypeOK
<1>5. ResultInv'
  <2>1. CASE Settled
    <3>1. outcome' = outcome
      BY <1>3, <2>1 DEF Finish, Undecided
    <3> QED
      BY <1>1, <3>1, <2>1 DEF ResultInv, Settled
  <2>2. CASE ~Settled
    <3>1. outcome' = code /\ Settled'
      BY <1>3, <1>4, <2>2 DEF Finish, Undecided, Settled
    <3>2. code = "crash" => ~written.done
      BY <1>3, <2>2 DEF ResultInv
    <3> QED
      BY <1>1, <1>3, <3>1, <3>2 DEF ResultInv
  <2> QED
    BY <2>1, <2>2
<1> QED
  BY <1>2, <1>3, <1>4, <1>5, FinishStep

LEMMA ChildExitsStep == SessionInv /\ ChildExits => SessionInv'
<1> SUFFICES ASSUME SessionInv, ChildExits PROVE SessionInv'
  OBVIOUS
<1> USE DEF SessionInv
<1>1. UNCHANGED <<kind, written, pipe>> /\ UNCHANGED parentVars /\ child' = "exited"
  BY DEF ChildExits
<1>2. TypeOK'
  BY <1>1 DEF TypeOK, parentVars
<1>3. PipeInv'
  BY <1>1, PipeUntouched DEF Fresh, parentVars
<1>4. WaitInv' /\ InFlightExact' /\ BudgetInv' /\ SettledAborts' /\ ResultInv'
  BY <1>1 DEF parentVars, WaitInv, InFlightExact, Working, BudgetInv, Dispatched,
              SettledAborts, Settled, ResultInv
<1> QED
  BY <1>2, <1>3, <1>4

\* A dispatcher settles, or the call's timeout is first.
LEMMA CallEndsStep ==
  ASSUME SessionInv, NEW k \in Call, DispatcherSettles(k) \/ HostCallTimeout(k)
  PROVE  SessionInv'
<1> USE DEF SessionInv
<1>1. /\ UNCHANGED <<kind, child, written, pipe, outcome, violated, killed, total>>
      /\ work[k] = "running"
      /\ waits' = [waits EXCEPT ![k] = FALSE]
      /\ \/ replies' = [replies EXCEPT ![k] = @ + 1] /\ waits[k]
         \/ replies' = replies
      /\ aborted' = [aborted EXCEPT ![k] = TRUE] \/ aborted' = aborted
  BY DEF DispatcherSettles, HostCallTimeout, childVars, Reply, WaitInv
<1>2. PipeInv' /\ pipe' \in Seq(Frame)
  <2>1. \A c \in Call : Fresh(c) => Fresh(c)'
    BY <1>1 DEF DispatcherSettles, HostCallTimeout, Fresh, TypeOK
  <2> QED
    BY <1>1, <2>1, PipeUntouched
<1>3. WaitInv'
  BY <1>1 DEF DispatcherSettles, HostCallTimeout, WaitInv, TypeOK
<1>4. ResultInv'
  BY <1>1 DEF ResultInv, Settled
<1>5. Working \in SUBSET Call /\ k \in Working
  BY <1>1 DEF Working
<1>6. SettledAborts'
  BY <1>1 DEF DispatcherSettles, HostCallTimeout, SettledAborts, Settled, Working, TypeOK
<1>7. /\ waits' \in [Call -> BOOLEAN] /\ aborted' \in [Call -> BOOLEAN]
      /\ replies' \in [Call -> Nat]
  <2>1. waits' \in [Call -> BOOLEAN]
    BY <1>1 DEF TypeOK
  <2>2. aborted' \in [Call -> BOOLEAN]
    BY <1>1 DEF TypeOK
  <2>3. replies' \in [Call -> Nat]
    <3>1. replies \in [Call -> Nat] /\ replies[k] + 1 \in Nat
      BY DEF TypeOK
    <3>2. [replies EXCEPT ![k] = @ + 1] \in [Call -> Nat]
      BY <3>1
    <3> QED
      BY <1>1, <3>1, <3>2
  <2> QED
    BY <2>1, <2>2, <2>3
<1>8. Dispatched' = Dispatched
  BY <1>1 DEF DispatcherSettles, HostCallTimeout, Dispatched, TypeOK
<1>9. BudgetInv'
  BY <1>1, <1>8 DEF BudgetInv
<1>10. CASE HostCallTimeout(k)
  <2>1. UNCHANGED <<work, inFlight>>
    BY <1>10 DEF HostCallTimeout
  <2>2. TypeOK' /\ InFlightExact'
    BY <1>1, <1>7, <2>1 DEF TypeOK, InFlightExact, Working
  <2> QED
    BY <1>2, <1>3, <1>4, <1>6, <1>9, <2>2
<1>11. CASE DispatcherSettles(k)
  <2>1. work' = [work EXCEPT ![k] = "finished"] /\ inFlight' = inFlight - 1
    BY <1>11 DEF DispatcherSettles
  <2>2. Working' = Working \ {k}
    BY <2>1 DEF Working, TypeOK
  <2>3. /\ Cardinality(Working') = Cardinality(Working) - 1
        /\ Cardinality(Working') \in Nat /\ Cardinality(Working) \in Nat
    BY <1>5, <2>2, CountRemove
  <2>4. inFlight' = Cardinality(Working') /\ inFlight' \in Nat /\ inFlight' <= MaxInFlight
    BY <2>1, <2>3, SessionAssumption DEF InFlightExact
  <2>5. work' \in [Call -> {"none", "running", "finished"}]
    BY <2>1 DEF TypeOK
  <2>6. TypeOK' /\ InFlightExact'
    BY <1>1, <1>2, <1>7, <2>4, <2>5 DEF TypeOK, InFlightExact
  <2> QED
    BY <1>2, <1>3, <1>4, <1>6, <1>9, <2>6
<1> QED
  BY <1>10, <1>11

\* Reading a frame that is not the result leaves an unread result in place.
LEMMA ResultKept ==
  ASSUME SessionInv, pipe # <<>>, pipe' = Tail(pipe), Head(pipe).type # "done",
         UNCHANGED <<written, outcome, child>>, violated => violated'
  PROVE  ResultInv'
<1>1. pipe \in Seq(Frame)
  BY DEF SessionInv, TypeOK
<1>2. ASSUME NEW j \in DOMAIN pipe, pipe[j].type = "done"
      PROVE  j - 1 \in DOMAIN pipe' /\ pipe'[j - 1] = pipe[j]
  <2>1. j # 1
    BY <1>1, <1>2, PipeTail
  <2>2. j - 1 \in 1..(Len(pipe) - 1)
    BY <1>1, <2>1, PipeTail
  <2> QED
    BY <1>1, <2>2, PipeTail
<1> QED
  BY <1>2 DEF SessionInv, ResultInv, Settled

\* A host call is counted, and refused or dispatched.
LEMMA HostCallStep ==
  ASSUME SessionInv, ~Settled, pipe # <<>>, pipe' = Tail(pipe), UNCHANGED childVars,
         Head(pipe).type = "call", HostCall(Head(pipe).id),
         UNCHANGED <<outcome, killed>>, violated' = violated
  PROVE  SessionInv'
<1> USE DEF SessionInv
<1> DEFINE k == Head(pipe).id
<1>1. k \in Call /\ Fresh(k)
  <2>1. pipe \in Seq(Frame)
    BY DEF TypeOK
  <2>2. Head(pipe) = pipe[1] /\ 1 \in DOMAIN pipe /\ Head(pipe) \in Frame
    BY <2>1, PipeTail
  <2> QED
    BY <2>2 DEF PipeInv, Frame
<1> HIDE DEF k
<1>2. /\ UNCHANGED <<kind, child, written>> /\ total' = total + 1
      /\ Refuse(k) \/ (~OverTotal /\ ~Saturated /\ Dispatch(k))
  BY DEF HostCall, childVars, k
<1>3. PipeInv' /\ pipe' \in Seq(Frame)
  <2>1. \A c \in Call : (Fresh(c) => Fresh(c)') \/ c = k
    BY <1>2 DEF Fresh, Refuse, Reply, Dispatch, TypeOK
  <2> QED
    BY <2>1, PipeTailInv DEF k
<1>4. ResultInv'
  BY <1>2, ResultKept
<1>5. SettledAborts'
  BY DEF SettledAborts, Settled
<1>6. total \in Nat /\ total' \in Nat
  BY <1>2 DEF TypeOK
<1>7. CASE Refuse(k)
  <2>1. UNCHANGED <<inFlight, work, waits, aborted>> /\ replies' = [replies EXCEPT ![k] = @ + 1]
    BY <1>7 DEF Refuse, Reply
  <2>2. TypeOK'
    BY <1>1, <1>2, <1>3, <1>6, <2>1 DEF TypeOK
  <2>3. WaitInv'
    BY <1>1, <2>1 DEF WaitInv, Fresh, TypeOK
  <2>4. InFlightExact'
    BY <2>1 DEF InFlightExact, Working
  <2>5. Dispatched' = Dispatched /\ Cardinality(Dispatched) \in Nat
    BY <1>1, <2>1, CountAdd DEF Dispatched
  <2>6. BudgetInv'
    BY <1>2, <1>6, <2>5 DEF BudgetInv
  <2> QED
    BY <1>3, <1>4, <1>5, <2>2, <2>3, <2>4, <2>6
<1>8. CASE ~OverTotal /\ ~Saturated /\ Dispatch(k)
  <2>1. /\ inFlight' = inFlight + 1 /\ UNCHANGED <<aborted, replies>>
        /\ work' = [work EXCEPT ![k] = "running"] /\ waits' = [waits EXCEPT ![k] = TRUE]
    BY <1>8 DEF Dispatch
  <2>2. TypeOK'
    BY <1>1, <1>2, <1>3, <1>6, <2>1 DEF TypeOK
  <2>3. WaitInv'
    BY <1>1, <2>1 DEF WaitInv, Fresh, TypeOK
  <2>4. Working' = Working \cup {k} /\ k \notin Working /\ Working \in SUBSET Call
    BY <1>1, <2>1 DEF Working, Fresh, TypeOK
  <2>5. /\ Cardinality(Working) \in Nat
        /\ Cardinality(Working') = Cardinality(Working) + 1
    BY <1>1, <2>4, CountAdd
  <2>6. inFlight < MaxInFlight
    BY <1>8, SessionAssumption DEF Saturated, TypeOK
  <2>7. InFlightExact'
    BY <2>1, <2>5, <2>6, SessionAssumption DEF InFlightExact, TypeOK
  <2>8. Dispatched' = Dispatched \cup {k} /\ k \notin Dispatched /\ Dispatched \in SUBSET Call
    BY <1>1, <2>1 DEF Dispatched, Fresh, TypeOK
  <2>9. /\ Cardinality(Dispatched) \in Nat
        /\ Cardinality(Dispatched') = Cardinality(Dispatched) + 1
    BY <1>1, <2>8, CountAdd
  <2>10. total + 1 <= MaxHostCalls
    BY <1>6, <1>8, SessionAssumption DEF OverTotal
  <2>11. BudgetInv'
    BY <1>2, <1>6, <2>9, <2>10, SessionAssumption DEF BudgetInv
  <2> QED
    BY <1>3, <1>4, <1>5, <2>2, <2>3, <2>7, <2>11
<1> QED
  BY <1>2, <1>7, <1>8

LEMMA ReadFrameStep == SessionInv /\ ReadFrame => SessionInv'
<1> SUFFICES ASSUME SessionInv, ReadFrame PROVE SessionInv'
  OBVIOUS
<1> DEFINE f == Head(pipe)
           breach == f.type = "junk" \/ (f.type = "call" /\ kind = "probe")
<1>1. pipe # <<>> /\ pipe' = Tail(pipe) /\ UNCHANGED childVars
  BY DEF ReadFrame
<1>2. ASSUME UNCHANGED <<outcome, killed, total, inFlight, work, waits, aborted, replies>>,
             violated' = violated, Settled \/ f.type = "unknown"
      PROVE  SessionInv'
  <2>1. PipeInv' /\ pipe' \in Seq(Frame)
    BY <1>1, <1>2, PipeTailInv DEF Fresh
  <2>2. TypeOK'
    BY <1>1, <1>2, <2>1 DEF SessionInv, TypeOK, childVars
  <2>3. WaitInv' /\ InFlightExact' /\ BudgetInv' /\ SettledAborts'
    BY <1>2 DEF SessionInv, WaitInv, InFlightExact, Working, BudgetInv, Dispatched,
                SettledAborts, Settled
  <2>4. CASE Settled
    <3>1. ResultInv'
      BY <1>1, <1>2, <2>4 DEF SessionInv, ResultInv, Settled, childVars
    <3> QED
      BY <2>1, <2>2, <2>3, <3>1 DEF SessionInv
  <2>5. CASE f.type = "unknown"
    <3>1. ResultInv'
      BY <1>1, <1>2, <2>5, ResultKept DEF childVars
    <3> QED
      BY <2>1, <2>2, <2>3, <3>1 DEF SessionInv
  <2> QED
    BY <1>2, <2>4, <2>5
<1>3. ASSUME NEW code \in {"crash", "result"}, Finish(code), ~Settled,
             violated' = (violated \/ breach), code = "crash" => breach
      PROVE  SessionInv'
  <2>1. PipeInv' /\ pipe' \in Seq(Frame)
    BY <1>1, <1>3, PipeTailInv DEF Fresh, Finish
  <2>2. outcome' = code /\ Settled'
    BY <1>3 DEF Finish, Undecided, Settled
  <2>3. ResultInv'
    BY <1>3, <2>2 DEF ResultInv
  <2>4. code \in Outcome \ {"open"} /\ violated' \in BOOLEAN
    BY <1>3 DEF Outcome, SessionInv, TypeOK
  <2> QED
    BY <1>1, <1>3, <2>1, <2>3, <2>4, FinishStep
<1>4. CASE Settled
  <2>1. UNCHANGED parentVars
    BY <1>4 DEF ReadFrame, Dropped
  <2> QED
    BY <1>2, <1>4, <2>1 DEF parentVars
<1>5. CASE ~Settled
  <2>1. /\ violated' = (violated \/ breach)
        /\ \/ breach /\ Finish("crash")
           \/ ~breach /\ f.type = "done" /\ Finish("result")
           \/ f.type = "unknown" /\ UNCHANGED <<outcome, killed, total, inFlight, work,
                                                waits, aborted, replies>>
           \/ ~breach /\ f.type = "call" /\ HostCall(f.id) /\ UNCHANGED <<outcome, killed>>
    BY <1>5 DEF ReadFrame, Dropped
  <2>2. violated \in BOOLEAN
    BY DEF SessionInv, TypeOK
  <2> HIDE DEF breach
  <2>3. CASE breach /\ Finish("crash")
    BY <1>3, <1>5, <2>1, <2>3
  <2>4. CASE f.type = "done" /\ Finish("result")
    BY <1>3, <1>5, <2>1, <2>4
  <2>5. CASE f.type = "unknown" /\ UNCHANGED <<outcome, killed, total, inFlight, work,
                                               waits, aborted, replies>>
    <3>1. ~breach
      BY <2>5 DEF breach
    <3> QED
      BY <1>2, <2>1, <2>2, <2>5, <3>1
  <2>6. CASE ~breach /\ f.type = "call" /\ HostCall(f.id) /\ UNCHANGED <<outcome, killed>>
    BY <1>1, <1>5, <2>1, <2>2, <2>6, HostCallStep
  <2> QED
    BY <2>1, <2>3, <2>4, <2>5, <2>6
<1> QED
  BY <1>4, <1>5

LEMMA SessionStep == SessionInv /\ [Next]_vars => SessionInv'
<1> SUFFICES ASSUME SessionInv, [Next]_vars PROVE SessionInv'
  OBVIOUS
<1>1. CASE Next
  BY <1>1, ChildWritesStep, ChildExitsStep, ReadFrameStep, ClockErrorCloseStep, CallEndsStep
     DEF Next
<1>2. CASE UNCHANGED vars
  <2>1. UNCHANGED <<kind, child, killed, written, pipe, outcome, violated, total, inFlight,
                    work, waits, aborted, replies>>
    BY <1>2 DEF vars
  <2>2. PipeInv'
    BY <2>1, PipeUntouched DEF Fresh
  <2> QED
    BY <2>1, <2>2 DEF SessionInv, TypeOK, WaitInv, InFlightExact, Working, BudgetInv,
                      Dispatched, SettledAborts, Settled, ResultInv
<1> QED
  BY <1>1, <1>2

LEMMA SessionAlways == Spec => []SessionInv
  BY SessionInit, SessionStep, PTL DEF Spec

\* Every reachable state of a session is well typed.
THEOREM SessionTypes == Spec => []TypeOK
  BY SessionAlways, PTL DEF SessionInv

\* The host-call limits hold for any guest: in flight exactly the dispatchers at
\* work and within the limit, dispatched no more than the budget, and answered
\* at most once (runChild, handleHostCall).
THEOREM HostCallsBounded == Spec => []HostCallRules
<1>1. SessionInv => HostCallRules
  BY DEF SessionInv, HostCallRules, BudgetInv, DispatchBudget, Dispatched, WaitInv, OneReply
<1> QED
  BY <1>1, SessionAlways, PTL

\* Settlement aborts what still runs, and a result the child wrote before it
\* died is not reported as a crash (finish, channel close).
THEOREM SettlementSound == Spec => []SettlementComplete
<1>1. SessionInv => SettlementComplete
  BY DEF SessionInv, ResultInv, SettlementComplete, ResultNotLost
<1> QED
  BY <1>1, SessionAlways, PTL

\* Both: a session keeps its guest within its limits and ends what it began
\* (supervisor.ts).
THEOREM CallsKept == Spec => []CallRules
BY HostCallsBounded, SettlementSound, PTL DEF CallRules

\* The first settlement stands, and no call is dispatched after it (finish,
\* onFrame).
THEOREM SettlementStands == Spec => SettlementFinal
<1>1. SessionInv /\ [Next]_vars => (Settled => outcome' = outcome)
  BY DEF Next, vars, ChildWrites, ChildExits, parentVars, ReadFrame, Dropped, WallClock,
         ChannelError, ChannelClose, Finish, Undecided, DispatcherSettles, HostCallTimeout
<1>2. SessionInv /\ [Next]_vars =>
        (\A k \in Call : work'[k] = "running" /\ work[k] = "none" => ~Settled)
  BY DEF Next, vars, ChildWrites, ChildExits, parentVars, ReadFrame, Dropped, WallClock,
         ChannelError, ChannelClose, Finish, Undecided, DispatcherSettles, HostCallTimeout,
         SessionInv, TypeOK
<1> QED
  BY <1>1, <1>2, SessionAlways, PTL DEF Spec, SettlementFinal, OutcomeStands, NoLateDispatch
=============================================================================
