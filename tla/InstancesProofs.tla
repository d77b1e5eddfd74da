---------------------------- MODULE InstancesProofs ----------------------------
(***************************************************************************)
(* Theorems about Instances, for any number of instances and of writes:    *)
(* types, an idle instance runs the current flows, metadata is served      *)
(* fresh, sessions are kept and an administrator role remains, each with   *)
(* the exceptions its property names.  The four parts have nothing in      *)
(* common, so each has an inductive invariant of its own.                  *)
(***************************************************************************)
EXTENDS Instances, FiniteSetTheorems, TLAPS

-----------------------------------------------------------------------------
\* The inductive invariant of the flow managers.

\* Each reload belongs to a write.
ReloadsCounted ==
  /\ IsFiniteSet(unsent)
  /\ \A n \in Nodes : inbox[n] + flows[n].jobs + Cardinality(unsent) <= flowsDb

\* Only a manager that reloads has jobs waiting, and one at rest is loaded.
ManagerInv(n) ==
  /\ flows[n].jobs > 0 => flows[n].at \in {"load", "loading"}
  /\ flows[n].at = "rest" <=> flows[n].isLoaded
  /\ flows[n].at = "down" => inbox[n] = 0

\* An instance that missed no reload has read, or will read, the current flows.
Informed(n) ==
  \/ n \in missed
  \/ unsent # {} \/ inbox[n] > 0 \/ flows[n].jobs > 0
  \/ flows[n].at \in {"down", "boot", "load"}
  \/ flows[n].at \in {"booting", "loading"} /\ flows[n].read = flowsDb
  \/ flows[n].at = "rest" /\ flows[n].ver = flowsDb

FlowInv == FlowsTypeOK /\ ReloadsCounted /\ \A n \in Nodes : ManagerInv(n) /\ Informed(n)

-----------------------------------------------------------------------------
\* The flow managers.

LEMMA FlowInit == FlowsInit => FlowInv
<1>1. SUFFICES ASSUME FlowsInit PROVE FlowInv
  OBVIOUS
<1>2. IsFiniteSet(unsent) /\ Cardinality(unsent) = 0
  BY <1>1, FS_EmptySet DEF FlowsInit
<1>3. FlowsTypeOK
  BY <1>1, FlowWritesAssumption DEF FlowsInit, FlowsTypeOK, Manager, Up
<1>4. ReloadsCounted
  BY <1>1, <1>2 DEF FlowsInit, ReloadsCounted, Manager
<1>5. ASSUME NEW n \in Nodes PROVE ManagerInv(n) /\ Informed(n)
  <2>1. flows[n] = Manager("down", FALSE, 0, 0, 0) /\ inbox[n] = 0
    BY <1>1 DEF FlowsInit
  <2> QED BY <2>1 DEF ManagerInv, Informed, Manager
<1> QED BY <1>3, <1>4, <1>5 DEF FlowInv

LEMMA FlowStepKeeps == FlowInv /\ [FlowsNext]_flowVars => FlowInv'
<1>1. SUFFICES ASSUME FlowInv, [FlowsNext]_flowVars PROVE FlowInv'
  OBVIOUS
<1> USE FlowWritesAssumption
<1>2. /\ FlowsTypeOK /\ ReloadsCounted /\ IsFiniteSet(unsent) /\ Cardinality(unsent) \in Nat
      /\ \A n \in Nodes : ManagerInv(n) /\ Informed(n)
  BY <1>1, FS_CardinalityType DEF FlowInv, ReloadsCounted
<1>3. CASE UNCHANGED flowVars
  BY <1>2, <1>3 DEF flowVars, FlowInv, FlowsTypeOK, Up, ReloadsCounted, ManagerInv, Informed
<1>4. ASSUME NEW n \in Nodes, Boot(n) PROVE FlowInv'
  <2>1. FlowsTypeOK'
    BY <1>2, <1>4 DEF Boot, FlowsTypeOK, Up, Manager
  <2>2. ReloadsCounted'
    BY <1>2, <1>4 DEF Boot, FlowsTypeOK, ReloadsCounted, Manager, ManagerInv
  <2>3. \A m \in Nodes : ManagerInv(m)' /\ Informed(m)'
    BY <1>2, <1>4 DEF Boot, FlowsTypeOK, ManagerInv, Informed, Manager
  <2> QED BY <2>1, <2>2, <2>3 DEF FlowInv
<1>5. ASSUME NEW n \in Nodes, ReadFlows(n) PROVE FlowInv'
  <2>1. FlowsTypeOK'
    BY <1>2, <1>5 DEF ReadFlows, FlowsTypeOK, Up
  <2>2. ReloadsCounted'
    BY <1>2, <1>5 DEF ReadFlows, FlowsTypeOK, ReloadsCounted
  <2>3. \A m \in Nodes : ManagerInv(m)' /\ Informed(m)'
    BY <1>2, <1>5 DEF ReadFlows, FlowsTypeOK, ManagerInv, Informed
  <2> QED BY <2>1, <2>2, <2>3 DEF FlowInv
<1>6. ASSUME NEW n \in Nodes, Install(n) PROVE FlowInv'
  <2>1. FlowsTypeOK'
    BY <1>2, <1>6 DEF Install, Queued, FlowsTypeOK, Up, Manager
  <2>2. ReloadsCounted'
    BY <1>2, <1>6 DEF Install, Queued, FlowsTypeOK, ReloadsCounted, Manager
  <2>3. \A m \in Nodes : ManagerInv(m)' /\ Informed(m)'
    BY <1>2, <1>6 DEF Install, Queued, FlowsTypeOK, ManagerInv, Informed, Manager
  <2> QED BY <2>1, <2>2, <2>3 DEF FlowInv
<1>7. ASSUME NEW n \in Nodes, Stop(n) PROVE FlowInv'
  <2>1. IsFiniteSet(unsent') /\ Cardinality(unsent') \in Nat /\ Cardinality(unsent') <= Cardinality(unsent)
    <3>1. unsent' = unsent \ {n}
      BY <1>7 DEF Stop
    <3>2. IsFiniteSet(unsent') /\ Cardinality(unsent') \in Nat
      BY <1>2, <3>1, FS_RemoveElement, FS_CardinalityType
    <3> QED BY <1>2, <3>1, <3>2, FS_RemoveElement
  <2>2. FlowsTypeOK'
    BY <1>2, <1>7 DEF Stop, FlowsTypeOK, Up, Manager
  <2>3. ReloadsCounted'
    <3>1. ASSUME NEW m \in Nodes PROVE inbox'[m] + flows'[m].jobs <= inbox[m] + flows[m].jobs
      BY <1>2, <1>7 DEF Stop, FlowsTypeOK, Manager
    <3>2. ASSUME NEW m \in Nodes
          PROVE  /\ inbox[m] \in Nat /\ flows[m].jobs \in Nat /\ flowsDb \in Nat
                 /\ inbox'[m] \in Nat /\ flows'[m].jobs \in Nat /\ flowsDb' = flowsDb
      <4>1. inbox[m] \in Nat /\ flows[m].jobs \in Nat /\ flowsDb \in Nat
        BY <1>2 DEF FlowsTypeOK
      <4>2. inbox'[m] \in Nat /\ flows'[m].jobs \in Nat
        BY <2>2 DEF FlowsTypeOK
      <4> QED BY <1>7, <4>1, <4>2 DEF Stop
    <3> QED BY <1>2, <2>1, <3>1, <3>2 DEF ReloadsCounted
  <2>4. \A m \in Nodes : ManagerInv(m)' /\ Informed(m)'
    BY <1>2, <1>7 DEF Stop, FlowsTypeOK, ManagerInv, Informed, Manager, Up
  <2> QED BY <2>2, <2>3, <2>4 DEF FlowInv
<1>8. ASSUME NEW n \in Nodes, Deliver(n) PROVE FlowInv'
  <2>1. FlowsTypeOK'
    <3>1. inbox[n] \in 0..MaxFlowWrites /\ flows[n].jobs \in 0..MaxFlowWrites /\ flowsDb \in 0..MaxFlowWrites
      BY <1>2 DEF FlowsTypeOK
    <3>2. inbox[n] + flows[n].jobs + Cardinality(unsent) <= flowsDb /\ inbox[n] > 0
      BY <1>2, <1>8 DEF Deliver, ReloadsCounted
    <3>3. inbox[n] - 1 \in 0..MaxFlowWrites /\ flows[n].jobs + 1 \in 0..MaxFlowWrites
      BY <1>2, <3>1, <3>2
    <3>4. inbox' \in [Nodes -> 0..MaxFlowWrites]
      BY <1>2, <1>8, <3>3 DEF Deliver, FlowsTypeOK
    <3>5. flows' \in [Nodes -> [at : {"down", "boot", "booting", "rest", "load", "loading"}, isLoaded : BOOLEAN,
                                ver : 0..MaxFlowWrites, read : 0..MaxFlowWrites, jobs : 0..MaxFlowWrites]]
      <4>1. CASE flows' = [flows EXCEPT ![n] = Enqueued(n)]
        BY <1>2, <3>3, <4>1 DEF Enqueued, FlowsTypeOK
      <4>2. CASE flows' = [flows EXCEPT ![n] = Manager("load", FALSE, 0, 0, @.jobs)]
        BY <1>2, <3>1, <4>2 DEF Manager, FlowsTypeOK
      <4>3. CASE flows' = flows
        BY <1>2, <4>3 DEF FlowsTypeOK
      <4> QED BY <1>8, <4>1, <4>2, <4>3 DEF Deliver
    <3>6. Up' = Up
      BY <1>2, <1>8 DEF Deliver, Enqueued, FlowsTypeOK, Up, Manager, ManagerInv
    <3> QED BY <1>2, <1>8, <3>4, <3>5, <3>6 DEF Deliver, FlowsTypeOK
  <2>2. ReloadsCounted'
    BY <1>2, <1>8 DEF Deliver, Enqueued, FlowsTypeOK, ReloadsCounted, Manager
  <2>3. \A m \in Nodes : ManagerInv(m)' /\ Informed(m)'
    BY <1>2, <1>8 DEF Deliver, Enqueued, FlowsTypeOK, ManagerInv, Informed, Manager
  <2> QED BY <2>1, <2>2, <2>3 DEF FlowInv
<1>9. ASSUME NEW n \in Nodes, WriteFlows(n) PROVE FlowInv'
  <2>1. IsFiniteSet(unsent') /\ Cardinality(unsent') = Cardinality(unsent) + 1
    BY <1>2, <1>9, FS_AddElement DEF WriteFlows
  <2>2. FlowsTypeOK'
    BY <1>2, <1>9 DEF WriteFlows, FlowsTypeOK, Up
  <2>3. ReloadsCounted'
    <3>1. flowsDb' = flowsDb + 1 /\ inbox' = inbox /\ flows' = flows
      BY <1>9 DEF WriteFlows
    <3>2. ASSUME NEW m \in Nodes PROVE inbox[m] \in Nat /\ flows[m].jobs \in Nat /\ flowsDb \in Nat
      BY <1>2 DEF FlowsTypeOK
    <3> QED BY <1>2, <2>1, <3>1, <3>2 DEF ReloadsCounted
  <2>4. \A m \in Nodes : ManagerInv(m)' /\ Informed(m)'
    BY <1>2, <1>9 DEF WriteFlows, FlowsTypeOK, ManagerInv, Informed
  <2> QED BY <2>2, <2>3, <2>4 DEF FlowInv
<1>12. ASSUME NEW n \in Nodes, WriteUnannounced(n) PROVE FlowInv'
  <2>1. /\ flowsDb' = flowsDb + 1 /\ missed' = missed \cup Up /\ UNCHANGED <<unsent, inbox, flows>>
        /\ flowsDb < MaxFlowWrites
    BY <1>12 DEF WriteUnannounced
  <2>2. FlowsTypeOK'
    BY <1>2, <2>1 DEF FlowsTypeOK, Up
  <2>3. ReloadsCounted'
    <3>1. ASSUME NEW m \in Nodes PROVE inbox[m] \in Nat /\ flows[m].jobs \in Nat /\ flowsDb \in Nat
      BY <1>2 DEF FlowsTypeOK
    <3> QED BY <1>2, <2>1, <3>1 DEF ReloadsCounted
  <2>4. \A m \in Nodes : ManagerInv(m)'
    BY <1>2, <2>1 DEF ManagerInv
  <2>5. \A m \in Nodes : m \in missed' \/ flows'[m].at = "down"
    BY <2>1 DEF Up
  <2>6. \A m \in Nodes : Informed(m)'
    BY <2>5 DEF Informed
  <2> QED BY <2>2, <2>3, <2>4, <2>6 DEF FlowInv
<1>10. ASSUME NEW n \in Nodes, Publish(n) PROVE FlowInv'
  <2>1. IsFiniteSet(unsent') /\ Cardinality(unsent') \in Nat /\ Cardinality(unsent') = Cardinality(unsent) - 1
    BY <1>2, <1>10, FS_RemoveElement, FS_CardinalityType DEF Publish
  <2>2. ReloadsCounted'
    BY <1>2, <1>10, <2>1 DEF Publish, Receivers, Up, FlowsTypeOK, ReloadsCounted
  <2>3. FlowsTypeOK'
    BY <1>2, <1>10, <2>1, <2>2 DEF Publish, Receivers, Up, FlowsTypeOK, ReloadsCounted
  <2>4. \A m \in Nodes : ManagerInv(m)' /\ Informed(m)'
    BY <1>2, <1>10 DEF Publish, Receivers, Up, FlowsTypeOK, ManagerInv, Informed
  <2> QED BY <2>2, <2>3, <2>4 DEF FlowInv
<1>11. ASSUME NEW n \in Nodes, Lose(n) PROVE FlowInv'
  <2>1. FlowsTypeOK'
    BY <1>2, <1>11 DEF Lose, FlowsTypeOK, Up
  <2>2. ReloadsCounted'
    BY <1>2, <1>11 DEF Lose, FlowsTypeOK, ReloadsCounted
  <2>3. \A m \in Nodes : ManagerInv(m)' /\ Informed(m)'
    BY <1>2, <1>11 DEF Lose, FlowsTypeOK, ManagerInv, Informed
  <2> QED BY <2>1, <2>2, <2>3 DEF FlowInv
<1> QED BY <1>1, <1>3, <1>4, <1>5, <1>6, <1>7, <1>8, <1>9, <1>10, <1>11, <1>12 DEF FlowsNext

\* The invariant gives the property.
LEMMA FlowsAreCurrent == FlowInv => FlowsCurrent
BY DEF FlowInv, FlowsTypeOK, ManagerInv, Informed, FlowsCurrent

-----------------------------------------------------------------------------
\* The inductive invariant of the caches.

\* A version that the property lets stand although ver has been written.
Excused(kind, v) == \/ v \in late[kind]
                    \/ kind = "perms" /\ \E w \in skipped : w > v

\* What is stored is as new as ver, or excused.
Newest(kind, stored, ver) == stored # None /\ stored < ver => Excused(kind, stored)

\* Versions written are in the database.
VersionsInv ==
  /\ finished <= db
  /\ \A n \in Nodes : /\ writer[n].ver <= db /\ reader[n].since <= finished
                      /\ writer[n].at # "idle" => writer[n].ver \in Versions

\* What a write has cleared stays cleared of what was there before.
WriterClears(n) ==
  /\ writer[n].at \in {"unlock", "hash", "local"} => Newest("perms", entry, writer[n].ver)
  /\ writer[n].at = "local" => Newest("schema", sharedHash, writer[n].ver)

ClearedInv == /\ Newest("perms", entry, finished)
              /\ Newest("schema", sharedHash, finished)
              /\ \A n \in Nodes : WriterClears(n)

\* What a reader holds is as new as the writes that had finished when it began.
ReaderHolds(n) ==
  /\ reader[n].at \in {"share", "keep"} => reader[n].kind = "schema"
  /\ reader[n].at \in {"unlocked?", "set"} => reader[n].kind = "perms"
  /\ reader[n].at \in {"share", "keep", "unlocked?", "set"}
       => reader[n].since <= reader[n].ver /\ reader[n].ver \in Versions
  /\ reader[n].at = "compare" => reader[n].kind = "schema" /\ Newest("schema", reader[n].ver, reader[n].since)
  /\ reader[n].at = "idle" => Newest(reader[n].kind, reader[n].ver, reader[n].since)

ReaderInv == \A n \in Nodes : ReaderHolds(n)

CacheInv == CachesTypeOK /\ VersionsInv /\ ClearedInv /\ ReaderInv

-----------------------------------------------------------------------------
\* The caches.

\* The exceptions only grow.
ExceptionsGrow == skipped \subseteq skipped' /\ \A kind \in {"schema", "perms"} : late[kind] \subseteq late'[kind]

LEMMA ExcusesStay ==
  ASSUME ExceptionsGrow, NEW kind \in {"schema", "perms"}, NEW v, NEW ver, Newest(kind, v, ver)
  PROVE  Newest(kind, v, ver)'
BY DEF ExceptionsGrow, Newest, Excused

LEMMA OnlyExceptionsGrow == CachesTypeOK /\ CachesNext => ExceptionsGrow
<1> SUFFICES ASSUME CachesTypeOK, CachesNext PROVE ExceptionsGrow
  OBVIOUS
<1>1. CASE UNCHANGED <<late, skipped>>
  BY <1>1 DEF ExceptionsGrow
<1>2. ASSUME NEW n \in Nodes, AskLock(n) PROVE ExceptionsGrow
  BY <1>2 DEF AskLock, ExceptionsGrow
<1>3. ASSUME NEW n \in Nodes, ShareHash(n) \/ SetEntry(n) PROVE ExceptionsGrow
  BY <1>3 DEF ShareHash, SetEntry, Stored, ExceptionsGrow, CachesTypeOK
<1>4. ASSUME NEW n \in Nodes, WriterStep(n), ~AskLock(n) PROVE UNCHANGED <<late, skipped>>
  BY <1>4 DEF WriterStep, Commit, TakeLock, ClearEntries, Unlock, DeleteHash, ClearLocal, ClearFails
<1>5. ASSUME NEW n \in Nodes, ReaderStep(n), ~ShareHash(n), ~SetEntry(n) PROVE UNCHANGED <<late, skipped>>
  BY <1>5 DEF ReaderStep, BeginRead, AskHash, Compare, AskEntry, Query, KeepSchema, SeeLock, StoreFails
<1> QED BY <1>1, <1>2, <1>3, <1>4, <1>5 DEF CachesNext, LockExpires

\* What a step does to the record of its reader or writer.
WriterType == [at : {"idle", "locked?", "lock", "clear", "unlock", "release", "hash", "local"},
               ver : {None} \cup Versions]
ReaderType == [at : {"idle", "ask", "compare", "query", "share", "keep", "unlocked?", "set"},
               kind : {"schema", "perms"}, ver : {None} \cup Versions, since : Versions]

LEMMA WriterMoves ==
  ASSUME NEW n \in Nodes, NEW at, writer \in [Nodes -> WriterType], WriterAt(n, at)
  PROVE  /\ writer'[n].at = at /\ writer'[n].ver = writer[n].ver
         /\ \A m \in Nodes \ {n} : writer'[m] = writer[m]
         /\ at \in {"idle", "locked?", "lock", "clear", "unlock", "release", "hash", "local"}
              => writer' \in [Nodes -> WriterType]
BY DEF WriterAt, WriterType

LEMMA ReaderMoves ==
  ASSUME NEW n \in Nodes, NEW at, NEW v, reader \in [Nodes -> ReaderType], ReaderAt(n, at, v)
  PROVE  /\ reader'[n].at = at /\ reader'[n].ver = v
         /\ reader'[n].kind = reader[n].kind /\ reader'[n].since = reader[n].since
         /\ \A m \in Nodes \ {n} : reader'[m] = reader[m]
         /\ at \in {"idle", "ask", "compare", "query", "share", "keep", "unlocked?", "set"}
              /\ v \in {None} \cup Versions => reader' \in [Nodes -> ReaderType]
<1>1. reader' = [reader EXCEPT ![n] = [at |-> at, kind |-> reader[n].kind, ver |-> v, since |-> reader[n].since]]
  BY DEF ReaderAt
<1>2. reader'[n] = [at |-> at, kind |-> reader[n].kind, ver |-> v, since |-> reader[n].since]
  BY <1>1
<1>3. reader[n].kind \in {"schema", "perms"} /\ reader[n].since \in Versions
  BY DEF ReaderType
<1> QED BY <1>1, <1>2, <1>3 DEF ReaderType

LEMMA CacheInit == CachesInit => CacheInv
<1>1. SUFFICES ASSUME CachesInit PROVE CacheInv
  OBVIOUS
<1> USE WritesAssumption
<1>2. CachesTypeOK
  <2>1. 1 \in Versions
    BY DEF Versions
  <2>2. writer \in [Nodes -> WriterType] /\ reader \in [Nodes -> ReaderType]
    BY <1>1, <2>1 DEF CachesInit, WriterType, ReaderType
  <2> QED BY <1>1, <2>1, <2>2 DEF CachesInit, CachesTypeOK, WriterType, ReaderType
<1>3. VersionsInv
  BY <1>1 DEF CachesInit, VersionsInv, None
<1>4. ClearedInv
  BY <1>1 DEF CachesInit, ClearedInv, WriterClears, Newest, None
<1>5. ReaderInv
  BY <1>1 DEF CachesInit, ReaderInv, ReaderHolds, Newest, None
<1> QED BY <1>2, <1>3, <1>4, <1>5 DEF CacheInv

LEMMA CacheTypes == CachesTypeOK /\ VersionsInv /\ ReaderInv /\ CachesNext => CachesTypeOK'
<1>1. SUFFICES ASSUME CachesTypeOK, VersionsInv, ReaderInv, CachesNext PROVE CachesTypeOK'
  OBVIOUS
<1> DEFINE Store == /\ sharedHash \in {None} \cup Versions /\ entry \in {None} \cup Versions /\ lock \in BOOLEAN
                    /\ local \in [Nodes -> {None} \cup Versions]
<1> DEFINE History == /\ late \in [{"schema", "perms"} -> SUBSET Versions] /\ skipped \subseteq Versions
<1> DEFINE Dated == db \in Versions /\ finished \in Versions
<1>2. /\ Store /\ History /\ Dated
      /\ writer \in [Nodes -> WriterType] /\ reader \in [Nodes -> ReaderType]
  BY <1>1 DEF CachesTypeOK, WriterType, ReaderType
<1>3. SUFFICES /\ Store' /\ History' /\ Dated'
               /\ (writer \in [Nodes -> WriterType])' /\ (reader \in [Nodes -> ReaderType])'
  BY DEF CachesTypeOK, WriterType, ReaderType
<1>4. CASE LockExpires
  BY <1>2, <1>4 DEF LockExpires
<1>5. ASSUME NEW n \in Nodes, WriterStep(n) PROVE <1>3!1
  <2>1. CASE Commit(n)
    <3>1. db' \in Versions
      BY <1>2, <2>1, WritesAssumption DEF Commit, Versions
    <3>2. writer' \in [Nodes -> WriterType]
      BY <1>2, <2>1, <3>1 DEF Commit, WriterType
    <3> QED BY <1>2, <2>1, <3>1, <3>2 DEF Commit, storeVars
  <2>2. CASE AskLock(n)
    <3>1. writer' \in [Nodes -> WriterType]
      BY <1>2, <2>2, WriterMoves DEF AskLock
    <3>2. skipped' \subseteq Versions
      BY <1>1, <1>2, <2>2 DEF AskLock, VersionsInv
    <3> QED BY <1>2, <2>2, <3>1, <3>2 DEF AskLock, storeVars
  <2>3. CASE TakeLock(n)
    BY <1>2, <2>3, WriterMoves DEF TakeLock
  <2>4. CASE ClearEntries(n)
    BY <1>2, <2>4, WriterMoves DEF ClearEntries, Cleared
  <2>5. CASE Unlock(n)
    BY <1>2, <2>5, WriterMoves DEF Unlock
  <2>6. CASE DeleteHash(n)
    BY <1>2, <2>6, WriterMoves DEF DeleteHash, HashAfter
  <2>7. CASE ClearLocal(n)
    <3>1. finished' \in Versions
      BY <1>2, <2>7, WritesAssumption DEF ClearLocal, Later, WriterType, Versions, None
    <3> QED BY <1>2, <2>7, <3>1, WriterMoves DEF ClearLocal
  <2>8. CASE ClearFails(n)
    BY <1>2, <2>8, WriterMoves DEF ClearFails, storeVars
  <2> QED BY <1>5, <2>1, <2>2, <2>3, <2>4, <2>5, <2>6, <2>7, <2>8 DEF WriterStep
<1>6. ASSUME NEW n \in Nodes, ReaderStep(n) PROVE <1>3!1
  <2>1. CASE BeginRead(n)
    <3>1. reader' \in [Nodes -> ReaderType]
      BY <1>2, <2>1 DEF BeginRead, ReaderType
    <3> QED BY <1>2, <2>1, <3>1 DEF BeginRead, storeVars
  <2>2. CASE AskHash(n)
    BY <1>2, <2>2, ReaderMoves DEF AskHash, storeVars
  <2>3. CASE Compare(n)
    BY <1>2, <2>3, ReaderMoves DEF Compare, Serve, storeVars
  <2>4. CASE AskEntry(n)
    BY <1>2, <2>4, ReaderMoves DEF AskEntry, Serve, storeVars
  <2>5. CASE Query(n)
    BY <1>2, <2>5, ReaderMoves DEF Query, storeVars
  <2>6. CASE ShareHash(n)
    <3>1. reader[n].ver \in Versions
      BY <1>1, <2>6 DEF ShareHash, ReaderInv, ReaderHolds
    <3>2. reader' \in [Nodes -> ReaderType]
      <4> DEFINE v == reader[n].ver
      <4>1. ReaderAt(n, "keep", v) /\ v \in {None} \cup Versions
        BY <2>6, <3>1 DEF ShareHash
      <4> HIDE DEF v
      <4> QED BY <1>2, <4>1, ReaderMoves
    <3> QED BY <1>2, <2>6, <3>1, <3>2 DEF ShareHash, Stored
  <2>7. CASE KeepSchema(n)
    <3>1. reader[n].ver \in Versions
      BY <1>1, <2>7 DEF KeepSchema, ReaderInv, ReaderHolds
    <3>2. reader' \in [Nodes -> ReaderType]
      <4> DEFINE v == reader[n].ver
      <4>1. ReaderAt(n, "idle", v) /\ v \in {None} \cup Versions
        BY <2>7, <3>1 DEF KeepSchema, Serve
      <4> HIDE DEF v
      <4> QED BY <1>2, <4>1, ReaderMoves
    <3> QED BY <1>2, <2>7, <3>1, <3>2 DEF KeepSchema
  <2>8. CASE SeeLock(n)
    <3>1. reader[n].ver \in Versions
      BY <1>1, <2>8 DEF SeeLock, ReaderInv, ReaderHolds
    <3>2. reader' \in [Nodes -> ReaderType]
      <4> DEFINE v == reader[n].ver
      <4>1. (ReaderAt(n, "idle", v) \/ ReaderAt(n, "set", v)) /\ v \in {None} \cup Versions
        BY <2>8, <3>1 DEF SeeLock, Serve
      <4> HIDE DEF v
      <4> QED BY <1>2, <4>1, ReaderMoves
    <3> QED BY <1>2, <2>8, <3>2 DEF SeeLock, storeVars
  <2>9. CASE SetEntry(n)
    <3>1. reader[n].ver \in Versions
      BY <1>1, <2>9 DEF SetEntry, ReaderInv, ReaderHolds
    <3>2. reader' \in [Nodes -> ReaderType]
      <4> DEFINE v == reader[n].ver
      <4>1. ReaderAt(n, "idle", v) /\ v \in {None} \cup Versions
        BY <2>9, <3>1 DEF SetEntry, Serve
      <4> HIDE DEF v
      <4> QED BY <1>2, <4>1, ReaderMoves
    <3> QED BY <1>2, <2>9, <3>1, <3>2 DEF SetEntry, Stored
  <2>10. CASE StoreFails(n)
    <3>1. reader[n].ver \in {None} \cup Versions
      BY <1>2 DEF ReaderType
    <3> QED BY <1>2, <2>10, <3>1, ReaderMoves DEF StoreFails, Serve, storeVars
  <2> QED BY <1>6, <2>1, <2>2, <2>3, <2>4, <2>5, <2>6, <2>7, <2>8, <2>9, <2>10 DEF ReaderStep
<1> QED BY <1>1, <1>4, <1>5, <1>6 DEF CachesNext

\* The step of a writer leaves readers what they hold.
LEMMA WriterStepReaders ==
  ASSUME CachesTypeOK, ReaderInv, ExceptionsGrow, reader' = reader
  PROVE  ReaderInv'
<1>1. ASSUME NEW n \in Nodes PROVE reader[n].kind \in {"schema", "perms"} /\ ReaderHolds(n)
  BY DEF CachesTypeOK, ReaderInv
<1>2. ASSUME NEW n \in Nodes PROVE ReaderHolds(n)'
  BY <1>1, <1>2, ExcusesStay DEF ReaderHolds
<1> QED BY <1>2 DEF ReaderInv

\* The step of one reader leaves the others what they hold.
LEMMA ReaderStepReaders ==
  ASSUME CachesTypeOK, ReaderInv, ExceptionsGrow, NEW n \in Nodes,
         \A m \in Nodes \ {n} : reader'[m] = reader[m], ReaderHolds(n)'
  PROVE  ReaderInv'
<1>1. ASSUME NEW m \in Nodes PROVE reader[m].kind \in {"schema", "perms"} /\ ReaderHolds(m)
  BY DEF CachesTypeOK, ReaderInv
<1>2. ASSUME NEW m \in Nodes \ {n} PROVE ReaderHolds(m)'
  BY <1>1, <1>2, ExcusesStay DEF ReaderHolds
<1> QED BY <1>2 DEF ReaderInv

\* What follows from the types.
LEMMA CacheNumbers ==
  ASSUME CachesTypeOK
  PROVE  /\ Versions \subseteq Nat \ {None} /\ None \in Nat
         /\ db \in Nat /\ finished \in Nat /\ sharedHash \in Nat /\ entry \in Nat
         /\ writer \in [Nodes -> WriterType] /\ reader \in [Nodes -> ReaderType]
         /\ \A n \in Nodes : /\ local[n] \in Nat /\ writer[n].ver \in Nat
                             /\ reader[n].ver \in Nat /\ reader[n].since \in Nat
                             /\ reader[n].kind \in {"schema", "perms"}
BY WritesAssumption DEF CachesTypeOK, WriterType, ReaderType, Versions, None

LEMMA WriterKeeps ==
  ASSUME CacheInv, CachesTypeOK', ExceptionsGrow, NEW n \in Nodes, WriterStep(n)
  PROVE  CacheInv'
<1>1. /\ CachesTypeOK /\ VersionsInv /\ ClearedInv /\ ReaderInv
      /\ \A m \in Nodes : WriterClears(m)
      /\ writer \in [Nodes -> WriterType]
  BY CacheNumbers DEF CacheInv, ClearedInv
<1>2. reader' = reader
  BY DEF WriterStep, Commit, AskLock, TakeLock, ClearEntries, Unlock, DeleteHash, ClearLocal, ClearFails
<1>3. ReaderInv'
  BY <1>1, <1>2, WriterStepReaders
<1>4. SUFFICES VersionsInv' /\ ClearedInv'
  BY <1>3 DEF CacheInv
<1> USE CacheNumbers
<1>5. SUFFICES VersionsInv' /\ Newest("perms", entry, finished)' /\ Newest("schema", sharedHash, finished)'
               /\ WriterClears(n)' /\ \A m \in Nodes \ {n} : WriterClears(m)'
  BY DEF ClearedInv
<1>6. CASE Commit(n)
  <2>1. writer'[n] = [at |-> "locked?", ver |-> db + 1] /\ \A m \in Nodes \ {n} : writer'[m] = writer[m]
    BY <1>1, <1>6 DEF Commit, WriterType
  <2>2. db' = db + 1 /\ UNCHANGED <<entry, sharedHash, finished, late, skipped>>
    BY <1>6 DEF Commit, storeVars
  <2>3. db + 1 \in Versions
    BY <2>2 DEF CachesTypeOK
  <2>4. VersionsInv'
    BY <1>1, <1>2, <2>1, <2>2, <2>3 DEF VersionsInv
  <2> QED BY <1>1, <2>1, <2>2, <2>4 DEF ClearedInv, WriterClears, Newest, Excused
<1>7. CASE AskLock(n)
  <2>1. CASE WriterAt(n, "lock") /\ UNCHANGED <<db, entry, sharedHash, finished, late, skipped>>
    <3>1. VersionsInv'
      BY <1>1, <1>2, <1>7, <2>1, WriterMoves DEF VersionsInv, AskLock
    <3>2. WriterClears(n)' /\ \A m \in Nodes \ {n} : WriterClears(m)'
      BY <1>1, <2>1, WriterMoves DEF WriterClears, Newest, Excused
    <3> QED BY <1>1, <2>1, <3>1, <3>2 DEF ClearedInv, Newest, Excused
  <2>2. CASE /\ WriterAt(n, "hash") /\ UNCHANGED <<db, entry, sharedHash, finished, late>>
             /\ skipped' = skipped \cup {writer[n].ver}
    <3>1. VersionsInv'
      BY <1>1, <1>2, <1>7, <2>2, WriterMoves DEF VersionsInv, AskLock
    <3>2. WriterClears(n)'
      BY <1>1, <2>2, WriterMoves DEF WriterClears, Newest, Excused
    <3>3. \A m \in Nodes \ {n} : WriterClears(m)'
      BY <1>1, <2>2, WriterMoves, ExcusesStay DEF WriterClears
    <3> QED BY <1>1, <2>2, <3>1, <3>2, <3>3, ExcusesStay DEF ClearedInv
  <2> QED BY <1>7, <2>1, <2>2 DEF AskLock, storeVars
<1>8. CASE TakeLock(n) \/ ClearFails(n)
  <2>1. PICK at \in {"idle", "clear"} : WriterAt(n, at)
    BY <1>8 DEF TakeLock, ClearFails
  <2>2. UNCHANGED <<db, entry, sharedHash, finished, late, skipped>> /\ writer[n].at # "idle"
    BY <1>8 DEF TakeLock, ClearFails, storeVars
  <2>3. VersionsInv'
    BY <1>1, <1>2, <2>1, <2>2, WriterMoves DEF VersionsInv
  <2>4. WriterClears(n)' /\ \A m \in Nodes \ {n} : WriterClears(m)'
    BY <1>1, <2>1, <2>2, WriterMoves DEF WriterClears, Newest, Excused
  <2> QED BY <1>1, <2>2, <2>3, <2>4 DEF ClearedInv, Newest, Excused
<1>9. CASE ClearEntries(n)
  <2>1. PICK at \in {"unlock", "release"} : WriterAt(n, at) /\ (at = "unlock" => entry' = None) /\ entry' \in {entry, None}
    BY <1>9 DEF ClearEntries, Cleared
  <2>2. UNCHANGED <<db, sharedHash, finished, late, skipped>> /\ writer[n].at # "idle"
    BY <1>9 DEF ClearEntries
  <2>3. VersionsInv'
    BY <1>1, <1>2, <2>1, <2>2, WriterMoves DEF VersionsInv
  <2>4. WriterClears(n)' /\ \A m \in Nodes \ {n} : WriterClears(m)'
    BY <1>1, <2>1, <2>2, WriterMoves DEF WriterClears, Newest, Excused
  <2> QED BY <1>1, <2>1, <2>2, <2>3, <2>4 DEF ClearedInv, Newest, Excused
<1>10. CASE Unlock(n)
  <2>1. PICK at \in {"hash", "idle"} : WriterAt(n, at) /\ (at = "hash" => writer[n].at = "unlock")
    BY <1>10 DEF Unlock
  <2>2. UNCHANGED <<db, entry, sharedHash, finished, late, skipped>> /\ writer[n].at # "idle"
    BY <1>10 DEF Unlock
  <2>3. VersionsInv'
    BY <1>1, <1>2, <2>1, <2>2, WriterMoves DEF VersionsInv
  <2>4. WriterClears(n)' /\ \A m \in Nodes \ {n} : WriterClears(m)'
    BY <1>1, <2>1, <2>2, WriterMoves DEF WriterClears, Newest, Excused
  <2> QED BY <1>1, <2>2, <2>3, <2>4 DEF ClearedInv, Newest, Excused
<1>11. CASE DeleteHash(n)
  <2>1. WriterAt(n, "local") /\ sharedHash' = None /\ writer[n].at = "hash"
    BY <1>11 DEF DeleteHash, HashAfter
  <2>2. UNCHANGED <<db, entry, finished, late, skipped>>
    BY <1>11 DEF DeleteHash
  <2>3. VersionsInv'
    BY <1>1, <1>2, <2>1, <2>2, WriterMoves DEF VersionsInv
  <2>4. WriterClears(n)' /\ \A m \in Nodes \ {n} : WriterClears(m)'
    BY <1>1, <2>1, <2>2, WriterMoves DEF WriterClears, Newest, Excused
  <2> QED BY <1>1, <2>1, <2>2, <2>3, <2>4 DEF ClearedInv, Newest, Excused
<1>12. CASE ClearLocal(n)
  <2>1. WriterAt(n, "idle") /\ writer[n].at = "local"
    BY <1>12 DEF ClearLocal
  <2>2. UNCHANGED <<db, entry, sharedHash, late, skipped>>
    BY <1>12 DEF ClearLocal
  <2>3. finished' \in {finished, writer[n].ver} /\ finished <= finished'
    BY <1>1, <1>12 DEF ClearLocal, Later
  <2>4. VersionsInv'
    BY <1>1, <1>2, <2>1, <2>2, <2>3, WriterMoves DEF VersionsInv
  <2>5. WriterClears(n)' /\ \A m \in Nodes \ {n} : WriterClears(m)'
    BY <1>1, <2>1, <2>2, WriterMoves DEF WriterClears, Newest, Excused
  <2>6. Newest("perms", entry, writer[n].ver) /\ Newest("schema", sharedHash, writer[n].ver)
    BY <1>1, <2>1 DEF WriterClears
  <2> QED BY <1>1, <2>2, <2>3, <2>4, <2>5, <2>6 DEF ClearedInv, Newest, Excused
<1> QED BY <1>6, <1>7, <1>8, <1>9, <1>10, <1>11, <1>12 DEF WriterStep

LEMMA ReaderKeeps ==
  ASSUME CacheInv, CachesTypeOK', ExceptionsGrow, NEW n \in Nodes, ReaderStep(n)
  PROVE  CacheInv'
<1>1. /\ CachesTypeOK /\ VersionsInv /\ ClearedInv /\ ReaderInv /\ ReaderHolds(n)
      /\ reader \in [Nodes -> ReaderType]
      /\ \A m \in Nodes : WriterClears(m)
  BY CacheNumbers DEF CacheInv, ClearedInv, ReaderInv
<1>2. UNCHANGED <<db, writer, finished, skipped>>
  BY DEF ReaderStep, BeginRead, AskHash, Compare, AskEntry, Query, ShareHash, KeepSchema, SeeLock, SetEntry, StoreFails,
         storeVars
<1> USE CacheNumbers
\* The caches: only what is as new as the database, or excused, is stored.
<1>3. /\ entry' = entry \/ entry' >= db \/ entry' \in late'["perms"]
      /\ sharedHash' = sharedHash \/ sharedHash' >= db \/ sharedHash' \in late'["schema"]
  <2>1. CASE UNCHANGED <<entry, sharedHash>>
    BY <2>1
  <2>2. CASE ShareHash(n)
    <3>1. sharedHash' = reader[n].ver /\ reader[n].ver \in Versions /\ UNCHANGED entry
      BY <1>1, <2>2 DEF ShareHash, ReaderHolds
    <3> QED BY <1>1, <2>2, <3>1 DEF ShareHash, Stored, CachesTypeOK
  <2>3. CASE SetEntry(n)
    <3>1. entry' = reader[n].ver /\ reader[n].ver \in Versions /\ UNCHANGED sharedHash
      BY <1>1, <2>3 DEF SetEntry, ReaderHolds
    <3> QED BY <1>1, <2>3, <3>1 DEF SetEntry, Stored, CachesTypeOK
  <2> QED BY <2>1, <2>2, <2>3 DEF ReaderStep, BeginRead, AskHash, Compare, AskEntry, Query, KeepSchema, SeeLock, StoreFails,
                                  storeVars
<1>4. ASSUME NEW ver \in Nat, ver <= db
      PROVE  /\ Newest("perms", entry, ver) => Newest("perms", entry, ver)'
             /\ Newest("schema", sharedHash, ver) => Newest("schema", sharedHash, ver)'
  <2>1. entry' \in Nat /\ sharedHash' \in Nat
    BY WritesAssumption DEF CachesTypeOK, Versions, None
  <2>2. ASSUME Newest("perms", entry, ver) PROVE Newest("perms", entry, ver)'
    <3>1. CASE entry' = entry
      BY <2>2, <3>1, ExcusesStay DEF Newest
    <3>2. CASE entry' >= db
      BY <1>1, <1>4, <2>1, <3>2 DEF Newest
    <3>3. CASE entry' \in late'["perms"]
      BY <3>3 DEF Newest, Excused
    <3> QED BY <1>3, <3>1, <3>2, <3>3
  <2>3. ASSUME Newest("schema", sharedHash, ver) PROVE Newest("schema", sharedHash, ver)'
    <3>1. CASE sharedHash' = sharedHash
      BY <2>3, <3>1, ExcusesStay DEF Newest
    <3>2. CASE sharedHash' >= db
      BY <1>1, <1>4, <2>1, <3>2 DEF Newest
    <3>3. CASE sharedHash' \in late'["schema"]
      BY <3>3 DEF Newest, Excused
    <3> QED BY <1>3, <3>1, <3>2, <3>3
  <2> QED BY <2>2, <2>3
<1>5. ClearedInv'
  <2>1. \A m \in Nodes : writer[m].ver \in Nat /\ writer[m].ver <= db
    BY <1>1 DEF VersionsInv
  <2>2. finished \in Nat /\ finished <= db
    BY <1>1 DEF VersionsInv
  <2>3. ASSUME NEW m \in Nodes PROVE WriterClears(m)'
    BY <1>1, <1>2, <1>4, <2>1, <2>3 DEF WriterClears
  <2> QED BY <1>1, <1>2, <1>4, <2>2, <2>3 DEF ClearedInv
\* The readers.
<1>6. SUFFICES /\ reader'[n].since <= finished /\ ReaderHolds(n)'
               /\ \A m \in Nodes \ {n} : reader'[m] = reader[m]
  <2>1. ReaderInv'
    BY <1>1, <1>6, ReaderStepReaders
  <2>2. VersionsInv'
    BY <1>1, <1>2, <1>6 DEF VersionsInv
  <2> QED BY <1>5, <2>1, <2>2 DEF CacheInv
<1>7. reader[n].since <= finished /\ finished <= db /\ db \in Versions
  BY <1>1 DEF VersionsInv, CachesTypeOK
<1>8. CASE BeginRead(n)
  <2>1. PICK kind \in {"schema", "perms"} :
          reader' = [reader EXCEPT ![n] = [at |-> "ask", kind |-> kind, ver |-> None, since |-> finished]]
    BY <1>8 DEF BeginRead
  <2>2. reader'[n] = [at |-> "ask", kind |-> kind, ver |-> None, since |-> finished]
    BY <1>1, <2>1
  <2>3. reader'[n].at = "ask" /\ reader'[n].since = finished /\ \A m \in Nodes \ {n} : reader'[m] = reader[m]
    BY <1>1, <2>1, <2>2
  <2>4. ReaderHolds(n)'
    BY <2>3 DEF ReaderHolds
  <2> QED BY <1>1, <2>3, <2>4 DEF VersionsInv
<1>9. CASE AskHash(n)
  <2>1. ReaderAt(n, "compare", sharedHash) /\ reader[n].kind = "schema" /\ UNCHANGED <<late, skipped>>
    BY <1>9 DEF AskHash
  <2>2. Newest("schema", sharedHash, reader[n].since)
    BY <1>1, <1>7 DEF ClearedInv, Newest
  <2> QED BY <1>1, <1>7, <2>1, <2>2, ReaderMoves DEF ReaderHolds, Newest, Excused
<1>10. CASE Compare(n)
  <2>1. CASE ReaderAt(n, "query", None)
    BY <1>1, <1>7, <2>1, ReaderMoves DEF ReaderHolds
  <2>2. CASE ReaderAt(n, "idle", local[n]) /\ Matches(n)
    BY <1>1, <1>7, <1>10, <2>2, ReaderMoves DEF ReaderHolds, Matches, Compare, Newest, Excused
  <2> QED BY <1>10, <2>1, <2>2 DEF Compare, Serve
<1>11. CASE AskEntry(n)
  <2>1. CASE ReaderAt(n, "query", None)
    BY <1>1, <1>7, <2>1, ReaderMoves DEF ReaderHolds
  <2>2. CASE ReaderAt(n, "idle", entry)
    <3>1. Newest("perms", entry, reader[n].since)
      BY <1>1, <1>7 DEF ClearedInv, Newest
    <3> QED BY <1>1, <1>7, <1>11, <2>2, <3>1, ReaderMoves DEF ReaderHolds, AskEntry, Newest, Excused
  <2> QED BY <1>11, <2>1, <2>2 DEF AskEntry, Serve
<1>12. CASE Query(n)
  <2>1. PICK at \in {"share", "unlocked?"} :
          /\ ReaderAt(n, at, db)
          /\ at = "share" => reader[n].kind = "schema"
          /\ at = "unlocked?" => reader[n].kind = "perms"
    <3>1. CASE reader[n].kind = "schema"
      BY <1>12, <3>1 DEF Query
    <3>2. CASE reader[n].kind = "perms"
      BY <1>12, <3>2 DEF Query
    <3> QED BY <1>1, <3>1, <3>2
  <2> QED BY <1>1, <1>7, <2>1, ReaderMoves DEF ReaderHolds
<1>13. CASE ShareHash(n) \/ KeepSchema(n) \/ SeeLock(n) \/ SetEntry(n)
  <2> DEFINE v == reader[n].ver
  <2>1. PICK at \in {"keep", "idle", "set"} :
          /\ ReaderAt(n, at, v)
          /\ at = "keep" => reader[n].kind = "schema"
          /\ at = "set" => reader[n].kind = "perms"
    BY <1>1, <1>13 DEF ShareHash, KeepSchema, SeeLock, SetEntry, Serve, ReaderHolds
  <2>2. v \in Versions /\ reader[n].since <= v
    BY <1>1, <1>13 DEF ShareHash, KeepSchema, SeeLock, SetEntry, ReaderHolds
  <2> HIDE DEF v
  <2> QED BY <1>1, <1>7, <2>1, <2>2, ReaderMoves DEF ReaderHolds, Newest
<1>14. CASE StoreFails(n)
  <2>1. CASE ReaderAt(n, "query", None) \/ ReaderAt(n, "idle", None)
    BY <1>1, <1>7, <2>1, ReaderMoves DEF ReaderHolds, Newest
  <2>2. CASE reader[n].at = "share" /\ Serve(n, reader[n].ver)
    <3> DEFINE v == reader[n].ver
    <3>1. v \in Versions /\ reader[n].since <= v /\ ReaderAt(n, "idle", v)
      BY <1>1, <2>2 DEF ReaderHolds, Serve
    <3> HIDE DEF v
    <3> QED BY <1>1, <1>7, <3>1, ReaderMoves DEF ReaderHolds, Newest
  <2> QED BY <1>14, <2>1, <2>2 DEF StoreFails, Serve
<1> QED BY <1>8, <1>9, <1>10, <1>11, <1>12, <1>13, <1>14 DEF ReaderStep

LEMMA CacheStepKeeps == CacheInv /\ [CachesNext]_cacheVars => CacheInv'
<1>1. SUFFICES ASSUME CacheInv, [CachesNext]_cacheVars PROVE CacheInv'
  OBVIOUS
<1>2. CASE UNCHANGED cacheVars
  BY <1>1, <1>2 DEF cacheVars, CacheInv, CachesTypeOK, VersionsInv, ClearedInv, WriterClears, ReaderInv, ReaderHolds,
                    Newest, Excused
<1>3. CASE CachesNext
  <2>1. CachesTypeOK' /\ ExceptionsGrow
    BY <1>1, <1>3, CacheTypes, OnlyExceptionsGrow DEF CacheInv
  <2>2. CASE LockExpires
    BY <1>1, <2>1, <2>2 DEF LockExpires, CacheInv, VersionsInv, ClearedInv, WriterClears, ReaderInv, ReaderHolds,
                            Newest, Excused
  <2> QED BY <1>1, <1>3, <2>1, <2>2, WriterKeeps, ReaderKeeps DEF CachesNext
<1> QED BY <1>1, <1>2, <1>3

\* The invariant gives the property.
LEMMA CachesAreFresh == CacheInv => CachesFresh
<1>1. SUFFICES ASSUME CacheInv, NEW n \in Nodes,
                      reader[n].at = "idle", reader[n].ver # None, reader[n].ver < reader[n].since
               PROVE  \/ reader[n].ver \in late[reader[n].kind]
                      \/ reader[n].kind = "perms" /\ \E v \in skipped : v > reader[n].ver
  BY DEF CachesFresh
<1> QED BY <1>1 DEF CacheInv, ReaderInv, ReaderHolds, Newest, Excused

-----------------------------------------------------------------------------
\* The inductive invariant of the sessions.

\* A session that expired is recorded; a login goes back to a token issued.
LapsesRecorded == /\ \A s \in sessions : s.expired => s.token \in lapsed
                  /\ \A t \in 1..issued : from[t].login \in 1..issued

Standing(t) == With(t) # {} \/ t \in lapsed

\* A login's request alone has its token until it hands it out; one that refreshes
\* or logs out has a token that was presented.  A refresh about to rotate and a
\* logout about to delete still have the session they found, unless it lapsed or
\* another request had the token.
CallInv(r) ==
  LET t == calls[r].token IN
  /\ calls[r].at \in {"idle", "insert"} => t = 0
  /\ calls[r].at = "insert" => calls[r].owner \in Owners
  /\ calls[r].at = "purge" => t > 0 /\ t \notin handed /\ Standing(t)
  /\ calls[r].at \in {"lookup", "rotate", "find", "delete", "end"} => t \in presented
  /\ calls[r].at = "rotate" => Standing(t) \/ t \in contested
  /\ calls[r].at = "end" => t \in contested \/ \A s \in sessions : LoginOf(s) = from[t].login => s.token = t

\* Two requests have one token only where that is recorded.
Apart(q, r) == q # r /\ calls[q].token = calls[r].token => calls[q].token \in {0} \cup contested

CallsInv == /\ \A r \in Requests : CallInv(r)
            /\ \A q, r \in Requests : Apart(q, r)

SessionInv == SessionsTypeOK /\ LapsesRecorded /\ CallsInv /\ SessionRules

-----------------------------------------------------------------------------
\* The sessions.

LEMMA SessionInit == SessionsInit => SessionInv
<1>1. SUFFICES ASSUME SessionsInit PROVE SessionInv
  OBVIOUS
<1>2. \A r \in Requests : calls[r] = Call("idle", 0, Nobody)
  BY <1>1 DEF SessionsInit
<1>3. SessionsTypeOK
  BY <1>1, TokensAssumption DEF SessionsInit, SessionsTypeOK, Call, Tokens
<1>4. LapsesRecorded /\ CallsInv
  BY <1>1, <1>2 DEF SessionsInit, LapsesRecorded, CallsInv, CallInv, Apart, Call
<1>5. SessionRules
  BY <1>1 DEF SessionsInit, SessionRules, OneSession, Honoured, LoggedOut
<1> QED BY <1>3, <1>4, <1>5 DEF SessionInv

\* Steps that change only the calls: each request's own part of the invariant is
\* all there is to prove.
Stable == UNCHANGED <<owners, sessions, issued, tokenHistory>>

LEMMA CallChanges ==
  ASSUME SessionInv, NEW r \in Requests, Stable,
         NEW at \in {"idle", "insert", "rotate", "delete", "end"}, NEW token \in 0..issued, NEW owner \in Owners \cup {Nobody},
         Goes(r, at, token, owner), token \in {0, calls[r].token}, CallInv(r)'
  PROVE  SessionInv'
<1>1. /\ calls' \in [Requests -> [at : {"idle", "insert", "purge", "lookup", "rotate", "find", "delete", "end"},
                                  token : 0..issued, owner : Owners \cup {Nobody}]]
      /\ calls'[r].token = token /\ \A q \in Requests \ {r} : calls'[q] = calls[q]
  BY DEF SessionInv, SessionsTypeOK, Goes, Call
<1>2. SessionsTypeOK'
  BY <1>1 DEF SessionInv, SessionsTypeOK, Stable, tokenHistory
<1>3. LapsesRecorded' /\ SessionRules'
  BY DEF SessionInv, Stable, tokenHistory, LapsesRecorded, SessionRules, OneSession, Honoured, LoggedOut, With, LoginOf
<1>4. \A q \in Requests \ {r} : CallInv(q)'
  BY <1>1 DEF SessionInv, CallsInv, CallInv, Stable, tokenHistory, Standing, With, LoginOf
<1>5. \A q, p \in Requests : Apart(q, p)'
  BY <1>1 DEF SessionInv, CallsInv, Apart, Stable, tokenHistory
<1> QED BY <1>2, <1>3, <1>4, <1>5 DEF SessionInv, CallsInv

LEMMA CallsGoOn ==
  ASSUME SessionInv, NEW r \in Requests,
         \/ \E o \in Owners : Login(r, o)
         \/ Fail(r) \/ Lookup(r) \/ Find(r)
  PROVE  SessionInv'
<1> DEFINE t == calls[r].token
<1>1. /\ calls \in [Requests -> [at : {"idle", "insert", "purge", "lookup", "rotate", "find", "delete", "end"},
                                 token : 0..issued, owner : Owners \cup {Nobody}]]
      /\ t \in 0..issued /\ issued \in Nat /\ CallInv(r)
  BY TokensAssumption DEF SessionInv, SessionsTypeOK, CallsInv
<1>2. ASSUME NEW o \in Owners, Login(r, o) PROVE SessionInv'
  <2>1. Stable /\ Goes(r, "insert", 0, o)
    BY <1>2 DEF Login, Stable
  <2>2. CallInv(r)'
    BY <1>1, <2>1 DEF Goes, Call, CallInv
  <2> QED BY <1>1, <2>1, <2>2, CallChanges
<1>3. ASSUME Stable, Ends(r) PROVE SessionInv'
  <2>1. CallInv(r)'
    BY <1>1, <1>3 DEF Ends, Goes, Call, CallInv
  <2> QED BY <1>1, <1>3, <2>1, CallChanges DEF Ends
<1>4. CASE Fail(r)
  BY <1>3, <1>4 DEF Fail, Stable
<1>5. CASE Lookup(r)
  <2>1. Stable
    BY <1>5 DEF Lookup, Stable
  <2>2. ASSUME NEW s \in Found(t), NEW at \in {"rotate", "delete"}, Goes(r, at, t, Nobody) PROVE SessionInv'
    <3>1. t \in presented /\ Standing(t)
      BY <1>1, <1>5 DEF Lookup, CallInv, Found, Standing, With
    <3>2. CallInv(r)'
      BY <1>1, <2>1, <2>2, <3>1 DEF Goes, Call, CallInv, Stable, tokenHistory, Standing, With
    <3> QED BY <1>1, <2>1, <2>2, <3>2, CallChanges
  <2> QED BY <1>3, <1>5, <2>1, <2>2 DEF Lookup
<1>6. CASE Find(r)
  <2>1. Stable
    BY <1>6 DEF Find, Stable
  <2>2. ASSUME NEW s \in sessions, s.token = t, Goes(r, "end", t, Nobody) PROVE SessionInv'
    <3>1. t \in presented /\ \A u \in sessions : LoginOf(u) = from[t].login => u.token = t
      BY <1>1, <1>6, <2>2 DEF Find, CallInv, SessionInv, SessionRules, OneSession, LoginOf
    <3>2. CallInv(r)'
      BY <1>1, <2>1, <2>2, <3>1 DEF Goes, Call, CallInv, Stable, tokenHistory, LoginOf
    <3> QED BY <1>1, <2>1, <2>2, <3>2, CallChanges
  <2> QED BY <1>3, <1>6, <2>1, <2>2 DEF Find
<1> QED BY <1>2, <1>4, <1>5, <1>6

\* What the invariant says of one request's token, for the steps below.
LEMMA CallFacts ==
  ASSUME SessionInv, NEW r \in Requests
  PROVE  /\ calls \in [Requests -> [at : {"idle", "insert", "purge", "lookup", "rotate", "find", "delete", "end"},
                                    token : 0..issued, owner : Owners \cup {Nobody}]]
         /\ calls[r].token \in 0..issued /\ issued \in Nat /\ issued <= MaxTokens /\ MaxTokens \in Nat
         /\ CallInv(r) /\ \A q \in Requests : CallInv(q) /\ Apart(q, r) /\ Apart(r, q)
         /\ \A s \in sessions : s.token \in 1..issued /\ LoginOf(s) \in 1..issued
BY TokensAssumption DEF SessionInv, SessionsTypeOK, CallsInv, LapsesRecorded, LoginOf

LEMMA InsertKeeps == ASSUME SessionInv, NEW r \in Requests, Insert(r) PROVE SessionInv'
<1> DEFINE at == {"idle", "insert", "purge", "lookup", "rotate", "find", "delete", "end"}
<1>a. PICK new \in Nat : new = issued + 1
  BY CallFacts
<1>b. PICK s : s = Session(new, calls[r].owner)
  OBVIOUS
<1>1. /\ issued' = new /\ new \in Tokens /\ sessions' = sessions \cup {s}
      /\ from' = [from EXCEPT ![new] = [token |-> 0, login |-> new]]
      /\ UNCHANGED <<owners, handed, presented, contested, lapsed, ended>>
  BY <1>a, <1>b, CallFacts DEF Insert, Tokens
<1>2. /\ calls'[r] = Call("purge", new, Nobody)
      /\ \A q \in Requests \ {r} : calls'[q] = calls[q]
      /\ calls' \in [Requests -> [at : at, token : 0..new, owner : Owners \cup {Nobody}]]
  BY <1>a, CallFacts DEF Insert, Goes, Call
<1>3. calls[r].owner \in Owners
  BY CallFacts DEF Insert, CallInv
<1>4. s.token = new /\ s.owner \in Owners /\ s.expired = FALSE /\ s \in [token : 1..new, owner : Owners, expired : BOOLEAN]
  BY <1>a, <1>b, <1>3, CallFacts DEF Session
<1>5. /\ from'[new].login = new /\ from'[new].token = 0
      /\ \A t \in 1..issued : from'[t] = from[t] /\ t # new
      /\ from' \in [Tokens -> [token : 0..new, login : 0..new]]
  BY <1>a, <1>1, CallFacts DEF SessionInv, SessionsTypeOK, Tokens
<1>6. \A u \in sessions : u.token \in 1..issued /\ LoginOf(u)' = LoginOf(u) /\ LoginOf(u) # new
  BY <1>a, <1>5, CallFacts DEF LoginOf
<1>7. LoginOf(s)' = new
  BY <1>4, <1>5 DEF LoginOf
<1>8. SessionsTypeOK'
  <2>1. sessions' \subseteq [token : 1..new, owner : Owners, expired : BOOLEAN] /\ issued' \in 0..MaxTokens
    BY <1>a, <1>1, <1>4, CallFacts DEF SessionInv, SessionsTypeOK, Tokens
  <2> QED BY <1>a, <1>1, <1>2, <1>5, <2>1, CallFacts DEF SessionInv, SessionsTypeOK
<1>9. LapsesRecorded'
  BY <1>a, <1>1, <1>4, <1>5, CallFacts DEF SessionInv, LapsesRecorded
<1>10. \A t \in 1..issued : With(t)' = With(t)
  BY <1>1, <1>4, <1>5 DEF With
<1>11. With(new)' # {}
  BY <1>1, <1>4 DEF With
<1>12. \A t \in handed \cup presented \cup ended : t \in 1..issued
  BY DEF SessionInv, SessionsTypeOK
<1>13. CallsInv'
  <2>1. CallInv(r)'
    BY <1>a, <1>1, <1>2, <1>11, <1>12, <1>5, CallFacts DEF CallInv, Call, Standing
  <2>2. ASSUME NEW q \in Requests \ {r} PROVE CallInv(q)'
    <3>1. calls'[q] = calls[q] /\ calls[q].token \in 0..issued /\ CallInv(q)
      BY <1>2, CallFacts
    <3>2. calls[q].at \in {"purge", "rotate"} => Standing(calls[q].token)' = Standing(calls[q].token)
      BY <3>1, <1>1, <1>10, <1>12 DEF CallInv, Standing
    <3>3. ASSUME calls[q].at = "end", calls[q].token \notin contested, NEW u \in sessions',
                 LoginOf(u)' = from'[calls[q].token].login
          PROVE  u.token = calls[q].token
      <4>1. calls[q].token \in 1..issued
        BY <3>1, <3>3, <1>12 DEF CallInv
      <4>2. from'[calls[q].token].login = from[calls[q].token].login /\ from[calls[q].token].login # new
        BY <1>a, <4>1, <1>5, CallFacts DEF SessionInv, LapsesRecorded
      <4>3. u \in sessions
        BY <1>1, <1>7, <3>3, <4>2
      <4> QED BY <3>1, <3>3, <4>2, <4>3, <1>6 DEF CallInv
    <3> QED BY <3>1, <3>2, <3>3, <1>1 DEF CallInv
  <2>3. \A q, p \in Requests : Apart(q, p)'
    BY <1>a, <1>1, <1>2, CallFacts DEF SessionInv, CallsInv, Apart, Call
  <2> QED BY <2>1, <2>2, <2>3 DEF CallsInv
<1>14. SessionRules'
  <2>1. OneSession'
    BY <1>1, <1>4, <1>5, <1>6, <1>7 DEF SessionInv, SessionRules, OneSession
  <2>2. Honoured'
    BY <1>1, <1>5, <1>10, <1>12 DEF SessionInv, SessionRules, Honoured
  <2>3. LoggedOut'
    <3>1. ASSUME NEW t \in ended
          PROVE With(t)' = {} /\ (t \in contested \/ \A u \in sessions' : LoginOf(u)' # from'[t].login)
      <4>1. t \in 1..issued /\ from'[t] = from[t] /\ from[t].login # new /\ With(t)' = With(t)
        BY <1>a, <1>5, <1>10, <1>12, CallFacts DEF SessionInv, LapsesRecorded
      <4> QED BY <4>1, <1>1, <1>6, <1>7 DEF SessionInv, SessionRules, LoggedOut
    <3> QED BY <1>1, <3>1 DEF LoggedOut
  <2> QED BY <2>1, <2>2, <2>3 DEF SessionRules
<1> QED BY <1>8, <1>9, <1>13, <1>14 DEF SessionInv

\* The statements that delete or expire sessions, or end a request with one: what
\* is left is a part of what there was, and its tokens are the same.
LEMMA Purged ==
  ASSUME SessionInv, NEW r \in Requests, Purge(r) PROVE SessionInv'
<1>a. PICK t \in 1..issued : t = calls[r].token
  BY CallFacts DEF Purge, CallInv
<1>1. /\ sessions' \subseteq sessions /\ \A s \in sessions \ sessions' : s.token \in lapsed
      /\ handed' = handed \cup {t}
      /\ UNCHANGED <<owners, issued, presented, contested, lapsed, from, ended>>
  BY <1>a DEF Purge, Unexpired, SessionInv, LapsesRecorded
<1>2. /\ calls'[r] = Call("idle", 0, Nobody)
      /\ \A q \in Requests \ {r} : calls'[q] = calls[q]
      /\ calls' \in [Requests -> [at : {"idle", "insert", "purge", "lookup", "rotate", "find", "delete", "end"},
                                  token : 0..issued, owner : Owners \cup {Nobody}]]
  BY CallFacts DEF Purge, Ends, Goes, Call
<1>3. \A u : Standing(u) => Standing(u)'
  BY <1>1 DEF Standing, With
<1>4. \A u \in sessions : LoginOf(u)' = LoginOf(u)
  BY <1>1 DEF LoginOf
<1>5. SessionsTypeOK'
  BY <1>1, <1>2 DEF SessionInv, SessionsTypeOK
<1>6. LapsesRecorded'
  BY <1>1 DEF SessionInv, LapsesRecorded
<1>7. CallsInv'
  <2>1. CallInv(r)'
    BY <1>2 DEF CallInv, Call
  <2>2. ASSUME NEW q \in Requests \ {r} PROVE CallInv(q)'
    <3>1. calls'[q] = calls[q] /\ CallInv(q)
      BY <1>2, CallFacts
    <3>2. calls[q].at = "purge" => calls[q].token # t
      BY <1>a, <3>1, CallFacts DEF CallInv, Apart, SessionInv, SessionsTypeOK
    <3> QED BY <1>1, <1>3, <1>4, <3>1, <3>2 DEF CallInv
  <2>3. \A q, p \in Requests : Apart(q, p)'
    BY <1>1, <1>2, CallFacts DEF SessionInv, CallsInv, Apart, Call
  <2> QED BY <2>1, <2>2, <2>3 DEF CallsInv
<1>8. SessionRules'
  <2>1. OneSession'
    BY <1>1, <1>4 DEF SessionInv, SessionRules, OneSession
  <2>2. Honoured'
    <3>1. Standing(t)
      BY <1>a, CallFacts DEF Purge, CallInv
    <3> QED BY <1>1, <1>3, <3>1 DEF SessionInv, SessionRules, Honoured, Standing
  <2>3. LoggedOut'
    BY <1>1, <1>4 DEF SessionInv, SessionRules, LoggedOut, With
  <2> QED BY <2>1, <2>2, <2>3 DEF SessionRules
<1> QED BY <1>5, <1>6, <1>7, <1>8 DEF SessionInv

LEMMA DeleteKeeps ==
  ASSUME SessionInv, NEW r \in Requests, Delete(r) PROVE SessionInv'
<1>a. PICK t \in presented : t = calls[r].token
  BY CallFacts DEF Delete, CallInv
<1>1. /\ sessions' = {s \in sessions : s.token # t}
      /\ ended' = IF calls[r].at = "end" THEN ended \cup {t} ELSE ended
      /\ UNCHANGED <<owners, issued, handed, presented, contested, lapsed, from>>
  BY <1>a DEF Delete, Without, With
<1>2. /\ calls'[r] = Call("idle", 0, Nobody)
      /\ \A q \in Requests \ {r} : calls'[q] = calls[q]
      /\ calls' \in [Requests -> [at : {"idle", "insert", "purge", "lookup", "rotate", "find", "delete", "end"},
                                  token : 0..issued, owner : Owners \cup {Nobody}]]
  BY CallFacts DEF Delete, Ends, Goes, Call
<1>3. \A u : u # t => With(u)' = With(u)
  BY <1>1 DEF With
<1>4. With(t)' = {} /\ \A u \in sessions : LoginOf(u)' = LoginOf(u)
  BY <1>1 DEF With, LoginOf
<1>5. SessionsTypeOK'
  BY <1>1, <1>2 DEF SessionInv, SessionsTypeOK
<1>6. LapsesRecorded'
  BY <1>1 DEF SessionInv, LapsesRecorded
<1>7. CallsInv'
  <2>1. CallInv(r)'
    BY <1>2 DEF CallInv, Call
  <2>2. ASSUME NEW q \in Requests \ {r} PROVE CallInv(q)'
    <3>1. calls'[q] = calls[q] /\ CallInv(q)
      BY <1>2, CallFacts
    <3>2. calls[q].at = "purge" => calls[q].token # t
      BY <3>1 DEF CallInv, SessionInv, SessionsTypeOK
    <3>3. calls[q].token = t => t \in contested
      BY <1>a, CallFacts DEF Apart, SessionInv, SessionsTypeOK
    <3> QED BY <1>1, <1>3, <1>4, <3>1, <3>2, <3>3 DEF CallInv, Standing
  <2>3. \A q, p \in Requests : Apart(q, p)'
    BY <1>1, <1>2, CallFacts DEF SessionInv, CallsInv, Apart, Call
  <2> QED BY <2>1, <2>2, <2>3 DEF CallsInv
<1>8. SessionRules'
  <2>1. OneSession'
    BY <1>1, <1>4 DEF SessionInv, SessionRules, OneSession
  <2>2. Honoured'
    BY <1>1, <1>3 DEF SessionInv, SessionRules, Honoured
  <2>3. LoggedOut'
    <3>1. calls[r].at = "end" => t \in contested \/ \A s \in sessions : LoginOf(s) = from[t].login => s.token = t
      BY <1>a, CallFacts DEF CallInv
    <3> QED BY <1>1, <1>3, <1>4, <3>1 DEF SessionInv, SessionRules, LoggedOut
  <2> QED BY <2>1, <2>2, <2>3 DEF SessionRules
<1> QED BY <1>5, <1>6, <1>7, <1>8 DEF SessionInv

LEMMA PresentKeeps ==
  ASSUME SessionInv, NEW r \in Requests, NEW t \in Tokens, NEW at \in {"lookup", "find"}, Present(r, t, at)
  PROVE  SessionInv'
<1>1. /\ t \in handed /\ t \in 1..issued
      /\ presented' = presented \cup {t}
      /\ contested \subseteq contested' /\ contested' \subseteq contested \cup {t}
      /\ (\E q \in Requests : calls[q].token = t) => t \in contested'
      /\ UNCHANGED <<owners, sessions, issued, handed, lapsed, from, ended>>
  BY DEF Present, SessionInv, SessionsTypeOK
<1>2. /\ calls'[r] = Call(at, t, Nobody)
      /\ \A q \in Requests \ {r} : calls'[q] = calls[q]
      /\ calls' \in [Requests -> [at : {"idle", "insert", "purge", "lookup", "rotate", "find", "delete", "end"},
                                  token : 0..issued, owner : Owners \cup {Nobody}]]
  BY <1>1, CallFacts DEF Present, Goes, Call
<1>3. SessionsTypeOK'
  BY <1>1, <1>2 DEF SessionInv, SessionsTypeOK, Present
<1>4. LapsesRecorded'
  BY <1>1 DEF SessionInv, LapsesRecorded
<1>5. CallsInv'
  <2>1. CallInv(r)'
    BY <1>1, <1>2 DEF CallInv, Call
  <2>2. ASSUME NEW q \in Requests \ {r} PROVE CallInv(q)'
    <3>1. calls'[q] = calls[q] /\ CallInv(q)
      BY <1>2, CallFacts
    <3> QED BY <1>1, <3>1 DEF CallInv, Standing, With, LoginOf
  <2>3. \A q, p \in Requests : Apart(q, p)'
    BY <1>1, <1>2, CallFacts DEF SessionInv, CallsInv, Apart, Call
  <2> QED BY <2>1, <2>2, <2>3 DEF CallsInv
<1>6. SessionRules'
  BY <1>1 DEF SessionInv, SessionRules, OneSession, Honoured, LoggedOut, With, LoginOf
<1> QED BY <1>3, <1>4, <1>5, <1>6 DEF SessionInv

LEMMA RotateKeeps ==
  ASSUME SessionInv, NEW r \in Requests, Rotate(r) PROVE SessionInv'
<1>a. PICK t \in presented : t = calls[r].token
  BY CallFacts DEF Rotate, CallInv
<1>b. PICK new \in Tokens : new = issued + 1
  BY CallFacts DEF Rotate, Tokens
<1>c. /\ t \in 1..issued /\ \A u \in handed \cup ended : u \in 1..issued
      /\ from[t].login \in 1..issued
  BY DEF SessionInv, SessionsTypeOK, LapsesRecorded
<1>1. /\ issued' = new /\ handed' = handed \cup {new}
      /\ sessions' = {IF s.token = t THEN Session(new, s.owner) ELSE s : s \in sessions}
      /\ from' = [from EXCEPT ![new] = [token |-> t, login |-> from[t].login]]
      /\ UNCHANGED <<owners, presented, contested, lapsed, ended>>
  BY <1>a, <1>b DEF Rotate, Rotated
<1>2. /\ calls'[r] = Call("idle", 0, Nobody)
      /\ \A q \in Requests \ {r} : calls'[q] = calls[q]
      /\ calls' \in [Requests -> [at : {"idle", "insert", "purge", "lookup", "rotate", "find", "delete", "end"},
                                  token : 0..new, owner : Owners \cup {Nobody}]]
  BY <1>b, CallFacts DEF Rotate, Ends, Goes, Call
<1>3. /\ from'[new] = [token |-> t, login |-> from[t].login]
      /\ \A u \in 1..issued : from'[u] = from[u] /\ u # new
      /\ from' \in [Tokens -> [token : 0..new, login : 0..new]]
  <2>1. from \in [Tokens -> [token : 0..issued, login : 0..issued]] /\ 1..issued \subseteq Tokens
    BY CallFacts DEF SessionInv, SessionsTypeOK, Tokens
  <2>2. [token : 0..issued, login : 0..issued] \subseteq [token : 0..new, login : 0..new]
    BY <1>b, CallFacts
  <2>3. [token |-> t, login |-> from[t].login] \in [token : 0..new, login : 0..new]
    BY <1>b, <1>c, CallFacts
  <2>4. \A u \in 1..issued : u # new
    BY <1>b, CallFacts
  <2> QED BY <1>1, <2>1, <2>2, <2>3, <2>4
\* Each session comes from one of the same login: itself, or the one rotated.
<1> DEFINE Renewed(u) == Session(new, u.owner)
           Becomes(u, s) == (u.token # t /\ s = u) \/ (u.token = t /\ s = Renewed(u))
<1>d. \A u \in sessions : /\ u \in [token : 1..issued, owner : Owners, expired : BOOLEAN] /\ u.token # new
                         /\ Renewed(u) \in [token : 1..new, owner : Owners, expired : BOOLEAN]
                         /\ Renewed(u).token = new /\ ~Renewed(u).expired
  <2>1. SUFFICES ASSUME NEW u \in sessions
                 PROVE  /\ u \in [token : 1..issued, owner : Owners, expired : BOOLEAN] /\ u.token # new
                        /\ Renewed(u) \in [token : 1..new, owner : Owners, expired : BOOLEAN]
                        /\ Renewed(u).token = new /\ ~Renewed(u).expired
    OBVIOUS
  <2>2. u \in [token : 1..issued, owner : Owners, expired : BOOLEAN]
    BY DEF SessionInv, SessionsTypeOK
  <2>3. Renewed(u) = [token |-> new, owner |-> u.owner, expired |-> FALSE]
    BY DEF Session
  <2>4. new \in 1..new /\ \A v \in 1..issued : v # new
    BY <1>b, CallFacts
  <2> QED BY <2>2, <2>3, <2>4
<1>e. sessions' = {IF u.token = t THEN Renewed(u) ELSE u : u \in sessions}
  BY <1>1
<1> HIDE DEF Renewed
<1>4. ASSUME NEW s \in sessions' PROVE \E u \in sessions : LoginOf(s)' = LoginOf(u) /\ Becomes(u, s)
  <2>1. PICK u \in sessions : s = IF u.token = t THEN Renewed(u) ELSE u
    BY <1>e
  <2>2. CASE u.token = t
    <3>1. s = Renewed(u) /\ s.token = new /\ LoginOf(u) = from[t].login
      BY <2>1, <2>2, <1>d DEF LoginOf
    <3>2. LoginOf(s)' = from[t].login
      BY <3>1, <1>3 DEF LoginOf
    <3> QED BY <2>2, <3>1, <3>2
  <2>3. CASE u.token # t
    <3>1. s = u /\ u.token \in 1..issued
      BY <2>1, <2>3, <1>d
    <3>2. from'[s.token] = from[s.token]
      BY <3>1, <1>3
    <3>3. LoginOf(s)' = LoginOf(s)
      BY <3>2 DEF LoginOf
    <3>4. LoginOf(s)' = LoginOf(u)
      BY <3>1, <3>3
    <3>5. Becomes(u, s)
      BY <2>3, <3>1
    <3> QED BY <3>4, <3>5
  <2> QED BY <2>1, <2>2, <2>3
<1>5. SessionsTypeOK'
  <2>1. ASSUME NEW s \in sessions' PROVE s \in [token : 1..new, owner : Owners, expired : BOOLEAN]
    <3>1. PICK u \in sessions : Becomes(u, s)
      BY <1>4
    <3> QED BY <1>b, <1>d, <3>1, CallFacts
  <2>2. sessions' \subseteq [token : 1..new, owner : Owners, expired : BOOLEAN]
    BY <2>1
  <2>3. /\ handed \subseteq 1..issued /\ lapsed \subseteq 1..issued /\ 1..issued \subseteq 1..new
        /\ presented \subseteq handed /\ contested \subseteq presented /\ ended \subseteq presented
        /\ new \in 1..new /\ new \in 0..MaxTokens /\ owners \in [Owners -> {"active", "inactive", "gone"}]
    BY <1>b, CallFacts, SMTT(30) DEF SessionInv, SessionsTypeOK, Tokens
  <2>4. handed' \subseteq 1..new /\ presented' \subseteq handed' /\ lapsed' \subseteq 1..new
    BY <2>3, <1>1
  <2> QED BY <1>1, <1>2, <1>3, <2>2, <2>3, <2>4 DEF SessionsTypeOK
<1>6. LapsesRecorded'
  <2>1. ASSUME NEW s \in sessions', s.expired PROVE s.token \in lapsed
    <3>1. PICK u \in sessions : Becomes(u, s)
      BY <1>4
    <3> QED BY <1>d, <2>1, <3>1 DEF SessionInv, LapsesRecorded
  <2>2. \A u \in 1..new : from'[u].login \in 1..new
    BY <1>b, <1>c, <1>3, CallFacts DEF SessionInv, LapsesRecorded
  <2> QED BY <1>1, <2>1, <2>2 DEF LapsesRecorded
<1>7. \A u \in 1..issued : u # t => With(u)' = With(u)
  <2>1. ASSUME NEW u \in 1..issued, u # t, NEW s PROVE s \in With(u)' <=> s \in With(u)
    <3>1. ASSUME s \in With(u)' PROVE s \in With(u)
      <4>1. s \in sessions' /\ s.token = u
        BY <3>1 DEF With
      <4>2. PICK v \in sessions : Becomes(v, s)
        BY <4>1, <1>4
      <4> QED BY <1>3, <1>d, <4>1, <4>2 DEF With
    <3>2. ASSUME s \in With(u) PROVE s \in With(u)'
      BY <2>1, <3>2, <1>e DEF With
    <3> QED BY <3>1, <3>2
  <2> QED BY <2>1
<1>8. With(t) # {} => With(new)' # {}
  <2>1. ASSUME NEW s \in With(t) PROVE With(new)' # {}
    <3>1. Renewed(s) \in sessions' /\ Renewed(s).token = new
      BY <2>1, <1>d, <1>e DEF With
    <3> QED BY <3>1 DEF With
  <2> QED BY <2>1
<1>9. CallsInv'
  <2>1. CallInv(r)'
    BY <1>2 DEF CallInv, Call
  <2>2. ASSUME NEW q \in Requests \ {r} PROVE CallInv(q)'
    <3>1. calls'[q] = calls[q] /\ CallInv(q) /\ calls[q].token \in 0..issued /\ Apart(q, r)
      BY <1>2, CallFacts
    <3>2. calls[q].token = t => t \in contested
      BY <1>a, <1>c, <3>1, CallFacts DEF Apart
    <3>3. calls[q].at = "purge" => calls[q].token # t /\ calls[q].token # new /\ calls[q].token \in 1..issued
      BY <1>b, <3>1, CallFacts DEF CallInv, SessionInv, SessionsTypeOK
    <3>4. calls[q].at \in {"rotate", "end"} => calls[q].token \in 1..issued
      BY <1>c, <3>1 DEF CallInv, SessionInv, SessionsTypeOK
    <3>5. calls[q].at \in {"purge", "rotate"} /\ calls[q].token # t =>
            (Standing(calls[q].token) => Standing(calls[q].token)')
      BY <3>1, <3>3, <3>4, <1>7, <1>1 DEF Standing
    <3>6. ASSUME calls[q].at = "end", calls[q].token \notin contested, NEW s \in sessions',
                 LoginOf(s)' = from'[calls[q].token].login
          PROVE  s.token = calls[q].token
      <4>1. from'[calls[q].token] = from[calls[q].token]
        BY <3>4, <3>6, <1>3
      <4>2. PICK u \in sessions : LoginOf(s)' = LoginOf(u) /\ Becomes(u, s)
        BY <1>4
      <4> QED BY <3>1, <3>2, <3>6, <4>1, <4>2 DEF CallInv
    <3> QED BY <3>1, <3>2, <3>3, <3>5, <3>6, <1>1 DEF CallInv
  <2>3. ASSUME NEW q \in Requests, NEW p \in Requests PROVE Apart(q, p)'
    <3>1. calls'[q] = calls[q] \/ calls'[q].token = 0
      BY <1>2 DEF Call
    <3>2. calls'[p] = calls[p] \/ calls'[p].token = 0
      BY <1>2 DEF Call
    <3>3. Apart(q, p)
      BY DEF SessionInv, CallsInv
    <3> QED BY <1>1, <3>1, <3>2, <3>3 DEF Apart
  <2> QED BY <2>1, <2>2, <2>3 DEF CallsInv
<1>10. SessionRules'
  <2>1. OneSession'
    <3>1. SUFFICES ASSUME NEW s \in sessions', NEW u \in sessions', s.token = u.token \/ LoginOf(s)' = LoginOf(u)'
                   PROVE  s = u
      BY DEF OneSession
    <3>2. PICK a \in sessions : LoginOf(s)' = LoginOf(a) /\ Becomes(a, s)
      BY <1>4
    <3>3. PICK b \in sessions : LoginOf(u)' = LoginOf(b) /\ Becomes(b, u)
      BY <1>4
    <3>4. LoginOf(s)' = LoginOf(u)'
      BY <3>1 DEF LoginOf
    <3>5. a = b
      BY <3>2, <3>3, <3>4 DEF SessionInv, SessionRules, OneSession
    <3> QED BY <3>2, <3>3, <3>5
  <2>2. Honoured'
    <3>1. SUFFICES ASSUME NEW u \in handed', u \notin presented
                   PROVE  With(u)' # {} \/ u \in lapsed \/ from'[u].token \in lapsed \cup contested
      BY <1>1 DEF Honoured
    <3>2. CASE u = new
      <4>1. With(t) # {} \/ t \in lapsed \/ t \in contested
        BY <1>a, CallFacts DEF Rotate, CallInv, Standing
      <4> QED BY <3>2, <4>1, <1>3, <1>8
    <3>3. CASE u # new
      <4>1. u \in handed /\ u \in 1..issued /\ u # t
        BY <3>1, <3>3, <1>1, <1>c
      <4> QED BY <3>1, <4>1, <1>3, <1>7 DEF SessionInv, SessionRules, Honoured
    <3> QED BY <3>2, <3>3
  <2>3. LoggedOut'
    <3>1. SUFFICES ASSUME NEW u \in ended
                   PROVE  With(u)' = {} /\ (u \in contested \/ \A s \in sessions' : LoginOf(s)' # from'[u].login)
      BY <1>1 DEF LoggedOut
    <3>2. u \in 1..issued /\ u # new /\ from'[u] = from[u] /\ With(u) = {}
      BY <1>c, <1>3 DEF SessionInv, SessionRules, LoggedOut
    <3>3. ASSUME NEW s \in sessions' PROVE s.token # u
      <4>1. PICK v \in sessions : Becomes(v, s)
        BY <1>4
      <4> QED BY <1>d, <3>2, <4>1 DEF With
    <3>4. With(u)' = {}
      BY <3>3 DEF With
    <3>5. ASSUME u \notin contested, NEW s \in sessions' PROVE LoginOf(s)' # from'[u].login
      <4>1. PICK v \in sessions : LoginOf(s)' = LoginOf(v)
        BY <1>4
      <4> QED BY <3>2, <3>5, <4>1 DEF SessionInv, SessionRules, LoggedOut
    <3> QED BY <3>4, <3>5
  <2> QED BY <2>1, <2>2, <2>3 DEF SessionRules
<1> QED BY <1>5, <1>6, <1>9, <1>10 DEF SessionInv

\* Time and administration leave the calls alone; the sessions they take away or
\* expire are recorded.
LEMMA OwnerKeeps ==
  ASSUME SessionInv, NEW o \in Owners, DeleteOwner(o) \/ \E status \in {"active", "inactive"} : ChangeOwner(o, status)
  PROVE  SessionInv'
<1>1. /\ owners' \in [Owners -> {"active", "inactive", "gone"}] /\ sessions' \subseteq sessions
      /\ lapsed' = lapsed \cup {s.token : s \in sessions \ sessions'}
      /\ UNCHANGED <<issued, calls, handed, presented, contested, from, ended>>
  BY DEF DeleteOwner, ChangeOwner, SessionInv, SessionsTypeOK, tokenHistory
<1>2. lapsed' \subseteq 1..issued
  <2>1. \A s \in sessions : s.token \in 1..issued
    BY DEF SessionInv, SessionsTypeOK
  <2> QED BY <1>1, <2>1 DEF SessionInv, SessionsTypeOK
<1>3. \A t : Standing(t) => Standing(t)'
  BY <1>1 DEF Standing, With
<1>4. \A u \in sessions : LoginOf(u)' = LoginOf(u)
  BY <1>1 DEF LoginOf
<1>5. SessionsTypeOK' /\ LapsesRecorded'
  BY <1>1, <1>2 DEF SessionInv, SessionsTypeOK, LapsesRecorded
<1>6. CallsInv'
  <2>1. ASSUME NEW q \in Requests PROVE CallInv(q)'
    BY <1>1, <1>3, <1>4 DEF SessionInv, CallsInv, CallInv
  <2>2. \A q, p \in Requests : Apart(q, p)'
    BY <1>1 DEF SessionInv, CallsInv, Apart
  <2> QED BY <2>1, <2>2 DEF CallsInv
<1>7. SessionRules'
  <2>1. OneSession'
    BY <1>1, <1>4 DEF SessionInv, SessionRules, OneSession
  <2>2. Honoured'
    BY <1>1, <1>3 DEF SessionInv, SessionRules, Honoured, Standing
  <2>3. LoggedOut'
    BY <1>1, <1>4 DEF SessionInv, SessionRules, LoggedOut, With
  <2> QED BY <2>1, <2>2, <2>3 DEF SessionRules
<1> QED BY <1>5, <1>6, <1>7 DEF SessionInv

LEMMA ExpireKeeps == ASSUME SessionInv, NEW x \in sessions, Expire(x) PROVE SessionInv'
<1>a. PICK y : y = [x EXCEPT !.expired = TRUE]
  OBVIOUS
<1>1. /\ sessions' = (sessions \ {x}) \cup {y} /\ lapsed' = lapsed \cup {x.token}
      /\ UNCHANGED <<owners, issued, calls, handed, presented, contested, from, ended>>
  BY <1>a DEF Expire
<1>2. /\ x \in [token : 1..issued, owner : Owners, expired : BOOLEAN]
      /\ y \in [token : 1..issued, owner : Owners, expired : BOOLEAN] /\ y.token = x.token
  BY <1>a DEF SessionInv, SessionsTypeOK
<1>3. \A t : (With(t) # {} => With(t)' # {}) /\ (With(t) = {} => With(t)' = {})
  BY <1>1, <1>2 DEF With
<1>4. LoginOf(y) = LoginOf(x) /\ \A u \in sessions \cup {y} : LoginOf(u)' = LoginOf(u)
  BY <1>1, <1>2 DEF LoginOf
<1>5. SessionsTypeOK'
  BY <1>1, <1>2 DEF SessionInv, SessionsTypeOK
<1>6. LapsesRecorded'
  BY <1>1, <1>2 DEF SessionInv, LapsesRecorded
<1>7. CallsInv'
  <2>1. ASSUME NEW q \in Requests PROVE CallInv(q)'
    <3>1. CallInv(q) /\ calls' = calls
      BY <1>1 DEF SessionInv, CallsInv
    <3> QED BY <1>1, <1>2, <1>3, <1>4, <3>1 DEF CallInv, Standing
  <2>2. \A q, p \in Requests : Apart(q, p)'
    BY <1>1 DEF SessionInv, CallsInv, Apart
  <2> QED BY <2>1, <2>2 DEF CallsInv
<1>8. SessionRules'
  <2>1. OneSession'
    BY <1>1, <1>2, <1>4 DEF SessionInv, SessionRules, OneSession
  <2>2. Honoured'
    BY <1>1, <1>3 DEF SessionInv, SessionRules, Honoured
  <2>3. LoggedOut'
    BY <1>1, <1>3, <1>4 DEF SessionInv, SessionRules, LoggedOut
  <2> QED BY <2>1, <2>2, <2>3 DEF SessionRules
<1> QED BY <1>5, <1>6, <1>7, <1>8 DEF SessionInv

LEMMA SessionStepKeeps == SessionInv /\ [SessionsNext]_sessionVars => SessionInv'
<1>1. SUFFICES ASSUME SessionInv, [SessionsNext]_sessionVars PROVE SessionInv'
  OBVIOUS
<1>2. CASE UNCHANGED sessionVars
  BY <1>1, <1>2 DEF sessionVars, SessionInv, SessionsTypeOK, LapsesRecorded, CallsInv, CallInv, Apart, Standing, With,
                    LoginOf, SessionRules, OneSession, Honoured, LoggedOut
<1>3. ASSUME NEW r \in Requests, \E o \in Owners : Login(r, o) PROVE SessionInv'
  BY <1>1, <1>3, CallsGoOn
<1>4. ASSUME NEW r \in Requests, NEW t \in Tokens, Refresh(r, t) \/ Logout(r, t) PROVE SessionInv'
  BY <1>1, <1>4, PresentKeeps DEF Refresh, Logout
<1>5. ASSUME NEW r \in Requests, Fail(r) \/ Lookup(r) \/ Find(r) PROVE SessionInv'
  BY <1>1, <1>5, CallsGoOn
<1>6. ASSUME NEW r \in Requests, Insert(r) \/ Purge(r) \/ Rotate(r) \/ Delete(r) PROVE SessionInv'
  BY <1>1, <1>6, InsertKeeps, Purged, RotateKeeps, DeleteKeeps
<1>7. ASSUME NEW s \in sessions, Expire(s) PROVE SessionInv'
  BY <1>1, <1>7, ExpireKeeps
<1>8. ASSUME NEW o \in Owners, DeleteOwner(o) \/ \E status \in {"active", "inactive"} : ChangeOwner(o, status)
      PROVE  SessionInv'
  BY <1>1, <1>8, OwnerKeeps
<1> QED BY <1>1, <1>2, <1>3, <1>4, <1>5, <1>6, <1>7, <1>8 DEF SessionsNext

-----------------------------------------------------------------------------
\* The inductive invariant of the administrators.

\* Nothing is told before the end; roles or users change at the commit or at the
\* end.
ProgressInv(r) ==
  /\ stage[r] # "done" => outcome[r] = "none" /\ events[r] = "none"
  /\ wrote[r] => stage[r] \in {"committed", "done"}
  /\ stage[r] = "committed" => wrote[r]

\* A plan that is being applied passes the guards, if it was made for a configuration
\* with an administrator role.
PlanInv(r) == stage[r] \in {"planned", "running"} /\ job[r].op = "apply"
                => Continuity(view[r].roles, job[r].plan) \/ AdminRoles(view[r].roles) = {}

\* Administrator roles get fewer only by serializable commits and by nested writes
\* that take them away, so a transaction that neither overlapped still has those it
\* read.
SnapshotInv(r) ==
  /\ stage[r] = "running" /\ "serializable" \notin overlap[r] /\ "demotion" \notin overlap[r]
       => AdminRoles(view[r].roles) \subseteq AdminRoles(roles)
  /\ stage[r] = "running" /\ overlap[r] = {}
       => view[r].roles = roles /\ view[r].users = users

\* What a user write waits on, while no other write has come.
Checked(j) ==
  /\ j.op = "status" /\ j.row.status # "active" => ActiveAdmins(roles, users) \ {j.user} # {}
  /\ j.op = "remove" => AdminUsers(roles, users) \ {j.user} # {}
  /\ j.op = "assign" /\ j.row.role # NoRole
       => AdminUsers(roles, users) \ {j.user} # {} \/ j.row.role \in AdminRoles(roles)
AskedInv(r) == /\ stage[r] \in {"role", "count", "write"} => job[r].op \in {"status", "remove", "assign", "nested"}
               /\ stage[r] = "role" => job[r].op \in {"assign", "nested"}
               /\ stage[r] \in {"role", "count", "write"} /\ job[r].op = "nested"
                    => job[r].row.role \in Roles /\ job[r].plan[job[r].row.role] # "absent"
CheckedInv(r) == stage[r] = "write" /\ overlap[r] = {} => Checked(job[r])

RequestInv(r) == /\ ProgressInv(r) /\ PlanInv(r) /\ SnapshotInv(r) /\ AskedInv(r) /\ CheckedInv(r)
                 /\ outcome[r] = "last_role" /\ job[r].op = "apply" => AdminRoles(view[r].roles) = {}
                 /\ outcome[r] \in {"refused", "last_role", "unverified", "conflict", "protected",
                                    "state_changed", "failed"} => ~wrote[r] /\ events[r] = "none"
                 /\ stage[r] = "done" /\ job[r].op = "apply" /\ wrote[r]
                      => outcome[r] \in {"ok", "post_commit"} /\ events[r] = "dispatched"

\* A demotion marked is a demotion done.
MarksTrue == \A r \in Requests : "demotion" \in overlap[r] => demoted

AdminInv == AdminTypeOK /\ AdminRoleRemains /\ MarksTrue /\ \A r \in Requests : RequestInv(r)

-----------------------------------------------------------------------------
\* Plans.

\* A plan that is not protected passes the guards.
LEMMA UnprotectedPasses ==
  ASSUME NEW rs \in [Roles -> RoleState], NEW plan \in [Roles -> RoleState],
         AdminRoles(rs) # {}, ~Protected(rs, plan)
  PROVE  Continuity(rs, plan)
<1>1. PICK k \in AdminRoles(rs) \cup Added(rs, plan) : k \notin Removed(rs, plan)
  BY DEF Protected
<1>2. k \notin Revoked(rs, plan) /\ k \notin Deleted(rs, plan)
  BY <1>1 DEF Revoked, Deleted, Removed, Added, AdminRoles, RoleState
<1>3. k \in (BeforeRevokes(rs, plan) \ Revoked(rs, plan)) \ Deleted(rs, plan)
  BY <1>1, <1>2 DEF BeforeRevokes
<1> QED
  BY <1>3 DEF Continuity

\* A plan that passes them leaves an administrator role, in a database that has
\* the roles it changes and the administrators it read.
LEMMA PassedLeavesAdmin ==
  ASSUME NEW r \in Requests, AdminTypeOK, AdminRoles(roles) # {},
         Continuity(view[r].roles, job[r].plan),
         AdminRoles(view[r].roles) \subseteq AdminRoles(roles),
         \A k \in Roles : job[r].plan[k] # view[r].roles[k] => roles[k] = view[r].roles[k]
  PROVE  AdminRoles(RolesAfter(r)) # {}
<1> DEFINE rs == view[r].roles
           plan == job[r].plan
<1>0. rs \in [Roles -> RoleState] /\ plan \in [Roles -> RoleState] /\ roles \in [Roles -> RoleState]
  BY DEF AdminTypeOK, View, Job
<1>1. \A k \in Roles : RolesAfter(r)[k] = IF plan[k] = rs[k] THEN roles[k] ELSE plan[k]
  BY DEF RolesAfter
<1>2. CASE Revoked(rs, plan) = {} /\ Deleted(rs, plan) = {}
  <2>1. PICK k \in Roles : roles[k] = "admin"
    BY DEF AdminRoles
  <2>2. RolesAfter(r)[k] = "admin"
    BY <1>0, <1>1, <1>2, <2>1 DEF Revoked, Deleted, RoleState
  <2> QED
    BY <2>2 DEF AdminRoles
<1>3. CASE Revoked(rs, plan) # {} \/ Deleted(rs, plan) # {}
  <2>1. PICK k \in BeforeRevokes(rs, plan) : k \notin Revoked(rs, plan) /\ k \notin Deleted(rs, plan)
    BY <1>3 DEF Continuity
  <2>2. k \in Roles /\ (rs[k] = "admin" \/ (rs[k] # "admin" /\ plan[k] = "admin"))
    BY <2>1 DEF BeforeRevokes, Added, Created, Granted, AdminRoles
  <2>3. CASE rs[k] = "admin"
    <3>1. plan[k] = "admin"
      BY <1>0, <2>1, <2>2, <2>3 DEF Revoked, Deleted, RoleState
    <3>2. roles[k] = "admin"
      BY <2>2, <2>3 DEF AdminRoles
    <3> QED
      BY <1>1, <2>2, <2>3, <3>1, <3>2 DEF AdminRoles
  <2>4. CASE rs[k] # "admin" /\ plan[k] = "admin"
    BY <1>1, <2>2, <2>4 DEF AdminRoles
  <2> QED
    BY <2>2, <2>3, <2>4
<1> QED
  BY <1>2, <1>3

-----------------------------------------------------------------------------
\* Types.

LEMMA InitInv == AdminInit => AdminInv
<1> SUFFICES ASSUME AdminInit PROVE AdminInv
  OBVIOUS
<1>1. AdminTypeOK
  <2>1. roles \in [Roles -> RoleState] /\ users \in [Users -> UserRow]
    BY DEF AdminInit
  <2>2. \A u \in Users : users[u].status # "gone" /\ users[u].role # NoRole => roles[users[u].role] # "absent"
    BY DEF AdminInit
  <2>3. job \in [Requests -> Job]
    <3>1. (CHOOSE v \in Users : TRUE) \in Users
      BY AdministrationAssumption
    <3>2. \A u \in {CHOOSE v \in Users : TRUE} :
             [op |-> "none", plan |-> roles, user |-> u, row |-> users[u]] \in Job
      BY <2>1, <3>1 DEF Job
    <3> QED
      BY <3>2 DEF AdminInit
  <2>4. view \in [Requests -> View]
    BY <2>1 DEF AdminInit, View
  <2>5. /\ stage \in [Requests -> {"idle", "planned", "running", "committed", "role", "count", "write", "done"}]
        /\ overlap \in [Requests -> SUBSET {"plain", "demotion", "serializable"}]
        /\ wrote \in [Requests -> BOOLEAN]
        /\ events \in [Requests -> {"none", "dispatched", "lost"}]
        /\ outcome \in [Requests -> {"none", "ok", "refused", "last_role", "unverified", "conflict",
                                     "protected", "state_changed", "failed", "post_commit", "error"}]
    BY DEF AdminInit
  <2>6. demoted \in BOOLEAN
    BY DEF AdminInit
  <2> QED
    BY <2>1, <2>2, <2>3, <2>4, <2>5, <2>6 DEF AdminTypeOK
<1>2. AdminRoleRemains
  BY DEF AdminInit, AdminRoleRemains
<1>3. ASSUME NEW r \in Requests PROVE RequestInv(r)
  <2>1. /\ stage[r] = "idle" /\ outcome[r] = "none" /\ events[r] = "none" /\ wrote[r] = FALSE
        /\ overlap[r] = {}
    BY DEF AdminInit
  <2> QED
    BY <2>1 DEF RequestInv, ProgressInv, PlanInv, SnapshotInv, AskedInv, CheckedInv
<1>4. MarksTrue
  BY DEF AdminInit, MarksTrue
<1> QED
  BY <1>1, <1>2, <1>3, <1>4 DEF AdminInv

RolesExist == \A u \in Users : users[u].status # "gone" /\ users[u].role # NoRole
                                => roles[users[u].role] # "absent"

\* A job that is given its kind.
LEMMA JobOp ==
  ASSUME NEW j \in Job, NEW op \in {"create", "joined", "nested"}
  PROVE  [j EXCEPT !.op = op] \in Job /\ [j EXCEPT !.op = op].op = op
BY DEF Job

\* An unguarded write takes administrator roles away, and is marked as one that does,
\* or leaves them.
LEMMA UnguardedFacts ==
  ASSUME NEW r \in Requests, AdminTypeOK, NEW rs \in [Roles -> RoleState], NEW us, WriteUnguarded(r, rs, us)
  PROVE  /\ demoted' \in BOOLEAN /\ (demoted => demoted')
         /\ \/ overlap' = Overlapped(r, "plain") /\ AdminRoles(roles) \subseteq AdminRoles(roles')
            \/ overlap' = Overlapped(r, "demotion") /\ demoted'
<1>1. roles' = rs /\ demoted \in BOOLEAN /\ demoted' = (demoted \/ Removed(roles, rs) # {})
  BY DEF WriteUnguarded, AdminTypeOK
<1>2. CASE Removed(roles, rs) # {}
  BY <1>1, <1>2 DEF WriteUnguarded
<1>3. CASE Removed(roles, rs) = {}
  <2>1. AdminRoles(roles) \subseteq AdminRoles(rs)
    BY <1>3 DEF Removed, AdminRoles
  <2> QED BY <1>1, <1>3, <2>1 DEF WriteUnguarded
<1> QED BY <1>2, <1>3

\* What the two nested writes do.
LEMMA NestedFacts ==
  ASSUME NEW r \in Requests, AdminTypeOK, AskedInv(r), NestedRoleWrite(r) \/ WriteWithRole(r)
  PROVE  /\ roles' \in [Roles -> RoleState] /\ users' \in [Users -> UserRow] /\ RolesExist'
         /\ job' \in [Requests -> Job] /\ job'[r].op = "nested" /\ \A q \in Requests \ {r} : job'[q] = job[q]
         /\ stage[r] \in {"idle", "write"} /\ view' = view /\ demoted' \in BOOLEAN /\ (demoted => demoted')
         /\ \/ End(r, "failed") /\ UNCHANGED <<roles, users, overlap, wrote, events, demoted>>
            \/ /\ End(r, "ok")
               /\ wrote' = [wrote EXCEPT ![r] = TRUE] /\ events' = [events EXCEPT ![r] = "dispatched"]
               /\ \/ overlap' = Overlapped(r, "plain") /\ AdminRoles(roles) \subseteq AdminRoles(roles')
                  \/ overlap' = Overlapped(r, "demotion") /\ demoted'
<1>0. /\ roles \in [Roles -> RoleState] /\ users \in [Users -> UserRow] /\ job \in [Requests -> Job]
      /\ job[r] \in Job /\ demoted \in BOOLEAN /\ RolesExist
  BY DEF AdminTypeOK, RolesExist
<1>1. CASE NestedRoleWrite(r)
  <2>1. PICK k \in Roles, to \in RoleState :
           WriteUnguarded(r, [roles EXCEPT ![k] = to],
                          [u \in Users |-> IF to = "absent" /\ users[u].role = k
                                           THEN [users[u] EXCEPT !.role = NoRole] ELSE users[u]])
    BY <1>1 DEF NestedRoleWrite
  <2>a. PICK rs, us : /\ rs = [roles EXCEPT ![k] = to]
                      /\ us = [u \in Users |-> IF to = "absent" /\ users[u].role = k
                                               THEN [users[u] EXCEPT !.role = NoRole] ELSE users[u]]
    OBVIOUS
  <2>2. rs \in [Roles -> RoleState] /\ rs[k] = to /\ \A i \in Roles \ {k} : rs[i] = roles[i]
    BY <1>0, <2>a
  <2>3. /\ us \in [Users -> UserRow]
        /\ \A u \in Users : /\ us[u].status = users[u].status
                            /\ us[u].role \in {users[u].role, NoRole}
                            /\ to = "absent" => us[u].role # k
    <3>1. ASSUME NEW u \in Users
          PROVE  us[u] \in UserRow /\ us[u].status = users[u].status /\ us[u].role \in {users[u].role, NoRole}
                 /\ (to = "absent" => us[u].role # k)
      BY <1>0, <2>a, AdministrationAssumption DEF UserRow
    <3>2. DOMAIN us = Users /\ us = [u \in Users |-> us[u]]
      BY <2>a
    <3> QED BY <3>1, <3>2
  <2>4. WriteUnguarded(r, rs, us)
    BY <2>1, <2>a
  <2>5. roles' = rs /\ users' = us
    BY <2>4 DEF WriteUnguarded
  <2>6. RolesExist'
    <3> SUFFICES ASSUME NEW u \in Users, us[u].status # "gone", us[u].role # NoRole PROVE rs[us[u].role] # "absent"
      BY <2>5 DEF RolesExist
    <3>1. users[u].role \in Roles \cup {NoRole}
      BY <1>0 DEF UserRow
    <3>2. us[u].role = users[u].role /\ users[u].status # "gone" /\ users[u].role \in Roles
      BY <2>3, <3>1
    <3>3. roles[users[u].role] # "absent"
      BY <1>0, <3>2 DEF RolesExist
    <3>4. CASE users[u].role = k
      <4>1. to # "absent"
        BY <2>3, <3>2, <3>4
      <4> QED BY <2>2, <3>2, <3>4, <4>1
    <3>5. CASE users[u].role # k
      BY <2>2, <3>2, <3>3, <3>5
    <3> QED BY <3>4, <3>5
  <2>7. job' \in [Requests -> Job] /\ job'[r].op = "nested" /\ \A q \in Requests \ {r} : job'[q] = job[q]
    <3>1. job' = [job EXCEPT ![r] = [job[r] EXCEPT !.op = "nested"]]
      BY <1>0, <1>1 DEF NestedRoleWrite
    <3>2. [job[r] EXCEPT !.op = "nested"] \in Job /\ [job[r] EXCEPT !.op = "nested"].op = "nested"
      BY <1>0, JobOp
    <3> QED BY <1>0, <3>1, <3>2
  <2>8. view' = view /\ stage[r] = "idle"
    BY <1>1 DEF NestedRoleWrite
  <2>9. /\ End(r, "ok")
        /\ wrote' = [wrote EXCEPT ![r] = TRUE] /\ events' = [events EXCEPT ![r] = "dispatched"]
    BY <2>4 DEF WriteUnguarded
  <2> QED BY <2>2, <2>3, <2>4, <2>5, <2>6, <2>7, <2>8, <2>9, UnguardedFacts
<1>2. CASE WriteWithRole(r)
  <2> DEFINE u == job[r].user
             k == job[r].row.role
             rs == [roles EXCEPT ![k] = job[r].plan[k]]
             us == IF users[u].status = "gone" THEN users ELSE [users EXCEPT ![u].role = k]
  <2>1. /\ stage[r] = "write" /\ job[r].op = "nested" /\ job' = job /\ view' = view
        /\ WriteUnguarded(r, rs, us) \/ (End(r, "failed") /\ UNCHANGED <<roles, users, overlap, wrote, events, demoted>>)
    BY <1>2 DEF WriteWithRole, dataVars
  <2>2. u \in Users /\ k \in Roles /\ job[r].plan \in [Roles -> RoleState] /\ job[r].plan[k] # "absent"
    BY <1>0, <2>1 DEF AskedInv, Job
  <2>3. /\ rs \in [Roles -> RoleState] /\ rs[k] # "absent"
        /\ \A i \in Roles : roles[i] # "absent" => rs[i] # "absent"
    BY <1>0, <2>2
  <2>4. us \in [Users -> UserRow] /\ \A v \in Users : us[v] = users[v] \/ us[v].role = k
    <3>1. [users[u] EXCEPT !.role = k] \in UserRow /\ [users[u] EXCEPT !.role = k].role = k
      BY <1>0, <2>2 DEF UserRow
    <3>2. CASE users[u].status = "gone"
      BY <1>0, <3>2
    <3>3. CASE users[u].status # "gone"
      <4>1. us = [users EXCEPT ![u] = [users[u] EXCEPT !.role = k]]
        BY <3>3
      <4> HIDE DEF us, u, k
      <4>2. us \in [Users -> UserRow]
        BY <1>0, <2>2, <3>1, <4>1
      <4>3. us[u].role = k /\ \A v \in Users \ {u} : us[v] = users[v]
        BY <1>0, <2>2, <3>1, <4>1
      <4> QED BY <4>2, <4>3
    <3> QED BY <3>2, <3>3
  <2> HIDE DEF u, k, rs, us
  <2>5. CASE WriteUnguarded(r, rs, us)
    <3>1. roles' = rs /\ users' = us
      BY <2>5 DEF WriteUnguarded
    <3>2. RolesExist'
      <4> SUFFICES ASSUME NEW v \in Users, us[v].status # "gone", us[v].role # NoRole PROVE rs[us[v].role] # "absent"
        BY <3>1 DEF RolesExist
      <4>1. CASE us[v].role = k
        BY <2>3, <4>1
      <4>2. CASE us[v] = users[v]
        <5>1. users[v].role \in Roles /\ roles[users[v].role] # "absent"
          BY <1>0, <4>2 DEF RolesExist, UserRow
        <5> QED BY <2>3, <4>2, <5>1
      <4> QED BY <2>4, <4>1, <4>2
    <3>3. /\ End(r, "ok")
          /\ wrote' = [wrote EXCEPT ![r] = TRUE] /\ events' = [events EXCEPT ![r] = "dispatched"]
      BY <2>5 DEF WriteUnguarded
    <3> QED BY <1>0, <2>1, <2>3, <2>4, <2>5, <3>1, <3>2, <3>3, UnguardedFacts
  <2>6. CASE End(r, "failed") /\ UNCHANGED <<roles, users, overlap, wrote, events, demoted>>
    <3>1. RolesExist'
      BY <1>0, <2>6 DEF RolesExist
    <3> QED BY <1>0, <2>1, <2>6, <3>1
  <2> QED BY <2>1, <2>5, <2>6
<1> QED BY <1>1, <1>2

\* The job of a request that asks for a user, and where the request goes on.
LEMMA AskFacts ==
  ASSUME NEW r \in Requests, AdminTypeOK, NEW op \in {"assign", "nested", "status", "remove"}, NEW u \in Users,
         NEW plan \in [Roles -> RoleState], NEW row \in UserRow,
         NEW next \in {"write", "role", "count"}, Ask(r, op, u, plan, row, next)
  PROVE  /\ job' \in [Requests -> Job]
         /\ job'[r].op = op /\ job'[r].plan = plan /\ job'[r].user = u /\ job'[r].row = row
         /\ stage' \in [Requests -> {"idle", "planned", "running", "committed", "role", "count", "write", "done"}]
         /\ stage'[r] = next
<1>1. [op |-> op, plan |-> plan, user |-> u, row |-> row] \in Job
  BY DEF Job
<1> QED BY <1>1 DEF Ask, AdminTypeOK

\* What a request asks for a user.
LEMMA AskUserFacts ==
  ASSUME NEW r \in Requests, AdminTypeOK, AskUser(r)
  PROVE  \E u \in Users, row \in UserRow, op \in {"assign", "nested", "status", "remove"},
            plan \in [Roles -> RoleState], next \in {"write", "role", "count"} :
           /\ Ask(r, op, u, plan, row, next)
           /\ next = "role" => op \in {"assign", "nested"}
           /\ next = "write" => \/ op = "assign" /\ row.role = NoRole
                                \/ op = "status" /\ row.status = "active"
           /\ op = "nested" => row.role \in Roles /\ plan[row.role] # "absent"
<1>1. PICK u \in Users :
        \/ \E k \in Roles \cup {NoRole} :
             Ask(r, "assign", u, job[r].plan, [users[u] EXCEPT !.role = k], IF k = NoRole THEN "write" ELSE "role")
        \/ \E k \in Roles, to \in {"plain", "admin"} :
             Ask(r, "nested", u, [job[r].plan EXCEPT ![k] = to], [users[u] EXCEPT !.role = k], "role")
        \/ \E t \in {"active", "suspended"} :
             Ask(r, "status", u, job[r].plan, [users[u] EXCEPT !.status = t], IF t = "active" THEN "write" ELSE "count")
        \/ Ask(r, "remove", u, job[r].plan, [users[u] EXCEPT !.status = "gone"], "count")
  BY DEF AskUser
<1>2. job[r].plan \in [Roles -> RoleState]
  BY DEF AdminTypeOK, Job
<1>3. /\ \A k \in Roles \cup {NoRole} : /\ [users[u] EXCEPT !.role = k] \in UserRow
                                        /\ [users[u] EXCEPT !.role = k].role = k
      /\ \A t \in {"active", "suspended", "gone"} : /\ [users[u] EXCEPT !.status = t] \in UserRow
                                                    /\ [users[u] EXCEPT !.status = t].status = t
  BY DEF AdminTypeOK, UserRow
<1>4. \A k \in Roles, to \in {"plain", "admin"} : /\ [job[r].plan EXCEPT ![k] = to] \in [Roles -> RoleState]
                                                  /\ [job[r].plan EXCEPT ![k] = to][k] # "absent"
  BY <1>2 DEF RoleState
<1>5. CASE \E k \in Roles \cup {NoRole} :
             Ask(r, "assign", u, job[r].plan, [users[u] EXCEPT !.role = k], IF k = NoRole THEN "write" ELSE "role")
  <2>1. PICK k \in Roles \cup {NoRole} :
             Ask(r, "assign", u, job[r].plan, [users[u] EXCEPT !.role = k], IF k = NoRole THEN "write" ELSE "role")
    BY <1>5
  <2>2. CASE k = NoRole
    <3>1. Ask(r, "assign", u, job[r].plan, [users[u] EXCEPT !.role = k], "write")
      BY <2>1, <2>2
    <3> QED BY <1>2, <1>3, <2>2, <3>1, ZenonT(40)
  <2>3. CASE k # NoRole
    <3>1. Ask(r, "assign", u, job[r].plan, [users[u] EXCEPT !.role = k], "role")
      BY <2>1, <2>3
    <3> QED BY <1>2, <1>3, <3>1, ZenonT(40)
  <2> QED BY <2>2, <2>3
<1>6. CASE \E k \in Roles, to \in {"plain", "admin"} :
             Ask(r, "nested", u, [job[r].plan EXCEPT ![k] = to], [users[u] EXCEPT !.role = k], "role")
  <2>1. PICK k \in Roles, to \in {"plain", "admin"} :
             Ask(r, "nested", u, [job[r].plan EXCEPT ![k] = to], [users[u] EXCEPT !.role = k], "role")
    BY <1>6
  <2>2. PICK row, plan : row = [users[u] EXCEPT !.role = k] /\ plan = [job[r].plan EXCEPT ![k] = to]
    OBVIOUS
  <2>3. /\ Ask(r, "nested", u, plan, row, "role") /\ row \in UserRow /\ row.role = k
        /\ plan \in [Roles -> RoleState] /\ plan[k] # "absent"
    BY <1>3, <1>4, <2>1, <2>2
  <2> QED BY <2>3
<1>7. CASE \E t \in {"active", "suspended"} :
             Ask(r, "status", u, job[r].plan, [users[u] EXCEPT !.status = t], IF t = "active" THEN "write" ELSE "count")
  <2>1. CASE Ask(r, "status", u, job[r].plan, [users[u] EXCEPT !.status = "active"], "write")
    BY <1>2, <1>3, <2>1, ZenonT(40)
  <2>2. CASE Ask(r, "status", u, job[r].plan, [users[u] EXCEPT !.status = "suspended"], "count")
    BY <1>2, <1>3, <2>2, ZenonT(40)
  <2> QED BY <1>7, <2>1, <2>2
<1>8. CASE Ask(r, "remove", u, job[r].plan, [users[u] EXCEPT !.status = "gone"], "count")
  BY <1>2, <1>3, <1>8, ZenonT(40)
<1> QED BY <1>1, <1>5, <1>6, <1>7, <1>8

\* No request changes another's; what it writes is marked on those between their
\* last read and their write.
LEMMA Frame ==
  ASSUME NEW r \in Requests, RoleStep(r) \/ UserStep(r), NEW q \in Requests \ {r},
         AdminTypeOK, RequestInv(r)
  PROVE  /\ job'[q] = job[q] /\ stage'[q] = stage[q] /\ view'[q] = view[q]
         /\ outcome'[q] = outcome[q] /\ wrote'[q] = wrote[q] /\ events'[q] = events[q]
         /\ overlap[q] \subseteq overlap'[q]
         /\ Open(q) /\ overlap'[q] = {} => roles' = roles /\ users' = users
         /\ Open(q) /\ "serializable" \notin overlap'[q] /\ "demotion" \notin overlap'[q]
              => AdminRoles(roles) \subseteq AdminRoles(roles')
<1> USE DEF AdminTypeOK
<1>1. ASSUME NEW kind, overlap' = Overlapped(r, kind)
      PROVE  overlap[q] \subseteq overlap'[q] /\ (Open(q) => kind \in overlap'[q])
  BY <1>1 DEF Overlapped
<1>2. CASE BeginRoleWrite(r)
  BY <1>2 DEF BeginRoleWrite, dataVars
<1>3. CASE PlanConfig(r)
  BY <1>3 DEF PlanConfig, dataVars, End
<1>4. CASE BeginApply(r)
  BY <1>4 DEF BeginApply, dataVars, End
<1>5. CASE CommitRoles(r)
  BY <1>1, <1>5 DEF CommitRoles
<1>6. CASE Refuse(r) \/ Conflict(r) \/ FailRoles(r)
  BY <1>6 DEF Refuse, Conflict, FailRoles, dataVars, End
<1>7. CASE Flush(r)
  BY <1>7 DEF Flush, dataVars, End
<1>8. CASE CreateRole(r)
  <2>1. PICK k \in Roles, to \in {"plain", "admin"} :
           roles[k] = "absent" /\ roles' = [roles EXCEPT ![k] = to]
    BY <1>8 DEF CreateRole
  <2>2. AdminRoles(roles) \subseteq AdminRoles(roles')
    BY <2>1 DEF AdminRoles
  <2> QED
    BY <1>1, <1>8, <2>2 DEF CreateRole, End
<1>9. CASE RoleWriteInTransaction(r)
  <2>1. PICK k \in Roles, to \in {"plain", "admin"} :
           /\ roles[k] \notin {"absent", to}
           /\ IF JoinedAllowed(to)
              THEN /\ roles' = [roles EXCEPT ![k] = to]
                   /\ overlap' = Overlapped(r, "plain")
                   /\ wrote' = [wrote EXCEPT ![r] = TRUE]
                   /\ events' = [events EXCEPT ![r] = "dispatched"]
                   /\ End(r, "ok")
              ELSE End(r, "unverified") /\ UNCHANGED <<roles, overlap, wrote, events>>
    BY <1>9 DEF RoleWriteInTransaction
  <2>2. AdminRoles(roles) \subseteq AdminRoles(roles')
    BY <2>1 DEF AdminRoles, JoinedAllowed
  <2> QED
    BY <1>1, <1>9, <2>1, <2>2 DEF RoleWriteInTransaction, End
<1>13. CASE NestedRoleWrite(r) \/ WriteWithRole(r)
  <2>1. /\ \A i \in Requests \ {r} : job'[i] = job[i]
        /\ view' = view
        /\ \/ End(r, "failed") /\ UNCHANGED <<roles, users, overlap, wrote, events, demoted>>
           \/ /\ End(r, "ok")
              /\ wrote' = [wrote EXCEPT ![r] = TRUE] /\ events' = [events EXCEPT ![r] = "dispatched"]
              /\ \/ overlap' = Overlapped(r, "plain") /\ AdminRoles(roles) \subseteq AdminRoles(roles')
                 \/ overlap' = Overlapped(r, "demotion") /\ demoted'
    BY <1>13, NestedFacts DEF RequestInv
  <2> QED BY <1>1, <2>1 DEF End
<1>10. CASE AskUser(r)
  <2>1. PICK u \in Users, row \in UserRow, op \in {"assign", "nested", "status", "remove"},
             plan \in [Roles -> RoleState], next \in {"write", "role", "count"} : Ask(r, op, u, plan, row, next)
    BY <1>10, AskUserFacts
  <2>2. overlap' = [overlap EXCEPT ![r] = {}] /\ UNCHANGED <<roles, users, view, outcome, wrote, events>>
    BY <1>10 DEF AskUser, dataVars
  <2> QED BY <2>1, <2>2 DEF Ask
<1>11. CASE ReadRole(r) \/ Count(r)
  BY <1>11 DEF ReadRole, Count, dataVars, End
<1>12. CASE Write(r)
  <2>1. CASE UNCHANGED <<users, overlap, wrote, events>>
    BY <1>12, <2>1 DEF Write, End
  <2>2. CASE overlap' = Overlapped(r, "plain")
    BY <1>1, <1>12, <2>2 DEF Write, End
  <2> QED
    BY <1>12, <2>1, <2>2 DEF Write
<1> QED
  BY <1>2, <1>3, <1>4, <1>5, <1>6, <1>7, <1>8, <1>9, <1>10, <1>11, <1>12, <1>13 DEF RoleStep, UserStep

LEMMA OthersKept ==
  ASSUME NEW r \in Requests, RoleStep(r) \/ UserStep(r), NEW q \in Requests \ {r},
         AdminTypeOK, RequestInv(r), RequestInv(q)
  PROVE  RequestInv(q)'
<1>1. /\ job'[q] = job[q] /\ stage'[q] = stage[q] /\ view'[q] = view[q]
      /\ outcome'[q] = outcome[q] /\ wrote'[q] = wrote[q] /\ events'[q] = events[q]
      /\ overlap[q] \subseteq overlap'[q]
      /\ Open(q) /\ overlap'[q] = {} => roles' = roles /\ users' = users
      /\ Open(q) /\ "serializable" \notin overlap'[q] /\ "demotion" \notin overlap'[q]
           => AdminRoles(roles) \subseteq AdminRoles(roles')
  BY Frame
<1>2. ProgressInv(q)' /\ PlanInv(q)' /\ AskedInv(q)'
  BY <1>1 DEF RequestInv, ProgressInv, PlanInv, AskedInv
<1>3. SnapshotInv(q)'
  BY <1>1 DEF RequestInv, SnapshotInv, Open
<1>4. CheckedInv(q)'
  <2>1. stage[q] = "write" /\ overlap'[q] = {} => Checked(job[q]) /\ roles' = roles /\ users' = users
    BY <1>1 DEF RequestInv, CheckedInv, Open
  <2> QED
    BY <1>1, <2>1 DEF CheckedInv, Checked, AdminRoles, AdminUsers, ActiveAdmins
<1> QED
  BY <1>1, <1>2, <1>3, <1>4 DEF RequestInv

-----------------------------------------------------------------------------
\* Types of a step.

Entries == /\ job \in [Requests -> Job]
           /\ stage \in [Requests -> {"idle", "planned", "running", "committed", "role", "count", "write", "done"}]
           /\ view \in [Requests -> View]
           /\ overlap \in [Requests -> SUBSET {"plain", "demotion", "serializable"}]
           /\ outcome \in [Requests -> {"none", "ok", "refused", "last_role", "unverified", "conflict",
                                        "protected", "state_changed", "failed", "post_commit", "error"}]
           /\ wrote \in [Requests -> BOOLEAN]
           /\ events \in [Requests -> {"none", "dispatched", "lost"}]
           /\ demoted \in BOOLEAN

\* What a request asks for, as the steps set it.
LEMMA JobRole ==
  ASSUME NEW j \in Job, NEW op \in {"role", "apply"}, NEW plan \in [Roles -> RoleState]
  PROVE  [j EXCEPT !.op = op, !.plan = plan] \in Job
BY DEF Job

LEMMA OverlapType ==
  ASSUME NEW r \in Requests, AdminTypeOK, NEW kind \in {"plain", "demotion", "serializable"}
  PROVE  Overlapped(r, kind) \in [Requests -> SUBSET {"plain", "demotion", "serializable"}]
BY DEF AdminTypeOK, Overlapped

\* Steps that leave roles and users alone.
LEMMA EntriesStep ==
  ASSUME NEW r \in Requests, AdminTypeOK,
         \/ BeginRoleWrite(r) \/ PlanConfig(r) \/ BeginApply(r) \/ Refuse(r) \/ Conflict(r) \/ FailRoles(r)
         \/ Flush(r) \/ AskUser(r) \/ ReadRole(r) \/ Count(r)
  PROVE  AdminTypeOK'
<1>6. CASE AskUser(r)
  <2>1. PICK u \in Users, row \in UserRow, op \in {"assign", "nested", "status", "remove"},
             plan \in [Roles -> RoleState], next \in {"write", "role", "count"} : Ask(r, op, u, plan, row, next)
    BY <1>6, AskUserFacts
  <2>2. /\ job' \in [Requests -> Job]
        /\ stage' \in [Requests -> {"idle", "planned", "running", "committed", "role", "count", "write", "done"}]
    BY <2>1, AskFacts
  <2>3. overlap' = [overlap EXCEPT ![r] = {}] /\ UNCHANGED <<roles, users, view, outcome, wrote, events, demoted>>
    BY <1>6 DEF AskUser, dataVars
  <2> QED BY <2>2, <2>3 DEF AdminTypeOK
<1> USE DEF AdminTypeOK, End, dataVars
<1>0. [roles |-> roles, users |-> users] \in View
  BY DEF View
<1>1. CASE BeginRoleWrite(r)
  <2>1. PICK k \in Roles, to \in RoleState :
           job' = [job EXCEPT ![r] = [@ EXCEPT !.op = "role", !.plan = [roles EXCEPT ![k] = to]]]
    BY <1>1 DEF BeginRoleWrite
  <2>2. [roles EXCEPT ![k] = to] \in [Roles -> RoleState]
    BY <2>1
  <2>3. job' \in [Requests -> Job]
    BY <2>1, <2>2, JobRole
  <2> QED
    BY <1>0, <1>1, <2>3 DEF BeginRoleWrite
<1>2. CASE PlanConfig(r)
  <2>1. PICK plan \in [Roles -> RoleState] :
           /\ job' = [job EXCEPT ![r] = [@ EXCEPT !.op = "apply", !.plan = plan]]
           /\ IF Protected(roles, plan)
              THEN End(r, "protected") /\ UNCHANGED view
              ELSE /\ stage' = [stage EXCEPT ![r] = "planned"]
                   /\ view' = [view EXCEPT ![r] = [roles |-> roles, users |-> users]]
                   /\ UNCHANGED outcome
    BY <1>2 DEF PlanConfig
  <2>2. [job[r] EXCEPT !.op = "apply", !.plan = plan] \in Job
    BY <2>1, JobRole
  <2>3. job' \in [Requests -> Job]
    BY <2>1, <2>2
  <2>4. \/ stage' = [stage EXCEPT ![r] = "done"] /\ outcome' = [outcome EXCEPT ![r] = "protected"]
           /\ UNCHANGED view
        \/ stage' = [stage EXCEPT ![r] = "planned"] /\ UNCHANGED outcome
           /\ view' = [view EXCEPT ![r] = [roles |-> roles, users |-> users]]
    BY <2>1
  <2>5. UNCHANGED <<roles, users, overlap, wrote, events, demoted>>
    BY <1>2 DEF PlanConfig
  <2> QED
    BY <1>0, <2>3, <2>4, <2>5
<1>3. CASE BeginApply(r)
  <2>1. [view[r] EXCEPT !.users = users] \in View
    BY DEF View
  <2> QED
    BY <1>3, <2>1 DEF BeginApply
<1>4. CASE Refuse(r) \/ Conflict(r) \/ FailRoles(r)
  BY <1>4 DEF Refuse, Conflict, FailRoles
<1>5. CASE Flush(r)
  BY <1>5 DEF Flush, Reported
<1>7. CASE ReadRole(r) \/ Count(r)
  BY <1>7 DEF ReadRole, Count
<1> QED
  BY <1>1, <1>2, <1>3, <1>4, <1>5, <1>6, <1>7

\* The commit of a role write, and the writes outside transactions of that kind.
LEMMA CommitTypes == ASSUME NEW r \in Requests, AdminTypeOK, CommitRoles(r) PROVE AdminTypeOK'
<1>0. /\ view[r] \in View /\ job[r] \in Job /\ roles' = RolesAfter(r) /\ users' = UsersAfter(r)
  BY DEF AdminTypeOK, CommitRoles
<1>1. roles' \in [Roles -> RoleState]
  BY <1>0 DEF RolesAfter, View, Job, AdminTypeOK
<1>2. users' \in [Users -> UserRow]
  <2>1. [role |-> NoRole, status |-> "suspended"] \in UserRow
    BY DEF UserRow
  <2> QED
    BY <1>0, <2>1 DEF UsersAfter, AdminTypeOK
<1>3. RolesExist'
  <2> SUFFICES ASSUME NEW u \in Users, users'[u].status # "gone", users'[u].role # NoRole
               PROVE  roles'[users'[u].role] # "absent"
    BY DEF RolesExist
  <2>1. /\ u \notin MembersOf(users, Deleted(view[r].roles, job[r].plan)) /\ users'[u] = users[u]
    BY <1>0 DEF UsersAfter
  <2>2. users[u].role \in Roles /\ roles[users[u].role] # "absent"
    BY <2>1 DEF AdminTypeOK, UserRow
  <2>3. users[u].role \notin Deleted(view[r].roles, job[r].plan)
    BY <2>1 DEF MembersOf
  <2> QED
    BY <1>0, <2>1, <2>2, <2>3 DEF RolesAfter, Deleted
<1>4. Entries'
  BY OverlapType DEF CommitRoles, AdminTypeOK, Entries
<1> QED
  BY <1>1, <1>2, <1>3, <1>4 DEF AdminTypeOK, RolesExist, Entries

LEMMA PlainTypes ==
  ASSUME NEW r \in Requests, AdminTypeOK, AskedInv(r),
         CreateRole(r) \/ RoleWriteInTransaction(r) \/ NestedRoleWrite(r) \/ Write(r) \/ WriteWithRole(r)
  PROVE  AdminTypeOK'
<1> USE DEF AdminTypeOK
<1>1. ASSUME NEW op \in {"create", "joined"} PROVE [job EXCEPT ![r].op = op] \in [Requests -> Job]
  <2>1. job[r] \in Job /\ op \in {"create", "joined"}
    OBVIOUS
  <2>2. [job[r] EXCEPT !.op = op] \in Job
    BY <2>1, JobOp
  <2> QED
    BY <2>2
<1>2. CASE CreateRole(r)
  <2>1. job' \in [Requests -> Job] /\ overlap' \in [Requests -> SUBSET {"plain", "demotion", "serializable"}]
    BY <1>1, <1>2, OverlapType DEF CreateRole
  <2>2. PICK k \in Roles, to \in {"plain", "admin"} : roles' = [roles EXCEPT ![k] = to]
    BY <1>2 DEF CreateRole
  <2>3. roles' \in [Roles -> RoleState] /\ \A i \in Roles : roles[i] # "absent" => roles'[i] # "absent"
    BY <2>2 DEF RoleState
  <2>4. RolesExist'
    BY <1>2, <2>3 DEF CreateRole, RolesExist, UserRow
  <2> QED
    BY <1>2, <2>1, <2>3, <2>4 DEF CreateRole, End, RolesExist
<1>3. CASE RoleWriteInTransaction(r)
  <2>1. job' \in [Requests -> Job]
    BY <1>1, <1>3 DEF RoleWriteInTransaction
  <2>2. PICK k \in Roles, to \in {"plain", "admin"} :
           IF JoinedAllowed(to)
           THEN /\ roles' = [roles EXCEPT ![k] = to]
                /\ overlap' = Overlapped(r, "plain")
                /\ wrote' = [wrote EXCEPT ![r] = TRUE]
                /\ events' = [events EXCEPT ![r] = "dispatched"]
                /\ End(r, "ok")
           ELSE End(r, "unverified") /\ UNCHANGED <<roles, overlap, wrote, events>>
    BY <1>3 DEF RoleWriteInTransaction
  <2>3. roles' \in [Roles -> RoleState] /\ \A i \in Roles : roles[i] # "absent" => roles'[i] # "absent"
    BY <2>2 DEF RoleState
  <2>4. RolesExist'
    BY <1>3, <2>3 DEF RoleWriteInTransaction, RolesExist, UserRow
  <2>5. overlap' \in [Requests -> SUBSET {"plain", "demotion", "serializable"}]
    BY <2>2, OverlapType
  <2>6. wrote' \in [Requests -> BOOLEAN] /\ events' \in [Requests -> {"none", "dispatched", "lost"}]
    BY <2>2
  <2>7. /\ stage' \in [Requests -> {"idle", "planned", "running", "committed", "role", "count", "write", "done"}]
        /\ outcome' \in [Requests -> {"none", "ok", "refused", "last_role", "unverified", "conflict",
                                      "protected", "state_changed", "failed", "post_commit", "error"}]
    BY <2>2 DEF End
  <2> QED
    BY <1>3, <2>1, <2>3, <2>4, <2>5, <2>6, <2>7 DEF RoleWriteInTransaction, RolesExist
<1>5. CASE NestedRoleWrite(r) \/ WriteWithRole(r)
  <2>1. /\ roles' \in [Roles -> RoleState] /\ users' \in [Users -> UserRow] /\ RolesExist'
        /\ job' \in [Requests -> Job] /\ view' = view /\ demoted' \in BOOLEAN
        /\ \/ End(r, "failed") /\ UNCHANGED <<roles, users, overlap, wrote, events, demoted>>
           \/ /\ End(r, "ok")
              /\ wrote' = [wrote EXCEPT ![r] = TRUE] /\ events' = [events EXCEPT ![r] = "dispatched"]
              /\ overlap' = Overlapped(r, "plain") \/ overlap' = Overlapped(r, "demotion")
    BY <1>5, NestedFacts
  <2>2. overlap' \in [Requests -> SUBSET {"plain", "demotion", "serializable"}]
    BY <2>1, OverlapType
  <2> QED BY <2>1, <2>2 DEF End, RolesExist
<1>4. CASE Write(r)
  <2>1. CASE UNCHANGED <<users, overlap, wrote, events>>
    BY <1>4, <2>1 DEF Write, End
  <2>2. CASE /\ users[job[r].user].status # "gone"
             /\ ~(job[r].op = "assign" /\ job[r].row.role # NoRole /\ roles[job[r].row.role] = "absent")
             /\ users' = [users EXCEPT ![job[r].user] = Written(r)]
             /\ overlap' = Overlapped(r, "plain")
             /\ wrote' = [wrote EXCEPT ![r] = TRUE]
             /\ events' = [events EXCEPT ![r] = "dispatched"]
             /\ End(r, "ok")
    <3>1. job[r].user \in Users /\ job[r].row \in UserRow /\ users[job[r].user] \in UserRow
      BY DEF Job
    <3>2. job[r].op \in {"assign", "status", "remove"}
      BY <1>4 DEF AskedInv, Write
    <3>3. /\ Written(r).role \in {users[job[r].user].role, job[r].row.role}
          /\ job[r].op # "assign" => Written(r).role = users[job[r].user].role
          /\ job[r].op = "assign" => Written(r).role = job[r].row.role /\ Written(r).status = users[job[r].user].status
          /\ Written(r) \in UserRow
      <4>1. CASE job[r].op = "assign"
        BY <3>1, <4>1 DEF Written, UserRow
      <4>2. CASE job[r].op = "status"
        BY <3>1, <4>2 DEF Written, UserRow
      <4>3. CASE job[r].op = "remove"
        BY <3>1, <4>3 DEF Written, UserRow
      <4> QED
        BY <3>2, <4>1, <4>2, <4>3
    <3>4. users' \in [Users -> UserRow]
      BY <2>2, <3>3
    <3>5. RolesExist'
      <4> SUFFICES ASSUME NEW u \in Users, users'[u].status # "gone", users'[u].role # NoRole
                   PROVE  roles[users'[u].role] # "absent"
        BY <1>4 DEF RolesExist, Write
      <4>1. CASE u # job[r].user
        BY <2>2, <4>1
      <4>2. CASE u = job[r].user /\ job[r].op = "assign"
        BY <2>2, <3>3, <4>2
      <4>3. CASE u = job[r].user /\ job[r].op # "assign"
        <5>1. users'[u].role = users[u].role
          BY <2>2, <3>3, <4>3
        <5>2. users[u].status # "gone"
          BY <2>2, <4>3
        <5> QED
          BY <5>1, <5>2
      <4> QED
        BY <4>1, <4>2, <4>3
    <3>6. Entries'
      BY <1>4, <2>2, OverlapType DEF Write, End, Entries
    <3>7. roles' \in [Roles -> RoleState]
      BY <1>4 DEF Write
    <3> QED
      BY <3>4, <3>5, <3>6, <3>7 DEF RolesExist, Entries
  <2> QED
    BY <1>4, <2>1, <2>2 DEF Write
<1> QED
  BY <1>2, <1>3, <1>4, <1>5

-----------------------------------------------------------------------------
\* What a step does to the request that takes it.

LEMMA OwnBegin ==
  ASSUME NEW r \in Requests, AdminInv, BeginRoleWrite(r) \/ PlanConfig(r) \/ BeginApply(r)
  PROVE  RequestInv(r)'
<1> USE DEF AdminInv
<1>0. /\ RequestInv(r) /\ job[r] \in Job /\ view[r] \in View
      /\ stage \in [Requests -> {"idle", "planned", "running", "committed", "role", "count", "write", "done"}]
      /\ DOMAIN stage = Requests /\ DOMAIN view = Requests /\ DOMAIN job = Requests
      /\ DOMAIN overlap = Requests /\ DOMAIN outcome = Requests
  BY DEF AdminTypeOK
<1> USE DEF RequestInv, ProgressInv, PlanInv, SnapshotInv, AskedInv, CheckedInv
<1>1. CASE BeginRoleWrite(r)
  <2>1. PICK k \in Roles, to \in RoleState :
           job' = [job EXCEPT ![r] = [@ EXCEPT !.op = "role", !.plan = [roles EXCEPT ![k] = to]]]
    BY <1>1 DEF BeginRoleWrite
  <2>2. [roles EXCEPT ![k] = to] \in [Roles -> RoleState]
    BY DEF AdminTypeOK
  <2>3. job'[r].op = "role"
    <3>1. job'[r] = [job[r] EXCEPT !.op = "role", !.plan = [roles EXCEPT ![k] = to]]
      BY <1>0, <2>1
    <3> QED
      BY <1>0, <3>1 DEF Job
  <2>4. /\ stage'[r] = "running" /\ view'[r] = [roles |-> roles, users |-> users] /\ overlap'[r] = {}
        /\ UNCHANGED <<roles, users, outcome, wrote, events>> /\ stage[r] = "idle"
    BY <1>0, <1>1 DEF BeginRoleWrite, dataVars
  <2> QED
    BY <1>0, <2>3, <2>4
<1>2. CASE PlanConfig(r)
  <2>1. PICK plan \in [Roles -> RoleState] :
           /\ job' = [job EXCEPT ![r] = [@ EXCEPT !.op = "apply", !.plan = plan]]
           /\ IF Protected(roles, plan)
              THEN End(r, "protected") /\ UNCHANGED view
              ELSE /\ stage' = [stage EXCEPT ![r] = "planned"]
                   /\ view' = [view EXCEPT ![r] = [roles |-> roles, users |-> users]]
                   /\ UNCHANGED outcome
    BY <1>2 DEF PlanConfig
  <2>2. job'[r].op = "apply" /\ job'[r].plan = plan
    <3>1. job'[r] = [job[r] EXCEPT !.op = "apply", !.plan = plan]
      BY <1>0, <2>1
    <3> QED
      BY <1>0, <3>1 DEF Job
  <2>3. UNCHANGED <<roles, users, overlap, wrote, events>> /\ stage[r] = "idle"
    BY <1>2 DEF PlanConfig, dataVars
  <2>4. CASE Protected(roles, plan)
    <3>1. stage'[r] = "done" /\ outcome'[r] = "protected"
      BY <1>0, <2>1, <2>4 DEF End
    <3> QED
      BY <1>0, <2>3, <3>1
  <2>5. CASE ~Protected(roles, plan)
    <3>1. stage'[r] = "planned" /\ view'[r].roles = roles /\ outcome'[r] = outcome[r]
      BY <1>0, <2>1, <2>5
    <3>2. Continuity(roles, plan) \/ AdminRoles(roles) = {}
      BY <2>5, UnprotectedPasses DEF AdminTypeOK
    <3> QED
      BY <1>0, <2>2, <2>3, <3>1, <3>2
  <2> QED
    BY <2>4, <2>5
<1>3. CASE BeginApply(r)
  <2>1. /\ stage[r] = "planned" /\ UNCHANGED <<roles, users, job, wrote, events>>
    BY <1>3 DEF BeginApply, dataVars
  <2>2. CASE StateUnchanged(r)
    <3>1. /\ stage'[r] = "running" /\ overlap'[r] = {} /\ outcome' = outcome
          /\ view'[r] = [view[r] EXCEPT !.users = users]
      BY <1>0, <1>3, <2>2 DEF BeginApply
    <3>2. view'[r].roles = roles /\ view[r].roles = roles /\ view'[r].users = users
      BY <1>0, <2>2, <3>1 DEF StateUnchanged, View
    <3> QED
      BY <1>0, <2>1, <3>1, <3>2
  <2>3. CASE ~StateUnchanged(r)
    <3>1. stage'[r] = "done" /\ outcome'[r] = "state_changed"
      BY <1>0, <1>3, <2>3 DEF BeginApply, End
    <3> QED
      BY <1>0, <2>1, <3>1
  <2> QED
    BY <2>2, <2>3
<1> QED
  BY <1>1, <1>2, <1>3

LEMMA OwnEnd ==
  ASSUME NEW r \in Requests, AdminInv,
         \/ CommitRoles(r) \/ Refuse(r) \/ Conflict(r) \/ FailRoles(r) \/ Flush(r)
         \/ CreateRole(r) \/ RoleWriteInTransaction(r) \/ NestedRoleWrite(r) \/ WriteWithRole(r)
  PROVE  RequestInv(r)'
<1> USE DEF AdminInv
<1>0. /\ RequestInv(r) /\ job[r] \in Job
      /\ stage \in [Requests -> {"idle", "planned", "running", "committed", "role", "count", "write", "done"}]
      /\ DOMAIN stage = Requests /\ DOMAIN job = Requests /\ DOMAIN wrote = Requests
      /\ DOMAIN events = Requests /\ DOMAIN outcome = Requests
  BY DEF AdminTypeOK
<1> USE DEF RequestInv, ProgressInv, PlanInv, SnapshotInv, AskedInv, CheckedInv
<1>1. CASE CommitRoles(r)
  <2>1. /\ stage[r] = "running" /\ stage'[r] = "committed" /\ wrote'[r] = TRUE
        /\ outcome' = outcome /\ events' = events
    BY <1>0, <1>1 DEF CommitRoles
  <2> QED
    BY <1>0, <2>1
<1>2. CASE Refuse(r) \/ Conflict(r) \/ FailRoles(r)
  <2>1. /\ stage[r] = "running" /\ stage'[r] = "done" /\ job' = job /\ view' = view
        /\ wrote' = wrote /\ events' = events
    BY <1>0, <1>2 DEF Refuse, Conflict, FailRoles, End
  <2>2. /\ outcome'[r] \in {"refused", "last_role", "state_changed", "conflict", "failed"}
        /\ outcome'[r] = "last_role" => ~Continuity(view[r].roles, job[r].plan)
    BY <1>0, <1>2 DEF Refuse, Conflict, FailRoles, End
  <2> QED
    BY <1>0, <2>1, <2>2
<1>3. CASE Flush(r)
  <2>1. PICK cleared \in BOOLEAN, acted \in BOOLEAN :
           /\ ~acted => job[r].op = "apply"
           /\ End(r, Reported(r, cleared, acted))
           /\ events' = [events EXCEPT ![r] = IF Dispatches(r, cleared) THEN "dispatched" ELSE "lost"]
    BY <1>3 DEF Flush
  <2>2. /\ stage[r] = "committed" /\ stage'[r] = "done" /\ outcome'[r] = Reported(r, cleared, acted)
        /\ job' = job /\ wrote' = wrote
    BY <1>0, <1>3, <2>1 DEF Flush, End
  <2>3. job[r].op = "apply" => events'[r] = "dispatched"
    BY <1>0, <2>1 DEF Dispatches
  <2>4. /\ Reported(r, cleared, acted) \in {"ok", "post_commit", "error"}
        /\ job[r].op = "apply" => Reported(r, cleared, acted) \in {"ok", "post_commit"}
    BY DEF Reported
  <2> QED
    BY <1>0, <2>2, <2>3, <2>4
<1>4. CASE CreateRole(r)
  <2>1. stage'[r] = "done" /\ outcome'[r] = "ok" /\ events'[r] = "dispatched"
    BY <1>0, <1>4 DEF CreateRole, End
  <2> QED
    BY <1>0, <2>1
<1>5. CASE RoleWriteInTransaction(r)
  <2>1. stage[r] = "idle" /\ stage'[r] = "done" /\ job'[r].op = "joined"
    BY <1>0, <1>5 DEF RoleWriteInTransaction, End, Job
  <2>2. \/ outcome'[r] = "ok"
        \/ outcome'[r] = "unverified" /\ wrote' = wrote /\ events' = events
    BY <1>0, <1>5 DEF RoleWriteInTransaction, End
  <2> QED
    BY <1>0, <2>1, <2>2
<1>6. CASE NestedRoleWrite(r) \/ WriteWithRole(r)
  <2>1. stage'[r] = "done" /\ job'[r].op = "nested" /\ stage[r] \in {"idle", "write"}
    BY <1>0, <1>6, NestedFacts DEF End
  <2>2. \/ outcome'[r] = "ok" /\ wrote'[r] = TRUE /\ events'[r] = "dispatched"
        \/ outcome'[r] = "failed" /\ wrote' = wrote /\ events' = events
    BY <1>0, <1>6, NestedFacts DEF End
  <2> QED
    BY <1>0, <2>1, <2>2
<1> QED
  BY <1>1, <1>2, <1>3, <1>4, <1>5, <1>6

LEMMA OwnUser ==
  ASSUME NEW r \in Requests, AdminInv, AskUser(r) \/ ReadRole(r) \/ Count(r) \/ Write(r)
  PROVE  RequestInv(r)'
<1> USE DEF AdminInv
<1>0. /\ RequestInv(r) /\ job[r] \in Job
      /\ stage \in [Requests -> {"idle", "planned", "running", "committed", "role", "count", "write", "done"}]
      /\ DOMAIN stage = Requests /\ DOMAIN job = Requests /\ DOMAIN wrote = Requests
      /\ DOMAIN events = Requests /\ DOMAIN outcome = Requests /\ DOMAIN overlap = Requests
  BY DEF AdminTypeOK
<1> USE DEF RequestInv, ProgressInv, PlanInv, SnapshotInv, AskedInv, CheckedInv
<1>1. CASE AskUser(r)
  <2>1. /\ stage[r] = "idle" /\ overlap'[r] = {}
        /\ UNCHANGED <<roles, users, view, outcome, wrote, events>>
    BY <1>0, <1>1 DEF AskUser, dataVars
  <2>2. PICK u \in Users, row \in UserRow, op \in {"assign", "nested", "status", "remove"},
             plan \in [Roles -> RoleState], next \in {"write", "role", "count"} :
          /\ Ask(r, op, u, plan, row, next)
          /\ next = "role" => op \in {"assign", "nested"}
          /\ next = "write" => \/ op = "assign" /\ row.role = NoRole
                               \/ op = "status" /\ row.status = "active"
          /\ op = "nested" => row.role \in Roles /\ plan[row.role] # "absent"
    BY <1>1, AskUserFacts
  <2>3. job'[r].op = op /\ job'[r].plan = plan /\ job'[r].row = row /\ stage'[r] = next
    BY <2>2, AskFacts
  <2>4. /\ stage'[r] \in {"write", "role", "count"}
        /\ job'[r].op \in {"assign", "status", "remove", "nested"}
        /\ stage'[r] = "role" => job'[r].op \in {"assign", "nested"}
        /\ job'[r].op = "nested" => job'[r].row.role \in Roles /\ job'[r].plan[job'[r].row.role] # "absent"
        /\ stage'[r] = "write" =>
             \/ job'[r].op = "assign" /\ job'[r].row.role = NoRole
             \/ job'[r].op = "status" /\ job'[r].row.status = "active"
    BY <2>2, <2>3
  <2>5. CheckedInv(r)'
    BY <2>4 DEF Checked
  <2> QED
    BY <1>0, <2>1, <2>4, <2>5
<1>2. CASE ReadRole(r)
  <2>1. /\ stage[r] = "role" /\ job[r].op \in {"assign", "nested"} /\ stage'[r] \in {"write", "count"}
        /\ stage'[r] = "write" => job[r].row.role \in AdminRoles(roles)
        /\ UNCHANGED <<roles, users, job, view, overlap, outcome, wrote, events>>
    BY <1>0, <1>2 DEF ReadRole, dataVars
  <2>2. stage'[r] = "write" => Checked(job[r])
    BY <2>1 DEF Checked
  <2>3. CheckedInv(r)'
    BY <2>1, <2>2 DEF Checked, AdminRoles, AdminUsers, ActiveAdmins
  <2> QED
    BY <1>0, <2>1, <2>3
<1>3. CASE Count(r)
  <2>1. /\ stage[r] = "count" /\ job[r].op \in {"status", "remove", "assign", "nested"}
        /\ UNCHANGED <<roles, users, job, view, overlap, wrote, events>>
    BY <1>0, <1>3 DEF Count, dataVars
  <2>2. CASE Others(r) = {}
    <3>1. stage'[r] = "done" /\ outcome'[r] = "refused"
      BY <1>0, <1>3, <2>2 DEF Count, End
    <3> QED
      BY <1>0, <2>1, <3>1
  <2>3. CASE Others(r) # {}
    <3>1. stage'[r] = "write" /\ outcome' = outcome
      BY <1>0, <1>3, <2>3 DEF Count
    <3>2. Checked(job[r])
      BY <2>1, <2>3 DEF Others, Checked
    <3>3. CheckedInv(r)'
      BY <2>1, <3>2 DEF Checked, AdminRoles, AdminUsers, ActiveAdmins
    <3> QED
      BY <1>0, <2>1, <3>1, <3>3
  <2> QED
    BY <2>2, <2>3
<1>4. CASE Write(r)
  <2>1. stage[r] = "write" /\ stage'[r] = "done" /\ job' = job
    BY <1>0, <1>4 DEF Write, End
  <2>2. \/ outcome'[r] = "ok" /\ UNCHANGED <<wrote, events>>
        \/ outcome'[r] = "failed" /\ UNCHANGED <<wrote, events>>
        \/ outcome'[r] = "ok" /\ wrote'[r] = TRUE /\ events'[r] = "dispatched"
    BY <1>0, <1>4 DEF Write, End
  <2> QED
    BY <1>0, <2>1, <2>2
<1> QED
  BY <1>1, <1>2, <1>3, <1>4

-----------------------------------------------------------------------------
\* The invariant and the theorems.

\* The one way the last administrator role goes.
LEMMA RoleGoes ==
  ASSUME NEW r \in Requests, AdminInv, RoleStep(r) \/ UserStep(r),
         AdminRoles(roles) # {}, AdminRoles(roles') = {}
  PROVE  \/ demoted' /\ job'[r].op = "nested" /\ stage[r] # "done" /\ stage'[r] = "done"
         \/ stage[r] = "running" /\ stage'[r] = "committed" /\ "demotion" \in overlap[r] /\ demoted' = demoted
<1>0. /\ AdminTypeOK /\ RequestInv(r) /\ roles \in [Roles -> RoleState] /\ DOMAIN stage = Requests
  BY DEF AdminInv, AdminTypeOK
<1>1. CASE CommitRoles(r)
  <2>1. /\ Continuity(view[r].roles, job[r].plan) /\ Isolated(r) /\ stage[r] = "running"
        /\ roles' = RolesAfter(r) /\ stage'[r] = "committed" /\ demoted' = demoted
    BY <1>0, <1>1 DEF CommitRoles, Allowed
  <2>2. CASE "demotion" \in overlap[r]
    BY <2>1, <2>2
  <2>3. CASE "demotion" \notin overlap[r]
    <3>1. AdminRoles(view[r].roles) \subseteq AdminRoles(roles)
      BY <1>0, <2>1, <2>3 DEF RequestInv, SnapshotInv, Isolated
    <3>2. AdminRoles(RolesAfter(r)) # {}
      BY <1>0, <2>1, <3>1, PassedLeavesAdmin DEF Isolated
    <3> QED BY <2>1, <3>2
  <2> QED BY <2>2, <2>3
<1>2. CASE roles' = roles
  BY <1>2 DEF AdminRoles
<1>3. CASE CreateRole(r) \/ (RoleWriteInTransaction(r) /\ roles' # roles)
  <2>1. PICK k \in Roles, to \in {"plain", "admin"} :
           (roles[k] = "absent" \/ to = "admin") /\ roles' = [roles EXCEPT ![k] = to]
    BY <1>3 DEF CreateRole, RoleWriteInTransaction, JoinedAllowed
  <2>2. AdminRoles(roles) \subseteq AdminRoles(roles')
    BY <1>0, <2>1 DEF AdminRoles
  <2> QED BY <2>2
<1>4. CASE NestedRoleWrite(r) \/ WriteWithRole(r)
  <2>1. CASE End(r, "failed") /\ UNCHANGED <<roles, users, overlap, wrote, events, demoted>>
    BY <1>2, <2>1
  <2>2. CASE End(r, "ok") /\ AdminRoles(roles) \subseteq AdminRoles(roles')
    BY <2>2
  <2>3. CASE End(r, "ok") /\ demoted'
    BY <1>0, <1>4, <2>3, NestedFacts DEF End, RequestInv
  <2> QED BY <1>0, <1>4, <2>1, <2>2, <2>3, NestedFacts DEF RequestInv
<1> QED
  BY <1>1, <1>2, <1>3, <1>4
  DEF RoleStep, UserStep, BeginRoleWrite, PlanConfig, BeginApply, Refuse, Conflict, FailRoles, Flush,
      RoleWriteInTransaction, AskUser, ReadRole, Count, Write, dataVars

\* Marks and demotions only come together.
LEMMA MarksStep ==
  ASSUME NEW r \in Requests, AdminInv, RoleStep(r) \/ UserStep(r)
  PROVE  MarksTrue' /\ (demoted => demoted')
<1>0. AdminTypeOK /\ MarksTrue /\ AskedInv(r)
  BY DEF AdminInv, RequestInv
<1>1. CASE /\ demoted' = demoted
           /\ \/ overlap' \in {overlap, [overlap EXCEPT ![r] = {}]}
              \/ \E kind \in {"plain", "serializable"} : overlap' = Overlapped(r, kind)
  BY <1>0, <1>1 DEF MarksTrue, AdminTypeOK, Overlapped
<1>2. CASE NestedRoleWrite(r) \/ WriteWithRole(r)
  <2>1. /\ demoted => demoted'
        /\ overlap' \in {overlap, Overlapped(r, "plain")} \/ demoted'
    BY <1>0, <1>2, NestedFacts
  <2>2. CASE demoted'
    BY <2>1, <2>2 DEF MarksTrue
  <2>3. CASE overlap' \in {overlap, Overlapped(r, "plain")}
    BY <1>0, <2>1, <2>3 DEF MarksTrue, AdminTypeOK, Overlapped
  <2> QED BY <2>1, <2>2, <2>3
<1>3. CASE RoleWriteInTransaction(r) \/ CreateRole(r) \/ Write(r) \/ CommitRoles(r)
  <2>1. demoted' = demoted
    BY <1>3 DEF RoleWriteInTransaction, CreateRole, Write, CommitRoles
  <2>2. \/ overlap' = overlap
        \/ \E kind \in {"plain", "serializable"} : overlap' = Overlapped(r, kind)
    BY <1>3 DEF RoleWriteInTransaction, CreateRole, Write, CommitRoles
  <2> QED BY <1>1, <2>1, <2>2
<1>4. CASE BeginRoleWrite(r) \/ PlanConfig(r) \/ BeginApply(r) \/ AskUser(r)
  BY <1>1, <1>4 DEF BeginRoleWrite, PlanConfig, BeginApply, AskUser
<1>5. CASE Refuse(r) \/ Conflict(r) \/ FailRoles(r) \/ Flush(r) \/ ReadRole(r) \/ Count(r)
  BY <1>1, <1>5 DEF Refuse, Conflict, FailRoles, Flush, ReadRole, Count
<1> QED
  BY <1>2, <1>3, <1>4, <1>5 DEF RoleStep, UserStep

LEMMA AdminRoleStep ==
  ASSUME NEW r \in Requests, AdminInv, RoleStep(r) \/ UserStep(r)
  PROVE  AdminRoleRemains'
<1>1. /\ AdminRoles(roles) # {} \/ demoted
      /\ "demotion" \in overlap[r] => demoted
  BY DEF AdminInv, AdminRoleRemains, MarksTrue
<1>2. demoted => demoted'
  BY MarksStep
<1>3. AdminRoles(roles) # {} /\ AdminRoles(roles') = {} => demoted'
  BY <1>1, <1>2, RoleGoes
<1> QED
  BY <1>1, <1>2, <1>3 DEF AdminRoleRemains

LEMMA AdminStep == AdminInv /\ [AdminNext]_adminVars => AdminInv'
<1> SUFFICES ASSUME AdminInv, [AdminNext]_adminVars PROVE AdminInv'
  OBVIOUS
<1>1. CASE AdminNext
  <2>1. PICK r \in Requests : RoleStep(r) \/ UserStep(r)
    BY <1>1 DEF AdminNext
  <2>2. AdminTypeOK'
    <3>1. AdminTypeOK /\ AskedInv(r)
      BY DEF AdminInv, RequestInv
    <3> QED
      BY <2>1, <3>1, EntriesStep, CommitTypes, PlainTypes DEF RoleStep, UserStep
  <2>3. AdminRoleRemains' /\ MarksTrue'
    BY <2>1, AdminRoleStep, MarksStep
  <2>4. RequestInv(r)'
    BY <2>1, OwnBegin, OwnEnd, OwnUser DEF RoleStep, UserStep
  <2>5. ASSUME NEW q \in Requests \ {r} PROVE RequestInv(q)'
    <3>1. AdminTypeOK /\ RequestInv(r) /\ RequestInv(q)
      BY DEF AdminInv
    <3> QED
      BY <2>1, <3>1, OthersKept
  <2> QED
    BY <2>2, <2>3, <2>4, <2>5 DEF AdminInv
<1>2. CASE UNCHANGED adminVars
  BY <1>2 DEF adminVars, AdminInv, AdminTypeOK, AdminRoleRemains, MarksTrue, AdminRoles, RequestInv, ProgressInv, PlanInv,
              SnapshotInv, AskedInv, CheckedInv, Checked, AdminUsers, ActiveAdmins
<1> QED
  BY <1>1, <1>2

LEMMA AdminRulesHold == AdminInv => AdminRules
BY DEF AdminInv, RequestInv, AdminRules, RequestRules, PlanNotStopped, OutcomeTruthful

-----------------------------------------------------------------------------
\* What was checked holds when it is written.

LEMMA CountStep ==
  ASSUME NEW r \in Requests, AdminInv, Write(r), users' # users, overlap[r] = {}, Counted(r)
  PROVE  IF job[r].op = "status" /\ job[r].row.status # "active"
         THEN ActiveAdmins(roles', users') # {}
         ELSE job[r].op = "status" \/ AdminUsers(roles', users') # {}
<1> DEFINE u == job[r].user
<1>0. /\ AdminTypeOK /\ RequestInv(r) /\ job[r] \in Job /\ u \in Users /\ users[u] \in UserRow
      /\ DOMAIN users = Users
  BY DEF AdminInv, AdminTypeOK, Job
<1>1. /\ stage[r] = "write" /\ users[u].status # "gone" /\ roles' = roles
      /\ users' = [users EXCEPT ![u] = Written(r)]
  BY DEF Write
<1>2. Checked(job[r])
  BY <1>0, <1>1 DEF RequestInv, CheckedInv
<1>3. \A v \in Users \ {u} : users'[v] = users[v]
  BY <1>0, <1>1
<1>4. /\ AdminUsers(roles, users) \ {u} \subseteq AdminUsers(roles', users')
      /\ ActiveAdmins(roles, users) \ {u} \subseteq ActiveAdmins(roles', users')
  BY <1>1, <1>3 DEF AdminUsers, ActiveAdmins
<1>5. CASE job[r].op = "status"
  BY <1>2, <1>4, <1>5 DEF Checked
<1>6. CASE job[r].op = "remove"
  BY <1>2, <1>4, <1>6 DEF Checked
<1>7. CASE job[r].op = "assign" /\ job[r].row.role \notin AdminRoles(roles)
  BY <1>2, <1>4, <1>7 DEF Checked, Counted
<1>8. CASE job[r].op = "assign" /\ job[r].row.role \in AdminRoles(roles)
  <2>1. users'[u] = Written(r) /\ Written(r) = [users[u] EXCEPT !.role = job[r].row.role]
    BY <1>0, <1>1, <1>8 DEF Written
  <2>2. users'[u].role = job[r].row.role /\ users'[u].status = users[u].status
    BY <1>0, <2>1 DEF UserRow
  <2>3. u \in AdminUsers(roles', users')
    BY <1>0, <1>1, <1>8, <2>2 DEF AdminUsers
  <2> QED
    BY <1>8, <2>3
<1> QED
  BY <1>5, <1>6, <1>7, <1>8 DEF Counted

LEMMA CommitStep ==
  ASSUME NEW r \in Requests, AdminInv, CommitRoles(r), overlap[r] = {}
  PROVE  /\ users' # users => ActiveAdmins(roles', users') # {}
         /\ roles' = job[r].plan
<1> DEFINE plan == job[r].plan
<1>0. /\ job[r] \in Job /\ view[r] \in View /\ roles \in [Roles -> RoleState] /\ users \in [Users -> UserRow]
      /\ view[r].roles = roles /\ view[r].users = users
  BY DEF AdminInv, AdminTypeOK, RequestInv, SnapshotInv, CommitRoles
<1>1. roles' = plan
  <2>1. roles' = [k \in Roles |-> plan[k]] /\ plan \in [Roles -> RoleState]
    BY <1>0 DEF CommitRoles, RolesAfter, Job
  <2> QED
    BY <2>1
<1>2. ASSUME users' # users PROVE ActiveAdmins(roles', users') # {}
  <2>1. users' = [v \in Users |-> IF v \in MembersOf(users, Deleted(roles, plan))
                                  THEN [role |-> NoRole, status |-> "suspended"] ELSE users[v]]
    BY <1>0 DEF CommitRoles, UsersAfter
  <2>2. MembersOf(users, Deleted(roles, plan)) # {}
    BY <1>0, <1>2, <2>1
  <2>3. PICK v \in ActiveAdmins(plan, users) : TRUE
    BY <1>0, <2>2 DEF CommitRoles, Allowed, SuspensionAllowed
  <2>4. v \in Users /\ v \notin MembersOf(users, Deleted(roles, plan))
    BY <2>3 DEF ActiveAdmins, AdminUsers, AdminRoles, MembersOf, Deleted
  <2>5. users'[v] = users[v]
    BY <2>1, <2>4
  <2>6. v \in ActiveAdmins(roles', users')
    BY <1>1, <2>3, <2>5 DEF ActiveAdmins, AdminUsers
  <2> QED
    BY <2>6
<1> QED
  BY <1>1, <1>2

LEMMA LastRoleStep == ASSUME AdminInv, AdminNext PROVE LastRoleGoes
<1> SUFFICES ASSUME AdminRoles(roles) # {}, AdminRoles(roles') = {}
             PROVE  \E r \in Requests :
                      \/ job'[r].op = "nested" /\ stage[r] # "done" /\ stage'[r] = "done"
                      \/ stage[r] = "running" /\ stage'[r] = "committed" /\ "demotion" \in overlap[r]
  BY DEF LastRoleGoes
<1>1. PICK r \in Requests : RoleStep(r) \/ UserStep(r)
  BY DEF AdminNext
<1> QED BY <1>1, RoleGoes

LEMMA ChecksStep ==
  AdminInv /\ [AdminNext]_adminVars
    => [LastRoleGoes /\ \A r \in Requests : CountHolds(r) /\ CommitHolds(r)]_adminVars
<1> SUFFICES ASSUME AdminInv, AdminNext, NEW q \in Requests PROVE CountHolds(q) /\ CommitHolds(q)
  BY LastRoleStep
<1>1. PICK r \in Requests : RoleStep(r) \/ UserStep(r)
  BY DEF AdminNext
<1>2. CASE stage'[q] = stage[q]
  BY <1>2 DEF CountHolds, CommitHolds
<1>3. CASE q # r
  <2>1. AdminTypeOK /\ RequestInv(r)
    BY DEF AdminInv
  <2>2. stage'[q] = stage[q]
    BY <1>1, <1>3, <2>1, Frame
  <2> QED
    BY <1>2, <2>2
<1>4. CASE q = r /\ CommitRoles(r)
  <2>1. stage[q] = "running"
    BY <1>4 DEF CommitRoles
  <2> QED
    BY <1>4, <2>1, CommitStep DEF CountHolds, CommitHolds
<1>5. CASE q = r /\ Write(r)
  <2>1. stage[q] = "write"
    BY <1>5 DEF Write
  <2> QED
    BY <1>5, <2>1, CountStep DEF CountHolds, CommitHolds
<1>7. CASE q = r /\ (NestedRoleWrite(r) \/ WriteWithRole(r))
  <2>1. AdminTypeOK /\ AskedInv(r) /\ DOMAIN stage = Requests
    BY DEF AdminInv, RequestInv, AdminTypeOK
  <2>2. stage[r] \in {"idle", "write"} /\ job'[r].op = "nested" /\ (stage[r] = "write" => job' = job)
    BY <1>7, <2>1, NestedFacts DEF NestedRoleWrite, WriteWithRole
  <2> QED BY <1>7, <2>2 DEF CountHolds, CommitHolds, Counted
<1>6. CASE q = r /\ ~CommitRoles(r) /\ ~Write(r) /\ ~NestedRoleWrite(r) /\ ~WriteWithRole(r)
  <2>1. DOMAIN stage = Requests
    BY DEF AdminInv, AdminTypeOK
  <2>2. /\ stage[q] = "write" => FALSE
        /\ stage[q] = "running" => stage'[q] = "done"
    BY <1>1, <1>6, <2>1 DEF RoleStep, UserStep, BeginRoleWrite, PlanConfig, BeginApply, Refuse, Conflict,
       FailRoles, Flush, CreateRole, RoleWriteInTransaction, AskUser, ReadRole, Count, End
  <2> QED
    BY <2>2 DEF CountHolds, CommitHolds
<1> QED
  BY <1>3, <1>4, <1>5, <1>6, <1>7

-----------------------------------------------------------------------------
\* The theorems.

LEMMA InvariantHolds == Spec => [](FlowInv /\ CacheInv /\ SessionInv /\ AdminInv)
<1>1. Init => FlowInv /\ CacheInv /\ SessionInv /\ AdminInv
  BY FlowInit, CacheInit, SessionInit, InitInv DEF Init
<1>2. FlowInv /\ CacheInv /\ SessionInv /\ AdminInv /\ [Next]_vars
        => FlowInv' /\ CacheInv' /\ SessionInv' /\ AdminInv'
  <2>1. [Next]_vars => [FlowsNext]_flowVars /\ [CachesNext]_cacheVars /\ [SessionsNext]_sessionVars
                       /\ [AdminNext]_adminVars
    BY DEF Next, FlowStep, CacheStep, SessionStep, RequestStep, vars
  <2> QED BY <2>1, FlowStepKeeps, CacheStepKeeps, SessionStepKeeps, AdminStep
<1> QED BY <1>1, <1>2, PTL DEF Spec

\* Flow managers, caches, sessions, roles, users and requests keep their types; no
\* reload is left to an instance that is down (messenger.ts), no more reloads wait than
\* flows were written, a token in use was issued and no user has a role that is gone.
THEOREM TypeCorrect == Spec => []TypeOK
<1>1. FlowInv /\ CacheInv /\ SessionInv /\ AdminInv => TypeOK
  BY DEF FlowInv, CacheInv, SessionInv, AdminInv, TypeOK
<1> QED BY <1>1, InvariantHolds, PTL

\* However writes, reloads, starts, ends and losses interleave on however many
\* instances, one that is idle runs the current flows unless, since it last read them,
\* a reload was lost to it or came before its first load was done, or a change was
\* never announced (flows.ts, utils/job-queue.ts, services/flows.ts).
THEOREM IdleRunsCurrentFlows == Spec => []FlowsCurrent
<1> QED BY FlowsAreCurrent, InvariantHolds, PTL

\* A request is served metadata as new as every write that had finished when it
\* began (cache.ts), but for what was stored after a later commit and for entries a
\* writer left to another's clear.
THEOREM ServedFresh == Spec => []CachesFresh
<1> QED BY CachesAreFresh, InvariantHolds, PTL

\* However many requests log in, refresh and log out at once, one token is one
\* session's, one held and unused is good, and a logout ends its login
\* (services/authentication.ts), with the exceptions SessionRules names.
THEOREM SessionsAreKept == Spec => []SessionRules
<1>1. SessionInv => SessionRules
  BY DEF SessionInv
<1> QED BY <1>1, InvariantHolds, PTL

\* A role with administrator access remains whatever requests race (services/roles.ts,
\* utils/apply-engine.ts), as long as no role written within another item, which
\* nothing guards (services/payload.ts), has lost it; an accepted plan meets no guard
\* if it was made where an administrator role was; and what callers are told is what
\* happened.
THEOREM AdministratorRemains == Spec => []AdminRules
<1>1. AdminInv => AdminRules
  BY AdminRulesHold
<1> QED BY <1>1, InvariantHolds, PTL

\* What users.ts counted, what a role deletion checked and the state a plan was
\* made for hold when the write is done, unless another write came between; and the
\* last administrator role goes in no step but a nested write, or a commit that one
\* overlapped.
THEOREM ChecksStand == Spec => ChecksHold
<1>1. Spec => [][AdminNext]_adminVars
  <2>1. [Next]_vars => [AdminNext]_adminVars
    BY DEF Next, FlowStep, CacheStep, SessionStep, RequestStep, vars
  <2> QED BY <2>1, PTL DEF Spec
<1> QED
  BY <1>1, InvariantHolds, ChecksStep, PTL DEF ChecksHold
=============================================================================
