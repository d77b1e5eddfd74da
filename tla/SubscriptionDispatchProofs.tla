------------------------ MODULE SubscriptionDispatchProofs ------------------------
(***************************************************************************)
(* Theorems about SubscriptionDispatch, for any clients, collections,      *)
(* queue length and concurrency: types, exact resources, and that a        *)
(* connected subscriber sees every event once and in order.                *)
(***************************************************************************)
EXTENDS SubscriptionDispatch, FiniteSetTheorems, SequenceTheorems, TLAPS

-----------------------------------------------------------------------------
\* The inductive invariant.

Record == [client : Clients, collection : Collections, status : Status]
Entry == [event : Event, generation : 0..MaxReservations, pending : SUBSET Gen]
Work == [stage : Stage, todo : SUBSET Gen, to : 0..MaxReservations]

Types ==
  /\ client \in [Clients -> {"open", "stopping", "closed"}]
  /\ command \in [Clients -> 0..MaxReservations] /\ \A c \in Clients : command[c] <= lastGeneration
  /\ lastGeneration \in 0..MaxReservations
  /\ res \in [Made -> Record]
  /\ queues = [k \in Collections |-> queues[k]]
  /\ \A k \in Collections : queues[k] \in Seq(Entry)
  /\ \A k \in Collections : \A i \in DOMAIN queues[k] :
        queues[k][i].generation <= lastGeneration /\ queues[k][i].pending \subseteq Made
  /\ worker \in [Collections -> Work]
  /\ permits \in Nat /\ waiters \in Seq(Collections)
  /\ overloaded \in BOOLEAN /\ cancelled \in BOOLEAN /\ stopped \in BOOLEAN
  /\ received \in 0..MaxEvents
  /\ owed \in [Gen -> SUBSET Nat] /\ skipped \in [Gen -> SUBSET Nat]
  /\ frames = [g \in Gen |-> frames[g]] /\ \A g \in Gen : frames[g] \in Seq(Nat)

\* A worker runs exactly while its collection has an entry, and knows reservations
\* of its collection whose initial read is over.
Known(k, g) == g \in Made /\ res[g].collection = k /\ Settled(g)
WorkOk(k, w) ==
  /\ w.stage = "idle" <=> queues[k] = <<>>
  /\ w.stage \in {"idle", "barrier"} => w.todo = {} /\ w.to = 0
  /\ w.stage = "fanout" => cancelled \/ w.to = 0
  /\ w.to \notin w.todo
  /\ w.stage \in {"waiting", "granted", "delivering"} => w.to # 0
  /\ \A g \in w.todo \cup {w.to} : g # 0 => Known(k, g)
WorkerInv == \A k \in Collections : WorkOk(k, worker[k])

\* Cancelling costs every subscriber its connection.
ModeInv == /\ cancelled => overloaded \/ stopped
           /\ overloaded \/ stopped => \A g \in Made : Live(g) => client[res[g].client] # "open"

\* A reservation has its init frame once it is active, and while its command runs
\* nothing else has touched it.
CommandInv ==
  /\ \A c \in Clients : LET g == command[c] IN
        g # 0 => res[g].client = c /\ res[g].status # "active" /\ frames[g] = <<>>
  /\ \A g \in Made : Active(g) => frames[g] # <<>>

Holding == {k \in Collections : worker[k].stage \in {"granted", "delivering"}}
Waiting == {k \in Collections : worker[k].stage = "waiting"}
PermitInv == PermitsExact /\ \A i, j \in DOMAIN waiters : waiters[i] = waiters[j] => i = j

\* What the entries of a queue say of the reservations they will reach.
Reaches(en, g) ==
  /\ g <= en.generation /\ Live(g) => en.event \in owed[g]
  /\ en.event \in owed[g] => g <= en.generation
  /\ en.event \in owed[g] /\ res[g].status = "initializing" => g \in en.pending
EntryInv == \A k \in Collections : \A i \in DOMAIN queues[k] :
  /\ queues[k][i].event <= received
  /\ \A j \in DOMAIN queues[k] : i < j => queues[k][i].event < queues[k][j].event
  /\ \A g \in Made : res[g].collection = k => Reaches(queues[k][i], g)

\* A worker's recipients had reserved when its entry was captured.
ReachInv == \A k \in Collections : queues[k] # <<>> =>
  \A g \in worker[k].todo \cup {worker[k].to} : g # 0 => g <= queues[k][1].generation

HistoryInv ==
  /\ \A g \in Gen : owed[g] \subseteq 1..received
  /\ \A g \in Gen \ Made : frames[g] = <<>> /\ owed[g] = {}

\* Frames lie behind what is ahead.
Behind == \A g \in Made : \A e \in Ahead(g) : \A j \in DOMAIN frames[g] : frames[g][j] < e

BaseInv == Types /\ WorkerInv /\ ModeInv /\ CommandInv /\ NoReservationLeak
DeliveryInv == EntryInv /\ ReachInv /\ HistoryInv /\ Behind /\ Deliveries

-----------------------------------------------------------------------------
\* The registry.

LEMMA Bounds == Types => /\ lastGeneration \in Nat /\ MaxReservations \in Nat /\ Made \subseteq Gen
                         /\ \A g \in Made : g \in Nat /\ g # 0 /\ res[g] \in Record
BY DispatchAssumption DEF Types, Made, Gen

\* What every step keeps of reservations and clients.
Later == /\ lastGeneration' \in Nat /\ lastGeneration <= lastGeneration' /\ Made \subseteq Made'
         /\ \A g \in Made : /\ res'[g].client = res[g].client /\ res'[g].collection = res[g].collection
                            /\ \/ res'[g].status = res[g].status
                               \/ res'[g].status = "removed"
                               \/ res[g].status = "initializing" /\ res'[g].status = "active"
         /\ \A c \in Clients : /\ client'[c] = "open" => client[c] = "open"
                               /\ client[c] = "closed" => client'[c] = "closed"

LEMMA RemovedKeeps ==
  ASSUME Types, NEW G
  PROVE  /\ Removed(G) \in [Made -> Record]
         /\ \A g \in Made : /\ Removed(G)[g].client = res[g].client /\ Removed(G)[g].collection = res[g].collection
                            /\ Removed(G)[g].status = IF g \in G THEN "removed" ELSE res[g].status
BY Bounds DEF Types, Removed, Record, Status

LEMMA StoppingKeeps ==
  ASSUME Types, NEW C
  PROVE  /\ Stopping(C) \in [Clients -> {"open", "stopping", "closed"}]
         /\ \A c \in Clients : /\ Stopping(C)[c] = "open" => client[c] = "open" /\ c \notin C
                               /\ Stopping(C)[c] = "closed" <=> client[c] = "closed"
BY DEF Types, Stopping

LEMMA LaterOfRemoval ==
  ASSUME Types, NEW G, res' = Removed(G), UNCHANGED lastGeneration,
         client' = client \/ \E C : client' = Stopping(C)
  PROVE  Later /\ res' \in [Made -> Record] /\ client' \in [Clients -> {"open", "stopping", "closed"}]
<1>1. client' \in [Clients -> {"open", "stopping", "closed"}]
      /\ \A c \in Clients : /\ client'[c] = "open" => client[c] = "open"
                            /\ client[c] = "closed" => client'[c] = "closed"
  BY StoppingKeeps DEF Types
<1>2. lastGeneration' \in Nat /\ lastGeneration <= lastGeneration' /\ Made' = Made
  BY Bounds DEF Made
<1> QED BY <1>1, <1>2, RemovedKeeps DEF Later

LEMMA WorkersUndisturbed ==
  ASSUME Types, WorkerInv, Later, UNCHANGED <<queues, worker>>, cancelled => cancelled'
  PROVE  WorkerInv'
<1>1. \A k \in Collections, g \in Made : Known(k, g) => Known(k, g)'
  BY DEF Known, Settled, Later
<1>2. \A k \in Collections : \A g : Known(k, g) => Known(k, g)'
  BY <1>1 DEF Known
<1> QED BY <1>2 DEF WorkerInv, WorkOk

LEMMA ModesUndisturbed ==
  ASSUME Types, ModeInv, Later, UNCHANGED modeVars, res' \in [Made' -> Record],
         \A g \in Made' \ Made : ~overloaded /\ ~stopped
  PROVE  ModeInv'
<1>1. UNCHANGED <<overloaded, cancelled, stopped>>
  BY DEF modeVars
<1>2. ASSUME overloaded \/ stopped, NEW g \in Made', Live(g)' PROVE client'[res'[g].client] # "open"
  <2>1. g \in Made
    BY <1>2
  <2>2. Live(g) /\ res'[g].client = res[g].client /\ res[g].client \in Clients
    BY <1>2, <2>1, Bounds DEF Live, Later, Record
  <2> QED BY <1>2, <2>1, <2>2 DEF ModeInv, Later
<1> QED BY <1>1, <1>2 DEF ModeInv

LEMMA NoLeakAfter ==
  ASSUME Types, NoReservationLeak, Later, res' \in [Made' -> Record],
         \A g \in Made' \ Made : client'[res'[g].client] # "closed",
         \A c \in Clients : client'[c] = "closed" /\ client[c] # "closed" => OwnedBy(c)' = {}
  PROVE  NoReservationLeak'
<1>1. SUFFICES ASSUME NEW c \in Clients, client'[c] = "closed", NEW g \in Made', Live(g)', res'[g].client = c PROVE FALSE
  BY DEF NoReservationLeak, OwnedBy
<1>2. client[c] = "closed"
  BY <1>1 DEF OwnedBy
<1>3. g \in Made
  BY <1>1
<1>4. Live(g) /\ res[g].client = c
  BY <1>1, <1>3 DEF Live, Later
<1> QED BY <1>1, <1>2, <1>3, <1>4 DEF NoReservationLeak, OwnedBy

\* What a step keeps that leaves the coordinator alone.
LEMMA TypesUndisturbed ==
  ASSUME Types, Later, lastGeneration' \in 0..MaxReservations, UNCHANGED <<workVars, modeVars>>,
         res' \in [Made' -> Record], client' \in [Clients -> {"open", "stopping", "closed"}],
         command' \in [Clients -> 0..MaxReservations], \A c \in Clients : command'[c] <= lastGeneration',
         received' \in 0..MaxEvents, owed' \in [Gen -> SUBSET Nat], skipped' \in [Gen -> SUBSET Nat],
         frames' = [g \in Gen |-> frames'[g]], \A g \in Gen : frames'[g] \in Seq(Nat)
  PROVE  Types'
<1>1. UNCHANGED <<queues, worker, permits, waiters, overloaded, cancelled, stopped>>
  BY DEF workVars, modeVars
<1>2. \A k \in Collections : \A i \in DOMAIN queues'[k] :
         queues'[k][i].generation <= lastGeneration' /\ queues'[k][i].pending \subseteq Made'
  <2>1. ASSUME NEW k \in Collections, NEW i \in DOMAIN queues[k]
        PROVE  queues[k][i].generation <= lastGeneration' /\ queues[k][i].pending \subseteq Made'
    <3>1. queues[k][i].generation <= lastGeneration /\ queues[k][i].pending \subseteq Made
          /\ queues[k][i].generation \in Nat
      <4>1. queues[k][i] \in Entry
        BY <2>1 DEF Types
      <4> QED BY <2>1, <4>1 DEF Types, Entry
    <3>2. lastGeneration <= lastGeneration' /\ lastGeneration \in Nat /\ lastGeneration' \in Nat
      BY Bounds DEF Later
    <3> QED BY <3>1, <3>2 DEF Later
  <2> QED BY <1>1, <2>1
<1> QED BY <1>1, <1>2 DEF Types

LEMMA UnsubscribeKeeps ==
  ASSUME BaseInv, NEW c \in Clients, Unsubscribe(c) \/ ClientStops(c) \/ FinalizeClient(c) PROVE BaseInv' /\ Later
<1>1. Types /\ WorkerInv /\ ModeInv /\ CommandInv /\ NoReservationLeak
  BY DEF BaseInv
<1>2. PICK G : /\ res' = Removed(G)
               /\ client' = client \/ (\E C : client' = Stopping(C)) \/ (client' = [client EXCEPT ![c] = "closed"] /\ G = OwnedBy(c))
  <2>1. CASE Unsubscribe(c)
    BY <2>1 DEF Unsubscribe
  <2>2. CASE ClientStops(c)
    <3>1. res' = Removed({})
      BY <1>1, <2>2 DEF ClientStops, registryVars, Removed, Types
    <3> QED BY <2>2, <3>1 DEF ClientStops
  <2>3. CASE FinalizeClient(c)
    BY <2>3 DEF FinalizeClient, FinalizeRemoves
  <2> QED BY <2>1, <2>2, <2>3
<1>3. UNCHANGED <<command, lastGeneration, workVars, modeVars, historyVars>>
  BY DEF Unsubscribe, ClientStops, FinalizeClient, registryVars
<1>4. client' \in [Clients -> {"open", "stopping", "closed"}]
      /\ \A d \in Clients : /\ client'[d] = "open" => client[d] = "open"
                            /\ client[d] = "closed" => client'[d] = "closed"
                            /\ client'[d] = "closed" /\ client[d] # "closed" => G = OwnedBy(d)
  <2>1. CASE client' = client \/ (\E C : client' = Stopping(C))
    BY <1>1, <2>1, StoppingKeeps DEF Types
  <2>2. CASE client' = [client EXCEPT ![c] = "closed"] /\ G = OwnedBy(c)
    BY <1>1, <2>2 DEF Types
  <2> QED BY <1>2, <2>1, <2>2
<1>5. Later /\ res' \in [Made' -> Record] /\ Made' = Made
  BY <1>1, <1>2, <1>3, <1>4, RemovedKeeps, Bounds DEF Later, Made
<1>6. Types'
  BY <1>1, <1>3, <1>4, <1>5, TypesUndisturbed DEF Types, historyVars
<1>7. WorkerInv' /\ ModeInv'
  BY <1>1, <1>3, <1>5, WorkersUndisturbed, ModesUndisturbed DEF workVars, modeVars
<1>8. CommandInv'
  <2>1. \A d \in Clients : command[d] # 0 => command[d] \in Made
    BY <1>1, Bounds DEF Types, Made
  <2>2. \A g \in Made : Active(g)' => Active(g)
    BY <1>1, <1>2, <1>5, RemovedKeeps DEF Active
  <2>3. ASSUME NEW d \in Clients, command'[d] # 0
        PROVE  res'[command'[d]].client = d /\ res'[command'[d]].status # "active" /\ frames'[command'[d]] = <<>>
    BY <1>1, <1>2, <1>3, <2>1, <2>3, RemovedKeeps DEF CommandInv, historyVars
  <2> QED BY <1>1, <1>3, <1>5, <2>2, <2>3 DEF CommandInv, historyVars
<1>9. NoReservationLeak'
  <2>1. ASSUME NEW d \in Clients, client'[d] = "closed", client[d] # "closed" PROVE OwnedBy(d)' = {}
    <3>1. ASSUME NEW g \in Made, Live(g)', res'[g].client = d PROVE FALSE
      <4>1. Live(g) /\ res[g].client = d
        BY <1>5, <3>1 DEF Live, Later
      <4>2. g \in G
        BY <1>4, <2>1, <4>1 DEF OwnedBy
      <4> QED BY <1>1, <1>2, <3>1, <4>2, RemovedKeeps DEF Live
    <3> QED BY <1>5, <3>1 DEF OwnedBy
  <2> QED BY <1>1, <1>5, <2>1, NoLeakAfter
<1> QED BY <1>5, <1>6, <1>7, <1>8, <1>9 DEF BaseInv

LEMMA InitialReadKeeps == ASSUME BaseInv, NEW c \in Clients, InitialRead(c) PROVE BaseInv' /\ Later
<1>1. Types /\ WorkerInv /\ ModeInv /\ CommandInv /\ NoReservationLeak
  BY DEF BaseInv
<1>2. PICK g \in Made : g = command[c] /\ g # 0 /\ command' = [command EXCEPT ![c] = 0]
  BY <1>1, Bounds DEF InitialRead, Types, Made
<1>3. res[g].client = c /\ res[g].status # "active" /\ frames[g] = <<>> /\ g \in Gen
  BY <1>1, <1>2, Bounds DEF CommandInv
<1>4. UNCHANGED <<lastGeneration, workVars, modeVars, received, owed, skipped>> /\ Made' = Made
  BY DEF InitialRead, Made
<1>5. \/ res' = Removed({g}) /\ frames' = frames /\ (client' = client \/ client' = Stopping({c}))
      \/ /\ frames' = [frames EXCEPT ![g] = Append(@, 0)] /\ client' = client
         /\ res' = [res EXCEPT ![g].status = IF @ = "initializing" THEN "active" ELSE @]
  BY <1>2 DEF InitialRead
<1>6. /\ res' \in [Made -> Record]
      /\ \A h \in Made : /\ res'[h].client = res[h].client /\ res'[h].collection = res[h].collection
                         /\ h # g => res'[h].status = res[h].status
                         /\ \/ res'[h].status = res[h].status
                            \/ res'[h].status = "removed"
                            \/ res[h].status = "initializing" /\ res'[h].status = "active"
      /\ \A h \in Gen : frames'[h] \in {frames[h], << 0 >>} /\ (h # g => frames'[h] = frames[h])
      /\ frames' = [h \in Gen |-> frames'[h]]
      /\ Active(g)' => frames'[g] = << 0 >>
  <2>1. CASE res' = Removed({g}) /\ frames' = frames
    BY <1>1, <1>4, <2>1, RemovedKeeps DEF Types, Active
  <2>2. CASE /\ frames' = [frames EXCEPT ![g] = Append(@, 0)]
             /\ res' = [res EXCEPT ![g].status = IF @ = "initializing" THEN "active" ELSE @]
    <3>1. frames' = [frames EXCEPT ![g] = << 0 >>]
      BY <1>3, <2>2
    <3>2. /\ \A h \in Gen : frames'[h] \in {frames[h], << 0 >>} /\ (h # g => frames'[h] = frames[h])
          /\ frames' = [h \in Gen |-> frames'[h]] /\ frames'[g] = << 0 >>
      BY <1>1, <1>3, <3>1 DEF Types
    <3>3. /\ res' \in [Made -> Record]
          /\ \A h \in Made : /\ res'[h].client = res[h].client /\ res'[h].collection = res[h].collection
                             /\ h # g => res'[h].status = res[h].status
                             /\ \/ res'[h].status = res[h].status
                                \/ res[h].status = "initializing" /\ res'[h].status = "active"
      BY <1>1, <2>2, Bounds DEF Types, Record, Status
    <3> QED BY <3>2, <3>3
  <2> QED BY <1>5, <2>1, <2>2
<1>7. Later /\ client' \in [Clients -> {"open", "stopping", "closed"}]
      /\ \A d \in Clients : client'[d] = "closed" => client[d] = "closed"
  BY <1>1, <1>4, <1>5, <1>6, StoppingKeeps, Bounds DEF Later, Types
<1>8. Types'
  <2>1. << 0 >> \in Seq(Nat) /\ command' \in [Clients -> 0..MaxReservations]
        /\ \A d \in Clients : command'[d] <= lastGeneration'
    BY <1>1, <1>2, <1>4, Bounds DEF Types
  <2>2. \A h \in Gen : frames'[h] \in Seq(Nat)
    BY <1>1, <1>6, <2>1 DEF Types
  <2> QED BY <1>1, <1>4, <1>6, <1>7, <2>1, <2>2, TypesUndisturbed DEF Types
<1>9. WorkerInv' /\ ModeInv'
  BY <1>1, <1>4, <1>6, <1>7, WorkersUndisturbed, ModesUndisturbed DEF workVars, modeVars
<1>10. CommandInv'
  <2>1. \A d \in Clients : command'[d] # 0 => d # c /\ command'[d] = command[d] /\ command[d] \in Made /\ command[d] # g
    <3>1. SUFFICES ASSUME NEW d \in Clients, command'[d] # 0
                   PROVE  d # c /\ command'[d] = command[d] /\ command[d] \in Made /\ command[d] # g
      OBVIOUS
    <3>2. d # c /\ command'[d] = command[d]
      BY <1>1, <1>2, <3>1 DEF Types
    <3>3. command[d] \in Made
      BY <1>1, <3>1, <3>2, Bounds DEF Types, Made
    <3>4. res[command[d]].client = d
      BY <1>1, <3>1, <3>2 DEF CommandInv
    <3> QED BY <1>3, <3>2, <3>3, <3>4
  <2>2. ASSUME NEW d \in Clients, command'[d] # 0
        PROVE  res'[command'[d]].client = d /\ res'[command'[d]].status # "active" /\ frames'[command'[d]] = <<>>
    BY <1>1, <1>6, <2>1, <2>2, Bounds DEF CommandInv
  <2>3. ASSUME NEW h \in Made, Active(h)' PROVE frames'[h] # <<>>
    BY <1>1, <1>4, <1>6, <2>3, Bounds, SMTT(30) DEF CommandInv, Active
  <2> QED BY <1>4, <2>2, <2>3 DEF CommandInv
<1>11. NoReservationLeak'
  BY <1>1, <1>4, <1>6, <1>7, NoLeakAfter
<1> QED BY <1>7, <1>8, <1>9, <1>10, <1>11 DEF BaseInv

LEMMA SubscribeKeeps ==
  ASSUME BaseInv, HistoryInv, NEW c \in Clients, NEW k \in Collections, NEW old \in SUBSET OwnedBy(c), Subscribe(c, k, old)
  PROVE  BaseInv' /\ Later
<1>1. Types /\ WorkerInv /\ ModeInv /\ CommandInv /\ NoReservationLeak
  BY DEF BaseInv
<1>2. client[c] = "open" /\ command[c] = 0 /\ lastGeneration < MaxReservations /\ UNCHANGED <<workVars, modeVars, historyVars>>
  BY DEF Subscribe
<1>3. CASE res' = Removed(old) /\ UNCHANGED <<command, lastGeneration>> /\ (client' = client \/ client' = Stopping({c}))
  <2>1. Later /\ res' \in [Made' -> Record] /\ client' \in [Clients -> {"open", "stopping", "closed"}] /\ Made' = Made
    BY <1>1, <1>3, LaterOfRemoval DEF Made
  <2>2. Types'
    BY <1>1, <1>2, <1>3, <2>1, TypesUndisturbed DEF Types, historyVars
  <2>3. WorkerInv' /\ ModeInv'
    BY <1>1, <1>2, <2>1, WorkersUndisturbed, ModesUndisturbed DEF workVars, modeVars
  <2>4. CommandInv'
    <3>1. \A d \in Clients : command[d] # 0 => command[d] \in Made
      BY <1>1, Bounds DEF Types, Made
    <3> QED BY <1>1, <1>2, <1>3, <2>1, <3>1, RemovedKeeps DEF CommandInv, Active, historyVars
  <2>5. NoReservationLeak'
    <3>1. \A d \in Clients : client'[d] = "closed" => client[d] = "closed"
      BY <1>1, <1>3, StoppingKeeps
    <3> QED BY <1>1, <2>1, <3>1, NoLeakAfter
  <2> QED BY <2>1, <2>2, <2>3, <2>4, <2>5 DEF BaseInv
<1>4. CASE /\ ~overloaded /\ ~stopped /\ client' = client /\ lastGeneration' = lastGeneration + 1
           /\ res' = Append(Removed(old), [client |-> c, collection |-> k, status |-> "initializing"])
           /\ command' = [command EXCEPT ![c] = lastGeneration + 1]
  <2> DEFINE new == [client |-> c, collection |-> k, status |-> "initializing"]
  <2>1. /\ lastGeneration \in Nat /\ lastGeneration + 1 \in Gen /\ lastGeneration' \in 0..MaxReservations
        /\ Made' = Made \cup {lastGeneration + 1} /\ lastGeneration + 1 \notin Made /\ lastGeneration <= lastGeneration'
    BY <1>1, <1>2, <1>4, Bounds DEF Made, Gen
  <2>2. /\ res' \in [Made' -> Record] /\ res'[lastGeneration + 1] = new
        /\ \A g \in Made : res'[g] = Removed(old)[g]
    <3>1. new \in Record
      BY DEF Record, Status
    <3>2. Removed(old) \in Seq(Record) /\ Len(Removed(old)) = lastGeneration
      <4>1. Removed(old) \in [1..lastGeneration -> Record]
        BY <1>1, RemovedKeeps DEF Made
      <4> QED BY <2>1, <4>1, SeqDef
    <3> HIDE DEF new
    <3>3. /\ Append(Removed(old), new) \in Seq(Record)
          /\ Len(Append(Removed(old), new)) = lastGeneration + 1
          /\ Append(Removed(old), new)[lastGeneration + 1] = new
          /\ \A g \in 1..lastGeneration : Append(Removed(old), new)[g] = Removed(old)[g]
      BY <3>1, <3>2, AppendProperties
    <3>4. res' = Append(Removed(old), new)
      BY <1>4 DEF new
    <3>5. res' \in [1..(lastGeneration + 1) -> Record]
      BY <3>3, <3>4, LenProperties
    <3> QED BY <1>4, <3>3, <3>4, <3>5 DEF Made
  <2>3. Later
    BY <1>1, <1>4, <2>1, <2>2, RemovedKeeps DEF Later
  <2>4. Types'
    <3>1. command' \in [Clients -> 0..MaxReservations] /\ \A d \in Clients : command'[d] <= lastGeneration'
      BY <1>1, <1>4, <2>1 DEF Types, Gen
    <3> QED BY <1>1, <1>2, <1>4, <2>1, <2>2, <2>3, <3>1, TypesUndisturbed DEF Types, historyVars
  <2>5. WorkerInv' /\ ModeInv'
    BY <1>1, <1>2, <1>4, <2>2, <2>3, WorkersUndisturbed, ModesUndisturbed DEF workVars, modeVars
  <2>6. CommandInv'
    <3>1. frames' = frames /\ frames[lastGeneration + 1] = <<>>
      BY <1>2, <2>1 DEF HistoryInv, historyVars
    <3>2. ASSUME NEW d \in Clients, command'[d] # 0
          PROVE  res'[command'[d]].client = d /\ res'[command'[d]].status # "active" /\ frames'[command'[d]] = <<>>
      <4>1. CASE d = c
        <5>1. command'[c] = lastGeneration + 1
          BY <1>1, <1>4 DEF Types
        <5> QED BY <2>2, <3>1, <4>1, <5>1
      <4>2. CASE d # c
        <5>1. command'[d] = command[d] /\ command[d] \in Made
          BY <1>1, <1>4, <3>2, <4>2, Bounds DEF Types, Made
        <5> QED BY <1>1, <2>2, <3>1, <3>2, <5>1, RemovedKeeps DEF CommandInv
      <4> QED BY <4>1, <4>2
    <3>3. ASSUME NEW g \in Made', Active(g)' PROVE frames'[g] # <<>>
      <4>1. g \in Made /\ Active(g)
        BY <1>1, <2>1, <2>2, <3>3, RemovedKeeps DEF Active
      <4> QED BY <1>1, <3>1, <4>1 DEF CommandInv
    <3> QED BY <3>2, <3>3 DEF CommandInv
  <2>7. NoReservationLeak'
    BY <1>1, <1>2, <1>4, <2>1, <2>2, <2>3, NoLeakAfter
  <2> QED BY <2>3, <2>4, <2>5, <2>6, <2>7 DEF BaseInv
<1> QED BY <1>3, <1>4 DEF Subscribe
-----------------------------------------------------------------------------
\* The coordinator.

LEMMA QueueFacts ==
  ASSUME Types, NEW k \in Collections
  PROVE  /\ queues[k] \in Seq(Entry) /\ DOMAIN queues[k] = 1..Len(queues[k]) /\ Len(queues[k]) \in Nat
         /\ queues[k] # <<>> <=> Len(queues[k]) > 0
BY LenProperties, EmptySeq DEF Types

LEMMA Ends == \A n \in Nat : n > 0 => /\ 1 \in 1..n /\ (n # 1 => 2 \in 1..n)
                                     /\ (n > 1 => n # 1) /\ (~(n > 1) => n = 1)
OBVIOUS

LEMMA QueuedFacts ==
  ASSUME Types
  PROVE  /\ Queued \in Nat
         /\ Queued = 0 => \A k \in Collections : queues[k] = <<>>
         /\ \A k \in Collections : Queued = 1 /\ queues[k] # <<>> =>
               Len(queues[k]) = 1 /\ \A m \in Collections \ {k} : queues[m] = <<>>
<1> DEFINE S(k) == {k} \X DOMAIN queues[k]
           T == {S(k) : k \in Collections}
           U == UNION T
<1>1. \A k \in Collections : /\ DOMAIN queues[k] = 1..Len(queues[k]) /\ Len(queues[k]) \in Nat
                             /\ queues[k] # <<>> <=> Len(queues[k]) > 0
  BY QueueFacts
<1>2. IsFiniteSet(U)
  <2>1. IsFiniteSet(Collections)
    BY DispatchAssumption
  <2>2. [k \in Collections |-> S(k)] \in Surjection(Collections, T)
    BY DEF Surjection
  <2>3. IsFiniteSet(T)
    BY <2>1, <2>2, FS_Surjection
  <2>4. ASSUME NEW k \in Collections PROVE IsFiniteSet(S(k))
    <3>1. IsFiniteSet({k})
      BY FS_Singleton
    <3>2. 1 \in Int /\ Len(queues[k]) \in Int
      BY <1>1
    <3>3. IsFiniteSet(1..Len(queues[k]))
      BY <3>2, FS_Interval
    <3>4. IsFiniteSet(DOMAIN queues[k])
      BY <1>1, <3>3
    <3> QED BY <3>1, <3>4, FS_Product
  <2> QED BY <2>3, <2>4, FS_UNION
<1>3. Queued = Cardinality(U)
  BY DEF Queued
<1>4. \A k \in Collections : \A i \in DOMAIN queues[k] : <<k, i>> \in U
  OBVIOUS
<1> HIDE DEF U
<1>5. Queued \in Nat
  BY <1>2, <1>3, FS_CardinalityType
<1>6. ASSUME NEW k \in Collections, queues[k] # <<>>
      PROVE  1 \in DOMAIN queues[k] /\ (Len(queues[k]) # 1 => 2 \in DOMAIN queues[k])
  <2>1. PICK n \in Nat : n = Len(queues[k]) /\ n > 0 /\ DOMAIN queues[k] = 1..n
    BY <1>6, QueueFacts
  <2> QED BY <2>1, Ends
<1>7. ASSUME Queued = 0, NEW k \in Collections PROVE queues[k] = <<>>
  <2>1. U = {}
    BY <1>2, <1>3, <1>7, FS_EmptySet
  <2>2. DOMAIN queues[k] = {}
    BY <1>4, <2>1
  <2> QED BY <1>6, <2>2
<1>8. ASSUME NEW k \in Collections, Queued = 1, queues[k] # <<>>
      PROVE  Len(queues[k]) = 1 /\ \A m \in Collections \ {k} : queues[m] = <<>>
  <2>1. Cardinality(U) = 1
    BY <1>3, <1>8
  <2>2. \E x : U = {x}
    BY <1>2, <2>1, FS_Singleton
  <2>3. PICK x : U = {x}
    BY <2>2
  <2>4. 1 \in DOMAIN queues[k] /\ (Len(queues[k]) # 1 => 2 \in DOMAIN queues[k])
    BY <1>6, <1>8
  <2>5. Len(queues[k]) = 1
    BY <1>4, <2>3, <2>4
  <2>6. ASSUME NEW m \in Collections \ {k}, queues[m] # <<>> PROVE FALSE
    <3>1. 1 \in DOMAIN queues[m]
      BY <1>1, <2>6
    <3> QED BY <1>4, <2>3, <2>4, <2>6, <3>1
  <2> QED BY <2>5, <2>6
<1> QED BY <1>5, <1>7, <1>8

\* What a step keeps that leaves the registry alone.
LEMMA RegistryUndisturbed ==
  ASSUME Types, CommandInv, NoReservationLeak, UNCHANGED <<command, registryVars, frames>>,
         client' = client \/ \E C : client' = Stopping(C)
  PROVE  /\ CommandInv' /\ NoReservationLeak' /\ Later /\ Made' = Made /\ res' \in [Made -> Record]
         /\ client' \in [Clients -> {"open", "stopping", "closed"}]
<1>1. UNCHANGED <<command, lastGeneration, res, frames>> /\ Made' = Made
  BY DEF registryVars, Made
<1>2. /\ client' \in [Clients -> {"open", "stopping", "closed"}]
      /\ \A c \in Clients : /\ client'[c] = "open" => client[c] = "open"
                            /\ client[c] = "closed" <=> client'[c] = "closed"
  BY StoppingKeeps DEF Types
<1>3. CommandInv'
  BY <1>1 DEF CommandInv, Active
<1>4. NoReservationLeak'
  BY <1>1, <1>2 DEF NoReservationLeak, OwnedBy, Live
<1>5. Later
  BY <1>1, <1>2, Bounds DEF Later
<1> QED BY <1>1, <1>2, <1>3, <1>4, <1>5 DEF Types

\* What a step does to the queues.
Shorter(k) == queues[k] # <<>> /\ queues' = [queues EXCEPT ![k] = Tail(@)]
Longer(k) == \E en \in Entry : /\ en.generation <= lastGeneration /\ en.pending \subseteq Made
                               /\ queues' = [queues EXCEPT ![k] = Append(@, en)]

LEMMA WorkTypes ==
  ASSUME Types, UNCHANGED <<command, lastGeneration>>,
         res' \in [Made -> Record], client' \in [Clients -> {"open", "stopping", "closed"}],
         queues' = queues \/ \E k \in Collections : Shorter(k) \/ Longer(k),
         worker' \in [Collections -> Work], permits' \in Nat, waiters' \in Seq(Collections),
         overloaded' \in BOOLEAN, cancelled' \in BOOLEAN, stopped' \in BOOLEAN,
         received' \in 0..MaxEvents, owed' \in [Gen -> SUBSET Nat], skipped' \in [Gen -> SUBSET Nat],
         frames' = [g \in Gen |-> frames'[g]], \A g \in Gen : frames'[g] \in Seq(Nat)
  PROVE  Types'
<1> DEFINE Good(q) == q \in Seq(Entry) /\ \A i \in DOMAIN q : q[i].generation <= lastGeneration /\ q[i].pending \subseteq Made
<1>1. \A k \in Collections : Good(queues[k])
  BY DEF Types
<1>2. queues' = [k \in Collections |-> queues'[k]] /\ \A k \in Collections : Good(queues'[k])
  <2>1. CASE queues' = queues
    BY <1>1, <2>1 DEF Types
  <2>2. ASSUME NEW k \in Collections, Shorter(k)
        PROVE  queues' = [m \in Collections |-> queues'[m]] /\ \A m \in Collections : Good(queues'[m])
    <3>1. queues[k] \in Seq(Entry) /\ queues[k] # <<>>
      BY <2>2 DEF Shorter, Types
    <3>2. Tail(queues[k]) \in Seq(Entry) /\ Len(Tail(queues[k])) = Len(queues[k]) - 1
          /\ \A i \in 1..Len(Tail(queues[k])) : Tail(queues[k])[i] = queues[k][i + 1]
      BY <3>1, HeadTailProperties
    <3>3. Good(Tail(queues[k]))
      <4>1. DOMAIN Tail(queues[k]) = 1..Len(Tail(queues[k])) /\ DOMAIN queues[k] = 1..Len(queues[k]) /\ Len(queues[k]) \in Nat
        BY <3>1, <3>2, LenProperties
      <4>2. \A i \in DOMAIN Tail(queues[k]) : i + 1 \in DOMAIN queues[k] /\ Tail(queues[k])[i] = queues[k][i + 1]
        BY <3>2, <4>1
      <4> QED BY <1>1, <3>2, <4>2
    <3> HIDE DEF Good
    <3>4. queues' = [queues EXCEPT ![k] = Tail(queues[k])] /\ queues = [m \in Collections |-> queues[m]]
      BY <2>2 DEF Shorter, Types
    <3> QED BY <1>1, <3>3, <3>4
  <2>3. ASSUME NEW k \in Collections, Longer(k)
        PROVE  queues' = [m \in Collections |-> queues'[m]] /\ \A m \in Collections : Good(queues'[m])
    <3>1. PICK en \in Entry : /\ en.generation <= lastGeneration /\ en.pending \subseteq Made
                              /\ queues' = [queues EXCEPT ![k] = Append(@, en)]
      BY <2>3 DEF Longer
    <3>2. queues[k] \in Seq(Entry)
      BY DEF Types
    <3>3. Append(queues[k], en) \in Seq(Entry)
          /\ Len(Append(queues[k], en)) = Len(queues[k]) + 1
          /\ \A i \in 1..Len(queues[k]) : Append(queues[k], en)[i] = queues[k][i]
          /\ Append(queues[k], en)[Len(queues[k]) + 1] = en
      BY <3>2, AppendProperties
    <3>4. Good(Append(queues[k], en))
      <4>1. DOMAIN Append(queues[k], en) = 1..(Len(queues[k]) + 1) /\ DOMAIN queues[k] = 1..Len(queues[k]) /\ Len(queues[k]) \in Nat
        BY <3>2, <3>3, LenProperties
      <4>2. \A i \in DOMAIN Append(queues[k], en) : i \in DOMAIN queues[k] \/ i = Len(queues[k]) + 1
        BY <4>1
      <4> QED BY <1>1, <3>1, <3>3, <4>1, <4>2
    <3> HIDE DEF Good
    <3>5. queues' = [queues EXCEPT ![k] = Append(queues[k], en)] /\ queues = [m \in Collections |-> queues[m]]
      BY <3>1 DEF Types
    <3> QED BY <1>1, <3>4, <3>5
  <2> QED BY <2>1, <2>2, <2>3
<1>3. lastGeneration' = lastGeneration /\ Made' = Made
  BY DEF Made
<1>4. /\ \A k \in Collections : queues'[k] \in Seq(Entry)
      /\ \A k \in Collections : \A i \in DOMAIN queues'[k] :
            queues'[k][i].generation <= lastGeneration' /\ queues'[k][i].pending \subseteq Made'
  BY <1>2, <1>3
<1>5. /\ command' \in [Clients -> 0..MaxReservations] /\ \A c \in Clients : command'[c] <= lastGeneration'
      /\ lastGeneration' \in 0..MaxReservations
  BY DEF Types
<1> HIDE DEF Good
<1> QED BY <1>2, <1>3, <1>4, <1>5 DEF Types
-----------------------------------------------------------------------------
\* Workers and permits.

LEMMA WorkerAlone ==
  ASSUME Types, Later
  PROVE  \A m \in Collections : /\ WorkOk(m, worker[m])
                                /\ queues'[m] = queues[m] /\ worker'[m] = worker[m]
                                /\ cancelled => cancelled' \/ queues[m] = <<>>
                                => WorkOk(m, worker[m])'
<1>1. \A k \in Collections, g \in Made : Known(k, g) => Known(k, g)'
  BY DEF Known, Settled, Later
<1>2. \A k \in Collections : \A g : Known(k, g) => Known(k, g)'
  BY <1>1 DEF Known
<1> QED BY <1>2 DEF WorkOk

LEMMA MoveOk ==
  ASSUME Types, WorkerInv, Later, UNCHANGED queues, cancelled => cancelled',
         NEW k \in Collections, NEW w \in Work, worker' = [worker EXCEPT ![k] = w], WorkOk(k, w)
  PROVE  worker' \in [Collections -> Work] /\ WorkerInv'
<1>1. \A h \in Collections, g \in Made : Known(h, g) => Known(h, g)'
  BY DEF Known, Settled, Later
<1>2. \A g : Known(k, g) => Known(k, g)'
  BY <1>1 DEF Known
<1>3. worker' \in [Collections -> Work] /\ worker'[k] = w /\ \A m \in Collections \ {k} : worker'[m] = worker[m]
  BY DEF Types
<1>4. WorkOk(k, worker[k])'
  BY <1>2, <1>3 DEF WorkOk
<1>5. ASSUME NEW m \in Collections \ {k} PROVE WorkOk(m, worker[m])'
  BY <1>3, WorkerAlone DEF WorkerInv
<1> QED BY <1>3, <1>4, <1>5 DEF WorkerInv

LEMMA CancelOk ==
  ASSUME Types, WorkerInv, PermitInv, Later, Cancel, UNCHANGED <<queues, permits>>,
         cancelled' \/ \A k \in Collections : queues[k] = <<>>
  PROVE  worker' \in [Collections -> Work] /\ waiters' \in Seq(Collections) /\ WorkerInv' /\ PermitInv'
<1>1. ASSUME NEW m \in Collections
      PROVE  /\ worker[m] \in Work /\ worker'[m] \in Work /\ worker'[m].todo = worker[m].todo /\ worker'[m].to = worker[m].to
             /\ worker'[m].stage = IF worker[m].stage = "waiting" THEN "fanout" ELSE worker[m].stage
  BY DEF Types, Cancel, Work, Stage
<1>2. worker' \in [Collections -> Work] /\ waiters' = <<>> /\ waiters' \in Seq(Collections)
  BY <1>1 DEF Cancel
<1>3. ASSUME NEW m \in Collections PROVE WorkOk(m, worker[m])'
  <2>1. \A h \in Collections, g \in Made : Known(h, g) => Known(h, g)'
    BY DEF Known, Settled, Later
  <2>2. \A g : Known(m, g) => Known(m, g)'
    BY <2>1 DEF Known
  <2>3. CASE worker[m].stage = "waiting"
    BY <1>1, <2>2, <2>3 DEF WorkerInv, WorkOk
  <2>4. CASE worker[m].stage # "waiting"
    <3>1. WorkOk(m, worker[m]) /\ queues'[m] = queues[m] /\ (cancelled' \/ queues[m] = <<>>)
      BY DEF WorkerInv
    <3> QED BY <1>1, <2>2, <2>4, <3>1 DEF WorkOk
  <2> QED BY <2>3, <2>4
<1>4. Holding' = Holding /\ Waiting' = {}
  BY <1>1 DEF Holding, Waiting
<1>5. PermitInv'
  <2>1. ToSet(waiters') = {} /\ DOMAIN waiters' = {}
    BY <1>2 DEF ToSet
  <2> QED BY <1>2, <1>4, <2>1 DEF PermitInv, PermitsExact, Holding, Waiting
<1> QED BY <1>2, <1>3, <1>5 DEF WorkerInv

LEMMA HoldersFinite == IsFiniteSet(Holding)
BY DispatchAssumption, FS_Subset DEF Holding

\* Steps that neither take nor give a permit.
LEMMA PermitsUndisturbed ==
  ASSUME PermitInv, UNCHANGED <<permits, waiters>>, Holding' = Holding, Waiting' = Waiting
  PROVE  PermitInv'
BY DEF PermitInv, PermitsExact, Holding, Waiting

LEMMA FinishOk ==
  ASSUME Types, WorkerInv, ModeInv, PermitInv, Later, NEW k \in Collections, queues[k] # <<>>,
         worker[k].stage \in {"barrier", "fanout"}, FinishEntry(k)
  PROVE  /\ Shorter(k) /\ worker' \in [Collections -> Work] /\ WorkerInv' /\ PermitInv'
         /\ overloaded' \in BOOLEAN /\ cancelled' \in BOOLEAN
         /\ \/ UNCHANGED <<overloaded, cancelled>>
            \/ ~overloaded' /\ ~cancelled' /\ ~stopped
<1>1. Shorter(k) /\ UNCHANGED <<permits, waiters>>
  BY DEF FinishEntry, Shorter
<1>2. PICK w \in Work : /\ worker' = [worker EXCEPT ![k] = w] /\ w.todo = {} /\ w.to = 0
                        /\ w.stage = IF Len(queues[k]) > 1 THEN "barrier" ELSE "idle"
  <2>1. Idle \in Work /\ Idle.stage = "idle" /\ Idle.todo = {} /\ Idle.to = 0
    <3>1. 0 \in 0..MaxReservations
      BY DispatchAssumption
    <3> QED BY <3>1 DEF Idle, Work, Stage
  <2> DEFINE b == [Idle EXCEPT !.stage = "barrier"]
  <2>2. b \in Work /\ b.stage = "barrier" /\ b.todo = {} /\ b.to = 0
    BY <2>1 DEF Work, Stage
  <2>3. CASE Len(queues[k]) > 1
    <3>1. worker' = [worker EXCEPT ![k] = b]
      BY <2>3 DEF FinishEntry
    <3> HIDE DEF b
    <3> QED BY <2>2, <2>3, <3>1
  <2>4. CASE ~(Len(queues[k]) > 1)
    <3>1. worker' = [worker EXCEPT ![k] = Idle]
      BY <2>4 DEF FinishEntry
    <3> QED BY <2>1, <2>4, <3>1
  <2> QED BY <2>3, <2>4
<1>3. worker' \in [Collections -> Work] /\ worker'[k] = w /\ \A m \in Collections \ {k} : worker'[m] = worker[m]
  BY <1>2 DEF Types
<1>4. /\ overloaded' \in BOOLEAN /\ cancelled' \in BOOLEAN
      /\ \/ UNCHANGED <<overloaded, cancelled>>
         \/ Recovers(k) /\ ~overloaded' /\ ~cancelled'
  <2>1. CASE Recovers(k)
    BY <2>1 DEF FinishEntry
  <2>2. CASE ~Recovers(k)
    BY <2>2 DEF FinishEntry, Types
  <2> QED BY <2>1, <2>2
<1>5. \A m \in Collections \ {k} : queues'[m] = queues[m]
  BY <1>1 DEF Shorter, Types
<1>6. queues'[k] = <<>> <=> Len(queues[k]) = 1
  <2>1. queues'[k] = Tail(queues[k])
    BY <1>1 DEF Shorter, Types
  <2>2. queues[k] \in Seq(Entry) /\ Len(queues[k]) \in Nat
    BY QueueFacts
  <2>3. Tail(queues[k]) \in Seq(Entry) /\ Len(Tail(queues[k])) = Len(queues[k]) - 1
    BY <2>2, HeadTailProperties
  <2>4. Tail(queues[k]) = <<>> <=> Len(Tail(queues[k])) = 0
    BY <2>3, EmptySeq
  <2> QED BY <2>1, <2>2, <2>3, <2>4
<1>7. Len(queues[k]) \in Nat /\ Len(queues[k]) > 0
  BY QueueFacts
<1>11. PICK n \in Nat : n = Len(queues[k]) /\ n > 0
  BY <1>7
<1>8. WorkOk(k, worker[k])'
  <2>1. \/ worker'[k].stage = "idle" /\ queues'[k] = <<>>
        \/ worker'[k].stage = "barrier" /\ queues'[k] # <<>>
    <3>1. CASE Len(queues[k]) > 1
      <4>1. worker'[k].stage = "barrier"
        BY <1>2, <1>3, <3>1
      <4>2. n # 1
        BY <1>11, <3>1, Ends
      <4> QED BY <1>6, <1>11, <4>1, <4>2
    <3>2. CASE ~(Len(queues[k]) > 1)
      <4>1. worker'[k].stage = "idle"
        BY <1>2, <1>3, <3>2
      <4>2. n = 1
        BY <1>11, <3>2, Ends
      <4> QED BY <1>6, <1>11, <4>1, <4>2
    <3> QED BY <3>1, <3>2
  <2>2. worker'[k].todo = {} /\ worker'[k].to = 0 /\ worker'[k].stage \in {"idle", "barrier"}
    BY <1>2, <1>3
  <2> QED BY <2>1, <2>2 DEF WorkOk
<1>9. ASSUME NEW m \in Collections \ {k} PROVE WorkOk(m, worker[m])'
  <2>1. cancelled => cancelled' \/ queues[m] = <<>>
    BY <1>4, QueuedFacts DEF Recovers
  <2> QED BY <1>3, <1>5, <2>1, WorkerAlone DEF WorkerInv
<1>10. PermitInv'
  <2>1. Holding' = Holding
    BY <1>2, <1>3 DEF Holding
  <2>2. Waiting' = Waiting
    BY <1>2, <1>3 DEF Waiting
  <2> QED BY <1>1, <2>1, <2>2, PermitsUndisturbed
<1> QED BY <1>1, <1>3, <1>4, <1>8, <1>9, <1>10 DEF WorkerInv, Recovers

\* What a worker has in hand after releasing its permit; nothing else changes hands.
Released(k) ==
  /\ worker'[k].stage = "fanout" /\ worker'[k].to = 0 /\ worker'[k].todo = worker[k].todo
  /\ \A m \in Collections \ {k} :
        /\ worker'[m].todo = worker[m].todo /\ worker'[m].to = worker[m].to
        /\ worker'[m].stage = "barrier" <=> worker[m].stage = "barrier"

LEMMA ReleaseOk ==
  ASSUME Types, WorkerInv, PermitInv, Later, NEW k \in Collections, worker[k].stage \in {"granted", "delivering"}, Release(k)
  PROVE  /\ worker' \in [Collections -> Work] /\ permits' \in Nat /\ waiters' \in Seq(Collections)
         /\ WorkerInv' /\ PermitInv'
         /\ Released(k)
<1> DEFINE free == [worker[k] EXCEPT !.stage = "fanout", !.to = 0]
<1>1. UNCHANGED <<queues, cancelled>>
  BY DEF Release
<1>2. free \in Work /\ free.stage = "fanout" /\ free.to = 0 /\ free.todo = worker[k].todo /\ WorkOk(k, free)
  <2>1. worker[k] \in Work
    BY DEF Types
  <2>2. free \in Work /\ free.stage = "fanout" /\ free.to = 0 /\ free.todo = worker[k].todo
    <3>1. 0 \in 0..MaxReservations /\ "fanout" \in Stage
      BY DispatchAssumption DEF Stage
    <3> QED BY <2>1, <3>1 DEF Work
  <2>3. \A g \in worker[k].todo : g # 0
    BY <2>1 DEF Work, Gen
  <2> QED BY <2>2, <2>3 DEF WorkerInv, WorkOk
<1>3. k \in Holding /\ IsFiniteSet(Holding) /\ Cardinality(Holding) \in Nat
      /\ permits + Cardinality(Holding) = Concurrency
  BY HoldersFinite, FS_CardinalityType DEF Holding, PermitInv, PermitsExact
<1>4. ToSet(waiters) = Waiting
  BY DEF PermitInv, PermitsExact, Waiting
<1>5. CASE waiters = <<>>
  <2>1. permits' = permits + 1 /\ waiters' = waiters /\ worker' = [worker EXCEPT ![k] = free]
    BY <1>5 DEF Release, Types
  <2>2. worker' \in [Collections -> Work] /\ WorkerInv'
    BY <1>1, <1>2, <2>1, MoveOk
  <2>3. worker'[k] = free /\ \A m \in Collections \ {k} : worker'[m] = worker[m]
    BY <2>1 DEF Types
  <2>4. Holding' = Holding \ {k} /\ Waiting' = Waiting
    BY <1>2, <2>3 DEF Holding, Waiting
  <2>5. Cardinality(Holding') = Cardinality(Holding) - 1
    BY <1>3, <2>4, FS_RemoveElement
  <2>6. permits' + Cardinality(Holding') = Concurrency
    BY <1>3, <2>1, <2>5 DEF Types
  <2>7. PermitInv'
    BY <1>4, <1>5, <2>1, <2>4, <2>6 DEF PermitInv, PermitsExact, Holding, Waiting
  <2> HIDE DEF free
  <2>8. Released(k)
    BY <1>2, <2>3 DEF Released
  <2> QED BY <2>1, <2>2, <2>7, <2>8 DEF Types
<1>6. CASE waiters # <<>>
  <2>0. PICK v : v = Head(waiters)
    OBVIOUS
  <2> DEFINE next == [worker[v] EXCEPT !.stage = "granted"]
  <2>1. permits' = permits /\ waiters' = Tail(waiters)
    BY <1>6 DEF Release
  <2>2. /\ waiters \in Seq(Collections) /\ v \in Collections /\ waiters' \in Seq(Collections)
        /\ Len(waiters') = Len(waiters) - 1 /\ Len(waiters) \in Nat \ {0}
        /\ \A i \in 1..Len(waiters') : waiters'[i] = waiters[i + 1]
        /\ DOMAIN waiters = 1..Len(waiters) /\ DOMAIN waiters' = 1..Len(waiters') /\ v = waiters[1]
    <3>1. waiters \in Seq(Collections)
      BY DEF Types
    <3> QED BY <1>6, <2>0, <2>1, <3>1, HeadTailProperties, EmptySeq, LenProperties
  <2>3. v \in Waiting /\ worker[v].stage = "waiting" /\ v # k
    <3>1. 1 \in DOMAIN waiters
      BY <2>2
    <3>2. v \in ToSet(waiters)
      BY <2>2, <3>1 DEF ToSet
    <3> QED BY <1>4, <3>2 DEF Waiting
  <2>4. worker' \in [Collections -> Work] /\ worker'[k] = free /\ worker'[v] = next
        /\ \A m \in Collections \ {k, v} : worker'[m] = worker[m]
    <3>1. worker' = [[worker EXCEPT ![k] = free] EXCEPT ![v].stage = "granted"]
      BY <1>6, <2>0 DEF Release, Types
    <3>2. worker' = [[worker EXCEPT ![k] = free] EXCEPT ![v] = next]
      <4>1. [worker EXCEPT ![k] = free][v] = worker[v]
        BY <2>2, <2>3 DEF Types
      <4> HIDE DEF free
      <4> QED BY <3>1, <4>1
    <3>3. worker[v] \in Work /\ next \in Work
      <4>1. worker[v] \in Work
        BY <2>2 DEF Types
      <4> QED BY <4>1 DEF Work, Stage
    <3> HIDE DEF next, free
    <3> QED BY <1>2, <2>2, <2>3, <3>2, <3>3 DEF Types
  <2>5. worker[v] \in Work /\ next.stage = "granted" /\ next.todo = worker[v].todo /\ next.to = worker[v].to
    BY <2>2 DEF Types, Work
  <2> HIDE DEF next, free
  <2>6. WorkerInv'
    <3>1. \A h \in Collections, g \in Made : Known(h, g) => Known(h, g)'
      BY DEF Known, Settled, Later
    <3>2. \A h \in Collections : \A g : Known(h, g) => Known(h, g)'
      BY <3>1 DEF Known
    <3>3. WorkOk(k, worker[k])'
      BY <1>1, <1>2, <2>4, <3>2 DEF WorkOk
    <3>4. WorkOk(v, worker[v])'
      BY <1>1, <2>2, <2>3, <2>4, <2>5, <3>2 DEF WorkOk, WorkerInv
    <3>5. ASSUME NEW m \in Collections \ {k, v} PROVE WorkOk(m, worker[m])'
      BY <1>1, <2>4, WorkerAlone DEF WorkerInv
    <3> QED BY <3>3, <3>4, <3>5 DEF WorkerInv
  <2>7. Holding' = (Holding \ {k}) \cup {v} /\ Waiting' = Waiting \ {v}
    BY <1>2, <2>2, <2>3, <2>4, <2>5 DEF Holding, Waiting
  <2>8. Cardinality(Holding') = Cardinality(Holding)
    <3>1. IsFiniteSet(Holding \ {k}) /\ Cardinality(Holding \ {k}) = Cardinality(Holding) - 1
      BY <1>3, FS_RemoveElement
    <3>2. v \notin Holding
      BY <2>3 DEF Holding
    <3>3. Cardinality((Holding \ {k}) \cup {v}) = Cardinality(Holding \ {k}) + 1
      BY <3>1, <3>2, FS_AddElement
    <3> QED BY <1>3, <2>7, <3>1, <3>3
  <2>9. ToSet(waiters') = Waiting'
    <3>1. ASSUME NEW m \in ToSet(waiters') PROVE m \in Waiting'
      <4>1. PICK i \in DOMAIN waiters' : m = waiters'[i]
        BY <3>1 DEF ToSet
      <4>2. i + 1 \in DOMAIN waiters /\ 1 \in DOMAIN waiters /\ i + 1 # 1 /\ m = waiters[i + 1]
        BY <2>2, <4>1
      <4>3. m \in ToSet(waiters) /\ m # v
        BY <2>2, <4>2 DEF ToSet, PermitInv
      <4> QED BY <1>4, <2>7, <4>3
    <3>2. ASSUME NEW m \in Waiting' PROVE m \in ToSet(waiters')
      <4>1. m \in ToSet(waiters) /\ m # v
        BY <1>4, <2>7, <3>2
      <4>2. PICK i \in DOMAIN waiters : m = waiters[i]
        BY <4>1 DEF ToSet
      <4>3. i # 1 /\ i \in 1..Len(waiters)
        BY <2>2, <4>1, <4>2
      <4>4. i - 1 \in 1..Len(waiters') /\ waiters'[i - 1] = m
        BY <2>2, <4>2, <4>3
      <4> QED BY <2>2, <4>4 DEF ToSet
    <3> QED BY <3>1, <3>2
  <2>10. ASSUME NEW i \in DOMAIN waiters', NEW j \in DOMAIN waiters', waiters'[i] = waiters'[j] PROVE i = j
    <3>1. i + 1 \in DOMAIN waiters /\ j + 1 \in DOMAIN waiters /\ waiters[i + 1] = waiters[j + 1]
      BY <2>2, <2>10
    <3>2. i + 1 = j + 1
      BY <3>1 DEF PermitInv
    <3> QED BY <2>2, <3>2
  <2>11. permits = 0
    BY <1>6 DEF PermitInv, PermitsExact
  <2>12. PermitInv'
    BY <1>3, <2>1, <2>8, <2>9, <2>10, <2>11 DEF PermitInv, PermitsExact, Holding, Waiting
  <2>13. Released(k)
    BY <1>2, <2>2, <2>3, <2>4, <2>5 DEF Released
  <2> QED BY <2>1, <2>2, <2>4, <2>6, <2>12, <2>13 DEF Types
<1> QED BY <1>5, <1>6
-----------------------------------------------------------------------------
\* The coordinator's steps keep types, modes and resources.

LEMMA StopKeeps == ASSUME BaseInv, PermitInv, Stop PROVE BaseInv' /\ PermitInv' /\ Later
<1>1. Types /\ WorkerInv /\ ModeInv /\ CommandInv /\ NoReservationLeak
  BY DEF BaseInv
<1>2. /\ stopped' = TRUE /\ cancelled' = TRUE /\ Cancel /\ client' = Stopping(Clients)
      /\ UNCHANGED <<command, registryVars, queues, permits, overloaded, received, owed, frames, skipped>>
  BY DEF Stop, historyVars
<1>3. /\ CommandInv' /\ NoReservationLeak' /\ Later /\ Made' = Made /\ res' \in [Made -> Record]
      /\ client' \in [Clients -> {"open", "stopping", "closed"}]
  BY <1>1, <1>2, RegistryUndisturbed
<1>4. worker' \in [Collections -> Work] /\ waiters' \in Seq(Collections) /\ WorkerInv' /\ PermitInv'
  BY <1>1, <1>2, <1>3, CancelOk
<1>5. Types'
  BY <1>1, <1>2, <1>3, <1>4, WorkTypes DEF Types, registryVars
<1>6. ModeInv'
  <2>1. \A c \in Clients : client'[c] # "open"
    BY <1>1, <1>2, StoppingKeeps
  <2>2. \A g \in Made' : res'[g].client \in Clients
    BY <1>3 DEF Record
  <2> QED BY <1>2, <2>1, <2>2 DEF ModeInv
<1> QED BY <1>3, <1>4, <1>5, <1>6 DEF BaseInv

LEMMA OverloadKeeps ==
  ASSUME BaseInv, PermitInv, ~cancelled, ~stopped, EnterOverload, UNCHANGED <<command, registryVars, stopped, frames, skipped>>,
         received' \in 0..MaxEvents, owed' \in [Gen -> SUBSET Nat]
  PROVE  BaseInv' /\ PermitInv' /\ Later
<1>1. Types /\ WorkerInv /\ ModeInv /\ CommandInv /\ NoReservationLeak
  BY DEF BaseInv
<1>2. /\ client' = Stopping(OverloadCloses) /\ overloaded' = (Queued > 0) /\ cancelled' = (Queued > 0)
      /\ Cancel /\ UNCHANGED <<queues, permits>>
  BY DEF EnterOverload
<1>3. /\ CommandInv' /\ NoReservationLeak' /\ Later /\ Made' = Made /\ res' \in [Made -> Record]
      /\ client' \in [Clients -> {"open", "stopping", "closed"}]
  BY <1>1, <1>2, RegistryUndisturbed
<1>4. cancelled' \/ \A k \in Collections : queues[k] = <<>>
  <2>1. CASE Queued > 0
    BY <1>2, <2>1
  <2>2. CASE ~(Queued > 0)
    <3>1. PICK n \in Nat : n = Queued
      BY <1>1, QueuedFacts
    <3>2. n = 0
      BY <2>2, <3>1
    <3> QED BY <1>1, <3>1, <3>2, QueuedFacts
  <2> QED BY <2>1, <2>2
<1>5. worker' \in [Collections -> Work] /\ waiters' \in Seq(Collections) /\ WorkerInv' /\ PermitInv'
  BY <1>1, <1>2, <1>3, <1>4, CancelOk
<1>6. overloaded' \in BOOLEAN /\ cancelled' \in BOOLEAN /\ (cancelled' => overloaded') /\ stopped' \in BOOLEAN
  <2>1. CASE Queued > 0
    BY <1>1, <1>2, <2>1 DEF Types
  <2>2. CASE ~(Queued > 0)
    BY <1>1, <1>2, <2>2 DEF Types
  <2> QED BY <2>1, <2>2
<1>7. UNCHANGED <<command, lastGeneration, res, frames, skipped>>
  BY DEF registryVars
<1>8. Types'
  <2>1. skipped' \in [Gen -> SUBSET Nat] /\ frames' = [g \in Gen |-> frames'[g]] /\ \A g \in Gen : frames'[g] \in Seq(Nat)
    BY <1>1, <1>7 DEF Types
  <2>2. permits' \in Nat
    BY <1>1, <1>2 DEF Types
  <2> QED BY <1>1, <1>2, <1>3, <1>5, <1>6, <1>7, <2>1, <2>2, WorkTypes
<1>9. ModeInv'
  <2>1. ASSUME NEW g \in Made', Live(g)' PROVE client'[res'[g].client] # "open"
    <3>1. g \in Made /\ Live(g) /\ res'[g].client = res[g].client /\ res[g].client \in Clients
      BY <1>1, <1>3, <1>7, <2>1, Bounds DEF Live, Record
    <3>2. res[g].client \in OverloadCloses
      BY <3>1 DEF OverloadCloses
    <3> QED BY <1>1, <1>2, <3>1, <3>2, StoppingKeeps
  <2> QED BY <1>6, <2>1 DEF ModeInv
<1> QED BY <1>3, <1>5, <1>8, <1>9 DEF BaseInv

LEMMA EnqueueKeeps ==
  ASSUME BaseInv, PermitInv, NEW k \in Collections, NEW e \in Event, Enqueue(k, e),
         UNCHANGED <<command, registryVars, stopped, frames, skipped>>, received' \in 0..MaxEvents, owed' \in [Gen -> SUBSET Nat]
  PROVE  BaseInv' /\ PermitInv' /\ Later
<1>1. Types /\ WorkerInv /\ ModeInv /\ CommandInv /\ NoReservationLeak
  BY DEF BaseInv
<1>2. UNCHANGED <<client, overloaded, cancelled, stopped, permits, waiters, command, lastGeneration, res, frames, skipped>>
  BY DEF Enqueue, registryVars
<1>3. /\ CommandInv' /\ NoReservationLeak' /\ Later /\ Made' = Made /\ res' \in [Made -> Record]
      /\ client' \in [Clients -> {"open", "stopping", "closed"}]
  BY <1>1, <1>2, RegistryUndisturbed DEF registryVars
<1> DEFINE en == [event |-> e, generation |-> lastGeneration, pending |-> Pending(k)]
           b == [Idle EXCEPT !.stage = "barrier"]
<1>4. en \in Entry /\ en.generation <= lastGeneration /\ en.pending \subseteq Made
  <2>1. Pending(k) \subseteq Made /\ Made \subseteq Gen /\ lastGeneration \in 0..MaxReservations /\ lastGeneration <= lastGeneration
    BY <1>1, Bounds DEF Pending, Types
  <2> QED BY <2>1 DEF Entry
<1>5. queues' = [queues EXCEPT ![k] = Append(@, en)] /\ Longer(k)
  <2>1. queues' = [queues EXCEPT ![k] = Append(@, en)]
    BY DEF Enqueue
  <2> HIDE DEF en
  <2> QED BY <1>4, <2>1 DEF Longer
<1> HIDE DEF en
<1>6. queues'[k] # <<>> /\ \A m \in Collections \ {k} : queues'[m] = queues[m]
  <2>1. queues'[k] = Append(queues[k], en) /\ \A m \in Collections \ {k} : queues'[m] = queues[m]
    BY <1>1, <1>5 DEF Types
  <2>2. queues[k] \in Seq(Entry) /\ Len(queues[k]) \in Nat
    BY <1>1, QueueFacts
  <2>3. Append(queues[k], en) \in Seq(Entry) /\ Len(Append(queues[k], en)) = Len(queues[k]) + 1
    BY <1>4, <2>2, AppendProperties
  <2>4. Len(Append(queues[k], en)) # 0
    BY <2>2, <2>3
  <2> QED BY <2>1, <2>3, <2>4, EmptySeq
<1>7. Idle \in Work /\ b \in Work /\ b.stage = "barrier" /\ b.todo = {} /\ b.to = 0
  <2>1. Idle \in Work /\ Idle.stage = "idle" /\ Idle.todo = {} /\ Idle.to = 0
    <3>1. 0 \in 0..MaxReservations
      BY DispatchAssumption
    <3> QED BY <3>1 DEF Idle, Work, Stage
  <2> QED BY <2>1 DEF Work, Stage
<1>8. /\ worker' \in [Collections -> Work] /\ \A m \in Collections \ {k} : worker'[m] = worker[m]
      /\ worker'[k] = IF queues[k] = <<>> THEN b ELSE worker[k]
  <2>1. worker' = IF queues[k] = <<>> THEN [worker EXCEPT ![k] = b] ELSE worker
    BY DEF Enqueue
  <2> HIDE DEF b
  <2> QED BY <1>1, <1>7, <2>1 DEF Types
<1>9. WorkerInv'
  <2>1. \A h \in Collections, g \in Made : Known(h, g) => Known(h, g)'
    BY <1>3 DEF Known, Settled, Later
  <2>2. \A g : Known(k, g) => Known(k, g)'
    BY <2>1 DEF Known
  <2>3. WorkOk(k, worker[k])'
    <3>1. CASE queues[k] = <<>>
      <4>1. worker'[k].stage = "barrier" /\ worker'[k].todo = {} /\ worker'[k].to = 0
        BY <1>7, <1>8, <3>1
      <4> QED BY <1>6, <4>1 DEF WorkOk
    <3>2. CASE queues[k] # <<>>
      <4>1. worker'[k] = worker[k] /\ WorkOk(k, worker[k]) /\ cancelled' = cancelled
        BY <1>1, <1>2, <1>8, <3>2 DEF WorkerInv
      <4> QED BY <1>6, <2>2, <3>2, <4>1 DEF WorkOk
    <3> QED BY <3>1, <3>2
  <2>4. ASSUME NEW m \in Collections \ {k} PROVE WorkOk(m, worker[m])'
    BY <1>1, <1>2, <1>3, <1>6, <1>8, WorkerAlone DEF WorkerInv
  <2> QED BY <2>3, <2>4 DEF WorkerInv
<1>10. Holding' = Holding /\ Waiting' = Waiting
  <2>1. CASE queues[k] = <<>>
    <3>1. worker'[k].stage = "barrier" /\ worker[k].stage = "idle"
      BY <1>1, <1>7, <1>8, <2>1 DEF WorkerInv, WorkOk
    <3> QED BY <1>8, <3>1 DEF Holding, Waiting
  <2>2. CASE queues[k] # <<>>
    BY <1>8, <2>2 DEF Holding, Waiting
  <2> QED BY <2>1, <2>2
<1>11. PermitInv'
  BY <1>2, <1>10, PermitsUndisturbed
<1>12. Types'
  <2>1. skipped' \in [Gen -> SUBSET Nat] /\ frames' = [g \in Gen |-> frames'[g]] /\ \A g \in Gen : frames'[g] \in Seq(Nat)
    BY <1>1, <1>2 DEF Types
  <2>2. /\ permits' \in Nat /\ waiters' \in Seq(Collections)
        /\ overloaded' \in BOOLEAN /\ cancelled' \in BOOLEAN /\ stopped' \in BOOLEAN
    BY <1>1, <1>2 DEF Types
  <2> QED BY <1>1, <1>2, <1>3, <1>5, <1>8, <2>1, <2>2, WorkTypes
<1>13. ModeInv'
  BY <1>1, <1>2, <1>3, ModesUndisturbed DEF modeVars
<1> QED BY <1>3, <1>9, <1>11, <1>12, <1>13 DEF BaseInv

LEMMA AdmitKeeps == ASSUME BaseInv, PermitInv, NEW k \in Collections, Admit(k) PROVE BaseInv' /\ PermitInv' /\ Later
<1>1. Types /\ WorkerInv /\ ModeInv /\ CommandInv /\ NoReservationLeak
  BY DEF BaseInv
<1>2. received + 1 \in Event /\ received' \in 0..MaxEvents /\ received + 1 \in Nat
  BY <1>1, DispatchAssumption DEF Admit, Types, Event
<1>3. owed' \in [Gen -> SUBSET Nat]
  <2>1. \A g \in Gen : owed[g] \in SUBSET Nat /\ owed[g] \cup {received + 1} \in SUBSET Nat
    BY <1>1, <1>2 DEF Types
  <2>2. owed' = [g \in Gen |-> IF Live(g) /\ res[g].collection = k THEN owed[g] \cup {received + 1} ELSE owed[g]]
    BY DEF Admit
  <2> QED BY <2>1, <2>2
<1>4. UNCHANGED <<command, registryVars, stopped, frames, skipped>>
  BY DEF Admit
<1>5. CASE (stopped \/ overloaded) /\ UNCHANGED <<client, workVars, overloaded, cancelled>>
  <2>1. /\ CommandInv' /\ NoReservationLeak' /\ Later /\ Made' = Made /\ res' \in [Made -> Record]
        /\ client' \in [Clients -> {"open", "stopping", "closed"}]
    BY <1>1, <1>4, <1>5, RegistryUndisturbed
  <2>2. UNCHANGED <<workVars, modeVars, queues, worker, permits, waiters, cancelled, overloaded, stopped, lastGeneration, command>>
    BY <1>4, <1>5 DEF workVars, modeVars, registryVars
  <2>3. WorkerInv' /\ ModeInv'
    BY <1>1, <2>1, <2>2, WorkersUndisturbed, ModesUndisturbed
  <2>4. PermitInv'
    BY <2>2, PermitsUndisturbed DEF Holding, Waiting
  <2>5. Types'
    <3>1. skipped' \in [Gen -> SUBSET Nat] /\ frames' = [g \in Gen |-> frames'[g]] /\ \A g \in Gen : frames'[g] \in Seq(Nat)
      BY <1>1, <1>4 DEF Types
    <3>2. /\ permits' \in Nat /\ waiters' \in Seq(Collections) /\ worker' \in [Collections -> Work]
          /\ overloaded' \in BOOLEAN /\ cancelled' \in BOOLEAN /\ stopped' \in BOOLEAN
      BY <1>1, <2>2 DEF Types
    <3> QED BY <1>1, <1>2, <1>3, <2>1, <2>2, <3>1, <3>2, WorkTypes
  <2> QED BY <2>1, <2>3, <2>4, <2>5 DEF BaseInv
<1>6. CASE ~stopped /\ ~overloaded /\ EnterOverload
  BY <1>1, <1>2, <1>3, <1>4, <1>6, OverloadKeeps DEF ModeInv
<1>7. CASE Enqueue(k, received + 1)
  BY <1>2, <1>3, <1>4, <1>7, EnqueueKeeps
<1> QED BY <1>5, <1>6, <1>7 DEF Admit
\* A worker's turn: the entry at the head of its queue and the reservation in hand.
LEMMA StepKeeps ==
  ASSUME BaseInv, UNCHANGED <<client, command, registryVars, stopped, received, owed, frames>>,
         skipped' \in [Gen -> SUBSET Nat], queues' = queues \/ \E k \in Collections : Shorter(k),
         worker' \in [Collections -> Work], permits' \in Nat, waiters' \in Seq(Collections), WorkerInv',
         overloaded' \in BOOLEAN, cancelled' \in BOOLEAN,
         UNCHANGED <<overloaded, cancelled>> \/ (~overloaded' /\ ~cancelled' /\ ~stopped)
  PROVE  BaseInv' /\ Later
<1>1. Types /\ WorkerInv /\ ModeInv /\ CommandInv /\ NoReservationLeak
  BY DEF BaseInv
<1>2. /\ CommandInv' /\ NoReservationLeak' /\ Later /\ Made' = Made /\ res' \in [Made -> Record]
      /\ client' \in [Clients -> {"open", "stopping", "closed"}]
  BY <1>1, RegistryUndisturbed
<1>3. Types'
  <2>1. /\ frames' = [g \in Gen |-> frames'[g]] /\ \A g \in Gen : frames'[g] \in Seq(Nat)
        /\ stopped' \in BOOLEAN /\ received' \in 0..MaxEvents /\ owed' \in [Gen -> SUBSET Nat]
    BY <1>1 DEF Types
  <2>2. UNCHANGED <<command, lastGeneration>>
    BY DEF registryVars
  <2> QED BY <1>1, <1>2, <2>1, <2>2, WorkTypes
<1>4. ModeInv'
  <2>1. CASE UNCHANGED <<overloaded, cancelled>>
    <3>1. UNCHANGED modeVars
      BY <2>1 DEF modeVars
    <3> QED BY <1>1, <1>2, <3>1, ModesUndisturbed
  <2>2. CASE ~overloaded' /\ ~cancelled' /\ ~stopped
    BY <2>2 DEF ModeInv
  <2> QED BY <2>1, <2>2
<1> QED BY <1>2, <1>3, <1>4 DEF BaseInv

LEMMA LaterOfNothing == ASSUME Types, UNCHANGED <<client, registryVars>> PROVE Later
BY Bounds DEF Later, registryVars, Made

\* The entry a worker is at.
LEMMA AtWork ==
  ASSUME BaseInv, NEW k \in Collections, worker[k].stage # "idle"
  PROVE  /\ queues[k] # <<>> /\ Head(queues[k]) \in Entry /\ Head(queues[k]) = queues[k][1] /\ 1 \in DOMAIN queues[k]
         /\ worker[k] \in Work /\ WorkOk(k, worker[k])
<1>1. worker[k] \in Work /\ WorkOk(k, worker[k]) /\ queues[k] # <<>> /\ queues[k] \in Seq(Entry)
  BY DEF BaseInv, Types, WorkerInv, WorkOk
<1>2. Head(queues[k]) \in Entry /\ Head(queues[k]) = queues[k][1]
  BY <1>1, HeadTailProperties
<1>3. PICK n \in Nat : n = Len(queues[k]) /\ n > 0 /\ DOMAIN queues[k] = 1..n
  BY <1>1, QueueFacts DEF BaseInv
<1>4. 1 \in DOMAIN queues[k]
  BY <1>3, Ends
<1> QED BY <1>1, <1>2, <1>4

LEMMA PassBarrierKeeps == ASSUME BaseInv, PermitInv, NEW k \in Collections, PassBarrier(k) PROVE BaseInv' /\ PermitInv' /\ Later
<1>1. Types /\ WorkerInv /\ ModeInv /\ CommandInv /\ NoReservationLeak
  BY DEF BaseInv
<1>2. UNCHANGED <<client, command, registryVars, stopped, received, owed, frames, skipped>> /\ worker[k].stage = "barrier"
  BY DEF PassBarrier, historyVars
<1>3. Later /\ skipped' \in [Gen -> SUBSET Nat] /\ permits \in Nat /\ waiters \in Seq(Collections)
  BY <1>1, <1>2, LaterOfNothing DEF Types
<1>4. queues[k] # <<>> /\ worker[k] \in Work
  BY <1>2, AtWork
<1>5. CASE FinishEntry(k)
  <2>1. /\ Shorter(k) /\ worker' \in [Collections -> Work] /\ WorkerInv' /\ PermitInv'
        /\ overloaded' \in BOOLEAN /\ cancelled' \in BOOLEAN
        /\ UNCHANGED <<overloaded, cancelled>> \/ (~overloaded' /\ ~cancelled' /\ ~stopped)
    BY <1>1, <1>2, <1>3, <1>4, <1>5, FinishOk
  <2>2. permits' \in Nat /\ waiters' \in Seq(Collections)
    BY <1>3, <1>5 DEF FinishEntry
  <2> QED BY <1>2, <1>3, <2>1, <2>2, StepKeeps
<1>6. ASSUME ~cancelled, NEW w, w = [stage |-> "fanout", todo |-> Recipients(k, Head(queues[k]).generation), to |-> 0],
             Move(k, w), UNCHANGED <<permits, waiters>>
      PROVE  BaseInv' /\ PermitInv' /\ Later
  <2>1. w \in Work /\ w.stage = "fanout" /\ w.to = 0 /\ w.todo \subseteq Made /\ \A g \in w.todo : Known(k, g)
    <3>1. Recipients(k, Head(queues[k]).generation) \subseteq Made /\ Made \subseteq Gen /\ 0 \in 0..MaxReservations
      BY <1>1, Bounds, DispatchAssumption DEF Recipients
    <3>2. \A g \in Recipients(k, Head(queues[k]).generation) : Known(k, g)
      BY DEF Recipients, Known, Settled, Active
    <3> QED BY <1>6, <3>1, <3>2 DEF Work, Stage
  <2>2. WorkOk(k, w)
    <3>1. \A g \in w.todo : g # 0
      BY <1>1, <2>1, Bounds
    <3> QED BY <1>4, <2>1, <3>1 DEF WorkOk
  <2>3. worker' = [worker EXCEPT ![k] = w] /\ UNCHANGED <<queues, overloaded, cancelled>>
    BY <1>6 DEF Move
  <2>4. worker' \in [Collections -> Work] /\ WorkerInv'
    BY <1>1, <1>3, <2>1, <2>2, <2>3, MoveOk
  <2>5. Holding' = Holding /\ Waiting' = Waiting
    <3>1. worker'[k].stage = "fanout" /\ \A m \in Collections \ {k} : worker'[m] = worker[m]
      BY <1>1, <2>1, <2>3 DEF Types
    <3> QED BY <1>2, <3>1 DEF Holding, Waiting
  <2>6. PermitInv'
    BY <1>6, <2>5, PermitsUndisturbed
  <2>7. overloaded' \in BOOLEAN /\ cancelled' \in BOOLEAN
    BY <1>1, <2>3 DEF Types
  <2> QED BY <1>2, <1>3, <1>6, <2>3, <2>4, <2>6, <2>7, StepKeeps
<1> QED BY <1>5, <1>6 DEF PassBarrier

\* FanOut takes a reservation from those to do.
LEMMA TakeKeeps ==
  ASSUME BaseInv, PermitInv, NEW k \in Collections, worker[k].stage = "fanout", ~cancelled, NEW g \in worker[k].todo,
         UNCHANGED <<client, command, registryVars, stopped, received, owed, frames>>, skipped' \in [Gen -> SUBSET Nat],
         NEW w, Move(k, w), w \in Work, w.todo = worker[k].todo \ {g},
         \/ w.stage = "fanout" /\ w.to = 0 /\ UNCHANGED <<permits, waiters>>
         \/ w.stage = "granted" /\ w.to = g /\ permits > 0 /\ permits' = permits - 1 /\ UNCHANGED waiters
         \/ w.stage = "waiting" /\ w.to = g /\ ~(permits > 0) /\ waiters' = Append(waiters, k) /\ UNCHANGED permits
  PROVE  BaseInv' /\ PermitInv' /\ Later
<1>1. Types /\ WorkerInv /\ ModeInv /\ CommandInv /\ NoReservationLeak
  BY DEF BaseInv
<1>2. Later /\ permits \in Nat /\ waiters \in Seq(Collections)
  BY <1>1, LaterOfNothing DEF Types
<1>3. queues[k] # <<>> /\ worker[k] \in Work /\ WorkOk(k, worker[k])
  BY AtWork
<1>4. worker' = [worker EXCEPT ![k] = w] /\ UNCHANGED <<queues, overloaded, cancelled>>
  BY DEF Move
<1>5. WorkOk(k, w)
  <2>1. \A h \in worker[k].todo : h # 0 /\ Known(k, h)
    BY <1>3 DEF WorkOk, Work, Gen
  <2>2. \A h \in w.todo \cup {w.to} : h # 0 => Known(k, h)
    BY <2>1
  <2>3. w.to \notin w.todo /\ (w.stage \in {"waiting", "granted", "delivering"} => w.to # 0)
        /\ (w.stage = "fanout" => w.to = 0) /\ w.stage # "idle" /\ w.stage # "barrier"
    BY <2>1
  <2> QED BY <1>3, <2>2, <2>3 DEF WorkOk
<1>6. worker' \in [Collections -> Work] /\ WorkerInv'
  BY <1>1, <1>2, <1>4, <1>5, MoveOk
<1>7. worker'[k] = w /\ \A m \in Collections \ {k} : worker'[m] = worker[m]
  BY <1>1, <1>4 DEF Types
<1>8. /\ k \notin Holding /\ k \notin Waiting /\ IsFiniteSet(Holding) /\ Cardinality(Holding) \in Nat
      /\ permits + Cardinality(Holding) = Concurrency /\ ToSet(waiters) = Waiting
  BY HoldersFinite, FS_CardinalityType DEF Holding, Waiting, PermitInv, PermitsExact
<1>9. PermitInv' /\ permits' \in Nat /\ waiters' \in Seq(Collections)
  <2>1. CASE w.stage = "fanout" /\ w.to = 0 /\ UNCHANGED <<permits, waiters>>
    <3>1. Holding' = Holding /\ Waiting' = Waiting
      BY <1>7, <1>8, <2>1 DEF Holding, Waiting
    <3> QED BY <1>2, <2>1, <3>1, PermitsUndisturbed
  <2>2. CASE w.stage = "granted" /\ permits > 0 /\ permits' = permits - 1 /\ UNCHANGED waiters
    <3>1. Holding' = Holding \cup {k} /\ Waiting' = Waiting
      BY <1>7, <1>8, <2>2 DEF Holding, Waiting
    <3>2. Cardinality(Holding') = Cardinality(Holding) + 1
      BY <1>8, <3>1, FS_AddElement
    <3>3. permits' + Cardinality(Holding') = Concurrency /\ permits' \in Nat
      <4>1. PICK p \in Nat, c \in Nat : p = permits /\ c = Cardinality(Holding) /\ p + c = Concurrency
        BY <1>2, <1>8
      <4>2. p > 0 /\ permits' = p - 1 /\ Cardinality(Holding') = c + 1
        BY <2>2, <3>2, <4>1
      <4>3. (p - 1) + (c + 1) = p + c /\ p - 1 \in Nat
        BY <4>2
      <4> QED BY <4>1, <4>2, <4>3
    <3>4. waiters = <<>>
      BY <1>2, <2>2 DEF PermitInv, PermitsExact
    <3> QED BY <1>2, <1>8, <2>2, <3>1, <3>3, <3>4 DEF PermitInv, PermitsExact, Holding, Waiting
  <2>3. CASE w.stage = "waiting" /\ ~(permits > 0) /\ waiters' = Append(waiters, k) /\ UNCHANGED permits
    <3>1. Holding' = Holding /\ Waiting' = Waiting \cup {k}
      BY <1>7, <1>8, <2>3 DEF Holding, Waiting
    <3>2. /\ waiters' \in Seq(Collections) /\ Len(waiters') = Len(waiters) + 1 /\ Len(waiters) \in Nat
          /\ \A i \in 1..Len(waiters) : waiters'[i] = waiters[i]
          /\ waiters'[Len(waiters) + 1] = k
          /\ DOMAIN waiters = 1..Len(waiters) /\ DOMAIN waiters' = 1..Len(waiters')
      BY <1>2, <2>3, AppendProperties, LenProperties
    <3>3. PICK n \in Nat : n = Len(waiters)
      BY <3>2
    <3>4. DOMAIN waiters = 1..n /\ DOMAIN waiters' = 1..(n + 1) /\ waiters'[n + 1] = k
      BY <3>2, <3>3
    <3>5. \A i \in 1..n : waiters'[i] = waiters[i]
      BY <3>2, <3>3
    <3>6. 1..(n + 1) = (1..n) \cup {n + 1} /\ n + 1 \notin 1..n
      BY <3>3
    <3>7. ToSet(waiters') = ToSet(waiters) \cup {k}
      BY <3>4, <3>5, <3>6 DEF ToSet
    <3>8. \A i \in 1..n : waiters[i] # k
      BY <1>8, <3>4 DEF ToSet
    <3>9. \A i, j \in 1..n : waiters[i] = waiters[j] => i = j
      BY <3>4 DEF PermitInv
    <3>10. ASSUME NEW i \in DOMAIN waiters', NEW j \in DOMAIN waiters', waiters'[i] = waiters'[j] PROVE i = j
      <4>1. (i \in 1..n \/ i = n + 1) /\ (j \in 1..n \/ j = n + 1)
        BY <3>4, <3>6
      <4> QED BY <3>4, <3>5, <3>8, <3>9, <3>10, <4>1
    <3>11. permits' = 0
      BY <1>2, <2>3
    <3>12. permits' + Cardinality(Holding') = Concurrency
      BY <1>8, <2>3, <3>1
    <3>13. ToSet(waiters') = Waiting'
      BY <1>8, <3>1, <3>7
    <3>14. PermitsExact'
      BY <3>11, <3>12, <3>13 DEF PermitsExact, Holding, Waiting
    <3>15. permits' \in Nat
      BY <3>11
    <3>16. PermitInv'
      BY <3>10, <3>14 DEF PermitInv
    <3> QED BY <3>2, <3>15, <3>16
  <2> QED BY <2>1, <2>2, <2>3
<1>10. overloaded' \in BOOLEAN /\ cancelled' \in BOOLEAN
  BY <1>1, <1>4 DEF Types
<1> QED BY <1>4, <1>6, <1>9, <1>10, StepKeeps

LEMMA SkipTypes ==
  ASSUME BaseInv, NEW k \in Collections, worker[k].stage # "idle", NEW g, Skip(k, g)
  PROVE  skipped' \in [Gen -> SUBSET Nat]
<1>1. Head(queues[k]).event \in Nat
  BY AtWork, DispatchAssumption DEF Entry, Event
<1> QED BY <1>1 DEF BaseInv, Types, Skip

LEMMA FanOutKeeps == ASSUME BaseInv, PermitInv, NEW k \in Collections, FanOut(k) PROVE BaseInv' /\ PermitInv' /\ Later
<1>1. Types /\ WorkerInv /\ ModeInv /\ CommandInv /\ NoReservationLeak
  BY DEF BaseInv
<1>2. UNCHANGED <<client, command, registryVars, stopped, received, owed, frames>> /\ worker[k].stage = "fanout"
  BY DEF FanOut
<1>3. Later /\ skipped \in [Gen -> SUBSET Nat] /\ permits \in Nat /\ waiters \in Seq(Collections)
  BY <1>1, <1>2, LaterOfNothing DEF Types
<1>4. queues[k] # <<>> /\ worker[k] \in Work /\ WorkOk(k, worker[k])
  BY <1>2, AtWork
<1>5. CASE FinishEntry(k) /\ UNCHANGED skipped
  <2>1. /\ Shorter(k) /\ worker' \in [Collections -> Work] /\ WorkerInv' /\ PermitInv'
        /\ overloaded' \in BOOLEAN /\ cancelled' \in BOOLEAN
        /\ UNCHANGED <<overloaded, cancelled>> \/ (~overloaded' /\ ~cancelled' /\ ~stopped)
    BY <1>1, <1>2, <1>3, <1>4, <1>5, FinishOk
  <2>2. permits' \in Nat /\ waiters' \in Seq(Collections)
    BY <1>3, <1>5 DEF FinishEntry
  <2> QED BY <1>2, <1>3, <1>5, <2>1, <2>2, StepKeeps
<1>6. ASSUME ~cancelled, NEW g \in worker[k].todo,
             NEW rest, rest = worker[k].todo \ {g},
             \/ Move(k, [worker[k] EXCEPT !.todo = rest]) /\ UNCHANGED <<permits, waiters, skipped>>
             \/ Skip(k, g) /\ Move(k, [worker[k] EXCEPT !.todo = rest]) /\ UNCHANGED <<permits, waiters>>
             \/ /\ IF permits > 0
                   THEN permits' = permits - 1 /\ Move(k, [stage |-> "granted", todo |-> rest, to |-> g]) /\ UNCHANGED waiters
                   ELSE /\ waiters' = Append(waiters, k)
                        /\ Move(k, [stage |-> "waiting", todo |-> rest, to |-> g])
                        /\ UNCHANGED permits
                /\ UNCHANGED skipped
      PROVE  BaseInv' /\ PermitInv' /\ Later
  <2> DEFINE moved == [worker[k] EXCEPT !.todo = rest]
             asking(st) == [stage |-> st, todo |-> rest, to |-> g]
  <2>1. moved \in Work /\ moved.stage = "fanout" /\ moved.to = 0 /\ moved.todo = rest
    <3>1. worker[k].to = 0
      BY <1>2, <1>4, <1>6 DEF WorkOk
    <3> QED BY <1>2, <1>4, <1>6, <3>1 DEF Work
  <2>2. \A st \in Stage : asking(st) \in Work /\ asking(st).stage = st /\ asking(st).todo = rest /\ asking(st).to = g
    <3>1. g \in 0..MaxReservations /\ rest \in SUBSET Gen
      BY <1>4, <1>6, DispatchAssumption DEF Work, Gen
    <3> QED BY <3>1 DEF Work
  <2>3. skipped' \in [Gen -> SUBSET Nat]
    BY <1>2, <1>3, <1>6, SkipTypes
  <2>4. PICK w \in Work : /\ Move(k, w) /\ w.todo = rest
                          /\ \/ w.stage = "fanout" /\ w.to = 0 /\ UNCHANGED <<permits, waiters>>
                             \/ w.stage = "granted" /\ w.to = g /\ permits > 0 /\ permits' = permits - 1 /\ UNCHANGED waiters
                             \/ w.stage = "waiting" /\ w.to = g /\ ~(permits > 0) /\ waiters' = Append(waiters, k) /\ UNCHANGED permits
    <3>1. CASE Move(k, moved) /\ UNCHANGED <<permits, waiters>>
      <4> HIDE DEF moved
      <4> QED BY <2>1, <3>1
    <3>2. CASE permits > 0 /\ permits' = permits - 1 /\ Move(k, asking("granted")) /\ UNCHANGED waiters
      <4>1. "granted" \in Stage
        BY DEF Stage
      <4> HIDE DEF asking
      <4> QED BY <2>2, <3>2, <4>1
    <3>3. CASE ~(permits > 0) /\ waiters' = Append(waiters, k) /\ Move(k, asking("waiting")) /\ UNCHANGED permits
      <4>1. "waiting" \in Stage
        BY DEF Stage
      <4> HIDE DEF asking
      <4> QED BY <2>2, <3>3, <4>1
    <3> QED BY <1>6, <3>1, <3>2, <3>3
  <2> QED BY <1>2, <1>6, <2>3, <2>4, TakeKeeps
<1> QED BY <1>5, <1>6 DEF FanOut
LEMMA GrantedKeeps == ASSUME BaseInv, PermitInv, NEW k \in Collections, Granted(k) PROVE BaseInv' /\ PermitInv' /\ Later
<1>1. Types /\ WorkerInv /\ ModeInv /\ CommandInv /\ NoReservationLeak
  BY DEF BaseInv
<1>2. UNCHANGED <<client, command, registryVars, stopped, received, owed, frames, skipped>> /\ worker[k].stage = "granted"
  BY DEF Granted, historyVars
<1>3. Later /\ skipped' \in [Gen -> SUBSET Nat] /\ permits \in Nat /\ waiters \in Seq(Collections)
  BY <1>1, <1>2, LaterOfNothing DEF Types
<1>4. queues[k] # <<>> /\ worker[k] \in Work /\ WorkOk(k, worker[k])
  BY <1>2, AtWork
<1>5. CASE Release(k)
  <2>1. /\ worker' \in [Collections -> Work] /\ permits' \in Nat /\ waiters' \in Seq(Collections)
        /\ WorkerInv' /\ PermitInv'
    BY <1>1, <1>2, <1>3, <1>5, ReleaseOk
  <2>2. UNCHANGED <<queues, overloaded, cancelled>> /\ overloaded' \in BOOLEAN /\ cancelled' \in BOOLEAN
    BY <1>1, <1>5 DEF Release, Types
  <2> QED BY <1>2, <1>3, <2>1, <2>2, StepKeeps
<1>6. ASSUME NEW w, w = [worker[k] EXCEPT !.stage = "delivering"], Move(k, w), UNCHANGED <<permits, waiters>>
      PROVE  BaseInv' /\ PermitInv' /\ Later
  <2>1. w \in Work /\ w.stage = "delivering" /\ w.to = worker[k].to /\ w.todo = worker[k].todo
    BY <1>4, <1>6 DEF Work, Stage
  <2>2. WorkOk(k, w)
    BY <1>2, <1>4, <2>1 DEF WorkOk
  <2>3. worker' = [worker EXCEPT ![k] = w] /\ UNCHANGED <<queues, overloaded, cancelled>>
        /\ overloaded' \in BOOLEAN /\ cancelled' \in BOOLEAN
    BY <1>1, <1>6 DEF Move, Types
  <2>4. worker' \in [Collections -> Work] /\ WorkerInv'
    BY <1>1, <1>3, <2>1, <2>2, <2>3, MoveOk
  <2>5. Holding' = Holding /\ Waiting' = Waiting
    <3>1. worker'[k].stage = "delivering" /\ \A m \in Collections \ {k} : worker'[m] = worker[m]
      BY <1>1, <2>1, <2>3 DEF Types
    <3> QED BY <1>2, <3>1 DEF Holding, Waiting
  <2>6. PermitInv'
    BY <1>6, <2>5, PermitsUndisturbed
  <2> QED BY <1>2, <1>3, <1>6, <2>3, <2>4, <2>6, StepKeeps
<1> QED BY <1>5, <1>6 DEF Granted

\* What a delivery does to the registry, the connections and the histories.
LEMMA Delivered ==
  ASSUME BaseInv, NEW k \in Collections, Deliver(k), NEW g, g = worker[k].to
  PROVE  /\ g \in Made /\ res[g].collection = k /\ Settled(g) /\ res[g].client \in Clients
         /\ \E G \in {{}, {g}} : res' = Removed(G)
         /\ client' = client \/ (client' = Stopping({res[g].client}) /\ Active(g))
         /\ \/ frames' = frames
            \/ /\ Active(g) /\ client[res[g].client] = "open" /\ client' = client /\ res' = res
               /\ frames' = [frames EXCEPT ![g] = Append(@, Head(queues[k]).event)]
         /\ skipped' = skipped \/ Skip(k, g)
         /\ Release(k) /\ UNCHANGED <<command, lastGeneration, stopped, received, owed, queues, overloaded, cancelled>>
<1>1. Types /\ worker[k].stage = "delivering"
  BY DEF Deliver, BaseInv
<1>2. g \in Made /\ res[g].collection = k /\ Settled(g)
  BY <1>1, AtWork DEF WorkOk, Known
<1>3. res[g].client \in Clients
  BY <1>1, <1>2, Bounds DEF Record
<1>4. res = Removed({})
  BY <1>1 DEF Removed, Types
<1>5. \E G \in {{}, {g}} : res' = Removed(G)
  BY <1>4 DEF Deliver
<1> QED BY <1>2, <1>3, <1>5 DEF Deliver, StillActive, Release

LEMMA DeliverKeeps == ASSUME BaseInv, PermitInv, NEW k \in Collections, Deliver(k) PROVE BaseInv' /\ PermitInv' /\ Later
<1>1. Types /\ WorkerInv /\ ModeInv /\ CommandInv /\ NoReservationLeak /\ worker[k].stage = "delivering"
  BY DEF BaseInv, Deliver
<1>2. PICK g : g = worker[k].to
  OBVIOUS
<1>3. /\ g \in Made /\ res[g].client \in Clients /\ g \in Gen
      /\ Release(k) /\ UNCHANGED <<command, lastGeneration, stopped, received, owed, queues, overloaded, cancelled>>
  BY <1>1, <1>2, Delivered, Bounds
<1>4. PICK G \in {{}, {g}} : res' = Removed(G)
  BY <1>2, Delivered
<1>5. client' = client \/ client' = Stopping({res[g].client})
  BY <1>2, Delivered
<1>6. Later /\ res' \in [Made -> Record] /\ client' \in [Clients -> {"open", "stopping", "closed"}] /\ Made' = Made
  BY <1>1, <1>3, <1>4, <1>5, LaterOfRemoval DEF Made
<1>7. /\ worker' \in [Collections -> Work] /\ permits' \in Nat /\ waiters' \in Seq(Collections)
      /\ WorkerInv' /\ PermitInv'
  BY <1>1, <1>3, <1>6, ReleaseOk
<1>8. frames' = [h \in Gen |-> frames'[h]]
      /\ \A h \in Gen : frames'[h] \in Seq(Nat) /\ (frames'[h] = frames[h] \/ (Active(h) /\ frames'[h] # <<>>))
  <2>1. CASE frames' = frames
    BY <1>1, <2>1 DEF Types
  <2>2. CASE Active(g) /\ frames' = [frames EXCEPT ![g] = Append(@, Head(queues[k]).event)]
    <3>1. PICK e \in Nat : e = Head(queues[k]).event
      BY <1>1, AtWork, DispatchAssumption DEF Entry, Event
    <3>2. frames[g] \in Seq(Nat)
      BY <1>1, <1>3 DEF Types
    <3>3. PICK f : f = Append(frames[g], e)
      OBVIOUS
    <3>4. f \in Seq(Nat) /\ Len(f) = Len(frames[g]) + 1 /\ Len(frames[g]) \in Nat
      BY <3>2, <3>3, AppendProperties, LenProperties
    <3>5. f # <<>>
      BY <3>4, EmptySeq
    <3>6. frames' = [frames EXCEPT ![g] = f]
      BY <2>2, <3>1, <3>3
    <3> QED BY <1>1, <1>3, <2>2, <3>4, <3>5, <3>6 DEF Types
  <2> QED BY <1>2, <2>1, <2>2, Delivered
<1>9. skipped' \in [Gen -> SUBSET Nat]
  <2>1. skipped \in [Gen -> SUBSET Nat]
    BY <1>1 DEF Types
  <2> QED BY <1>1, <1>2, <2>1, Delivered, SkipTypes
<1>10. Types'
  <2>1. overloaded' \in BOOLEAN /\ cancelled' \in BOOLEAN /\ stopped' \in BOOLEAN
        /\ received' \in 0..MaxEvents /\ owed' \in [Gen -> SUBSET Nat]
    BY <1>1, <1>3 DEF Types
  <2> QED BY <1>1, <1>3, <1>6, <1>7, <1>8, <1>9, <2>1, WorkTypes
<1>11. ModeInv'
  BY <1>1, <1>3, <1>6, ModesUndisturbed DEF modeVars
<1>12. CommandInv'
  <2>1. \A d \in Clients : command[d] # 0 => command[d] \in Made
    BY <1>1, Bounds DEF Types, Made
  <2>2. ASSUME NEW d \in Clients, command'[d] # 0
        PROVE  res'[command'[d]].client = d /\ res'[command'[d]].status # "active" /\ frames'[command'[d]] = <<>>
    <3>1. command'[d] = command[d] /\ command[d] \in Made /\ command[d] \in Gen
      BY <1>1, <1>3, <2>1, <2>2, Bounds
    <3>2. res[command[d]].client = d /\ res[command[d]].status # "active" /\ frames[command[d]] = <<>>
      BY <1>1, <2>2, <3>1 DEF CommandInv
    <3> QED BY <1>1, <1>4, <1>8, <3>1, <3>2, RemovedKeeps DEF Active
  <2>3. ASSUME NEW h \in Made, Active(h)' PROVE frames'[h] # <<>>
    <3>1. Active(h) /\ h \in Gen
      BY <1>1, <1>4, <2>3, RemovedKeeps, Bounds DEF Active
    <3> QED BY <1>1, <1>8, <3>1 DEF CommandInv
  <2> QED BY <1>6, <2>2, <2>3 DEF CommandInv
<1>13. NoReservationLeak'
  <2>1. \A c \in Clients : client'[c] = "closed" => client[c] = "closed"
    BY <1>1, <1>5, StoppingKeeps
  <2> QED BY <1>1, <1>6, <2>1, NoLeakAfter
<1> QED BY <1>6, <1>7, <1>10, <1>11, <1>12, <1>13 DEF BaseInv

LEMMA InitBase == Init => BaseInv /\ PermitInv
<1> SUFFICES ASSUME Init PROVE BaseInv /\ PermitInv
  OBVIOUS
<1>1. lastGeneration = 0 /\ Made = {} /\ MaxReservations \in Nat /\ Concurrency \in Nat /\ MaxEvents \in Nat
  BY DispatchAssumption DEF Init, Made
<1>2. Idle \in Work /\ Idle.stage = "idle" /\ Idle.todo = {} /\ Idle.to = 0
  BY <1>1 DEF Idle, Work, Stage
<1>3. Types
  <2>1. res \in [Made -> Record]
    <3>1. <<>> \in Seq(Record) /\ Len(<<>>) = 0
      BY EmptySeq
    <3>2. <<>> \in [1..0 -> Record]
      BY <3>1, LenProperties
    <3>3. Made = 1..0 /\ res = <<>>
      BY DEF Init, Made
    <3> QED BY <3>2, <3>3
  <2>2. \A k \in Collections : queues[k] = <<>> /\ queues[k] \in Seq(Entry) /\ DOMAIN queues[k] = {}
    <3>1. <<>> \in Seq(Entry) /\ Len(<<>>) = 0
      BY EmptySeq
    <3> QED BY <3>1 DEF Init
  <2>3. waiters \in Seq(Collections) /\ \A g \in Gen : frames[g] \in Seq(Nat)
    BY EmptySeq DEF Init
  <2>4. worker \in [Collections -> Work]
    BY <1>2 DEF Init
  <2>5. owed \in [Gen -> SUBSET Nat] /\ skipped \in [Gen -> SUBSET Nat] /\ frames = [g \in Gen |-> frames[g]]
    BY DEF Init
  <2>6. command \in [Clients -> 0..MaxReservations] /\ \A c \in Clients : command[c] <= lastGeneration
    BY <1>1 DEF Init
  <2>7. client \in [Clients -> {"open", "stopping", "closed"}] /\ queues = [k \in Collections |-> queues[k]]
    BY DEF Init
  <2>8. lastGeneration \in 0..MaxReservations /\ permits \in Nat /\ received \in 0..MaxEvents
    BY <1>1 DEF Init
  <2>9. overloaded \in BOOLEAN /\ cancelled \in BOOLEAN /\ stopped \in BOOLEAN
    BY DEF Init
  <2> QED BY <2>1, <2>2, <2>3, <2>4, <2>5, <2>6, <2>7, <2>8, <2>9 DEF Types
<1>4. WorkerInv
  BY <1>2 DEF Init, WorkerInv, WorkOk
<1>5. ModeInv /\ CommandInv /\ NoReservationLeak
  BY <1>1 DEF Init, ModeInv, CommandInv, NoReservationLeak, OwnedBy
<1>6. PermitInv
  <2>1. Holding = {} /\ Waiting = {} /\ waiters = <<>> /\ permits = Concurrency
    BY <1>2 DEF Init, Holding, Waiting
  <2>2. Cardinality(Holding) = 0
    BY <2>1, FS_EmptySet
  <2>3. ToSet(waiters) = {} /\ DOMAIN waiters = {}
    BY <2>1 DEF ToSet
  <2>4. permits + Cardinality(Holding) = Concurrency
    BY <1>1, <2>1, <2>2
  <2> QED BY <2>1, <2>3, <2>4 DEF PermitInv, PermitsExact, Holding, Waiting
<1> QED BY <1>3, <1>4, <1>5, <1>6 DEF BaseInv

LEMMA StutterBase == ASSUME BaseInv, PermitInv, UNCHANGED vars PROVE BaseInv' /\ PermitInv'
<1>1. UNCHANGED <<client, command, lastGeneration, res, queues, worker, permits, waiters, overloaded, cancelled, stopped,
                  received, owed, frames, skipped>>
  BY DEF vars, registryVars, workVars, modeVars, historyVars
<1>2. Types' /\ WorkerInv'
  BY <1>1 DEF BaseInv, Types, WorkerInv, WorkOk, Known, Settled, Made
<1>3. ModeInv' /\ CommandInv' /\ NoReservationLeak'
  BY <1>1 DEF BaseInv, ModeInv, CommandInv, NoReservationLeak, OwnedBy, Live, Active, Made
<1>4. PermitInv'
  BY <1>1 DEF PermitInv, PermitsExact
<1> QED BY <1>2, <1>3, <1>4 DEF BaseInv
-----------------------------------------------------------------------------
\* Deliveries.

\* The entry at the head of k's queue is still to come to g.
Current(k, g) == worker[k].stage = "barrier" \/ g \in worker[k].todo \/ worker[k].to = g
Sent(g) == {frames[g][j] : j \in DOMAIN frames[g]}
Ordered(f) == \A i, j \in DOMAIN f : i < j => f[i] < f[j]

\* e is the event of an entry of the queue that is still to come to g.
Coming(e, g) == \E i \in DOMAIN queues[res[g].collection] :
  (i > 1 \/ Current(res[g].collection, g)) /\ e = queues[res[g].collection][i].event

LEMMA AheadForm == (\A g, e : e \in Ahead(g) <=> Coming(e, g)) /\ (\A g, e : e \in Ahead(g)' <=> Coming(e, g)')
<1>1. ASSUME NEW g, NEW e PROVE e \in Ahead(g) <=> Coming(e, g)
  BY DEF Ahead, Current, Coming
<1>2. ASSUME NEW g, NEW e PROVE e \in Ahead(g)' <=> Coming(e, g)'
  BY DEF Ahead, Current, Coming
<1> QED BY <1>1, <1>2

LEMMA GapForm ==
  /\ NoSilentGap <=> \A g \in Made : Live(g) /\ client[res[g].client] = "open" =>
                        owed[g] \subseteq Sent(g) \cup skipped[g] \cup Ahead(g)
  /\ NoSilentGap' <=> \A g \in Made' : Live(g)' /\ client'[res'[g].client] = "open" =>
                        owed'[g] \subseteq Sent(g)' \cup skipped'[g] \cup Ahead(g)'
<1>1. NoSilentGap <=> \A g \in Made : Live(g) /\ client[res[g].client] = "open" =>
                        owed[g] \subseteq Sent(g) \cup skipped[g] \cup Ahead(g)
  BY DEF NoSilentGap, Sent
<1>2. NoSilentGap' <=> \A g \in Made' : Live(g)' /\ client'[res'[g].client] = "open" =>
                        owed'[g] \subseteq Sent(g)' \cup skipped'[g] \cup Ahead(g)'
  BY DEF NoSilentGap, Sent
<1> QED BY <1>1, <1>2

LEMMA EntryFacts ==
  ASSUME BaseInv, EntryInv, NEW k \in Collections, NEW i \in DOMAIN queues[k]
  PROVE  /\ queues[k][i] \in Entry /\ queues[k][i].event \in Nat /\ queues[k][i].event > 0 /\ queues[k][i].event <= received
         /\ queues[k][i].generation \in Nat /\ queues[k][i].generation <= lastGeneration
         /\ i \in Nat /\ i > 0 /\ received \in Nat
<1>1. queues[k][i] \in Entry /\ i \in Nat /\ i > 0
  <2>1. queues[k] \in Seq(Entry)
    BY DEF BaseInv, Types
  <2>2. PICK n \in Nat : n = Len(queues[k]) /\ DOMAIN queues[k] = 1..n
    BY <2>1, LenProperties
  <2> QED BY <2>1, <2>2, ElementOfSeq
<1>2. queues[k][i].event \in Nat /\ queues[k][i].event > 0 /\ queues[k][i].generation \in Nat
  BY <1>1, DispatchAssumption DEF Entry, Event
<1> QED BY <1>1, <1>2, DispatchAssumption DEF BaseInv, Types, EntryInv

\* A subscription, a read or a removal leaves what is queued as it was.
LEMMA RegistryDelivers ==
  ASSUME BaseInv, DeliveryInv, BaseInv', Later, UNCHANGED <<queues, worker, received, owed, skipped>>,
         \A g \in Gen : frames'[g] = frames[g] \/ (g \in Made /\ frames[g] = <<>> /\ frames'[g] = << 0 >>)
  PROVE  DeliveryInv'
<1>1. Types /\ EntryInv /\ ReachInv /\ HistoryInv /\ Behind /\ NoSilentGap /\ FramesInOrder
  BY DEF BaseInv, DeliveryInv, Deliveries
<1>2. /\ Made \subseteq Made' /\ Made' \subseteq Gen /\ Made \subseteq Gen
      /\ \A g \in Made' \ Made : g \in Nat /\ g > lastGeneration /\ g \in Gen \ Made /\ owed[g] = {} /\ frames'[g] = <<>>
  <2>1. lastGeneration \in Nat /\ lastGeneration' \in 0..MaxReservations /\ lastGeneration <= lastGeneration'
        /\ Made = 1..lastGeneration /\ Made' = 1..lastGeneration' /\ MaxReservations \in Nat
    BY <1>1, Bounds DEF BaseInv, Types, Later, Made
  <2>2. Made \subseteq Made' /\ Made' \subseteq Gen /\ Made \subseteq Gen /\ \A g \in Made' \ Made : g \in Nat /\ g > lastGeneration
    BY <2>1 DEF Gen
  <2>3. ASSUME NEW g \in Made' \ Made PROVE g \in Gen \ Made /\ owed[g] = {} /\ frames'[g] = <<>>
    BY <1>1, <2>2 DEF HistoryInv
  <2> QED BY <2>2, <2>3
<1>3. \A g \in Made : res'[g].collection = res[g].collection
  BY DEF Later
<1>4. \A g \in Made : Ahead(g)' = Ahead(g)
  <2>1. \A g \in Made : \A e : Coming(e, g)' <=> Coming(e, g)
    BY <1>3 DEF Coming, Current
  <2> QED BY <2>1, AheadForm
<1>5. EntryInv'
  <2>1. SUFFICES ASSUME NEW k \in Collections, NEW i \in DOMAIN queues[k], NEW g \in Made', res'[g].collection = k
                 PROVE  Reaches(queues[k][i], g)'
    BY <1>1 DEF EntryInv, Reaches
  <2>2. CASE g \in Made
    <3>1. Reaches(queues[k][i], g)
      BY <1>1, <1>3, <2>1, <2>2 DEF EntryInv
    <3>2. (Live(g)' => Live(g)) /\ (res'[g].status = "initializing" => res[g].status = "initializing")
      BY <2>2 DEF Later, Live
    <3> QED BY <3>1, <3>2 DEF Reaches
  <2>3. CASE g \notin Made
    <3>1. queues[k][i].generation \in Nat /\ queues[k][i].generation <= lastGeneration /\ lastGeneration \in Nat
      BY <1>1, EntryFacts, Bounds
    <3>2. owed[g] = {} /\ g \in Nat /\ g > lastGeneration
      BY <1>2, <2>1, <2>3
    <3>3. ~(g <= queues[k][i].generation)
      BY <3>1, <3>2
    <3> QED BY <3>2, <3>3 DEF Reaches
  <2> QED BY <2>2, <2>3
<1>6. ReachInv'
  BY <1>1 DEF ReachInv
<1>7. HistoryInv'
  BY <1>1, <1>2 DEF HistoryInv
<1>8. Behind'
  <2>1. SUFFICES ASSUME NEW g \in Made', NEW e \in Ahead(g)', NEW j \in DOMAIN frames'[g] PROVE frames'[g][j] < e
    BY DEF Behind
  <2>2. g \in Made /\ e \in Ahead(g)
    BY <1>2, <1>4, <2>1
  <2>3. CASE frames'[g] = frames[g]
    BY <1>1, <2>1, <2>2, <2>3 DEF Behind
  <2>4. CASE frames'[g] = << 0 >>
    <3>1. e > 0 /\ e \in Nat
      <4>1. res[g].collection \in Collections
        BY <1>1, <2>2, Bounds DEF Record
      <4>2. PICK i \in DOMAIN queues[res[g].collection] : e = queues[res[g].collection][i].event
        BY <2>2, AheadForm DEF Coming
      <4> QED BY <1>1, <4>1, <4>2, EntryFacts
    <3> QED BY <2>1, <2>4, <3>1
  <2> QED BY <1>2, <2>2, <2>3, <2>4
<1>9. NoSilentGap'
  <2>1. SUFFICES ASSUME NEW g \in Made', Live(g)', client'[res'[g].client] = "open"
                 PROVE  owed'[g] \subseteq Sent(g)' \cup skipped'[g] \cup Ahead(g)'
    BY GapForm
  <2>2. CASE g \in Made
    <3>1. Live(g) /\ res'[g].client = res[g].client /\ res[g].client \in Clients
      BY <1>1, <2>1, <2>2, Bounds DEF Later, Live, Record
    <3>2. client[res[g].client] = "open"
      BY <2>1, <3>1 DEF Later
    <3>3. owed[g] \subseteq Sent(g) \cup skipped[g] \cup Ahead(g)
      BY <1>1, <2>2, <3>1, <3>2, GapForm
    <3>4. Sent(g) \subseteq Sent(g)'
      BY <1>2, <2>2 DEF Sent
    <3> QED BY <1>4, <2>2, <3>3, <3>4
  <2>3. CASE g \notin Made
    BY <1>2, <2>1, <2>3
  <2> QED BY <2>2, <2>3
<1>10. FramesInOrder'
  <2>1. SUFFICES ASSUME NEW g \in Made'
                 PROVE  /\ frames'[g] # <<>> => Head(frames'[g]) = 0
                        /\ \A i, j \in DOMAIN frames'[g] : i < j => frames'[g][i] < frames'[g][j]
                        /\ \A j \in DOMAIN frames'[g] : j > 1 => frames'[g][j] \in owed[g]
    BY DEF FramesInOrder
  <2>2. CASE g \in Made /\ frames'[g] = frames[g]
    BY <1>1, <2>2 DEF FramesInOrder
  <2>3. CASE frames'[g] = << 0 >>
    BY <2>3
  <2>4. CASE frames'[g] = <<>>
    BY <2>4
  <2> QED BY <1>2, <2>2, <2>3, <2>4
<1> QED BY <1>5, <1>6, <1>7, <1>8, <1>9, <1>10 DEF DeliveryInv, Deliveries
LEMMA TailFacts ==
  ASSUME Types, NEW k \in Collections, Shorter(k)
  PROVE  /\ \A m \in Collections \ {k} : queues'[m] = queues[m]
         /\ \A i \in DOMAIN queues'[k] : i \in Nat /\ i > 0 /\ i + 1 \in DOMAIN queues[k] /\ queues'[k][i] = queues[k][i + 1]
         /\ \A i \in DOMAIN queues[k] : i \in Nat /\ i > 0 /\ (i > 1 => i - 1 \in DOMAIN queues'[k])
<1>1. queues[k] \in Seq(Entry) /\ queues[k] # <<>>
  BY DEF Types, Shorter
<1>2. queues'[k] = Tail(queues[k]) /\ \A m \in Collections \ {k} : queues'[m] = queues[m]
  BY DEF Types, Shorter
<1>3. PICK t : t = Tail(queues[k])
  OBVIOUS
<1>4. t \in Seq(Entry) /\ Len(t) = Len(queues[k]) - 1 /\ \A i \in 1..Len(t) : t[i] = queues[k][i + 1]
  BY <1>1, <1>3, HeadTailProperties
<1>5. PICK n \in Nat : n = Len(queues[k]) /\ DOMAIN queues[k] = 1..n
  BY <1>1, LenProperties
<1>6. PICK m \in Nat : m = Len(t) /\ DOMAIN t = 1..m
  BY <1>4, LenProperties
<1>7. m = n - 1
  BY <1>4, <1>5, <1>6
<1>8. \A i \in 1..m : i \in Nat /\ i > 0 /\ i + 1 \in 1..n
  BY <1>7
<1>9. \A i \in 1..n : i \in Nat /\ i > 0 /\ (i > 1 => i - 1 \in 1..m)
  BY <1>7
<1>10. \A i \in 1..m : t[i] = queues[k][i + 1]
  BY <1>4, <1>6
<1> QED BY <1>2, <1>3, <1>5, <1>6, <1>8, <1>9, <1>10

LEMMA EntriesKept ==
  ASSUME BaseInv, EntryInv, Later, Made' = Made, UNCHANGED <<received, owed>>, queues' = queues \/ \E k \in Collections : Shorter(k)
  PROVE  EntryInv'
<1>1. Types
  BY DEF BaseInv
<1>2. ASSUME NEW en, NEW g \in Made, Reaches(en, g) PROVE Reaches(en, g)'
  <2>1. (Live(g)' => Live(g)) /\ (res'[g].status = "initializing" => res[g].status = "initializing")
    BY <1>2 DEF Later, Live
  <2> QED BY <1>2, <2>1 DEF Reaches
<1>3. \A g \in Made' : g \in Made /\ res'[g].collection = res[g].collection
  BY DEF Later
<1> DEFINE Orderly(m) == \A i \in DOMAIN queues[m] :
              /\ queues[m][i].event <= received
              /\ \A j \in DOMAIN queues[m] : i < j => queues[m][i].event < queues[m][j].event
              /\ \A g \in Made : res[g].collection = m => Reaches(queues[m][i], g)
<1>4. ASSUME NEW m \in Collections, queues'[m] = queues[m] PROVE Orderly(m)'
  <2>1. Orderly(m)
    BY DEF EntryInv
  <2> QED BY <1>2, <1>3, <1>4, <2>1
<1>5. ASSUME NEW k \in Collections, Shorter(k) PROVE Orderly(k)'
  <2>1. SUFFICES ASSUME NEW i \in DOMAIN queues'[k]
                 PROVE  /\ queues'[k][i].event <= received
                        /\ \A j \in DOMAIN queues'[k] : i < j => queues'[k][i].event < queues'[k][j].event
                        /\ \A g \in Made : res'[g].collection = k => Reaches(queues[k][i], g)'
    BY <1>3
  <2>2. Orderly(k)
    BY DEF EntryInv
  <2>3. i \in Nat /\ i + 1 \in DOMAIN queues[k] /\ queues'[k][i] = queues[k][i + 1]
    BY <1>1, <1>5, TailFacts
  <2>4. queues'[k][i].event <= received
    BY <2>2, <2>3
  <2>5. ASSUME NEW j \in DOMAIN queues'[k], i < j PROVE queues'[k][i].event < queues'[k][j].event
    <3>1. j \in Nat /\ j + 1 \in DOMAIN queues[k] /\ queues'[k][j] = queues[k][j + 1]
      BY <1>1, <1>5, TailFacts
    <3>2. i + 1 < j + 1
      BY <2>3, <2>5, <3>1
    <3> QED BY <2>2, <2>3, <3>1, <3>2
  <2>6. ASSUME NEW g \in Made, res'[g].collection = k PROVE Reaches(queues[k][i], g)'
    <3>1. PICK en : en = queues'[k][i]
      OBVIOUS
    <3>2. Reaches(en, g)
      BY <1>3, <2>2, <2>3, <2>6, <3>1
    <3>3. Reaches(en, g)'
      BY <1>2, <3>2
    <3> QED BY <3>1, <3>3 DEF Reaches
  <2> QED BY <2>4, <2>5, <2>6
<1>6. ASSUME NEW m \in Collections PROVE Orderly(m)'
  <2>1. CASE queues' = queues
    BY <1>4, <2>1
  <2>2. ASSUME NEW k \in Collections, Shorter(k) PROVE Orderly(m)'
    <3>1. CASE m = k
      BY <1>5, <2>2, <3>1
    <3>2. CASE m # k
      <4>1. queues'[m] = queues[m]
        BY <1>1, <2>2, <3>2, TailFacts
      <4> QED BY <1>4, <4>1
    <3> QED BY <3>1, <3>2
  <2> QED BY <2>1, <2>2
<1> QED BY <1>6 DEF EntryInv

LEMMA SentMore ==
  ASSUME NEW f \in Seq(Nat), NEW e \in Nat, NEW h, h = Append(f, e)
  PROVE  /\ \A j \in DOMAIN f : j \in DOMAIN h /\ h[j] = f[j] /\ j > 0 /\ j \in Nat
         /\ \A j \in DOMAIN h : j \in DOMAIN f \/ (h[j] = e /\ \A i \in DOMAIN f : i < j)
         /\ \E j \in DOMAIN h : h[j] = e
         /\ \A i, j \in DOMAIN h : i \notin DOMAIN f /\ j \notin DOMAIN f => i = j
         /\ h # <<>> /\ Head(h) = IF f = <<>> THEN e ELSE Head(f)
<1>1. /\ h \in Seq(Nat) /\ Len(h) = Len(f) + 1 /\ h[Len(f) + 1] = e
      /\ \A j \in 1..Len(f) : h[j] = f[j]
  BY AppendProperties
<1>2. PICK n \in Nat : n = Len(f) /\ DOMAIN f = 1..n
  BY LenProperties
<1>3. DOMAIN h = 1..(n + 1) /\ h[n + 1] = e /\ \A j \in 1..n : h[j] = f[j]
  BY <1>1, <1>2, LenProperties
<1>4. /\ \A j \in 1..n : j \in 1..(n + 1) /\ j > 0 /\ j \in Nat /\ j < n + 1
      /\ \A j \in 1..(n + 1) : j \in 1..n \/ j = n + 1
      /\ n + 1 \in 1..(n + 1)
  OBVIOUS
<1>5. h # <<>> /\ Head(h) = h[1]
  <2>1. Len(h) # 0
    BY <1>1, <1>2
  <2>2. h # <<>>
    BY <2>1, EmptySeq
  <2> QED BY <1>1, <2>2, HeadTailProperties
<1>6. f # <<>> => Head(f) = f[1] /\ n > 0
  BY <1>2, EmptySeq, HeadTailProperties
<1>7. f = <<>> => n = 0
  BY <1>2, EmptySeq
<1>8. h[1] = IF f = <<>> THEN e ELSE Head(f)
  <2>1. CASE f = <<>>
    BY <1>3, <1>7, <2>1
  <2>2. CASE f # <<>>
    <3>1. 1 \in 1..n
      BY <1>6, <2>2, Ends
    <3> QED BY <1>3, <1>6, <2>2, <3>1
  <2> QED BY <2>1, <2>2
<1> QED BY <1>2, <1>3, <1>4, <1>5, <1>8

\* A step of a worker delivers an entry's event, passes it over, or leaves it coming.
LEMMA WorkDelivers ==
  ASSUME BaseInv, DeliveryInv, Later, Made' = Made, UNCHANGED <<received, owed>>, EntryInv', ReachInv',
         \A g \in Gen : skipped[g] \subseteq skipped'[g],
         \A g \in Made : Ahead(g)' \subseteq Ahead(g),
         \A g \in Made : Live(g)' /\ client'[res[g].client] = "open" =>
            \A e \in owed[g] \cap Ahead(g) : e \in Sent(g)' \cup skipped'[g] \cup Ahead(g)',
         \A g \in Gen : \/ frames'[g] = frames[g]
                        \/ \E e \in owed[g] \cap Ahead(g) : /\ g \in Made /\ Active(g) /\ e \in Nat
                                                            /\ frames'[g] = Append(frames[g], e)
                                                            /\ \A a \in Ahead(g)' : e < a
  PROVE  DeliveryInv'
<1>1. Types /\ CommandInv /\ EntryInv /\ ReachInv /\ HistoryInv /\ Behind /\ NoSilentGap /\ FramesInOrder
      /\ Made \subseteq Gen
  BY Bounds DEF BaseInv, DeliveryInv, Deliveries
<1>2. HistoryInv'
  BY <1>1 DEF HistoryInv
<1>3. \A g \in Made : frames[g] \in Seq(Nat)
  BY <1>1 DEF Types
<1>4. Behind'
  <2>1. SUFFICES ASSUME NEW g \in Made, NEW a \in Ahead(g)', NEW j \in DOMAIN frames'[g] PROVE frames'[g][j] < a
    BY DEF Behind
  <2>2. a \in Ahead(g)
    BY <2>1
  <2>3. CASE frames'[g] = frames[g]
    BY <1>1, <2>1, <2>2, <2>3 DEF Behind
  <2>4. ASSUME NEW e \in Nat, frames'[g] = Append(frames[g], e), \A b \in Ahead(g)' : e < b PROVE frames'[g][j] < a
    <3>1. CASE j \in DOMAIN frames[g]
      <4>1. frames'[g][j] = frames[g][j]
        BY <1>3, <2>4, <3>1, SentMore
      <4> QED BY <1>1, <2>2, <3>1, <4>1 DEF Behind
    <3>2. CASE j \notin DOMAIN frames[g]
      <4>1. frames'[g][j] = e
        BY <1>3, <2>1, <2>4, <3>2, SentMore
      <4> QED BY <2>1, <2>4, <4>1
    <3> QED BY <3>1, <3>2
  <2> QED BY <1>1, <2>3, <2>4
<1>5. NoSilentGap'
  <2>1. SUFFICES ASSUME NEW g \in Made, Live(g)', client'[res'[g].client] = "open"
                 PROVE  owed'[g] \subseteq Sent(g)' \cup skipped'[g] \cup Ahead(g)'
    BY GapForm
  <2>2. Live(g) /\ res'[g].client = res[g].client /\ res[g].client \in Clients
    BY <1>1, <2>1, Bounds DEF Later, Live, Record
  <2>3. client[res[g].client] = "open"
    BY <2>1, <2>2 DEF Later
  <2>4. owed[g] \subseteq Sent(g) \cup skipped[g] \cup Ahead(g)
    BY <1>1, <2>2, <2>3, GapForm
  <2>5. Sent(g) \subseteq Sent(g)'
    <3>1. CASE frames'[g] = frames[g]
      BY <3>1 DEF Sent
    <3>2. ASSUME NEW e \in Nat, frames'[g] = Append(frames[g], e) PROVE Sent(g) \subseteq Sent(g)'
      <4>1. \A j \in DOMAIN frames[g] : j \in DOMAIN frames'[g] /\ frames'[g][j] = frames[g][j]
        BY <1>3, <3>2, SentMore
      <4> QED BY <4>1 DEF Sent
    <3> QED BY <1>1, <3>1, <3>2
  <2> QED BY <1>1, <2>1, <2>2, <2>4, <2>5
<1>6. FramesInOrder'
  <2>1. SUFFICES ASSUME NEW g \in Made
                 PROVE  /\ frames'[g] # <<>> => Head(frames'[g]) = 0
                        /\ \A i, j \in DOMAIN frames'[g] : i < j => frames'[g][i] < frames'[g][j]
                        /\ \A j \in DOMAIN frames'[g] : j > 1 => frames'[g][j] \in owed[g]
    BY DEF FramesInOrder
  <2>2. CASE frames'[g] = frames[g]
    BY <1>1, <2>2 DEF FramesInOrder
  <2>3. ASSUME NEW e \in owed[g] \cap Ahead(g), e \in Nat, Active(g), frames'[g] = Append(frames[g], e)
        PROVE  /\ frames'[g] # <<>> => Head(frames'[g]) = 0
               /\ \A i, j \in DOMAIN frames'[g] : i < j => frames'[g][i] < frames'[g][j]
               /\ \A j \in DOMAIN frames'[g] : j > 1 => frames'[g][j] \in owed[g]
    <3>1. PICK f, h : f \in Seq(Nat) /\ f = frames[g] /\ h = frames'[g] /\ h = Append(f, e)
      BY <1>3, <2>3
    <3>2. /\ \A j \in DOMAIN f : j \in DOMAIN h /\ h[j] = f[j] /\ j > 0 /\ j \in Nat
          /\ \A j \in DOMAIN h : j \in DOMAIN f \/ (h[j] = e /\ \A i \in DOMAIN f : i < j)
          /\ \A i, j \in DOMAIN h : i \notin DOMAIN f /\ j \notin DOMAIN f => i = j
          /\ h # <<>> /\ Head(h) = IF f = <<>> THEN e ELSE Head(f)
      BY <2>3, <3>1, SentMore
    <3>3. /\ f # <<>> /\ Head(f) = 0 /\ \A i, j \in DOMAIN f : i < j => f[i] < f[j]
          /\ \A j \in DOMAIN f : j > 1 => f[j] \in owed[g]
          /\ \A i \in DOMAIN f : f[i] < e
      BY <1>1, <2>3, <3>1 DEF CommandInv, FramesInOrder, Behind
    <3>4. ASSUME NEW i \in DOMAIN h, NEW j \in DOMAIN h, i < j PROVE h[i] < h[j]
      <4>1. CASE i \in DOMAIN f /\ j \in DOMAIN f
        BY <3>2, <3>3, <3>4, <4>1
      <4>2. CASE i \in DOMAIN f /\ j \notin DOMAIN f
        BY <3>2, <3>3, <4>2
      <4>3. CASE i \notin DOMAIN f /\ j \in DOMAIN f
        <5>1. j < i /\ i \in Nat /\ j \in Nat
          <6>1. DOMAIN h \subseteq Nat
            <7>1. h \in Seq(Nat)
              BY <3>1, <2>3, AppendProperties
            <7> QED BY <7>1, LenProperties
          <6> QED BY <3>2, <4>3, <6>1
        <5> QED BY <3>4, <5>1
      <4>4. CASE i \notin DOMAIN f /\ j \notin DOMAIN f
        <5>1. i = j
          BY <3>2, <4>4
        <5>2. i \in Nat
          <6>1. h \in Seq(Nat)
            BY <3>1, <2>3, AppendProperties
          <6> QED BY <6>1, LenProperties
        <5> QED BY <3>4, <5>1, <5>2
      <4> QED BY <4>1, <4>2, <4>3, <4>4
    <3>5. \A j \in DOMAIN h : j > 1 => h[j] \in owed[g]
      BY <2>3, <3>2, <3>3
    <3> QED BY <3>1, <3>2, <3>3, <3>4, <3>5
  <2> QED BY <1>1, <2>2, <2>3
<1> QED BY <1>2, <1>4, <1>5, <1>6 DEF DeliveryInv, Deliveries
LEMMA ReachKept ==
  ASSUME ReachInv, UNCHANGED queues,
         \A m \in Collections : worker'[m].todo \cup {worker'[m].to} \subseteq worker[m].todo \cup {worker[m].to} \cup {0}
  PROVE  ReachInv'
BY DEF ReachInv

\* A worker k goes on with the entry it is at.
LEMMA TurnDelivers ==
  ASSUME BaseInv, DeliveryInv, Later, Made' = Made, UNCHANGED <<received, owed, queues>>, ReachInv',
         NEW k \in Collections, 1 \in DOMAIN queues[k],
         \A m \in Collections \ {k}, g \in Made : Current(m, g)' <=> Current(m, g),
         \A g \in Made : Current(k, g)' => Current(k, g),
         \A g \in Made : /\ res[g].collection = k /\ Current(k, g) /\ ~Current(k, g)'
                         /\ Live(g)' /\ client'[res[g].client] = "open" /\ queues[k][1].event \in owed[g]
                         => queues[k][1].event \in Sent(g)' \cup skipped'[g],
         \A g \in Gen : skipped[g] \subseteq skipped'[g],
         \A g \in Gen : \/ frames'[g] = frames[g]
                        \/ /\ g \in Made /\ Active(g) /\ res[g].collection = k /\ Current(k, g) /\ ~Current(k, g)'
                           /\ queues[k][1].event \in owed[g] /\ frames'[g] = Append(frames[g], queues[k][1].event)
  PROVE  DeliveryInv'
<1>1. Types /\ EntryInv
  BY DEF BaseInv, DeliveryInv
<1>2. EntryInv'
  BY <1>1, EntriesKept
<1>3. \A g \in Made : res'[g].collection = res[g].collection /\ res[g].collection \in Collections
  BY <1>1, Bounds DEF Later, Record
<1>4. ASSUME NEW g \in Made, NEW e, Coming(e, g)' PROVE Coming(e, g)
  <2>1. PICK c \in Collections : c = res[g].collection /\ c = res'[g].collection
    BY <1>3
  <2>2. Current(c, g)' => Current(c, g)
    BY <2>1
  <2> QED BY <1>4, <2>1, <2>2 DEF Coming, Current
<1>5. ASSUME NEW g \in Made, NEW e, Coming(e, g), ~Coming(e, g)'
      PROVE  res[g].collection = k /\ e = queues[k][1].event /\ Current(k, g) /\ ~Current(k, g)'
  <2>1. PICK c \in Collections : c = res[g].collection /\ c = res'[g].collection
    BY <1>3
  <2>2. PICK i \in DOMAIN queues[c] : (i > 1 \/ Current(c, g)) /\ e = queues[c][i].event
    BY <1>5, <2>1 DEF Coming
  <2>3. ~(i > 1) /\ Current(c, g) /\ ~Current(c, g)'
    BY <1>5, <2>1, <2>2 DEF Coming, Current
  <2>4. c = k
    BY <2>3
  <2>5. i = 1
    BY <1>1, <2>3, EntryFacts
  <2> QED BY <2>1, <2>2, <2>3, <2>4, <2>5
<1>6. \A g \in Made : Ahead(g)' \subseteq Ahead(g)
  BY <1>4, AheadForm
<1>7. ASSUME NEW g \in Made, Live(g)', client'[res[g].client] = "open", NEW e \in owed[g] \cap Ahead(g)
      PROVE  e \in Sent(g)' \cup skipped'[g] \cup Ahead(g)'
  <2>1. CASE Coming(e, g)'
    BY <2>1, AheadForm
  <2>2. CASE ~Coming(e, g)'
    <3>1. res[g].collection = k /\ e = queues[k][1].event /\ Current(k, g) /\ ~Current(k, g)'
      BY <1>5, <1>7, <2>2, AheadForm
    <3> QED BY <1>7, <3>1
  <2> QED BY <2>1, <2>2
<1>8. ASSUME NEW g \in Made, Active(g), res[g].collection = k, Current(k, g), ~Current(k, g)',
             queues[k][1].event \in owed[g], frames'[g] = Append(frames[g], queues[k][1].event)
      PROVE  \E e \in owed[g] \cap Ahead(g) : /\ e \in Nat /\ frames'[g] = Append(frames[g], e)
                                              /\ \A a \in Ahead(g)' : e < a
  <2>1. PICK e : e = queues[k][1].event
    OBVIOUS
  <2>2. e \in Nat
    BY <1>1, <2>1, EntryFacts
  <2>3. Coming(e, g)
    BY <1>8, <2>1 DEF Coming
  <2>4. e \in Ahead(g)
    BY <2>3, AheadForm
  <2>5. ASSUME NEW a \in Ahead(g)' PROVE e < a
    <3>1. Coming(a, g)'
      BY AheadForm
    <3>2. PICK i \in DOMAIN queues[k] : i > 1 /\ a = queues[k][i].event
      BY <1>3, <1>8, <3>1 DEF Coming, Current
    <3> QED BY <1>1, <2>1, <3>2 DEF EntryInv
  <2> QED BY <1>8, <2>1, <2>2, <2>4, <2>5
<1>9. \A g \in Gen : \/ frames'[g] = frames[g]
                     \/ \E e \in owed[g] \cap Ahead(g) : /\ g \in Made /\ Active(g) /\ e \in Nat
                                                         /\ frames'[g] = Append(frames[g], e)
                                                         /\ \A a \in Ahead(g)' : e < a
  BY <1>8
<1>10. \A g \in Made : Live(g)' /\ client'[res[g].client] = "open" =>
            \A e \in owed[g] \cap Ahead(g) : e \in Sent(g)' \cup skipped'[g] \cup Ahead(g)'
  BY <1>7
<1> QED BY <1>2, <1>6, <1>9, <1>10, WorkDelivers

LEMMA FinishDelivers ==
  ASSUME BaseInv, DeliveryInv, BaseInv', Later, NEW k \in Collections, FinishEntry(k),
         UNCHANGED <<client, registryVars, received, owed, frames, skipped>>,
         worker[k].stage \in {"barrier", "fanout"}, cancelled \/ (worker[k].stage = "fanout" /\ worker[k].todo = {})
  PROVE  DeliveryInv'
<1>1. Types /\ EntryInv /\ ReachInv /\ ModeInv /\ WorkerInv' /\ worker[k] \in Work
  BY DEF BaseInv, DeliveryInv, Types
<1>2. Made' = Made /\ UNCHANGED res /\ \A g \in Made : res[g].collection \in Collections /\ g # 0 /\ res[g].client \in Clients
  BY <1>1, Bounds DEF registryVars, Made, Record
<1>3. Shorter(k)
  <2>1. queues[k] # <<>>
    BY AtWork
  <2> QED BY <2>1 DEF FinishEntry, Shorter
<1>4. EntryInv'
  BY <1>1, <1>2, <1>3, EntriesKept
<1>5. /\ \A m \in Collections \ {k} : worker'[m] = worker[m]
      /\ worker'[k].stage \in {"idle", "barrier"} /\ worker'[k].todo = {} /\ worker'[k].to = 0
  <2>1. \A m \in Collections \ {k} : worker'[m] = worker[m]
    BY <1>1 DEF FinishEntry, Types
  <2>2. worker'[k].stage \in {"idle", "barrier"}
    <3>1. worker'[k] = [Idle EXCEPT !.stage = "barrier"] \/ worker'[k] = Idle
      BY <1>1 DEF FinishEntry, Types
    <3> QED BY <3>1 DEF Idle
  <2> QED BY <1>1, <2>1, <2>2 DEF WorkerInv, WorkOk
<1>6. ReachInv'
  <2>1. SUFFICES ASSUME NEW m \in Collections, queues'[m] # <<>>, NEW g \in worker'[m].todo \cup {worker'[m].to}, g # 0
                 PROVE  g <= queues'[m][1].generation
    BY DEF ReachInv
  <2>2. m # k
    BY <1>5, <2>1
  <2>3. queues'[m] = queues[m] /\ worker'[m] = worker[m]
    BY <1>1, <1>3, <1>5, <2>2, TailFacts
  <2> QED BY <1>1, <2>1, <2>3 DEF ReachInv
<1>7. ASSUME NEW g \in Made, NEW e, Coming(e, g)' PROVE Coming(e, g)
  <2>1. PICK c \in Collections : c = res[g].collection /\ c = res'[g].collection
    BY <1>2
  <2>2. PICK i \in DOMAIN queues'[c] : (i > 1 \/ Current(c, g)') /\ e = queues'[c][i].event
    BY <1>7, <2>1 DEF Coming, Current
  <2>3. CASE c = k
    <3>1. i \in Nat /\ i > 0 /\ i + 1 \in DOMAIN queues[k] /\ queues'[k][i] = queues[k][i + 1]
      BY <1>1, <1>3, <2>2, <2>3, TailFacts
    <3>2. i + 1 > 1
      BY <3>1
    <3> QED BY <2>1, <2>2, <2>3, <3>1, <3>2 DEF Coming
  <2>4. CASE c # k
    <3>1. queues'[c] = queues[c] /\ worker'[c] = worker[c]
      BY <1>1, <1>3, <1>5, <2>4, TailFacts
    <3> QED BY <2>1, <2>2, <3>1 DEF Coming, Current
  <2> QED BY <2>3, <2>4
<1>8. ASSUME NEW g \in Made, Live(g)', client'[res[g].client] = "open", NEW e, Coming(e, g) PROVE Coming(e, g)'
  <2>1. PICK c \in Collections : c = res[g].collection /\ c = res'[g].collection
    BY <1>2
  <2>2. PICK i \in DOMAIN queues[c] : (i > 1 \/ Current(c, g)) /\ e = queues[c][i].event
    BY <1>8, <2>1 DEF Coming
  <2>3. CASE c = k
    <3>1. ~cancelled
      <4>1. Live(g) /\ client[res[g].client] = "open"
        BY <1>2, <1>8 DEF Live
      <4> QED BY <1>1, <4>1 DEF ModeInv
    <3>2. ~Current(k, g)
      <4>1. worker[k].stage = "fanout" /\ worker[k].todo = {} /\ worker[k].to = 0
        BY <3>1, AtWork DEF WorkOk
      <4> QED BY <1>2, <4>1 DEF Current
    <3>3. i > 1 /\ i \in Nat
      BY <1>1, <2>2, <2>3, <3>2, EntryFacts
    <3>4. i - 1 \in DOMAIN queues'[k]
      BY <1>1, <1>3, <2>2, <2>3, <3>3, TailFacts
    <3>5. queues'[k][i - 1] = queues[k][i]
      <4>1. queues'[k][i - 1] = queues[k][(i - 1) + 1]
        BY <1>1, <1>3, <3>4, TailFacts
      <4>2. (i - 1) + 1 = i
        BY <3>3
      <4> QED BY <4>1, <4>2
    <3>6. worker'[k].stage = "barrier"
      <4>1. queues'[k] # <<>>
        BY <3>4
      <4> QED BY <1>1, <1>5, <4>1 DEF WorkerInv, WorkOk
    <3>7. Current(k, g)'
      BY <3>6 DEF Current
    <3> QED BY <2>1, <2>2, <2>3, <3>4, <3>5, <3>7 DEF Coming, Current
  <2>4. CASE c # k
    <3>1. queues'[c] = queues[c] /\ worker'[c] = worker[c]
      BY <1>1, <1>3, <1>5, <2>4, TailFacts
    <3> QED BY <2>1, <2>2, <3>1 DEF Coming, Current
  <2> QED BY <2>3, <2>4
<1>9. \A g \in Made : Ahead(g)' \subseteq Ahead(g)
  BY <1>7, AheadForm
<1>10. \A g \in Made : Live(g)' /\ client'[res[g].client] = "open" =>
            \A e \in owed[g] \cap Ahead(g) : e \in Sent(g)' \cup skipped'[g] \cup Ahead(g)'
  BY <1>8, AheadForm
<1> QED BY <1>2, <1>4, <1>6, <1>9, <1>10, WorkDelivers
-----------------------------------------------------------------------------
\* Every step keeps the invariant.

TheInv == BaseInv /\ PermitInv /\ DeliveryInv

LEMMA SubscribeInv ==
  ASSUME TheInv, NEW c \in Clients, NEW k \in Collections, NEW old \in SUBSET OwnedBy(c), Subscribe(c, k, old) PROVE TheInv'
<1>1. BaseInv /\ PermitInv /\ DeliveryInv /\ HistoryInv
  BY DEF TheInv, DeliveryInv
<1>2. UNCHANGED <<queues, worker, permits, waiters, received, owed, frames, skipped>>
  BY DEF Subscribe, workVars, historyVars
<1>3. BaseInv' /\ Later
  BY <1>1, SubscribeKeeps
<1>4. DeliveryInv'
  BY <1>1, <1>2, <1>3, RegistryDelivers
<1>5. PermitInv'
  BY <1>1, <1>2, PermitsUndisturbed DEF Holding, Waiting
<1> QED BY <1>3, <1>4, <1>5 DEF TheInv

LEMMA UnsubscribeInv ==
  ASSUME TheInv, NEW c \in Clients, Unsubscribe(c) \/ ClientStops(c) \/ FinalizeClient(c) PROVE TheInv'
<1>1. BaseInv /\ PermitInv /\ DeliveryInv
  BY DEF TheInv
<1>2. UNCHANGED <<queues, worker, permits, waiters, received, owed, frames, skipped>>
  BY DEF Unsubscribe, ClientStops, FinalizeClient, workVars, historyVars
<1>3. BaseInv' /\ Later
  BY <1>1, UnsubscribeKeeps
<1>4. DeliveryInv'
  BY <1>1, <1>2, <1>3, RegistryDelivers
<1>5. PermitInv'
  BY <1>1, <1>2, PermitsUndisturbed DEF Holding, Waiting
<1> QED BY <1>3, <1>4, <1>5 DEF TheInv

LEMMA InitialReadInv == ASSUME TheInv, NEW c \in Clients, InitialRead(c) PROVE TheInv'
<1>1. BaseInv /\ PermitInv /\ DeliveryInv /\ Types /\ CommandInv
  BY DEF TheInv, BaseInv
<1>2. UNCHANGED <<queues, worker, permits, waiters, received, owed, skipped>>
  BY DEF InitialRead, workVars
<1>3. BaseInv' /\ Later
  BY <1>1, InitialReadKeeps
<1>4. ASSUME NEW g \in Gen PROVE frames'[g] = frames[g] \/ (g \in Made /\ frames[g] = <<>> /\ frames'[g] = << 0 >>)
  <2>1. command[c] # 0 /\ (frames' = frames \/ frames' = [frames EXCEPT ![command[c]] = Append(@, 0)])
    BY DEF InitialRead
  <2>2. PICK h : h = command[c] /\ h \in Made /\ frames[h] = <<>>
    <3>1. PICK h : h = command[c]
      OBVIOUS
    <3>2. h \in Made
      BY <1>1, <2>1, <3>1, Bounds DEF Types, Made
    <3>3. frames[h] = <<>>
      BY <1>1, <2>1, <3>1 DEF CommandInv
    <3> QED BY <3>1, <3>2, <3>3
  <2>3. frames' = frames \/ frames' = [frames EXCEPT ![h] = << 0 >>]
    <3>1. Append(frames[h], 0) = << 0 >>
      BY <2>2
    <3> QED BY <2>1, <2>2, <3>1
  <2> QED BY <1>1, <2>2, <2>3 DEF Types
<1>5. DeliveryInv'
  BY <1>1, <1>2, <1>3, <1>4, RegistryDelivers
<1>6. PermitInv'
  BY <1>1, <1>2, PermitsUndisturbed DEF Holding, Waiting
<1> QED BY <1>3, <1>5, <1>6 DEF TheInv

LEMMA CancelSame ==
  ASSUME Types, Cancel
  PROVE  \A m \in Collections : /\ worker'[m].todo = worker[m].todo /\ worker'[m].to = worker[m].to
                                /\ worker'[m].stage = "barrier" <=> worker[m].stage = "barrier"
BY DEF Types, Cancel, Work

LEMMA StopInv == ASSUME TheInv, Stop PROVE TheInv'
<1>1. BaseInv /\ PermitInv /\ DeliveryInv /\ Types /\ EntryInv /\ ReachInv
  BY DEF TheInv, BaseInv, DeliveryInv
<1>2. BaseInv' /\ PermitInv' /\ Later
  BY <1>1, StopKeeps
<1>3. /\ Made' = Made /\ UNCHANGED <<queues, received, owed, frames, skipped>> /\ Cancel
      /\ \A g \in Made : res'[g].collection = res[g].collection /\ res[g].collection \in Collections
  BY <1>1, Bounds DEF Stop, registryVars, historyVars, Made, Record
<1>4. EntryInv'
  BY <1>1, <1>2, <1>3, EntriesKept
<1>5. ReachInv'
  BY <1>1, <1>3, CancelSame, ReachKept
<1>6. \A g \in Made : \A e : Coming(e, g)' <=> Coming(e, g)
  <2>1. \A m \in Collections, g \in Made : Current(m, g)' <=> Current(m, g)
    BY <1>1, <1>3, CancelSame DEF Current
  <2> QED BY <1>3, <2>1 DEF Coming, Current
<1>7. \A g \in Made : Ahead(g)' = Ahead(g)
  BY <1>6, AheadForm
<1>8. DeliveryInv'
  BY <1>1, <1>2, <1>3, <1>4, <1>5, <1>7, WorkDelivers
<1> QED BY <1>2, <1>8 DEF TheInv

LEMMA PassBarrierInv == ASSUME TheInv, NEW k \in Collections, PassBarrier(k) PROVE TheInv'
<1>1. BaseInv /\ PermitInv /\ DeliveryInv /\ Types /\ EntryInv /\ ReachInv
  BY DEF TheInv, BaseInv, DeliveryInv
<1>2. BaseInv' /\ PermitInv' /\ Later
  BY <1>1, PassBarrierKeeps
<1>3. UNCHANGED <<client, registryVars, res, received, owed, frames, skipped>> /\ Made' = Made /\ worker[k].stage = "barrier"
  BY DEF PassBarrier, historyVars, registryVars, Made
<1>4. CASE cancelled /\ FinishEntry(k)
  <2>1. DeliveryInv'
    BY <1>1, <1>2, <1>3, <1>4, FinishDelivers
  <2> QED BY <1>2, <2>1 DEF TheInv
<1>5. ASSUME NEW gen, gen = Head(queues[k]).generation, \A g \in Head(queues[k]).pending : Settled(g),
             NEW w, w = [stage |-> "fanout", todo |-> Recipients(k, gen), to |-> 0], Move(k, w)
      PROVE  DeliveryInv'
  <2>1. /\ worker'[k] = w /\ w.stage = "fanout" /\ w.todo = Recipients(k, gen) /\ w.to = 0
        /\ \A m \in Collections \ {k} : worker'[m] = worker[m]
    BY <1>1, <1>5 DEF Move, Types
  <2>2. 1 \in DOMAIN queues[k] /\ Head(queues[k]) = queues[k][1] /\ UNCHANGED queues
    BY <1>3, <1>5, AtWork, <1>1 DEF Move
  <2>3. ReachInv'
    <3>1. SUFFICES ASSUME NEW m \in Collections, queues[m] # <<>>, NEW g \in worker'[m].todo \cup {worker'[m].to}, g # 0
                   PROVE  g <= queues[m][1].generation
      BY <2>2 DEF ReachInv
    <3>2. CASE m = k
      BY <1>5, <2>1, <2>2, <3>1, <3>2 DEF Recipients
    <3>3. CASE m # k
      BY <1>1, <2>1, <3>1, <3>3 DEF ReachInv
    <3> QED BY <3>2, <3>3
  <2>4. \A m \in Collections \ {k}, g \in Made : Current(m, g)' <=> Current(m, g)
    BY <2>1 DEF Current
  <2>5. \A g \in Made : Current(k, g)
    BY <1>3 DEF Current
  <2>6. ASSUME NEW g \in Made, res[g].collection = k, ~Current(k, g)', Live(g)', queues[k][1].event \in owed[g] PROVE FALSE
    <3>1. g \notin Recipients(k, gen)
      BY <2>1, <2>6 DEF Current
    <3>2. Reaches(queues[k][1], g)
      BY <1>1, <2>2, <2>6 DEF EntryInv
    <3>3. g <= gen
      BY <1>5, <2>2, <2>6, <3>2 DEF Reaches
    <3>4. ~Active(g) /\ Live(g)
      BY <1>3, <2>6, <3>1, <3>3 DEF Recipients, Live
    <3>5. res[g].status = "initializing"
      BY <1>1, <3>4, Bounds DEF Active, Live, Record, Status
    <3>6. g \in Head(queues[k]).pending
      BY <2>2, <2>6, <3>2, <3>5 DEF Reaches
    <3> QED BY <1>5, <3>5, <3>6 DEF Settled
  <2> QED BY <1>1, <1>2, <1>3, <2>2, <2>3, <2>4, <2>5, <2>6, TurnDelivers
<1>6. DeliveryInv'
  <2>1. CASE cancelled
    BY <1>4, <2>1 DEF PassBarrier, TheInv
  <2>2. CASE ~cancelled
    BY <1>5, <2>2 DEF PassBarrier
  <2> QED BY <2>1, <2>2
<1> QED BY <1>2, <1>6 DEF TheInv

LEMMA FanOutInv == ASSUME TheInv, NEW k \in Collections, FanOut(k) PROVE TheInv'
<1>1. BaseInv /\ PermitInv /\ DeliveryInv /\ Types /\ EntryInv /\ ReachInv
  BY DEF TheInv, BaseInv, DeliveryInv
<1>2. BaseInv' /\ PermitInv' /\ Later
  BY <1>1, FanOutKeeps
<1>3. UNCHANGED <<client, registryVars, res, received, owed, frames>> /\ Made' = Made /\ worker[k].stage = "fanout"
  BY DEF FanOut, registryVars, Made
<1>4. /\ 1 \in DOMAIN queues[k] /\ Head(queues[k]) = queues[k][1] /\ worker[k] \in Work /\ WorkOk(k, worker[k])
      /\ skipped \in [Gen -> SUBSET Nat]
  BY <1>1, <1>3, AtWork DEF Types
<1>5. ASSUME cancelled \/ worker[k].todo = {}, FinishEntry(k), UNCHANGED skipped PROVE DeliveryInv'
  BY <1>1, <1>2, <1>3, <1>5, FinishDelivers
<1>6. ASSUME ~cancelled, NEW g \in worker[k].todo, NEW w, Move(k, w), w.stage # "barrier", w.todo = worker[k].todo \ {g},
             \/ w.to = 0 /\ ~Active(g) /\ UNCHANGED skipped
             \/ w.to = 0 /\ Skip(k, g)
             \/ w.to = g /\ UNCHANGED skipped
      PROVE  DeliveryInv'
  <2>1. worker'[k] = w /\ UNCHANGED queues /\ \A m \in Collections \ {k} : worker'[m] = worker[m]
    BY <1>1, <1>6 DEF Move, Types
  <2>2. worker[k].to = 0 /\ g \in Made /\ Settled(g) /\ g \in Gen /\ \A h \in Made : h # 0
    BY <1>1, <1>3, <1>4, <1>6, Bounds DEF WorkOk, Known, Work, Gen
  <2>3. ReachInv'
    BY <1>1, <1>6, <2>1, ReachKept
  <2>4. \A m \in Collections \ {k}, h \in Made : Current(m, h)' <=> Current(m, h)
    BY <2>1 DEF Current
  <2>5. \A h \in Made : (Current(k, h)' => Current(k, h)) /\ (Current(k, h) /\ ~Current(k, h)' => h = g /\ w.to = 0)
    BY <1>3, <1>6, <2>1, <2>2 DEF Current
  <2>6. \A h \in Gen : skipped[h] \subseteq skipped'[h]
    BY <1>4, <1>6 DEF Skip
  <2>7. ASSUME w.to = 0, Live(g)' PROVE queues[k][1].event \in skipped'[g]
    <3>1. Active(g)
      BY <1>1, <1>3, <2>2, <2>7, Bounds DEF Active, Live, Settled, Record, Status
    <3>2. Skip(k, g)
      BY <1>6, <2>2, <2>7, <3>1
    <3> QED BY <1>4, <2>2, <3>2 DEF Skip
  <2> QED BY <1>1, <1>2, <1>3, <1>4, <2>1, <2>3, <2>4, <2>5, <2>6, <2>7, TurnDelivers
<1>7. ASSUME ~cancelled, NEW g \in worker[k].todo,
             NEW rest, rest = worker[k].todo \ {g},
             \/ ~Active(g) /\ Move(k, [worker[k] EXCEPT !.todo = rest]) /\ UNCHANGED <<permits, waiters, skipped>>
             \/ Active(g) /\ Skip(k, g) /\ Move(k, [worker[k] EXCEPT !.todo = rest]) /\ UNCHANGED <<permits, waiters>>
             \/ /\ IF permits > 0
                   THEN permits' = permits - 1 /\ Move(k, [stage |-> "granted", todo |-> rest, to |-> g]) /\ UNCHANGED waiters
                   ELSE /\ waiters' = Append(waiters, k)
                        /\ Move(k, [stage |-> "waiting", todo |-> rest, to |-> g])
                        /\ UNCHANGED permits
                /\ UNCHANGED skipped
      PROVE  DeliveryInv'
  <2>1. PICK moved : moved = [worker[k] EXCEPT !.todo = rest]
    OBVIOUS
  <2>2. moved.stage = "fanout" /\ moved.to = 0 /\ moved.todo = rest
    <3>1. worker[k].to = 0
      BY <1>3, <1>4, <1>7 DEF WorkOk
    <3> QED BY <1>3, <1>4, <2>1, <3>1 DEF Work
  <2>3. CASE Move(k, moved) /\ ((~Active(g) /\ UNCHANGED skipped) \/ Skip(k, g))
    BY <1>6, <1>7, <2>2, <2>3
  <2>4. ASSUME NEW st \in {"granted", "waiting"}, NEW w, w = [stage |-> st, todo |-> rest, to |-> g], Move(k, w), UNCHANGED skipped
        PROVE  DeliveryInv'
    BY <1>6, <1>7, <2>4
  <2> QED BY <1>7, <2>1, <2>3, <2>4
<1>8. DeliveryInv'
  BY <1>5, <1>7 DEF FanOut
<1> QED BY <1>2, <1>8 DEF TheInv
LEMMA GrantedInv == ASSUME TheInv, NEW k \in Collections, Granted(k) PROVE TheInv'
<1>1. BaseInv /\ PermitInv /\ DeliveryInv /\ Types /\ WorkerInv /\ ModeInv /\ ReachInv
  BY DEF TheInv, BaseInv, DeliveryInv
<1>2. BaseInv' /\ PermitInv' /\ Later
  BY <1>1, GrantedKeeps
<1>3. UNCHANGED <<client, registryVars, res, received, owed, frames, skipped>> /\ Made' = Made /\ worker[k].stage = "granted"
  BY DEF Granted, historyVars, registryVars, Made
<1>4. 1 \in DOMAIN queues[k] /\ worker[k] \in Work /\ WorkOk(k, worker[k]) /\ \A h \in Made : h # 0 /\ res[h] \in Record
  BY <1>1, <1>3, AtWork, Bounds
<1>5. ASSUME cancelled \/ ~Active(worker[k].to), Release(k) PROVE DeliveryInv'
  <2>1. Released(k)
    BY <1>1, <1>2, <1>3, <1>5, ReleaseOk
  <2>2. UNCHANGED queues
    BY <1>5 DEF Release
  <2>3. ReachInv'
    BY <1>1, <2>1, <2>2, ReachKept DEF Released
  <2>4. \A m \in Collections \ {k}, h \in Made : Current(m, h)' <=> Current(m, h)
    BY <2>1 DEF Current, Released
  <2>5. \A h \in Made : (Current(k, h)' => Current(k, h)) /\ (Current(k, h) /\ ~Current(k, h)' => h = worker[k].to)
    BY <1>3, <1>4, <2>1 DEF Current, Released
  <2>6. ASSUME NEW h \in Made, h = worker[k].to, Live(h)', client'[res[h].client] = "open" PROVE FALSE
    <3>1. Live(h) /\ client[res[h].client] = "open"
      BY <1>3, <2>6 DEF Live
    <3>2. ~Active(h)
      BY <1>1, <1>5, <2>6, <3>1 DEF ModeInv
    <3>3. Settled(h)
      BY <1>4, <2>6 DEF WorkOk, Known
    <3> QED BY <1>4, <3>1, <3>2, <3>3 DEF Active, Live, Settled, Record, Status
  <2> QED BY <1>1, <1>2, <1>3, <1>4, <2>2, <2>3, <2>4, <2>5, <2>6, TurnDelivers
<1>6. ASSUME NEW w, w = [worker[k] EXCEPT !.stage = "delivering"], Move(k, w) PROVE DeliveryInv'
  <2>1. w.stage = "delivering" /\ w.to = worker[k].to /\ w.todo = worker[k].todo
    BY <1>4, <1>6 DEF Work
  <2>2. worker'[k] = w /\ UNCHANGED queues /\ \A m \in Collections \ {k} : worker'[m] = worker[m]
    BY <1>1, <1>6 DEF Move, Types
  <2>3. ReachInv'
    BY <1>1, <2>1, <2>2, ReachKept
  <2>4. \A m \in Collections, h \in Made : Current(m, h)' <=> Current(m, h)
    BY <1>3, <2>1, <2>2 DEF Current
  <2> QED BY <1>1, <1>2, <1>3, <1>4, <2>2, <2>3, <2>4, TurnDelivers
<1>7. DeliveryInv'
  BY <1>5, <1>6 DEF Granted
<1> QED BY <1>2, <1>7 DEF TheInv

LEMMA DeliverInv == ASSUME TheInv, NEW k \in Collections, Deliver(k) PROVE TheInv'
<1>1. BaseInv /\ PermitInv /\ DeliveryInv /\ Types /\ EntryInv /\ ReachInv
  BY DEF TheInv, BaseInv, DeliveryInv
<1>2. BaseInv' /\ PermitInv' /\ Later
  BY <1>1, DeliverKeeps
<1>3. worker[k].stage = "delivering" /\ UNCHANGED <<lastGeneration, received, owed, queues>> /\ Release(k) /\ Made' = Made
  BY DEF Deliver, Release, Made
<1>4. /\ 1 \in DOMAIN queues[k] /\ Head(queues[k]) = queues[k][1] /\ worker[k] \in Work /\ WorkOk(k, worker[k])
      /\ skipped \in [Gen -> SUBSET Nat] /\ \A h \in Made : h # 0 /\ h \in Gen
  BY <1>1, <1>3, AtWork, Bounds DEF Types
<1>5. PICK g : g = worker[k].to
  OBVIOUS
<1>6. PICK e : e = queues[k][1].event
  OBVIOUS
<1>7. /\ g \in Made /\ res[g].collection = k /\ Settled(g) /\ res[g].client \in Clients
      /\ \/ frames' = frames
         \/ Active(g) /\ frames' = [frames EXCEPT ![g] = Append(@, e)]
      /\ skipped' = skipped \/ skipped' = [skipped EXCEPT ![g] = @ \cup {e}]
  <2>1. /\ g \in Made /\ res[g].collection = k /\ Settled(g) /\ res[g].client \in Clients
        /\ \/ frames' = frames
           \/ Active(g) /\ frames' = [frames EXCEPT ![g] = Append(@, Head(queues[k]).event)]
        /\ skipped' = skipped \/ Skip(k, g)
    BY <1>1, <1>5, Delivered
  <2>2. Head(queues[k]).event = e
    BY <1>4, <1>6
  <2> QED BY <2>1, <2>2 DEF Skip
<1>8. Released(k)
  BY <1>1, <1>2, <1>3, ReleaseOk DEF BaseInv
<1>9. ReachInv'
  BY <1>1, <1>3, <1>8, ReachKept DEF Released
<1>10. \A m \in Collections \ {k}, h \in Made : Current(m, h)' <=> Current(m, h)
  BY <1>8 DEF Current, Released
<1>11. /\ \A h \in Made : (Current(k, h)' => Current(k, h)) /\ (Current(k, h) /\ ~Current(k, h)' => h = g)
       /\ Current(k, g) /\ ~Current(k, g)'
  BY <1>3, <1>4, <1>5, <1>7, <1>8 DEF Current, WorkOk, Released
<1>12. \A h \in Gen : skipped[h] \subseteq skipped'[h]
  BY <1>4, <1>7
<1>13. e \in Nat /\ frames[g] \in Seq(Nat) /\ g \in Gen
  BY <1>1, <1>4, <1>6, <1>7, EntryFacts DEF Types
<1>14. ASSUME Live(g)', client'[res[g].client] = "open" PROVE e \in Sent(g)' \cup skipped'[g]
  <2>1. Active(g)
    <3>1. Live(g)
      BY <1>2, <1>7, <1>14 DEF Live, Later
    <3> QED BY <1>1, <1>7, <3>1, Bounds DEF Active, Live, Settled, Record, Status
  <2>2. client[res[g].client] = "open"
    BY <1>2, <1>7, <1>14 DEF Later
  <2>3. \/ Skip(k, g)
        \/ res' = Removed({g})
        \/ client' = Stopping({res[g].client})
        \/ frames' = [frames EXCEPT ![g] = Append(@, Head(queues[k]).event)]
    BY <1>5, <2>1, <2>2 DEF Deliver, StillActive
  <2>4. CASE Skip(k, g)
    BY <1>4, <1>6, <1>13, <2>4 DEF Skip
  <2>5. CASE res' = Removed({g})
    BY <1>1, <1>7, <1>14, <2>5, RemovedKeeps DEF Live
  <2>6. CASE client' = Stopping({res[g].client})
    BY <1>1, <1>7, <1>14, <2>6, StoppingKeeps
  <2>7. CASE frames' = [frames EXCEPT ![g] = Append(@, Head(queues[k]).event)]
    <3>1. frames'[g] = Append(frames[g], e)
      BY <1>1, <1>4, <1>6, <1>13, <2>7 DEF Types
    <3>2. \E j \in DOMAIN frames'[g] : frames'[g][j] = e
      BY <1>13, <3>1, SentMore
    <3> QED BY <3>2 DEF Sent
  <2> QED BY <2>3, <2>4, <2>5, <2>6, <2>7
<1>15. \A h \in Gen : frames'[h] = frames[h] \/ (h = g /\ Active(g) /\ e \in owed[g] /\ frames'[g] = Append(frames[g], e))
  <2>1. CASE frames' = frames
    BY <2>1
  <2>2. CASE Active(g) /\ frames' = [frames EXCEPT ![g] = Append(@, e)]
    <3>1. g <= queues[k][1].generation
      BY <1>1, <1>4, <1>5, <1>7 DEF ReachInv
    <3>2. Reaches(queues[k][1], g)
      BY <1>1, <1>4, <1>7 DEF EntryInv
    <3>3. e \in owed[g]
      BY <1>6, <1>7, <2>2, <3>1, <3>2 DEF Reaches, Live, Active
    <3>4. frames = [h \in Gen |-> frames[h]]
      BY <1>1 DEF Types
    <3> QED BY <1>13, <2>2, <3>3, <3>4
  <2> QED BY <1>7, <2>1, <2>2
<1>16. DeliveryInv'
  <2>1. \A h \in Made : /\ res[h].collection = k /\ Current(k, h) /\ ~Current(k, h)'
                        /\ Live(h)' /\ client'[res[h].client] = "open" /\ queues[k][1].event \in owed[h]
                        => queues[k][1].event \in Sent(h)' \cup skipped'[h]
    BY <1>6, <1>11, <1>14
  <2>2. \A h \in Gen : \/ frames'[h] = frames[h]
                       \/ /\ h \in Made /\ Active(h) /\ res[h].collection = k /\ Current(k, h) /\ ~Current(k, h)'
                          /\ queues[k][1].event \in owed[h] /\ frames'[h] = Append(frames[h], queues[k][1].event)
    BY <1>6, <1>7, <1>11, <1>15
  <2> QED BY <1>1, <1>2, <1>3, <1>4, <1>9, <1>10, <1>11, <1>12, <2>1, <2>2, TurnDelivers
<1> QED BY <1>2, <1>16 DEF TheInv
LEMMA LongerFacts ==
  ASSUME Types, NEW k \in Collections, NEW en \in Entry, queues' = [queues EXCEPT ![k] = Append(@, en)]
  PROVE  /\ \A m \in Collections \ {k} : queues'[m] = queues[m]
         /\ \A i \in DOMAIN queues[k] : i \in DOMAIN queues'[k] /\ queues'[k][i] = queues[k][i]
         /\ \A i \in DOMAIN queues'[k] : /\ i \in Nat /\ i > 0
                                         /\ i \in DOMAIN queues[k] \/ (queues'[k][i] = en /\ \A j \in DOMAIN queues'[k] : j <= i)
         /\ \E i \in DOMAIN queues'[k] : queues'[k][i] = en /\ (queues[k] # <<>> => i > 1)
         /\ queues[k] # <<>> => 1 \in DOMAIN queues[k]
<1>1. queues[k] \in Seq(Entry)
  BY DEF Types
<1>2. queues'[k] = Append(queues[k], en) /\ \A m \in Collections \ {k} : queues'[m] = queues[m]
  BY DEF Types
<1>3. PICK n \in Nat : n = Len(queues[k]) /\ DOMAIN queues[k] = 1..n
  BY <1>1, LenProperties
<1>4. PICK h : h = Append(queues[k], en)
  OBVIOUS
<1>5. h \in Seq(Entry) /\ Len(h) = n + 1 /\ h[n + 1] = en /\ \A j \in 1..n : h[j] = queues[k][j]
  BY <1>1, <1>3, <1>4, AppendProperties
<1>6. DOMAIN h = 1..(n + 1)
  BY <1>5, LenProperties
<1>7. /\ \A i \in 1..n : i \in 1..(n + 1)
      /\ \A i \in 1..(n + 1) : i \in Nat /\ i > 0 /\ i <= n + 1 /\ (i \in 1..n \/ i = n + 1)
      /\ n + 1 \in 1..(n + 1)
  OBVIOUS
<1>8. queues[k] # <<>> => n + 1 > 1 /\ 1 \in 1..n
  BY <1>1, <1>3, EmptySeq, Ends
<1>9. /\ \A i \in DOMAIN queues[k] : i \in DOMAIN h /\ h[i] = queues[k][i]
      /\ \A i \in DOMAIN h : /\ i \in Nat /\ i > 0
                             /\ i \in DOMAIN queues[k] \/ (h[i] = en /\ \A j \in DOMAIN h : j <= i)
      /\ \E i \in DOMAIN h : h[i] = en /\ (queues[k] # <<>> => i > 1)
      /\ queues[k] # <<>> => 1 \in DOMAIN queues[k]
  BY <1>3, <1>5, <1>6, <1>7, <1>8
<1> QED BY <1>2, <1>4, <1>9

\* Who is owed a new event, and what it changes for those queued before it.
LEMMA OwedAfter ==
  ASSUME TheInv, NEW k \in Collections, Admit(k)
  PROVE  /\ received \in Nat /\ received' = received + 1 /\ UNCHANGED <<res, lastGeneration, frames, skipped>> /\ Made' = Made
         /\ \A g \in Gen : owed[g] \subseteq owed'[g] /\ owed'[g] \subseteq owed[g] \cup {received + 1}
         /\ \A g \in Made : received + 1 \in owed'[g] <=> Live(g) /\ res[g].collection = k
         /\ \A g \in Gen \ Made : owed'[g] = owed[g]
         /\ \A en, g : /\ g \in Made /\ en.event \in Nat /\ en.event <= received /\ Reaches(en, g)
                       => (g <= en.generation /\ Live(g) => en.event \in owed'[g])
         /\ \A en, g : /\ g \in Made /\ en.event \in Nat /\ en.event <= received /\ Reaches(en, g) /\ en.event \in owed'[g]
                       => g <= en.generation /\ (res[g].status = "initializing" => g \in en.pending)
<1>1. Types /\ HistoryInv /\ \A g \in Made : g \in Gen
  BY Bounds DEF TheInv, BaseInv, DeliveryInv
<1>2. received \in Nat /\ received' = received + 1 /\ UNCHANGED <<res, lastGeneration, frames, skipped>> /\ Made' = Made
  BY <1>1, DispatchAssumption DEF Types, Admit, registryVars, Made
<1>3. \A g \in Gen : owed'[g] = IF Live(g) /\ res[g].collection = k THEN owed[g] \cup {received + 1} ELSE owed[g]
  BY DEF Admit
<1>4. \A g \in Gen : received + 1 \notin owed[g]
  <2>1. received + 1 \notin 1..received
    BY <1>2
  <2> QED BY <1>1, <2>1 DEF HistoryInv
<1>5. \A g \in Gen : owed[g] \subseteq owed'[g] /\ owed'[g] \subseteq owed[g] \cup {received + 1}
  BY <1>3
<1>6. \A g \in Made : received + 1 \in owed'[g] <=> Live(g) /\ res[g].collection = k
  BY <1>1, <1>3, <1>4
<1>7. \A g \in Gen \ Made : owed'[g] = owed[g]
  BY <1>3 DEF Live
<1>8. \A e \in Nat, g \in Made : e <= received => (e \in owed'[g] <=> e \in owed[g])
  <2>1. \A e \in Nat : e <= received => e # received + 1
    BY <1>2
  <2> QED BY <1>1, <1>5, <2>1
<1> QED BY <1>2, <1>5, <1>6, <1>7, <1>8 DEF Reaches

LEMMA AdmitInv == ASSUME TheInv, NEW k \in Collections, Admit(k) PROVE TheInv'
<1>1. BaseInv /\ PermitInv /\ DeliveryInv /\ Types /\ ModeInv /\ WorkerInv
      /\ EntryInv /\ ReachInv /\ HistoryInv /\ Behind /\ NoSilentGap /\ FramesInOrder
  BY DEF TheInv, BaseInv, DeliveryInv, Deliveries
<1>2. BaseInv' /\ PermitInv' /\ Later
  BY <1>1, AdmitKeeps
<1>3. /\ received \in Nat /\ received' = received + 1 /\ UNCHANGED <<res, lastGeneration, frames, skipped>> /\ Made' = Made
      /\ \A g \in Gen : owed[g] \subseteq owed'[g] /\ owed'[g] \subseteq owed[g] \cup {received + 1}
      /\ \A g \in Made : received + 1 \in owed'[g] <=> Live(g) /\ res[g].collection = k
      /\ \A g \in Gen \ Made : owed'[g] = owed[g]
  BY OwedAfter
<1>4. \A g \in Made : g \in Gen /\ g \in Nat /\ g <= lastGeneration /\ g # 0 /\ res[g] \in Record /\ res[g].collection \in Collections
                      /\ res[g].client \in Clients
  BY <1>1, Bounds DEF Record, Made
<1>5. HistoryInv'
  <2>1. \A g \in Gen : owed'[g] \subseteq 1..(received + 1)
    <3>1. 1..received \subseteq 1..(received + 1) /\ received + 1 \in 1..(received + 1)
      BY <1>3
    <3> QED BY <1>1, <1>3, <3>1 DEF HistoryInv
  <2> QED BY <1>1, <1>3, <2>1 DEF HistoryInv
<1>6. FramesInOrder'
  BY <1>1, <1>3, <1>4 DEF FramesInOrder
<1>7. ASSUME NEW m \in Collections, NEW i \in DOMAIN queues[m], NEW g \in Made, res[g].collection = m,
             NEW en, en = queues[m][i]
      PROVE  /\ g <= en.generation /\ Live(g) => en.event \in owed'[g]
             /\ en.event \in owed'[g] => g <= en.generation /\ (res[g].status = "initializing" => g \in en.pending)
  <2>1. en.event \in Nat /\ en.event <= received /\ Reaches(en, g)
    BY <1>1, <1>7, EntryFacts DEF EntryInv
  <2> QED BY <2>1, OwedAfter
<1>8. ASSUME UNCHANGED queues, NEW m \in Collections, NEW i \in DOMAIN queues[m]
      PROVE  /\ queues[m][i].event <= received'
             /\ \A g \in Made : res[g].collection = m => Reaches(queues[m][i], g)'
  <2>1. queues[m][i].event <= received'
    BY <1>1, <1>3, EntryFacts
  <2>2. ASSUME NEW g \in Made, res[g].collection = m PROVE Reaches(queues[m][i], g)'
    BY <1>3, <1>7, <1>8, <2>2 DEF Reaches, Live
  <2> QED BY <2>1, <2>2
\* The event is not admitted: nobody who is owed it stays connected.
<1>9. ASSUME UNCHANGED queues, \A g \in Made : Live(g) => client'[res[g].client] # "open",
             \A m \in Collections : /\ worker'[m].todo = worker[m].todo /\ worker'[m].to = worker[m].to
                                    /\ worker'[m].stage = "barrier" <=> worker[m].stage = "barrier"
      PROVE  DeliveryInv'
  <2>1. EntryInv'
    BY <1>1, <1>3, <1>8, <1>9 DEF EntryInv
  <2>2. ReachInv'
    BY <1>1, <1>9, ReachKept
  <2>3. \A g \in Made : Ahead(g)' = Ahead(g)
    <3>1. \A m \in Collections, g \in Made : Current(m, g)' <=> Current(m, g)
      BY <1>9 DEF Current
    <3>2. \A g \in Made : \A e : Coming(e, g)' <=> Coming(e, g)
      BY <1>3, <1>4, <1>9, <3>1 DEF Coming, Current
    <3> QED BY <3>2, AheadForm
  <2>4. Behind'
    BY <1>1, <1>3, <2>3 DEF Behind
  <2>5. NoSilentGap'
    <3>1. \A g \in Made' : ~(Live(g)' /\ client'[res'[g].client] = "open")
      BY <1>3, <1>9 DEF Live
    <3> QED BY <3>1, GapForm
  <2> QED BY <1>5, <1>6, <2>1, <2>2, <2>4, <2>5 DEF DeliveryInv, Deliveries
<1>10. ASSUME stopped \/ overloaded, UNCHANGED <<client, workVars>> PROVE DeliveryInv'
  BY <1>1, <1>9, <1>10 DEF workVars, ModeInv
<1>11. ASSUME EnterOverload PROVE DeliveryInv'
  <2>1. UNCHANGED queues /\ Cancel /\ client' = Stopping(OverloadCloses)
    BY <1>11 DEF EnterOverload
  <2>2. ASSUME NEW g \in Made, Live(g) PROVE client'[res[g].client] # "open"
    <3>1. res[g].client \in OverloadCloses
      BY <2>2 DEF OverloadCloses
    <3> QED BY <1>1, <1>4, <2>1, <3>1, StoppingKeeps
  <2> QED BY <1>1, <1>9, <2>1, <2>2, CancelSame
<1>12. ASSUME Enqueue(k, received + 1) PROVE DeliveryInv'
  <2>1. PICK en : en = [event |-> received + 1, generation |-> lastGeneration, pending |-> Pending(k)]
    OBVIOUS
  <2>2. /\ queues' = [queues EXCEPT ![k] = Append(@, en)] /\ UNCHANGED client
        /\ en.event = received + 1 /\ en.generation = lastGeneration /\ en.pending = Pending(k)
    BY <1>12, <2>1 DEF Enqueue
  <2>3. en \in Entry
    <3>1. received + 1 \in Event
      BY <1>1, DispatchAssumption DEF Admit, Types, Event
    <3>2. Pending(k) \subseteq Gen /\ lastGeneration \in 0..MaxReservations
      BY <1>1, <1>4 DEF Pending, Types
    <3> QED BY <2>1, <3>1, <3>2 DEF Entry
  <2>4. \A m \in Collections \ {k} : queues'[m] = queues[m]
    BY <1>1, <2>2, <2>3, LongerFacts
  <2>5. /\ \A i \in DOMAIN queues[k] : i \in DOMAIN queues'[k] /\ queues'[k][i] = queues[k][i]
        /\ \A i \in DOMAIN queues'[k] : /\ i \in Nat /\ i > 0
                                        /\ i \in DOMAIN queues[k] \/ (queues'[k][i] = en /\ \A j \in DOMAIN queues'[k] : j <= i)
        /\ queues[k] # <<>> => 1 \in DOMAIN queues[k]
    BY <1>1, <2>2, <2>3, LongerFacts
  <2>6. PICK last \in DOMAIN queues'[k] : queues'[k][last] = en /\ (queues[k] # <<>> => last > 1)
    BY <1>1, <2>2, <2>3, LongerFacts
  <2>7. /\ \A m \in Collections \ {k} : worker'[m] = worker[m]
        /\ queues[k] # <<>> => worker'[k] = worker[k]
        /\ queues[k] = <<>> => worker'[k].stage = "barrier" /\ worker'[k].todo = {} /\ worker'[k].to = 0
    <3>1. CASE queues[k] = <<>>
      <4>1. worker' = [worker EXCEPT ![k] = [Idle EXCEPT !.stage = "barrier"]]
        BY <1>12, <3>1 DEF Enqueue
      <4>2. worker'[k] = [Idle EXCEPT !.stage = "barrier"] /\ \A m \in Collections \ {k} : worker'[m] = worker[m]
        BY <1>1, <4>1 DEF Types
      <4> QED BY <3>1, <4>2 DEF Idle
    <3>2. CASE queues[k] # <<>>
      BY <1>12, <3>2 DEF Enqueue
    <3> QED BY <3>1, <3>2
  <2>8. ASSUME NEW m \in Collections, NEW i \in DOMAIN queues'[m]
        PROVE  \/ i \in DOMAIN queues[m] /\ queues'[m][i] = queues[m][i]
               \/ m = k /\ queues'[m][i] = en /\ \A j \in DOMAIN queues'[m] : j <= i
    BY <2>4, <2>5
  <2>9. EntryInv'
    <3>1. SUFFICES ASSUME NEW m \in Collections, NEW i \in DOMAIN queues'[m]
                   PROVE  /\ queues'[m][i].event <= received'
                          /\ \A j \in DOMAIN queues'[m] : i < j => queues'[m][i].event < queues'[m][j].event
                          /\ \A g \in Made : res[g].collection = m => Reaches(queues[m][i], g)'
      BY <1>3 DEF EntryInv
    <3>2. CASE i \in DOMAIN queues[m] /\ queues'[m][i] = queues[m][i]
      <4>1. queues[m][i].event \in Nat /\ queues[m][i].event <= received
        BY <1>1, <3>2, EntryFacts
      <4>2. queues'[m][i].event <= received'
        BY <1>3, <3>2, <4>1
      <4>3. ASSUME NEW j \in DOMAIN queues'[m], i < j PROVE queues'[m][i].event < queues'[m][j].event
        <5>1. CASE j \in DOMAIN queues[m] /\ queues'[m][j] = queues[m][j]
          BY <1>1, <3>2, <4>3, <5>1 DEF EntryInv
        <5>2. CASE queues'[m][j] = en
          BY <1>3, <2>2, <3>2, <4>1, <5>2
        <5> QED BY <2>8, <5>1, <5>2
      <4>4. ASSUME NEW g \in Made, res[g].collection = m PROVE Reaches(queues[m][i], g)'
        BY <1>3, <1>7, <3>2, <4>4 DEF Reaches, Live
      <4> QED BY <4>2, <4>3, <4>4
    <3>3. CASE m = k /\ queues'[m][i] = en /\ \A j \in DOMAIN queues'[m] : j <= i
      <4>1. queues'[m][i].event <= received'
        BY <1>3, <2>2, <3>3
      <4>2. ASSUME NEW j \in DOMAIN queues'[m], i < j PROVE FALSE
        <5>1. i \in Nat /\ j \in Nat /\ j <= i
          BY <2>5, <3>3
        <5> QED BY <4>2, <5>1
      <4>3. ASSUME NEW g \in Made, res[g].collection = m PROVE Reaches(queues[m][i], g)'
        <5>1. g <= lastGeneration /\ (Live(g) => received + 1 \in owed'[g])
          BY <1>3, <1>4, <3>3, <4>3
        <5>2. res[g].status = "initializing" => g \in Pending(k)
          BY <3>3, <4>3 DEF Pending
        <5> QED BY <1>3, <2>2, <3>3, <5>1, <5>2 DEF Reaches, Live
      <4> QED BY <4>1, <4>2, <4>3
    <3> QED BY <2>8, <3>2, <3>3
  <2>10. ReachInv'
    <3>1. SUFFICES ASSUME NEW m \in Collections, queues'[m] # <<>>, NEW g \in worker'[m].todo \cup {worker'[m].to}, g # 0
                   PROVE  g <= queues'[m][1].generation
      BY DEF ReachInv
    <3>2. CASE m = k
      <4>1. queues[k] # <<>> /\ worker'[k] = worker[k]
        BY <2>7, <3>1, <3>2
      <4>2. queues'[k][1] = queues[k][1]
        BY <2>5, <4>1
      <4> QED BY <1>1, <3>1, <3>2, <4>1, <4>2 DEF ReachInv
    <3>3. CASE m # k
      BY <1>1, <2>4, <2>7, <3>1, <3>3 DEF ReachInv
    <3> QED BY <3>2, <3>3
  <2>11. ASSUME NEW g \in Made, NEW e, Coming(e, g) PROVE Coming(e, g)'
    <3>1. PICK c \in Collections : c = res[g].collection /\ c = res'[g].collection
      BY <1>3, <1>4
    <3>2. PICK i \in DOMAIN queues[c] : (i > 1 \/ Current(c, g)) /\ e = queues[c][i].event
      BY <2>11, <3>1 DEF Coming
    <3>3. i \in DOMAIN queues'[c] /\ queues'[c][i] = queues[c][i]
      BY <2>4, <2>5
    <3>4. worker'[c] = worker[c]
      <4>1. queues[c] # <<>>
        BY <3>2
      <4> QED BY <2>7, <4>1
    <3> QED BY <3>1, <3>2, <3>3, <3>4 DEF Coming, Current
  <2>12. ASSUME NEW g \in Made, NEW e, Coming(e, g)' PROVE Coming(e, g) \/ e = received + 1
    <3>1. PICK c \in Collections : c = res[g].collection /\ c = res'[g].collection
      BY <1>3, <1>4
    <3>2. PICK i \in DOMAIN queues'[c] : (i > 1 \/ Current(c, g)') /\ e = queues'[c][i].event
      BY <2>12, <3>1 DEF Coming, Current
    <3>3. CASE i \in DOMAIN queues[c] /\ queues'[c][i] = queues[c][i]
      <4>1. worker'[c] = worker[c]
        <5>1. queues[c] # <<>>
          BY <3>3
        <5> QED BY <2>7, <5>1
      <4> QED BY <3>1, <3>2, <3>3, <4>1 DEF Coming, Current
    <3>4. CASE queues'[c][i] = en
      BY <2>2, <3>2, <3>4
    <3> QED BY <2>8, <3>3, <3>4
  <2>13. PICK new : new = received + 1
    OBVIOUS
  <2>14. ASSUME NEW g \in Made, res[g].collection = k PROVE Coming(new, g)'
    <3>1. last > 1 \/ Current(k, g)'
      BY <2>6, <2>7 DEF Current
    <3>2. res'[g].collection = k /\ new = queues'[k][last].event
      BY <1>3, <2>2, <2>6, <2>13, <2>14
    <3> QED BY <2>6, <3>1, <3>2 DEF Coming, Current
  <2>15. Behind'
    <3>1. SUFFICES ASSUME NEW g \in Made, NEW a \in Ahead(g)', NEW j \in DOMAIN frames[g] PROVE frames[g][j] < a
      BY <1>3 DEF Behind
    <3>2. Coming(a, g) \/ a = received + 1
      BY <2>12, AheadForm
    <3>3. CASE Coming(a, g)
      BY <1>1, <3>1, <3>3, AheadForm DEF Behind
    <3>4. CASE a = received + 1
      <4>1. frames[g] \in Seq(Nat)
        BY <1>1, <1>4 DEF Types
      <4>2. PICK n \in Nat : n = Len(frames[g]) /\ DOMAIN frames[g] = 1..n
        BY <4>1, LenProperties
      <4>3. j \in Nat /\ j > 0
        BY <4>2
      <4>4. CASE j > 1
        <5>1. frames[g][j] \in 1..received
          BY <1>1, <1>4, <3>1, <4>4 DEF FramesInOrder, HistoryInv
        <5> QED BY <1>3, <3>4, <5>1
      <4>5. CASE j = 1
        <5>1. frames[g] # <<>>
          BY <3>1
        <5>2. Head(frames[g]) = frames[g][1]
          BY <4>1, <5>1, HeadTailProperties
        <5>3. frames[g][j] = 0
          BY <1>1, <4>5, <5>1, <5>2 DEF FramesInOrder
        <5> QED BY <1>3, <3>4, <5>3
      <4> QED BY <4>3, <4>4, <4>5
    <3> QED BY <3>2, <3>3, <3>4
  <2>16. NoSilentGap'
    <3>1. SUFFICES ASSUME NEW g \in Made, Live(g)', client'[res'[g].client] = "open"
                   PROVE  owed'[g] \subseteq Sent(g)' \cup skipped'[g] \cup Ahead(g)'
      BY <1>3, GapForm
    <3>2. Live(g) /\ client[res[g].client] = "open"
      BY <1>3, <2>2, <3>1 DEF Live
    <3>3. owed[g] \subseteq Sent(g) \cup skipped[g] \cup Ahead(g)
      BY <1>1, <3>2, GapForm
    <3>4. Sent(g)' = Sent(g) /\ skipped'[g] = skipped[g]
      BY <1>3 DEF Sent
    <3>5. ASSUME NEW e \in Ahead(g) PROVE e \in Ahead(g)'
      <4>1. Coming(e, g)
        BY <3>5, AheadForm
      <4>2. Coming(e, g)'
        BY <2>11, <3>1, <4>1
      <4> QED BY <4>2, AheadForm
    <3>6. new \in owed'[g] => new \in Ahead(g)'
      <4>1. new \in owed'[g] => res[g].collection = k
        BY <1>3, <2>13, <3>1
      <4>2. res[g].collection = k => Coming(new, g)'
        BY <2>14, <3>1
      <4> QED BY <4>1, <4>2, AheadForm
    <3>7. owed'[g] \subseteq owed[g] \cup {new}
      BY <1>3, <1>4, <2>13, <3>1
    <3> QED BY <3>3, <3>4, <3>5, <3>6, <3>7
  <2> QED BY <1>5, <1>6, <2>9, <2>10, <2>15, <2>16 DEF DeliveryInv, Deliveries
<1>13. DeliveryInv'
  BY <1>10, <1>11, <1>12 DEF Admit
<1> QED BY <1>2, <1>13 DEF TheInv

LEMMA InitInv == Init => TheInv
<1> SUFFICES ASSUME Init PROVE TheInv
  OBVIOUS
<1>1. BaseInv /\ PermitInv
  BY InitBase
<1>2. Made = {} /\ received = 0
  BY DEF Init, Made
<1>3. \A k \in Collections : queues[k] = <<>> /\ DOMAIN queues[k] = {}
  BY DEF Init
<1>4. \A g \in Gen : owed[g] = {} /\ frames[g] = <<>>
  BY DEF Init
<1>5. DeliveryInv
  BY <1>2, <1>3, <1>4 DEF DeliveryInv, EntryInv, ReachInv, HistoryInv, Behind, Deliveries, NoSilentGap, FramesInOrder
<1> QED BY <1>1, <1>5 DEF TheInv

LEMMA StutterInv == ASSUME TheInv, UNCHANGED vars PROVE TheInv'
<1>1. BaseInv' /\ PermitInv'
  BY StutterBase DEF TheInv
<1>2. UNCHANGED <<client, lastGeneration, res, queues, worker, received, owed, frames, skipped>>
  BY DEF vars, registryVars, workVars, modeVars, historyVars
<1>3. EntryInv' /\ ReachInv' /\ HistoryInv' /\ Behind'
  BY <1>2 DEF TheInv, DeliveryInv, EntryInv, ReachInv, Reaches, HistoryInv, Behind, Ahead, Made, Live
<1>4. NoSilentGap' /\ FramesInOrder'
  BY <1>2 DEF TheInv, DeliveryInv, Deliveries, NoSilentGap, FramesInOrder, Ahead, Made, Live
<1> QED BY <1>1, <1>3, <1>4 DEF TheInv, DeliveryInv, Deliveries

LEMMA StepInv == TheInv /\ [Next]_vars => TheInv'
<1> SUFFICES ASSUME TheInv, [Next]_vars PROVE TheInv'
  OBVIOUS
<1>1. ASSUME NEW c \in Clients, NEW k \in Collections, NEW old \in SUBSET OwnedBy(c), Subscribe(c, k, old) PROVE TheInv'
  BY <1>1, SubscribeInv
<1>2. ASSUME NEW c \in Clients, InitialRead(c) PROVE TheInv'
  BY <1>2, InitialReadInv
<1>3. ASSUME NEW c \in Clients, Unsubscribe(c) \/ ClientStops(c) \/ FinalizeClient(c) PROVE TheInv'
  BY <1>3, UnsubscribeInv
<1>4. ASSUME NEW k \in Collections, Admit(k) PROVE TheInv'
  BY <1>4, AdmitInv
<1>5. ASSUME NEW k \in Collections, WorkerStep(k) PROVE TheInv'
  BY <1>5, PassBarrierInv, FanOutInv, GrantedInv, DeliverInv DEF WorkerStep
<1>6. CASE Stop
  BY <1>6, StopInv
<1>7. CASE UNCHANGED vars
  BY <1>7, StutterInv
<1> QED BY <1>1, <1>2, <1>3, <1>4, <1>5, <1>6, <1>7 DEF Next

LEMMA Invariance == Spec => []TheInv
BY InitInv, StepInv, PTL DEF Spec

-----------------------------------------------------------------------------
\* The state has the declared types (SubscriptionRegistry, DispatchCoordinator).
THEOREM TypeCorrect == Spec => []TypeOK
<1>1. TheInv => TypeOK
  <2> SUFFICES ASSUME TheInv PROVE TypeOK
    OBVIOUS
  <2>1. Types /\ WorkerInv /\ EntryInv /\ PermitInv
    BY DEF TheInv, BaseInv, DeliveryInv
  <2>2. lastGeneration \in Nat /\ Made \subseteq Gen
    BY <2>1, Bounds
  <2>3. command \in [Clients -> 0..lastGeneration]
    <3>1. \A c \in Clients : command[c] \in 0..lastGeneration
      BY <2>1, <2>2 DEF Types
    <3> QED BY <2>1, <3>1 DEF Types
  <2>4. ASSUME NEW k \in Collections, NEW j \in DOMAIN queues[k]
        PROVE  queues[k][j] \in [event : Event, generation : 0..lastGeneration, pending : SUBSET Made]
    <3>1. queues[k][j] \in Entry /\ queues[k][j].generation \in Nat /\ queues[k][j].generation <= lastGeneration
          /\ queues[k][j].pending \subseteq Made
      BY <2>1, EntryFacts DEF TheInv, Types
    <3>2. queues[k][j].generation \in 0..lastGeneration
      BY <2>2, <3>1
    <3> QED BY <3>1, <3>2 DEF Entry
  <2>5. worker \in [Collections -> [stage : Stage, todo : SUBSET Made, to : 0..lastGeneration]]
    <3>1. ASSUME NEW k \in Collections PROVE worker[k] \in [stage : Stage, todo : SUBSET Made, to : 0..lastGeneration]
      <4>1. worker[k] \in Work /\ WorkOk(k, worker[k])
        BY <2>1 DEF Types, WorkerInv
      <4>2. worker[k].todo \subseteq Made
        BY <4>1 DEF WorkOk, Known, Work, Gen
      <4>3. worker[k].to \in 0..lastGeneration
        <5>1. worker[k].to = 0 \/ worker[k].to \in Made
          BY <4>1 DEF WorkOk, Known
        <5> QED BY <2>2, <5>1 DEF Made
      <4> QED BY <4>1, <4>2, <4>3 DEF Work
    <3> QED BY <2>1, <3>1 DEF Types
  <2>6. permits \in 0..Concurrency
    <3>1. Cardinality(Holding) \in Nat /\ permits + Cardinality(Holding) = Concurrency /\ permits \in Nat
      BY <2>1, HoldersFinite, FS_CardinalityType DEF PermitInv, PermitsExact, Holding, Types
    <3>2. PICK c \in Nat : c = Cardinality(Holding)
      BY <3>1
    <3>3. permits <= Concurrency /\ Concurrency \in Nat
      BY <3>1, <3>2, DispatchAssumption
    <3> QED BY <3>1, <3>3
  <2>7. {overloaded, cancelled, stopped} \subseteq BOOLEAN
    BY <2>1 DEF Types
  <2> QED BY <2>1, <2>3, <2>4, <2>5, <2>6, <2>7 DEF TypeOK, Types, Record
<1> QED BY <1>1, Invariance, PTL

\* No permit is lost or doubled, no worker waits while one is free, and a closed
\* connection owns no reservation (Semaphore, finalizeClient).
THEOREM ResourcesAreExact == Spec => []ResourcesExact
<1>1. TheInv => ResourcesExact
  BY DEF TheInv, BaseInv, PermitInv, ResourcesExact
<1> QED BY <1>1, Invariance, PTL

\* What a connected subscriber is sent has no gap, no repetition and no inversion
\* (captureDispatchContext, the barrier, fanOut, enterOverload).
THEOREM DeliveriesAreKept == Spec => []Deliveries
<1>1. TheInv => Deliveries
  BY DEF TheInv, DeliveryInv
<1> QED BY <1>1, Invariance, PTL

\* While its command runs and its client is connected, nothing removes a reservation.
CommandLive == \A c \in Clients : command[c] # 0 /\ client[c] = "open" => res[command[c]].status # "removed"

LEMMA CommandsStayLive == ASSUME TheInv, CommandLive, [Next]_vars PROVE CommandLive'
<1>1. Types /\ CommandInv
  BY DEF TheInv, BaseInv
<1>2. \A d \in Clients : command[d] # 0 => command[d] \in Made /\ res[command[d]].client = d /\ res[command[d]].status # "active"
  <2>1. \A d \in Clients : command[d] # 0 => command[d] \in Made
    BY <1>1, Bounds DEF Types, Made
  <2> QED BY <1>1, <2>1 DEF CommandInv
<1>3. \A C : \A d \in Clients : Stopping(C)[d] = "open" => client[d] = "open"
  BY <1>1, StoppingKeeps
\* What is removed belongs to a client without a command, is of no command, or its client ends.
<1>4. ASSUME NEW G, \A d \in Clients : command'[d] # 0 /\ client'[d] = "open" =>
                       command'[d] = command[d] /\ client[d] = "open" /\ command[d] \notin G,
             res' = Removed(G)
      PROVE  CommandLive'
  BY <1>1, <1>2, <1>4, RemovedKeeps DEF CommandLive
<1>5. ASSUME UNCHANGED <<command, res>>, client' = client \/ \E C : client' = Stopping(C) PROVE CommandLive'
  BY <1>3, <1>5 DEF CommandLive
<1>6. ASSUME NEW c \in Clients, NEW k \in Collections, NEW old \in SUBSET OwnedBy(c), Subscribe(c, k, old) PROVE CommandLive'
  <2>1. command[c] = 0 /\ \A d \in Clients : command[d] # 0 => command[d] \notin old
    BY <1>2, <1>6 DEF Subscribe, OwnedBy
  <2>2. CASE res' = Removed(old) /\ command' = command /\ (client' = client \/ client' = Stopping({c}))
    BY <1>3, <1>4, <2>1, <2>2
  <2>3. CASE /\ command' = [command EXCEPT ![c] = lastGeneration + 1] /\ client' = client
             /\ res' = Append(Removed(old), [client |-> c, collection |-> k, status |-> "initializing"])
    <3>1. PICK n \in Nat : n = lastGeneration
      BY <1>1, Bounds
    <3>2. Removed(old) \in Seq(Record) /\ Len(Removed(old)) = n
      <4>1. Removed(old) \in [1..n -> Record]
        BY <1>1, <3>1, RemovedKeeps DEF Made
      <4> QED BY <3>1, <4>1
    <3>3. res'[n + 1].status = "initializing" /\ \A g \in Made : res'[g] = Removed(old)[g]
      <4>1. [client |-> c, collection |-> k, status |-> "initializing"] \in Record
        BY DEF Record, Status
      <4> QED BY <2>3, <3>1, <3>2, <4>1, AppendProperties DEF Made
    <3>4. \A d \in Clients \ {c} : command'[d] = command[d]
      BY <1>1, <2>3 DEF Types
    <3>5. command'[c] = n + 1
      BY <1>1, <2>3, <3>1 DEF Types
    <3>6. ASSUME NEW d \in Clients \ {c}, command[d] # 0, client[d] = "open" PROVE res'[command[d]].status # "removed"
      <4>1. command[d] \in Made /\ command[d] \notin old /\ res[command[d]].status # "removed"
        BY <1>2, <2>1, <3>6 DEF CommandLive
      <4> QED BY <1>1, <3>3, <4>1, RemovedKeeps
    <3> QED BY <2>3, <3>3, <3>4, <3>5, <3>6 DEF CommandLive
  <2> QED BY <1>6, <2>2, <2>3 DEF Subscribe
<1>7. ASSUME NEW c \in Clients, InitialRead(c) PROVE CommandLive'
  <2>1. PICK g : g = command[c] /\ g \in Made
    BY <1>2, <1>7 DEF InitialRead
  <2>2. /\ \A d \in Clients : command'[d] # 0 => command'[d] = command[d] /\ d # c
        /\ \A d \in Clients : client'[d] = "open" => client[d] = "open"
        /\ \A h \in Made \ {g} : res'[h] = res[h]
    <3>1. \A h \in Made \ {g} : Removed({g})[h] = res[h]
      BY DEF Removed
    <3> QED BY <1>1, <1>3, <1>7, <2>1, <3>1 DEF InitialRead, Types
  <2>3. \A d \in Clients : d # c /\ command[d] # 0 => command[d] \in Made \ {g}
    BY <1>2, <1>7, <2>1 DEF InitialRead
  <2> QED BY <2>2, <2>3 DEF CommandLive
<1>8. ASSUME NEW c \in Clients, Unsubscribe(c) PROVE CommandLive'
  <2>1. PICK G \in SUBSET OwnedBy(c) : res' = Removed(G)
    BY <1>8 DEF Unsubscribe
  <2>2. \A d \in Clients : command[d] # 0 => command[d] \notin G
    BY <1>2, <1>8, <2>1 DEF Unsubscribe, OwnedBy
  <2> QED BY <1>4, <1>8, <2>1, <2>2 DEF Unsubscribe
<1>9. ASSUME NEW c \in Clients, FinalizeClient(c) PROVE CommandLive'
  <2>1. \A d \in Clients : client'[d] = "open" => client[d] = "open" /\ d # c
    BY <1>1, <1>9 DEF FinalizeClient, Types
  <2>2. \A d \in Clients : d # c /\ command[d] # 0 => command[d] \notin FinalizeRemoves(c)
    BY <1>2 DEF FinalizeRemoves, OwnedBy
  <2> QED BY <1>4, <1>9, <2>1, <2>2 DEF FinalizeClient
<1>10. ASSUME NEW c \in Clients, ClientStops(c) PROVE CommandLive'
  BY <1>5, <1>10 DEF ClientStops, registryVars
<1>11. ASSUME NEW k \in Collections, Admit(k) PROVE CommandLive'
  <2>1. UNCHANGED <<command, res>>
    BY <1>11 DEF Admit, registryVars
  <2>2. client' = client \/ \E C : client' = Stopping(C)
    BY <1>11 DEF Admit, EnterOverload, Enqueue
  <2> QED BY <1>5, <2>1, <2>2
<1>12. ASSUME NEW k \in Collections, Deliver(k) PROVE CommandLive'
  <2>1. PICK g : g = worker[k].to
    OBVIOUS
  <2>2. Settled(g) /\ command' = command /\ (\E G \in {{}, {g}} : res' = Removed(G)) /\ (client' = client \/ \E C : client' = Stopping(C))
    BY <1>12, <2>1, Delivered DEF TheInv
  <2>3. PICK G \in {{}, {g}} : res' = Removed(G)
    BY <2>2
  <2>4. \A d \in Clients : command[d] # 0 /\ client[d] = "open" => command[d] \notin G
    BY <1>1, <1>2, <2>2, <2>3, Bounds DEF CommandLive, Settled, Record, Status
  <2> QED BY <1>3, <1>4, <2>2, <2>3, <2>4
<1>13. ASSUME NEW k \in Collections, PassBarrier(k) \/ FanOut(k) \/ Granted(k) PROVE CommandLive'
  BY <1>5, <1>13 DEF PassBarrier, FanOut, Granted, registryVars
<1>14. CASE Stop
  BY <1>5, <1>14 DEF Stop, registryVars
<1>15. CASE UNCHANGED vars
  BY <1>5, <1>15 DEF vars, registryVars
<1> QED BY <1>6, <1>7, <1>8, <1>9, <1>10, <1>11, <1>12, <1>13, <1>14, <1>15 DEF Next, WorkerStep

\* A removed reservation is sent nothing more (deliver re-checks isActive, and the
\* registry ends a command's reservation only with its client).
THEOREM RemovalIsFinal == Spec => NoFrameAfterRemoval
<1>1. Init => TheInv /\ CommandLive
  BY InitInv DEF Init, CommandLive
<1>2. TheInv /\ CommandLive /\ [Next]_vars => (TheInv /\ CommandLive)'
  BY StepInv, CommandsStayLive
<1>3. TheInv /\ CommandLive /\ [Next]_vars => [\A g \in Made : frames'[g] # frames[g] => Live(g)]_vars
  <2> SUFFICES ASSUME TheInv, CommandLive, Next, NEW g \in Made, frames'[g] # frames[g] PROVE Live(g)
    OBVIOUS
  <2>1. Types /\ CommandInv /\ g \in Gen
    BY Bounds DEF TheInv, BaseInv
  <2>2. CASE \E c \in Clients : InitialRead(c)
    <3>1. PICK c \in Clients : InitialRead(c)
      BY <2>2
    <3>2. PICK h : h = command[c]
      OBVIOUS
    <3>3. h # 0 /\ client[c] = "open" /\ frames' = [frames EXCEPT ![h] = Append(@, 0)]
      BY <3>1, <3>2 DEF InitialRead
    <3>4. g = h
      BY <2>1, <3>3 DEF Types
    <3> QED BY <3>1, <3>2, <3>3, <3>4 DEF CommandLive, Live
  <2>3. CASE \E k \in Collections : Deliver(k)
    <3>1. PICK k \in Collections : Deliver(k)
      BY <2>3
    <3>2. PICK h : h = worker[k].to
      OBVIOUS
    <3>3. frames' = frames \/ (Active(h) /\ frames' = [frames EXCEPT ![h] = Append(@, Head(queues[k]).event)])
      BY <3>1, <3>2, Delivered DEF TheInv
    <3>4. g = h /\ Active(h)
      BY <2>1, <3>3 DEF Types
    <3> QED BY <3>4 DEF Active, Live
  <2>4. CASE UNCHANGED frames
    BY <2>4
  <2> QED BY <2>2, <2>3, <2>4 DEF Next, WorkerStep, Subscribe, Unsubscribe, ClientStops, FinalizeClient, Admit,
                            PassBarrier, FanOut, Granted, Stop, historyVars
<1> QED BY <1>1, <1>2, <1>3, PTL DEF Spec, NoFrameAfterRemoval
======
