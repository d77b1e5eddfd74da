-------------------------- MODULE SubscriptionDispatch --------------------------
(***************************************************************************)
(* api/src/websocket: the subscription registry (subscriptions.ts), the    *)
(* dispatch of change events to its reservations (dispatch.ts) and the     *)
(* subscribe command of the REST transport (handlers/subscribe.ts) with    *)
(* the parts of the connection it meets (controllers/base.ts).             *)
(*                                                                         *)
(* A reservation is named by its generation.  Every step is one turn of    *)
(* the event loop; an await is a step boundary.  A definition X_Variant is *)
(* a faulty X, used to see a property fail.                                *)
(***************************************************************************)
EXTENDS Naturals, FiniteSets, Sequences, SequencesExt

CONSTANTS Clients, Collections,
          MaxReservations,   \* bound: reservations made
          MaxEvents,         \* bound: change events received
          QueueCount,        \* SOURCE_EVENT_QUEUE_COUNT
          PerConnection,     \* SUBSCRIPTIONS_PER_CONNECTION
          Concurrency        \* deliveryConcurrency

ASSUME DispatchAssumption ==
  /\ MaxReservations \in Nat /\ MaxEvents \in Nat
  /\ {QueueCount, PerConnection, Concurrency} \subseteq Nat \ {0}
  /\ IsFiniteSet(Collections)

VARIABLES
  client,          \* "open", "stopping" (stop was called), "closed" (finalized)
  command,         \* the reservation whose subscribe command is running, or 0
  lastGeneration,
  res,             \* the reservations made
  queues,          \* per collection: the admitted events
  worker,          \* per collection: what its worker is doing
  permits,         \* the semaphore's free permits
  waiters,         \* workers queueing for a permit
  overloaded,      \* of the coordinator and the registry
  cancelled,       \* the current token was cancelled
  stopped,
  received,        \* history: number of change events received so far
  owed,            \* history: events received since a reservation was made
  frames,          \* history: frames sent for a reservation, 0 the init frame
  skipped          \* history: events processed without a frame

registryVars == <<lastGeneration, res>>
workVars == <<queues, worker, permits, waiters>>
modeVars == <<overloaded, cancelled, stopped>>
historyVars == <<received, owed, frames, skipped>>
vars == <<client, command, registryVars, workVars, modeVars, historyVars>>

Gen == 1..MaxReservations
Event == 1..MaxEvents
Status == {"initializing", "active", "removed"}
\* "granted": acquire resolved true, its continuation is due.
Stage == {"idle", "barrier", "fanout", "waiting", "granted", "delivering"}
Idle == [stage |-> "idle", todo |-> {}, to |-> 0]

Made == 1..lastGeneration
Live(g) == g \in Made /\ res[g].status # "removed"
Active(g) == g \in Made /\ res[g].status = "active"
OwnedBy(c) == {g \in Made : Live(g) /\ res[g].client = c}

Init == /\ client = [c \in Clients |-> "open"]
        /\ command = [c \in Clients |-> 0]
        /\ lastGeneration = 0
        /\ res = <<>>
        /\ queues = [k \in Collections |-> <<>>]
        /\ worker = [k \in Collections |-> Idle]
        /\ permits = Concurrency
        /\ waiters = <<>>
        /\ overloaded = FALSE /\ cancelled = FALSE /\ stopped = FALSE
        /\ received = 0
        /\ owed = [g \in Gen |-> {}]
        /\ frames = [g \in Gen |-> <<>>]
        /\ skipped = [g \in Gen |-> {}]

-----------------------------------------------------------------------------
\* The registry.

Removed(G) == [g \in Made |-> IF g \in G THEN [res[g] EXCEPT !.status = "removed"] ELSE res[g]]

\* stop(client): commands end and sends are refused from here on.
Stopping(C) == [c \in Clients |-> IF c \in C /\ client[c] = "open" THEN "stopping" ELSE client[c]]

\* handleSubscription up to its await.  A subscription with the same uid is
\* replaced; the registry refuses in overload, after stop and at its limit.
Subscribe(c, k, old) ==
  /\ client[c] = "open" /\ command[c] = 0
  /\ old \subseteq OwnedBy(c) /\ Cardinality(old) <= 1
  /\ lastGeneration < MaxReservations
  /\ \/ /\ overloaded \/ stopped
        /\ res' = Removed(old)
        /\ client' = Stopping({c})
        /\ UNCHANGED <<command, lastGeneration>>
     \/ /\ ~overloaded /\ ~stopped
        /\ IF Cardinality(OwnedBy(c) \ old) >= PerConnection
           THEN /\ res' = Removed(old)
                /\ UNCHANGED <<command, lastGeneration>>
           ELSE /\ lastGeneration' = lastGeneration + 1
                /\ res' = Append(Removed(old),
                                 [client |-> c, collection |-> k, status |-> "initializing"])
                /\ command' = [command EXCEPT ![c] = lastGeneration + 1]
        /\ UNCHANGED client
  /\ UNCHANGED <<workVars, modeVars, historyVars>>

\* The rest of the command, once getInitialPayload has settled: removed when the
\* read failed, the client is stopping or the init frame was not accepted (which
\* closes the client), else the init frame is sent and the reservation activated.
InitialRead(c) ==
  LET g == command[c] IN
  /\ g # 0
  /\ command' = [command EXCEPT ![c] = 0]
  /\ \/ /\ res' = Removed({g})
        /\ UNCHANGED <<client, frames>>
     \/ /\ client[c] = "open"
        /\ res' = Removed({g})
        /\ client' = Stopping({c})
        /\ UNCHANGED frames
     \/ /\ client[c] = "open"
        /\ frames' = [frames EXCEPT ![g] = Append(@, 0)]
        /\ res' = [res EXCEPT ![g].status = IF @ = "initializing" THEN "active" ELSE @]
        /\ UNCHANGED client
  /\ UNCHANGED <<lastGeneration, workVars, modeVars, received, owed, skipped>>

\* unsubscribe: one uid, or all.
Unsubscribe(c) ==
  /\ client[c] = "open" /\ command[c] = 0
  /\ \E G \in SUBSET OwnedBy(c) : /\ G # {} /\ (Cardinality(G) = 1 \/ G = OwnedBy(c))
                                 /\ res' = Removed(G)
  /\ UNCHANGED <<client, command, lastGeneration, workVars, modeVars, historyVars>>

\* stop(): expiry, protocol error, rate limit, heartbeat.
ClientStops(c) ==
  /\ client[c] = "open"
  /\ client' = Stopping({c})
  /\ UNCHANGED <<command, registryVars, workVars, modeVars, historyVars>>

\* finalizeClient, on the socket's close event.
FinalizeRemoves_ActiveOnly(c) == {g \in OwnedBy(c) : Active(g)}
FinalizeRemoves(c) == OwnedBy(c)

FinalizeClient(c) ==
  /\ client[c] # "closed"
  /\ client' = [client EXCEPT ![c] = "closed"]
  /\ res' = Removed(FinalizeRemoves(c))
  /\ UNCHANGED <<command, lastGeneration, workVars, modeVars, historyVars>>

-----------------------------------------------------------------------------
\* Admission of change events.

Queued == Cardinality(UNION {{k} \X DOMAIN queues[k] : k \in Collections})

\* cancel(): the workers waiting for a permit are refused it.
Cancel == /\ waiters' = <<>>
          /\ worker' = [k \in Collections |-> IF worker[k].stage = "waiting"
                                              THEN [worker[k] EXCEPT !.stage = "fanout"]
                                              ELSE worker[k]]

\* enterOverload closes every client that owns a reservation, cancels the token
\* and recovers at once when nothing is queued or at work.
OverloadCloses_ActiveOwners == {res[g].client : g \in {h \in Made : Active(h)}}
OverloadCloses == {res[g].client : g \in {h \in Made : Live(h)}}

EnterOverload ==
  /\ client' = Stopping(OverloadCloses)
  /\ overloaded' = (Queued > 0)
  /\ cancelled' = (Queued > 0)
  /\ Cancel
  /\ UNCHANGED <<queues, permits>>

\* captureDispatchContext: the reservations of the collection made so far, of
\* which the unsettled ones hold the event back.
Pending_None(k) == {}
Pending(k) == {g \in Made : res[g].collection = k /\ res[g].status = "initializing"}

Enqueue(k, e) ==
  /\ queues' = [queues EXCEPT ![k] = Append(@, [event |-> e, generation |-> lastGeneration,
                                                pending |-> Pending(k)])]
  /\ worker' = IF queues[k] = <<>> THEN [worker EXCEPT ![k] = [Idle EXCEPT !.stage = "barrier"]]
                                   ELSE worker
  /\ UNCHANGED <<client, overloaded, cancelled, permits, waiters>>

\* admit, with an event that fits the queue's bytes or does not.
Admit(k) ==
  /\ received < MaxEvents
  /\ received' = received + 1
  /\ owed' = [g \in Gen |-> IF Live(g) /\ res[g].collection = k THEN owed[g] \cup {received + 1}
                                                                ELSE owed[g]]
  /\ IF stopped \/ overloaded
     THEN UNCHANGED <<client, workVars, overloaded, cancelled>>
     ELSE \/ EnterOverload
          \/ Queued + 1 <= QueueCount /\ Enqueue(k, received + 1)
  /\ UNCHANGED <<command, registryVars, stopped, frames, skipped>>

-----------------------------------------------------------------------------
\* The worker of a collection.

\* maybeRecover, when this was the last worker and the last event.
Recovers_Never(k) == FALSE
Recovers(k) == overloaded /\ ~stopped /\ Queued = 1

\* The entry is released and the next one taken; a worker without one ends.
FinishEntry(k) ==
  /\ queues' = [queues EXCEPT ![k] = Tail(@)]
  /\ worker' = [worker EXCEPT ![k] = IF Len(queues[k]) > 1 THEN [Idle EXCEPT !.stage = "barrier"]
                                                           ELSE Idle]
  /\ overloaded' = (overloaded /\ ~Recovers(k))
  /\ cancelled' = (cancelled /\ ~Recovers(k))
  /\ UNCHANGED <<permits, waiters>>

Move(k, w) == /\ worker' = [worker EXCEPT ![k] = w]
              /\ UNCHANGED <<queues, overloaded, cancelled>>

Settled_ActiveOnly(g) == res[g].status = "active"
Settled(g) == res[g].status # "initializing"

Recipients_All(k, gen) == {g \in Made : Active(g) /\ res[g].collection = k}
Recipients(k, gen) == {g \in Made : Active(g) /\ res[g].collection = k /\ g <= gen}

\* The barrier opens: when every reservation it waits for has settled, or on
\* cancellation.
PassBarrier(k) ==
  LET entry == Head(queues[k]) IN
  /\ worker[k].stage = "barrier"
  /\ cancelled \/ \A g \in entry.pending : Settled(g)
  /\ IF cancelled
     THEN FinishEntry(k)
     ELSE /\ Move(k, [stage |-> "fanout", todo |-> Recipients(k, entry.generation), to |-> 0])
          /\ UNCHANGED <<permits, waiters>>
  /\ UNCHANGED <<client, command, registryVars, stopped, historyVars>>

Skip(k, g) == skipped' = [skipped EXCEPT ![g] = @ \cup {Head(queues[k]).event}]

\* One turn of fanOut's loop up to its await: ends, passes over a recipient that
\* was removed or filters the event out, or asks for a permit.
FanOut(k) ==
  LET w == worker[k] IN
  /\ w.stage = "fanout"
  /\ \/ /\ cancelled \/ w.todo = {}
        /\ FinishEntry(k)
        /\ UNCHANGED skipped
     \/ /\ ~cancelled
        /\ \E g \in w.todo :
              LET rest == w.todo \ {g} IN
              \/ /\ ~Active(g)
                 /\ Move(k, [w EXCEPT !.todo = rest])
                 /\ UNCHANGED <<permits, waiters, skipped>>
              \/ /\ Active(g)
                 /\ Skip(k, g)
                 /\ Move(k, [w EXCEPT !.todo = rest])
                 /\ UNCHANGED <<permits, waiters>>
              \/ /\ Active(g)
                 /\ IF permits > 0
                    THEN /\ permits' = permits - 1
                         /\ Move(k, [stage |-> "granted", todo |-> rest, to |-> g])
                         /\ UNCHANGED waiters
                    ELSE /\ waiters' = Append(waiters, k)
                         /\ Move(k, [stage |-> "waiting", todo |-> rest, to |-> g])
                         /\ UNCHANGED permits
                 /\ UNCHANGED skipped
  /\ UNCHANGED <<client, command, registryVars, stopped, received, owed, frames>>

\* release: to the first waiter, else back to the pool; worker k goes on.
Release_Unserved(k) ==
  /\ permits' = permits + 1
  /\ Move(k, [worker[k] EXCEPT !.stage = "fanout", !.to = 0])
  /\ UNCHANGED waiters

Release_Doubled(k) ==
  /\ permits' = permits + 1
  /\ IF waiters = <<>>
     THEN worker' = [worker EXCEPT ![k].stage = "fanout", ![k].to = 0] /\ UNCHANGED waiters
     ELSE /\ waiters' = Tail(waiters)
          /\ worker' = [worker EXCEPT ![k].stage = "fanout", ![k].to = 0,
                                      ![Head(waiters)].stage = "granted"]
  /\ UNCHANGED <<queues, overloaded, cancelled>>

Release(k) ==
  LET resumed == [worker EXCEPT ![k].stage = "fanout", ![k].to = 0] IN
  /\ IF waiters = <<>>
     THEN /\ permits' = permits + 1
          /\ worker' = resumed
          /\ UNCHANGED waiters
     ELSE /\ waiters' = Tail(waiters)
          /\ worker' = [resumed EXCEPT ![Head(waiters)].stage = "granted"]
          /\ UNCHANGED permits
  /\ UNCHANGED <<queues, overloaded, cancelled>>

\* With the permit: cancelled or removed in the meantime, or the delivery starts
\* and awaits the schema, the accountability and the payload.
Granted(k) ==
  LET w == worker[k] IN
  /\ w.stage = "granted"
  /\ IF cancelled \/ ~Active(w.to)
     THEN Release(k)
     ELSE /\ Move(k, [w EXCEPT !.stage = "delivering"])
          /\ UNCHANGED <<permits, waiters>>
  /\ UNCHANGED <<client, command, registryVars, stopped, historyVars>>

StillActive_Assumed(g) == TRUE
StillActive(g) == Active(g)

\* The delivery ends: nothing to send or a failure, an owner no longer eligible
\* for the delete feed, a frame the socket refuses (closing it), or a frame sent.
Deliver(k) ==
  LET g == worker[k].to
      c == res[g].client
  IN
  /\ worker[k].stage = "delivering"
  /\ \/ /\ Skip(k, g)
        /\ UNCHANGED <<client, res, frames>>
     \/ /\ res' = Removed({g})
        /\ UNCHANGED <<client, frames, skipped>>
     \/ /\ StillActive(g) /\ client[c] = "open"
        /\ client' = Stopping({c})
        /\ UNCHANGED <<res, frames, skipped>>
     \/ /\ StillActive(g) /\ client[c] = "open"
        /\ frames' = [frames EXCEPT ![g] = Append(@, Head(queues[k]).event)]
        /\ UNCHANGED <<client, res, skipped>>
     \/ /\ ~StillActive(g) \/ client[c] # "open"
        /\ UNCHANGED <<client, res, frames, skipped>>
  /\ Release(k)
  /\ UNCHANGED <<command, lastGeneration, stopped, received, owed>>

\* stop(): the coordinator and the controllers, in one turn.
Stop ==
  /\ ~stopped
  /\ stopped' = TRUE
  /\ cancelled' = TRUE
  /\ Cancel
  /\ client' = Stopping(Clients)
  /\ UNCHANGED <<command, registryVars, queues, permits, overloaded, historyVars>>

-----------------------------------------------------------------------------
WorkerStep(k) == PassBarrier(k) \/ FanOut(k) \/ Granted(k) \/ Deliver(k)

Next == \/ \E c \in Clients :
              \/ \E k \in Collections, old \in SUBSET OwnedBy(c) : Subscribe(c, k, old)
              \/ InitialRead(c) \/ Unsubscribe(c) \/ ClientStops(c) \/ FinalizeClient(c)
        \/ \E k \in Collections : Admit(k) \/ WorkerStep(k)
        \/ Stop

Spec == Init /\ [][Next]_vars

\* Database reads settle, promise continuations run and a stopped socket closes.
\* Nothing makes a client subscribe or an event arrive.
FairSpec == /\ Spec
            /\ \A k \in Collections : WF_vars(WorkerStep(k))
            /\ \A c \in Clients : /\ WF_vars(InitialRead(c))
                                  /\ WF_vars(client[c] = "stopping" /\ FinalizeClient(c))
-----------------------------------------------------------------------------
\* Properties.

\* Type invariant of the registry and the coordinator.
TypeOK ==
  /\ client \in [Clients -> {"open", "stopping", "closed"}]
  /\ command \in [Clients -> 0..lastGeneration]
  /\ lastGeneration \in 0..MaxReservations
  /\ res \in [Made -> [client : Clients, collection : Collections, status : Status]]
  /\ \A k \in Collections : \A j \in DOMAIN queues[k] :
        queues[k][j] \in [event : Event, generation : 0..lastGeneration, pending : SUBSET Made]
  /\ worker \in [Collections -> [stage : Stage, todo : SUBSET Made, to : 0..lastGeneration]]
  /\ permits \in 0..Concurrency
  /\ waiters \in Seq(Collections)
  /\ {overloaded, cancelled, stopped} \subseteq BOOLEAN

\* Events of a reservation's collection still waiting for its fan-out to reach it.
Ahead(g) ==
  LET k == res[g].collection
      w == worker[k]
      current == w.stage = "barrier" \/ g \in w.todo \/ w.to = g
  IN {queues[k][j].event : j \in {i \in DOMAIN queues[k] : i > 1 \/ current}}

\* A subscriber that stays connected misses no event received since its
\* subscribe command reserved: each one is sent, filtered or failed, or on its
\* way.  What overload throws away costs every subscriber its connection
\* (captureDispatchContext, the barrier, enterOverload).
NoSilentGap ==
  \A g \in Made :
     LET c == res[g].client IN
     Live(g) /\ client[c] = "open" =>
       \A e \in owed[g] : \/ \E j \in DOMAIN frames[g] : frames[g][j] = e
                          \/ e \in skipped[g] \cup Ahead(g)

\* Its frames are the init frame, then events that were received after it
\* reserved, each at most once, in the order they were received.
FramesInOrder ==
  \A g \in Made : LET f == frames[g] IN
     /\ f # <<>> => Head(f) = 0
     /\ \A i, j \in DOMAIN f : i < j => f[i] < f[j]
     /\ \A j \in DOMAIN f : j > 1 => f[j] \in owed[g]

\* What a subscriber that stays connected receives has no gap, no repetition and
\* no inversion (subscriptions.ts, dispatch.ts).
Deliveries == NoSilentGap /\ FramesInOrder

\* No frame for a subscription after its removal: after the unsubscribe answer,
\* a replacement, or the loss of delete-feed access (deliver re-checks isActive).
NoFrameAfterRemoval ==
  [][\A g \in Made : frames'[g] # frames[g] => Live(g)]_vars

\* Permits are neither lost nor doubled by cancelled waits, and no worker waits
\* while one is free (Semaphore).
PermitsExact ==
  /\ permits + Cardinality({k \in Collections : worker[k].stage \in {"granted", "delivering"}})
       = Concurrency
  /\ waiters # <<>> => permits = 0
  /\ ToSet(waiters) = {k \in Collections : worker[k].stage = "waiting"}

\* A finalized connection owns no reservation, whatever its subscribe command is
\* still waiting for (finalizeClient, handleSubscription).
NoReservationLeak == \A c \in Clients : client[c] = "closed" => OwnedBy(c) = {}

\* No resource is lost, doubled or left behind.
ResourcesExact == PermitsExact /\ NoReservationLeak

\* Every admitted event is disposed of (finitely many are received): a
\* reservation that never activates, a slow delivery or a cancellation does not
\* block its collection.
EventsDisposed == \A k \in Collections : queues[k] # <<>> ~> queues[k] = <<>>

\* An overload episode ends by itself.
OverloadEnds == overloaded ~> ~overloaded \/ stopped

\* Dispatch goes on, whatever a subscriber, a read or an overload does.
DispatchProgress == EventsDisposed /\ OverloadEnds
=============================================================================
