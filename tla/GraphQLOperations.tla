---------------------------- MODULE GraphQLOperations ----------------------------
(***************************************************************************)
(* One connection of the GraphQL transport: the sequencer of operation     *)
(* frames (websocket/controllers/operation-sequencer.ts), the controller   *)
(* (controllers/graphql.ts), the graphql-ws server it drives, and the      *)
(* rendezvous and generator that carry the change events of a subscription *)
(* to it (services/graphql/subscription.ts).                               *)
(*                                                                         *)
(* Frames are numbered as they are routed.  The generation a subscribe     *)
(* frame makes and the operation it starts bear the number of the frame.   *)
(* Every step is one turn of the event loop; an await is a step boundary.  *)
(* A definition X_Variant is a faulty X, used to see a property fail.      *)
(***************************************************************************)
EXTENDS Naturals, FiniteSets, Sequences

CONSTANTS Ids,          \* operation ids the client uses
          MaxFrames,    \* bound: subscribe and complete frames the client sends
          MaxEvents     \* bound: change events pushed to its subscriptions

ASSUME OperationsAssumption == MaxFrames \in Nat /\ MaxEvents \in Nat

VARIABLES
  socket,        \* "open", "stopping" (sequencer cancelled), "closed"
  frames,        \* the frames routed so far, by number
  clientFrames,  \* how many of them the client sent
  drain,         \* the frame the drain waits to be handed off, or 0
  lanes,         \* per id: tail and current generation as frame numbers, pending
  entry,         \* graphql-ws ctx.subscriptions: absent, null or an iterator
  operations,    \* adapter.operations: the subscription operation of an id, or 0
  variables,     \* adapter.variables: ids with stored variables
  ops,           \* the operation each subscribe frame started
  received,      \* change events pushed so far
  untracked,     \* history: a duplicate was started as an operation of its own
  pushed, taken, sent  \* history per operation: events pushed to its channel,
                       \* taken by its generator, sent as next frames

laneVars == <<frames, clientFrames, drain, lanes>>
adapterVars == <<entry, operations, variables>>
historyVars == <<untracked, pushed, taken, sent>>
vars == <<socket, laneVars, adapterVars, ops, received, historyVars>>

FrameId == 1..(MaxFrames + MaxEvents)
Event == 1..MaxEvents
NoLane == [tail |-> 0, pending |-> 0, current |-> 0]
Absent == [kind |-> "absent", op |-> 0]

\* stage "pulling": next() waits for the channel; "reading": it prepares event
\* `at` or graphql-ws sends it; "ending": next() has said done.
\* closed: the generator's flag.  chan, queued, delivered, ack: the rendezvous.
NoOp == [stage |-> "none", at |-> 0, closed |-> FALSE, retired |-> FALSE,
         chan |-> "open", queued |-> 0, delivered |-> FALSE, ack |-> 0,
         reservation |-> "none"]

Running(i) == ops[i].stage \notin {"none", "ended"}
IdOf(i) == frames[i].id
Routed == DOMAIN frames

Init == /\ socket = "open"
        /\ frames = <<>> /\ clientFrames = 0 /\ drain = 0
        /\ lanes = [d \in Ids |-> NoLane]
        /\ entry = [d \in Ids |-> Absent]
        /\ operations = [d \in Ids |-> 0]
        /\ variables = {}
        /\ ops = [i \in FrameId |-> NoOp]
        /\ received = 0
        /\ untracked = FALSE
        /\ pushed = [i \in FrameId |-> {}]
        /\ taken = [i \in FrameId |-> <<>>]
        /\ sent = [i \in FrameId |-> <<>>]

Stopping == IF socket = "open" THEN "stopping" ELSE socket

-----------------------------------------------------------------------------
\* The sequencer: routing.

Predecessor(d) == LET g == lanes[d].current IN
                  IF g # 0 /\ ~frames[g].settled THEN g ELSE 0

Frame(d, type, origin) ==
  [id |-> d, type |-> type, origin |-> origin, state |-> "waiting",
   follows |-> lanes[d].tail, awaits |-> 0,
   completed |-> FALSE, settled |-> FALSE, duplicate |-> FALSE]

\* A subscribe whose predecessor was completed waits for it to settle; one
\* whose predecessor was not is a duplicate and makes no generation.
SubscribeFrame_Eager(d) ==
  LET p == Predecessor(d) IN
  [Frame(d, "subscribe", "client") EXCEPT !.duplicate = p # 0 /\ ~frames[p].completed]

SubscribeFrame(d) ==
  LET p == Predecessor(d) IN
  [Frame(d, "subscribe", "client") EXCEPT
     !.awaits = IF p # 0 /\ frames[p].completed THEN p ELSE 0,
     !.duplicate = p # 0 /\ ~frames[p].completed]

RouteSubscribe(d) ==
  LET f == SubscribeFrame(d)
      n == Len(frames) + 1
  IN /\ frames' = Append(frames, f)
     /\ lanes' = [lanes EXCEPT ![d] = [tail |-> n, pending |-> @.pending + 1,
                                       current |-> IF f.duplicate THEN @.current ELSE n]]
     /\ drain' = n
     /\ UNCHANGED <<adapterVars, ops>>

\* graphql-ws on a complete frame: the entry is gone at once and its iterator,
\* when there is one, is returned, which finalizes the operation.
Returned(i) == [ops[i] EXCEPT !.closed = TRUE, !.chan = "closed", !.queued = 0,
                              !.delivered = FALSE, !.ack = 0, !.reservation = "removed"]

OpsCompleted(d) == IF entry[d].kind = "iterator"
                   THEN [ops EXCEPT ![entry[d].op] = Returned(entry[d].op)]
                   ELSE ops

AdapterCompleted(d) ==
  /\ entry' = [entry EXCEPT ![d] = Absent]
  /\ IF entry[d].kind = "iterator"
     THEN operations' = [operations EXCEPT ![d] = 0] /\ variables' = variables \ {d}
     ELSE UNCHANGED <<operations, variables>>

\* A complete marks the current generation and queues behind the frames before
\* it; without a lane it is delivered at once.
NoWait_Always(d) == TRUE
NoWait(d) == lanes[d] = NoLane

RouteComplete(d, origin) ==
  LET n == Len(frames) + 1
      p == Predecessor(d)
      marked == IF p = 0 THEN frames ELSE [frames EXCEPT ![p].completed = TRUE]
  IN IF NoWait(d)
     THEN /\ frames' = Append(marked, [Frame(d, "complete", origin) EXCEPT !.state = "delivered"])
          /\ AdapterCompleted(d)
          /\ UNCHANGED <<drain, lanes>>
     ELSE /\ frames' = Append(marked, Frame(d, "complete", origin))
          /\ lanes' = [lanes EXCEPT ![d].tail = n, ![d].pending = @ + 1]
          /\ drain' = IF origin = "client" THEN n ELSE drain
          /\ UNCHANGED adapterVars

OpsRouted(d) == IF NoWait(d) THEN OpsCompleted(d) ELSE ops

\* drain: the client's frames are routed one at a time, each after the hand-off
\* of the one before.
ClientFrame(d) ==
  /\ socket = "open" /\ drain = 0 /\ clientFrames < MaxFrames
  /\ clientFrames' = clientFrames + 1
  /\ \/ RouteSubscribe(d)
     \/ RouteComplete(d, "client") /\ ops' = OpsRouted(d)
  /\ UNCHANGED <<socket, received, historyVars>>

-----------------------------------------------------------------------------
\* The sequencer: steps.

Reaped_Never(lane) == lane
Reaped(lane) == IF lane.pending = 0 /\ lane.current = 0 THEN NoLane ELSE lane

\* priorTail has started, or the sequencer was stopped.
Ready(f) ==
  /\ frames[f].state = "waiting"
  /\ \/ socket # "open"
     \/ /\ \A g \in {frames[f].follows} \ {0} : frames[g].state # "waiting"
        /\ \A g \in {frames[f].awaits} \ {0} : frames[g].settled

Start_Twice(f) ==
  LET lane == lanes[IdOf(f)] IN
  /\ lanes' = [lanes EXCEPT ![IdOf(f)] = Reaped([lane EXCEPT !.pending = @ - 2])]
  /\ drain' = IF drain = f THEN 0 ELSE drain

Start(f) == LET lane == lanes[IdOf(f)] IN
            /\ lanes' = [lanes EXCEPT ![IdOf(f)] = Reaped([lane EXCEPT !.pending = @ - 1])]
            /\ drain' = IF drain = f THEN 0 ELSE drain

\* Stopped: the frame is dropped and the generation it made settles.
Drop_Unsettled(f) ==
  /\ Ready(f) /\ socket # "open"
  /\ frames' = [frames EXCEPT ![f].state = "dropped"]
  /\ Start(f)
  /\ UNCHANGED <<socket, clientFrames, adapterVars, ops, received, historyVars>>

Drop(f) ==
  LET d == IdOf(f)
      generation == frames[f].type = "subscribe" /\ ~frames[f].duplicate
      started == [lanes[d] EXCEPT !.pending = @ - 1]
  IN
  /\ Ready(f) /\ socket # "open"
  /\ frames' = [frames EXCEPT ![f].state = "dropped", ![f].settled = generation]
  /\ lanes' = [lanes EXCEPT ![d] = Reaped(IF generation /\ @.current = f
                                          THEN [started EXCEPT !.current = 0] ELSE started)]
  /\ drain' = IF drain = f THEN 0 ELSE drain
  /\ UNCHANGED <<socket, clientFrames, adapterVars, ops, received, historyVars>>

\* deliverFrame: graphql-ws takes a complete frame, closes the connection on an
\* id that has an entry, and starts onSubscribe for another.
Deliver(f) ==
  LET d == IdOf(f) IN
  /\ Ready(f) /\ socket = "open"
  /\ frames' = [frames EXCEPT ![f].state = "delivered"]
  /\ Start(f)
  /\ \/ /\ frames[f].type = "complete"
        /\ AdapterCompleted(d)
        /\ ops' = OpsCompleted(d)
        /\ UNCHANGED <<socket, untracked>>
     \/ /\ frames[f].type = "subscribe" /\ entry[d].kind # "absent"
        /\ socket' = "stopping"
        /\ ops' = [ops EXCEPT ![f].stage = "ended"]
        /\ UNCHANGED <<adapterVars, untracked>>
     \/ /\ frames[f].type = "subscribe" /\ entry[d].kind = "absent"
        /\ entry' = [entry EXCEPT ![d] = [kind |-> "null", op |-> 0]]
        /\ variables' = variables \cup {d}
        /\ ops' = [ops EXCEPT ![f].stage = "starting"]
        /\ untracked' = (untracked \/ frames[f].duplicate)
        /\ UNCHANGED <<socket, operations>>
  /\ UNCHANGED <<clientFrames, received, pushed, taken, sent>>

\* The lifetime promise of an operation that has ended settles its generation.
Settle(f) ==
  LET d == IdOf(f) IN
  /\ ops[f].stage = "ended" /\ ~frames[f].settled /\ ~frames[f].duplicate
  /\ frames' = [frames EXCEPT ![f].settled = TRUE]
  /\ lanes' = [lanes EXCEPT ![d] = Reaped(IF @.current = f THEN [@ EXCEPT !.current = 0] ELSE @)]
  /\ UNCHANGED <<socket, clientFrames, drain, adapterVars, ops, received, historyVars>>

-----------------------------------------------------------------------------
\* graphql-ws and the controller on one operation.

\* Its end: handleComplete finalizes whatever operation holds the id, and the
\* entry of the id goes, whoever made it.
Finalized(i) == [ops[i] EXCEPT !.chan = "closed", !.queued = 0, !.delivered = FALSE,
                               !.ack = 0, !.reservation = "removed"]

OpsAfterComplete(d) ==
  LET h == operations[d] IN IF h = 0 THEN ops ELSE [ops EXCEPT ![h] = Finalized(h)]

EndOf(i) ==
  LET d == IdOf(i) IN
  /\ ops' = [OpsAfterComplete(d) EXCEPT ![i].stage = "ended", ![i].at = 0]
  /\ operations' = [operations EXCEPT ![d] = 0]
  /\ variables' = variables \ {d}
  /\ entry' = [entry EXCEPT ![d] = Absent]

\* onSubscribe ends with errors: a bad document, no authority, a stopping
\* client, the subscription limit.  Sending them may be refused.
SubscribeFails(i) ==
  LET d == IdOf(i) IN
  /\ ops[i].stage = "starting"
  /\ ops' = [ops EXCEPT ![i].stage = "ended"]
  /\ variables' = variables \ {d}
  /\ entry' = [entry EXCEPT ![d] = Absent]
  /\ socket' \in {socket, Stopping}
  /\ UNCHANGED <<laneVars, operations, received, historyVars>>

\* onSubscribe rejects: the schema, the permissions or the delete feed's authority
\* cannot be read.  graphql-ws drops the entry and calls neither onError nor
\* onComplete, so the variables stay; deliverFrame stops the client.
SubscribeThrows_Ignored(i) ==
  /\ ops[i].stage = "starting"
  /\ ops' = [ops EXCEPT ![i].stage = "ended"]
  /\ entry' = [entry EXCEPT ![IdOf(i)] = Absent]
  /\ UNCHANGED <<socket, laneVars, operations, variables, received, historyVars>>

SubscribeThrows(i) ==
  /\ ops[i].stage = "starting"
  /\ ops' = [ops EXCEPT ![i].stage = "ended"]
  /\ entry' = [entry EXCEPT ![IdOf(i)] = Absent]
  /\ socket' = Stopping
  /\ UNCHANGED <<laneVars, operations, variables, received, historyVars>>

\* It reserves, and subscribe() gives a single result, with an error: the
\* operation is over.
SubscribeErrors(i) ==
  /\ ops[i].stage = "starting" /\ socket = "open"
  /\ ops' = [ops EXCEPT ![i].stage = "ended"]
  /\ operations' = [operations EXCEPT ![IdOf(i)] = 0]
  /\ variables' = variables \ {IdOf(i)}
  /\ entry' = [entry EXCEPT ![IdOf(i)] = Absent]
  /\ socket' \in {socket, Stopping}
  /\ UNCHANGED <<laneVars, received, historyVars>>

\* It reserves, and subscribe() gives an iterator: returned at once when the id
\* was completed in the meantime, else stored and asked for its first value,
\* which activates the reservation and pulls.
Subscribed_Late(i) ==
  LET d == IdOf(i) IN
  /\ ops[i].stage = "starting" /\ socket = "open"
  /\ entry' = [entry EXCEPT ![d] = [kind |-> "iterator", op |-> i]]
  /\ operations' = [operations EXCEPT ![d] = i]
  /\ ops' = [ops EXCEPT ![i].stage = "pulling", ![i].reservation = "active"]
  /\ UNCHANGED <<socket, laneVars, variables, received, historyVars>>

Subscribed(i) ==
  LET d == IdOf(i) IN
  /\ ops[i].stage = "starting" /\ socket = "open"
  /\ IF entry[d].kind = "absent"
     THEN /\ ops' = [ops EXCEPT ![i].stage = "ended", ![i].closed = TRUE,
                                ![i].chan = "closed", ![i].reservation = "removed"]
          /\ operations' = [operations EXCEPT ![d] = 0]
          /\ variables' = variables \ {d}
          /\ UNCHANGED entry
     ELSE /\ entry' = [entry EXCEPT ![d] = [kind |-> "iterator", op |-> i]]
          /\ operations' = [operations EXCEPT ![d] = i]
          /\ ops' = [ops EXCEPT ![i].stage = "pulling", ![i].reservation = "active"]
          /\ UNCHANGED variables
  /\ UNCHANGED <<socket, laneVars, received, historyVars>>

\* The iterator's loop is over: next() has said done, or says so now.
LoopEnds(i) ==
  /\ \/ ops[i].stage = "ending"
     \/ ops[i].stage = "pulling" /\ ops[i].chan = "closed"
     \/ ops[i].stage = "reading" /\ ops[i].closed
  /\ EndOf(i)
  /\ UNCHANGED <<socket, laneVars, received, historyVars>>

-----------------------------------------------------------------------------
\* The rendezvous and the generator.

\* dispatch pushes an event to an active reservation and waits: to the pull that
\* waits for it, or queued.  A complete frame the generator has routed is ready,
\* so it is handed off many turns before dispatch comes with another event.
RetireWaits(d) == \E f \in Routed : IdOf(f) = d /\ frames[f].origin = "retire"
                                               /\ frames[f].state = "waiting"

Push_Unheld(i) ==
  LET e == received + 1 IN
  /\ ops[i].reservation = "active" /\ ops[i].chan = "open" /\ ops[i].stage = "pulling"
  /\ received < MaxEvents /\ ~RetireWaits(IdOf(i))
  /\ received' = e
  /\ pushed' = [pushed EXCEPT ![i] = @ \cup {e}]
  /\ ops' = [ops EXCEPT ![i].stage = "reading", ![i].at = e]
  /\ taken' = [taken EXCEPT ![i] = Append(@, e)]
  /\ UNCHANGED <<socket, laneVars, adapterVars, untracked, sent>>

Push(i) ==
  LET e == received + 1
      waiting == ops[i].stage = "pulling"
  IN
  /\ ops[i].reservation = "active" /\ ops[i].ack = 0 /\ ops[i].chan = "open"
  /\ received < MaxEvents /\ ~RetireWaits(IdOf(i))
  /\ received' = e
  /\ pushed' = [pushed EXCEPT ![i] = @ \cup {e}]
  /\ IF waiting
     THEN /\ ops' = [ops EXCEPT ![i].stage = "reading", ![i].at = e,
                                ![i].ack = e, ![i].delivered = TRUE]
          /\ taken' = [taken EXCEPT ![i] = Append(@, e)]
     ELSE /\ ops' = [ops EXCEPT ![i].queued = e, ![i].ack = e, ![i].delivered = FALSE]
          /\ UNCHANGED taken
  /\ UNCHANGED <<socket, laneVars, adapterVars, untracked, sent>>

\* pull(): acknowledges the event delivered before, then takes the queued one,
\* waits, or is told that the channel is closed.
Acked(o) == IF o.delivered THEN [o EXCEPT !.ack = 0, !.delivered = FALSE, !.queued = 0] ELSE o

Pull_Unacknowledged(o) ==
  CASE o.chan = "closed" -> [o EXCEPT !.stage = "ending", !.at = 0]
    [] OTHER -> [o EXCEPT !.stage = "pulling", !.at = 0]

Pull(o) ==
  LET p == Acked(o) IN
  CASE p.chan = "closed" -> [p EXCEPT !.stage = "ending", !.at = 0]
    [] p.chan = "open" /\ p.queued # 0 ->
         [p EXCEPT !.at = p.queued, !.queued = 0, !.delivered = TRUE]
    [] OTHER -> [p EXCEPT !.stage = "pulling", !.at = 0]

TakenBy(i, o) == IF Pull(o).stage = "reading" THEN [taken EXCEPT ![i] = Append(@, Pull(o).at)]
                                              ELSE taken

PullNext(i) == ops' = [ops EXCEPT ![i] = Pull(@)] /\ taken' = TakenBy(i, ops[i])

\* The event has nothing for this subscriber: filtered, narrowed away, or the
\* connection's authority is gone.
ReadNothing(i) ==
  /\ ops[i].stage = "reading" /\ ~ops[i].closed /\ ~ops[i].retired
  /\ PullNext(i)
  /\ UNCHANGED <<socket, laneVars, adapterVars, received, untracked, pushed, sent>>

\* The value is sent as a next frame and the loop asks for the next one.
Yield_Unchecked(i) ==
  /\ ops[i].stage = "reading" /\ ~ops[i].retired /\ socket = "open"
  /\ sent' = [sent EXCEPT ![i] = Append(@, ops[i].at)]
  /\ PullNext(i)
  /\ UNCHANGED <<socket, laneVars, adapterVars, received, untracked, pushed>>

Yield(i) ==
  /\ ops[i].stage = "reading" /\ ~ops[i].closed /\ ~ops[i].retired /\ socket = "open"
  /\ sent' = [sent EXCEPT ![i] = Append(@, ops[i].at)]
  /\ PullNext(i)
  /\ UNCHANGED <<socket, laneVars, adapterVars, received, untracked, pushed>>

\* The send is refused, or the schema or the permissions cannot be read: the
\* generator finalizes, the lifetime rejects and the connection is stopped.
ReadFails(i) ==
  /\ ops[i].stage = "reading" /\ ~ops[i].closed
  /\ ops' = [ops EXCEPT ![i] = [Finalized(i) EXCEPT !.stage = "ended", !.at = 0]]
  /\ operations' = [operations EXCEPT ![IdOf(i)] = 0]
  /\ variables' = variables \ {IdOf(i)}
  /\ entry' = [entry EXCEPT ![IdOf(i)] = Absent]
  /\ socket' = Stopping
  /\ UNCHANGED <<laneVars, received, historyVars>>

\* The subscriber may no longer see deletes: the generator routes a complete
\* frame of its own, now and for every later event, and pulls again.
Retire(i) ==
  LET o == [OpsRouted(IdOf(i))[i] EXCEPT !.retired = TRUE] IN
  /\ ops[i].stage = "reading" /\ ~ops[i].closed
  /\ RouteComplete(IdOf(i), "retire")
  /\ ops' = [OpsRouted(IdOf(i)) EXCEPT ![i] = Pull(o)]
  /\ taken' = TakenBy(i, o)
  /\ UNCHANGED <<socket, clientFrames, received, untracked, pushed, sent>>

-----------------------------------------------------------------------------
\* The connection.

\* stop(): expiry, a protocol error, a limit, heartbeat, shutdown.  An overload
\* or the shutdown of dispatch also aborts the pushes in progress.
Aborted == [i \in FrameId |-> IF ops[i].ack = 0 THEN ops[i]
                              ELSE [ops[i] EXCEPT !.ack = 0, !.delivered = FALSE, !.queued = 0]]

Stop ==
  /\ socket = "open"
  /\ socket' = "stopping"
  /\ ops' \in {ops, Aborted}
  /\ UNCHANGED <<laneVars, adapterVars, received, historyVars>>

\* The close event: finalizeClient removes the reservations, graphql-ws returns
\* the iterators it holds.
Iterators == {i \in FrameId : \E d \in Ids : entry[d] = [kind |-> "iterator", op |-> i]}

Close_Abandoning ==
  /\ socket # "closed"
  /\ socket' = "closed"
  /\ ops' = [i \in FrameId |-> IF ops[i].reservation = "none" THEN ops[i]
                               ELSE [ops[i] EXCEPT !.reservation = "removed"]]
  /\ entry' = [d \in Ids |-> Absent]
  /\ UNCHANGED <<laneVars, operations, variables, received, historyVars>>

Close ==
  /\ socket # "closed"
  /\ socket' = "closed"
  /\ ops' = [i \in FrameId |->
               CASE i \in Iterators -> Returned(i)
                 [] i \notin Iterators /\ ops[i].reservation # "none"
                      -> [ops[i] EXCEPT !.reservation = "removed"]
                 [] OTHER -> ops[i]]
  /\ operations' = [d \in Ids |-> IF operations[d] \in Iterators THEN 0 ELSE operations[d]]
  /\ variables' = {d \in variables : entry[d].kind # "iterator"}
  /\ entry' = [d \in Ids |-> Absent]
  /\ UNCHANGED <<laneVars, received, historyVars>>

-----------------------------------------------------------------------------
FrameStep(f) == f \in Routed /\ (Drop(f) \/ Deliver(f) \/ Settle(f))

SubscribeEnds(i) == SubscribeFails(i) \/ SubscribeThrows(i) \/ SubscribeErrors(i) \/ Subscribed(i)

ReadEnds(i) == ReadNothing(i) \/ Yield(i) \/ ReadFails(i) \/ Retire(i)

OperationStep(i) == i \in Routed /\ (SubscribeEnds(i) \/ LoopEnds(i) \/ ReadEnds(i))

Next == \/ \E d \in Ids : ClientFrame(d)
        \/ \E f \in FrameId : FrameStep(f) \/ OperationStep(f) \/ Push(f)
        \/ Stop
        \/ Close

Spec == Init /\ [][Next]_vars

\* Promise continuations run, database reads settle and a stopped socket closes.
\* Nothing makes the client send, an event arrive or a connection stop.
FairSpec == /\ Spec
            /\ \A f \in FrameId : WF_vars(FrameStep(f)) /\ WF_vars(OperationStep(f))
            /\ WF_vars(socket = "stopping" /\ Close)
-----------------------------------------------------------------------------
\* Properties.

\* Type invariant of the connection's operations.
TypeOK ==
  /\ socket \in {"open", "stopping", "closed"}
  /\ frames \in Seq([id : Ids, type : {"subscribe", "complete"}, origin : {"client", "retire"},
                     state : {"waiting", "delivered", "dropped"},
                     follows : FrameId \cup {0}, awaits : FrameId \cup {0},
                     completed : BOOLEAN, settled : BOOLEAN, duplicate : BOOLEAN])
  /\ Len(frames) \in 0..(MaxFrames + MaxEvents) /\ clientFrames \in 0..MaxFrames
  /\ drain \in {0} \cup Routed
  /\ lanes \in [Ids -> [tail : {0} \cup Routed, pending : 0..Len(frames), current : {0} \cup Routed]]
  /\ entry \in [Ids -> [kind : {"absent", "null", "iterator"}, op : {0} \cup Routed]]
  /\ operations \in [Ids -> {0} \cup Routed] /\ variables \subseteq Ids
  /\ ops \in [FrameId -> [stage : {"none", "starting", "pulling", "reading", "ending", "ended"},
                          at : Event \cup {0}, closed : BOOLEAN, retired : BOOLEAN,
                          chan : {"open", "closed"}, queued : Event \cup {0},
                          delivered : BOOLEAN, ack : Event \cup {0},
                          reservation : {"none", "active", "removed"}]]
  /\ received \in 0..MaxEvents /\ untracked \in BOOLEAN

Live(i) == ops[i].stage \in {"pulling", "reading"} /\ ~ops[i].closed /\ ops[i].chan = "open"

\* One operation at a time has an id; the entry by which a complete or the close
\* ends it, and its place in adapter.operations, are its own.  Frames of an id
\* reach graphql-ws in the order they were routed.
Serial ==
  /\ \A i, j \in Routed : Running(i) /\ Running(j) /\ IdOf(i) = IdOf(j) => i = j
  /\ \A i \in Routed : Live(i) => /\ entry[IdOf(i)] = [kind |-> "iterator", op |-> i]
                                  /\ operations[IdOf(i)] = i
  /\ \A d \in Ids : entry[d].kind # "absent" => \E i \in Routed : Running(i) /\ IdOf(i) = d
  /\ \A f, g \in Routed : f < g /\ IdOf(f) = IdOf(g) /\ frames[g].state = "delivered"
                            => frames[f].state # "waiting"

Quiet == /\ \A f \in Routed : frames[f].state # "waiting"
         /\ \A i \in Routed : /\ ~Running(i)
                              /\ ops[i].stage = "ended" /\ ~frames[i].duplicate => frames[i].settled

\* When its frames are handed off and its operations over, a connection keeps no
\* lane, entry, operation or reservation, and no variables unless it is stopped:
\* those of a subscribe that threw go with the client, the key of their WeakMap.
NothingLeft ==
  /\ Quiet => /\ lanes = [d \in Ids |-> NoLane] /\ drain = 0
              /\ entry = [d \in Ids |-> Absent]
              /\ operations = [d \in Ids |-> 0]
              /\ socket = "open" => variables = {}
  /\ \A i \in Routed : ops[i].reservation = "active" => Running(i)

\* Operations of an id do not meet and leave nothing behind, as long as none is
\* untracked (a duplicate routed before its predecessor's generation settles and
\* delivered after the predecessor's entry has gone); a closed connection has no
\* active reservation in any case.
Isolated ==
  /\ untracked \/ (Serial /\ NothingLeft)
  /\ \A i \in Routed : socket = "closed" => ops[i].reservation # "active"

Seen(i) == {taken[i][j] : j \in DOMAIN taken[i]}
Increasing(q) == \A j, k \in DOMAIN q : j < k => q[j] < q[k]

\* A live subscription takes every event pushed to it, once and in order, and
\* sends no other; dispatch is held until the event has been dealt with, so at
\* most one is on its way (Rendezvous).
EventsInOrder ==
  \A i \in Routed :
    /\ Increasing(taken[i]) /\ Increasing(sent[i])
    /\ \A j \in DOMAIN sent[i] : sent[i][j] \in Seen(i)
    /\ Live(i) /\ socket = "open" =>
         /\ pushed[i] = Seen(i) \cup ({ops[i].queued} \ {0})
         /\ ops[i].stage = "reading" => ops[i].ack = ops[i].at
         /\ ops[i].stage = "pulling" => ops[i].ack = 0

\* Operations are kept apart, and each takes its events once and in order.
OperationRules == Isolated /\ EventsInOrder

\* Nothing is sent for a subscription once graphql-ws has its complete frame, and
\* the complete frame a generator routes for itself ends no operation but its own.
CompleteSteps ==
  [][untracked \/
     /\ \A i \in Routed : sent'[i] # sent[i] => entry[IdOf(i)] = [kind |-> "iterator", op |-> i]
     /\ \A f \in Routed : /\ frames[f].type = "complete" /\ frames[f].origin = "retire"
                          /\ frames[f].state = "waiting" /\ frames'[f].state = "delivered"
          => entry[IdOf(f)].kind = "absent" \/ ops[entry[IdOf(f)].op].retired]_vars

\* Every frame is handed off or dropped, every push is let go, a completed
\* operation ends, and so does every operation of a closed connection: none of
\* them holds back the drain, dispatch or terminate() for ever.
Waits(f) == \E g \in Routed : g = f /\ frames[g].state = "waiting"
Completed(f) == \E g \in Routed : g = f /\ frames[g].completed

OperationsProgress ==
  \A f \in FrameId :
     /\ Waits(f) ~> ~Waits(f)
     /\ ops[f].ack # 0 ~> ops[f].ack = 0
     /\ Completed(f) \/ (socket = "closed" /\ Running(f)) ~> ~Running(f) \/ untracked
=============================================================================
